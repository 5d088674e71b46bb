----------------------------- MODULE KnowledgeProofs -----------------------------
(***************************************************************************)
(* Theorems about Knowledge, for any buckets, agents, requests, texts and  *)
(* uploads.                                                                *)
(***************************************************************************)
EXTENDS Knowledge, NaturalsInduction, WellFoundedInduction, FiniteSetTheorems,
        SequenceTheorems, TLAPS

(* The chunks of a text, by their place.                                   *)
Pieces(t) == 1 .. Len(Chunks(t))

LEMMA Least == ASSUME NEW S \in SUBSET Nat, S # {} PROVE \E m \in S : \A n \in S : m <= n
<1> DEFINE R == OpToRel(<, Nat)
<1>1. IsWellFoundedOn(R, Nat)
  BY NatLessThanWellFounded, Zenon
<1> HIDE DEF R
<1>2. PICK m \in S : \A n \in S : <<n, m>> \notin R
  BY <1>1, WFMin
<1>3. \A n \in S : ~(n < m)
  BY <1>2 DEF R, OpToRel
<1>4. \A n \in S : m <= n
  BY <1>3
<1> QED
  BY <1>4

LEMMA MinIn ==
  ASSUME NEW S \in SUBSET Nat, S # {} PROVE Min(S) \in S /\ \A n \in S : Min(S) <= n
BY Least DEF Min

LEMMA PiecesType == ASSUME NEW t PROVE Pieces(t) \subseteq Nat \ {0}
<1> DEFINE n == Len(Chunks(t))
<1> HIDE DEF n
<1>1. 1 .. n \subseteq Nat \ {0}
  OBVIOUS
<1> QED BY <1>1 DEF n, Pieces

LEMMA Listed == ASSUME NEW S, NEW s \in Seq(S), NEW d \in S
  PROVE /\ <<d>> \o s \in Seq(S) /\ Len(<<d>> \o s) = Len(s) + 1
        /\ ToSet(<<d>> \o s) = {d} \cup ToSet(s)
        /\ IsInjective(s) /\ d \notin ToSet(s) => IsInjective(<<d>> \o s)
<1> DEFINE l == <<d>> \o s
<1>0. <<d>> \in Seq(S) /\ Len(<<d>>) = 1 /\ <<d>>[1] = d
  OBVIOUS
<1>1. /\ l \in Seq(S) /\ Len(l) = 1 + Len(s) /\ Len(s) \in Nat
      /\ \A i \in 1 .. 1 + Len(s) : l[i] = IF i <= 1 THEN <<d>>[i] ELSE s[i - 1]
  BY <1>0, ConcatProperties, LenProperties
<1>2. DOMAIN l = 1 .. 1 + Len(s) /\ DOMAIN s = 1 .. Len(s)
  BY <1>1, LenProperties
<1> HIDE DEF l
<1>3. l[1] = d /\ \A i \in 1 .. Len(s) : i + 1 \in 1 .. 1 + Len(s) /\ l[i + 1] = s[i]
  BY <1>0, <1>1
<1>4. \A i \in 1 .. 1 + Len(s) : i = 1 \/ (i - 1 \in 1 .. Len(s) /\ l[i] = s[i - 1])
  BY <1>1
<1>5. ToSet(l) = {d} \cup ToSet(s)
  <2>1. \A x : x \in ToSet(l) => x \in {d} \cup ToSet(s)
    BY <1>2, <1>3, <1>4 DEF ToSet
  <2>2. d \in ToSet(l)
    BY <1>1, <1>2, <1>3 DEF ToSet
  <2>3. \A x \in ToSet(s) : x \in ToSet(l)
    BY <1>2, <1>3 DEF ToSet
  <2> QED
    BY <2>1, <2>2, <2>3
<1>6. ASSUME IsInjective(s), d \notin ToSet(s) PROVE IsInjective(l)
  <2> SUFFICES ASSUME NEW i \in 1 .. 1 + Len(s), NEW j \in 1 .. 1 + Len(s), l[i] = l[j]
               PROVE  i = j
    BY <1>2 DEF IsInjective
  <2>1. CASE i = 1 \/ j = 1
    BY <2>1, <1>2, <1>3, <1>4, <1>6 DEF ToSet
  <2>2. CASE i # 1 /\ j # 1
    <3>1. i - 1 = j - 1
      BY <2>2, <1>2, <1>4, <1>6 DEF IsInjective
    <3> QED
      BY <3>1, <1>1
  <2> QED
    BY <2>1, <2>2
<1>7. l \in Seq(S) /\ Len(l) = Len(s) + 1
  BY <1>1
<1> QED
  BY <1>5, <1>6, <1>7 DEF l

-----------------------------------------------------------------------------
(* The steps that are about one document.                                  *)
DocSteps == {"access_read", "access_write", "chunk", "link_read", "link_write",
             "list_read", "list_write"}

(* What a request knows at each step, with n documents stored.             *)
Placed(r, n) ==
  /\ r.pc = "store" => r.text \in Uploads
  /\ r.pc \in DocSteps => r.doc \in 1 .. n
  /\ r.pc \in {"list_read", "list_write", "agents_read", "agents_write"} => r.bucket \in Buckets
  /\ r.pc = "access_write" => r.agent \in Agents
  /\ r.pc \in {"agents_read", "agents_write"} => r.change = "set" \/ r.agent \in Agents

(* The steps that count requests, or see to it who is alone.               *)
Guarded == {"store", "access_write", "list_write", "agents_write"}

Storing == {p \in Requests : At(p, "store")}

(* Types, and that there is room for every upload that was let in.         *)
Typing ==
  /\ TypeOK
  /\ Len(uploaded) + Cardinality(Storing) <= MaxDocs
  /\ \A p \in Requests : Placed(op[p], Len(uploaded))

(* Records that differ at most in who is alone.                            *)
Alike(a, b) ==
  /\ a \in Op
  /\ a.pc = b.pc /\ a.doc = b.doc /\ a.bucket = b.bucket /\ a.change = b.change
  /\ a.agent = b.agent /\ a.todo = b.todo /\ a.keep = b.keep /\ a.text = b.text
  /\ a.made = b.made /\ a.agents = b.agents /\ a.past = b.past /\ a.number = b.number

(* Request p goes on as r; the others stay, less alone at most.            *)
Moved(p, r) ==
  /\ op' \in [Requests -> Op]
  /\ Alike(op'[p], r)
  /\ \A q \in Requests \ {p} : Alike(op'[q], op[q]) /\ (op'[q].alone => op[q].alone)

LEMMA BecomeMoves ==
  ASSUME NEW p \in Requests, NEW r \in Op, op \in [Requests -> Op],
         op' = [op EXCEPT ![p] = r]
  PROVE  Moved(p, r)
BY DEF Moved, Alike

LEMMA Blurred ==
  ASSUME NEW r \in Op, NEW x \in BOOLEAN
  PROVE  Alike([r EXCEPT !.alone = x], r) /\ [r EXCEPT !.alone = x].alone = x
<1>1. [r EXCEPT !.alone = x] \in Op
  BY DEF Op
<1> QED
  BY <1>1 DEF Op, Alike

LEMMA ReadMoves ==
  ASSUME NEW p \in Requests, NEW r \in Op, op \in [Requests -> Op],
         NEW Y \in SUBSET (Requests \ {p}),
         op' = [q \in Requests |-> IF q = p THEN [r EXCEPT !.alone = Y = {}]
                                   ELSE IF q \in Y THEN [op[q] EXCEPT !.alone = FALSE]
                                   ELSE op[q]]
  PROVE  Moved(p, r)
<1> DEFINE x == Y = {}
<1>1. op'[p] = [r EXCEPT !.alone = x] /\ x \in BOOLEAN
  OBVIOUS
<1>2. \A q \in Requests \ {p} : Alike(op'[q], op[q]) /\ (op'[q].alone => op[q].alone)
  <2> SUFFICES ASSUME NEW q \in Requests \ {p}
               PROVE  Alike(op'[q], op[q]) /\ (op'[q].alone => op[q].alone)
    OBVIOUS
  <2>1. /\ op[q] \in Op /\ Alike([op[q] EXCEPT !.alone = FALSE], op[q]) /\ Alike(op[q], op[q])
        /\ ~[op[q] EXCEPT !.alone = FALSE].alone
    BY Blurred DEF Alike
  <2> QED
    BY <2>1
<1> HIDE DEF x
<1>3. Alike(op'[p], r)
  BY <1>1, Blurred
<1>4. \A q \in Requests : op'[q] \in Op
  BY <1>2, <1>3 DEF Alike
<1> QED
  BY <1>2, <1>3, <1>4 DEF Moved

LEMMA MovedPlaced ==
  ASSUME Typing, NEW p \in Requests, NEW r, Moved(p, r),
         Len(uploaded)' \in Nat, Len(uploaded) <= Len(uploaded)',
         Placed(r, Len(uploaded)')
  PROVE  \A q \in Requests : Placed(op[q], Len(uploaded))'
<1> SUFFICES ASSUME NEW q \in Requests PROVE Placed(op'[q], Len(uploaded'))
  OBVIOUS
<1>0. Len(uploaded) \in Nat
  BY LenProperties DEF Typing, TypeOK
<1>1. CASE q = p
  BY <1>1 DEF Moved, Alike, Placed
<1>2. CASE q # p
  BY <1>0, <1>2 DEF Moved, Alike, Placed, Typing
<1> QED
  BY <1>1, <1>2

LEMMA MovedStoring ==
  ASSUME Typing, NEW p \in Requests, NEW r, Moved(p, r)
  PROVE  /\ IsFiniteSet(Storing) /\ Cardinality(Storing) \in Nat
         /\ (r.pc = "store") = At(p, "store") => Cardinality(Storing)' = Cardinality(Storing)
         /\ r.pc = "store" /\ ~At(p, "store") => Cardinality(Storing)' = Cardinality(Storing) + 1
         /\ r.pc # "store" /\ At(p, "store") => Cardinality(Storing)' = Cardinality(Storing) - 1
<1>1. IsFiniteSet(Storing) /\ Cardinality(Storing) \in Nat
  BY KnowledgeAssumption, FS_Subset, FS_CardinalityType DEF Storing
<1>2. \A q \in Requests : op'[q].pc = IF q = p THEN r.pc ELSE op[q].pc
  BY DEF Moved, Alike
<1>3. ASSUME (r.pc = "store") = At(p, "store") PROVE Storing' = Storing
  BY <1>2, <1>3 DEF Storing, At
<1>4. ASSUME r.pc = "store", ~At(p, "store") PROVE Storing' = Storing \cup {p} /\ p \notin Storing
  BY <1>2, <1>4 DEF Storing, At
<1>5. ASSUME r.pc # "store", At(p, "store") PROVE Storing' = Storing \ {p} /\ p \in Storing
  BY <1>2, <1>5 DEF Storing, At
<1> QED
  BY <1>1, <1>3, <1>4, <1>5, FS_AddElement, FS_RemoveElement

LEMMA IdleType == IdleOp \in Op /\ IdleOp.pc = "idle"
BY EmptySeq DEF IdleOp, Op

LEMMA GoesOn ==
  ASSUME NEW r \in Op, NEW n \in Nat
  PROVE  /\ IdleOp \in Op /\ Placed(IdleOp, n)
         /\ Chunk(r) \in Op /\ Grant(r) \in Op /\ Listing(r) \in Op
         /\ \A x \in {Chunk(r), Grant(r), Listing(r)} : x.pc \notin Guarded
         /\ r.doc \in 1 .. n => \A x \in {Chunk(r), Grant(r), Listing(r)} : Placed(x, n)
<1>1. IdleOp \in Op /\ Placed(IdleOp, n) /\ IdleOp.pc = "idle"
  BY IdleType DEF Placed, DocSteps
<1>2. ASSUME NEW c \in {"chunk", "list_read", "access_read"}
      PROVE  /\ [r EXCEPT !.pc = c] \in Op
             /\ [r EXCEPT !.pc = c].pc = c
             /\ [r EXCEPT !.pc = c].doc = r.doc
             /\ [r EXCEPT !.pc = c].bucket = r.bucket
  BY DEF Op
<1>3. r.bucket # None => r.bucket \in Buckets
  BY DEF Op
<1>4. r.doc \in 1 .. n => \A c \in {"chunk", "access_read"} : Placed([r EXCEPT !.pc = c], n)
  BY <1>2 DEF Placed, DocSteps
<1>5. r.doc \in 1 .. n /\ r.bucket # None => Placed([r EXCEPT !.pc = "list_read"], n)
  BY <1>2, <1>3 DEF Placed, DocSteps
<1> QED
  BY <1>1, <1>2, <1>4, <1>5 DEF Chunk, Grant, Listing, Guarded

-----------------------------------------------------------------------------
(* Types.                                                                  *)

LEMMA TypingInit == Init => Typing
<1> SUFFICES ASSUME Init PROVE Typing
  OBVIOUS
<1>1. \A p \in Requests : op[p] = IdleOp
  BY DEF Init
<1>2. IdleOp \in Op /\ IdleOp.pc = "idle"
  BY IdleType
<1>3. Storing = {}
  BY <1>1, <1>2 DEF Storing, At
<1>4. Len(uploaded) = 0 /\ Cardinality(Storing) = 0
  BY <1>3, EmptySeq, FS_EmptySet DEF Init
<1>5. Len(uploaded) + Cardinality(Storing) <= MaxDocs
  BY <1>4, KnowledgeAssumption
<1>6. \A p \in Requests : Placed(op[p], Len(uploaded))
  BY <1>1, <1>2 DEF Placed, DocSteps
<1>7. TypeOK
  BY <1>2, EmptySeq DEF Init, TypeOK
<1> QED
  BY <1>5, <1>6, <1>7 DEF Typing

(* A step that moves one request and stores no document.                   *)
LEMMA TypedStep ==
  ASSUME Typing, NEW p \in Requests, NEW r, Moved(p, r), UNCHANGED uploaded,
         Placed(r, Len(uploaded)), r.pc # "store"
  PROVE  /\ op' \in [Requests -> Op]
         /\ (Len(uploaded) + Cardinality(Storing) <= MaxDocs)'
         /\ \A q \in Requests : Placed(op[q], Len(uploaded))'
<1>1. Len(uploaded) \in Nat /\ MaxDocs \in Nat
  BY LenProperties, KnowledgeAssumption DEF Typing, TypeOK
<1>2. \A q \in Requests : Placed(op[q], Len(uploaded))'
  BY <1>1, MovedPlaced
<1>3. Cardinality(Storing)' <= Cardinality(Storing) /\ Cardinality(Storing)' \in Int /\ Cardinality(Storing) \in Nat
  <2>1. CASE At(p, "store")
    BY <2>1, MovedStoring
  <2>2. CASE ~At(p, "store")
    <3>1. (r.pc = "store") = At(p, "store")
      BY <2>2 DEF At
    <3> QED
      BY <3>1, MovedStoring
  <2> QED
    BY <2>1, <2>2
<1> QED
  BY <1>1, <1>2, <1>3 DEF Typing, Moved

-----------------------------------------------------------------------------
(* What a request becomes in each of its steps.                            *)

Stores == <<documents, buckets>>
Counters == requests' \in Nat /\ faults' \in Nat

(* Same document, bucket, text and wish for memories.                      *)
SameUpload(r, s) == r.doc = s.doc /\ r.bucket = s.bucket /\ r.keep = s.keep /\ r.text = s.text

(* Two requests between the read and the write of the same list.           *)
Rival(a, b) == /\ a.pc = b.pc
               /\ \/ a.pc = "access_write" /\ a.doc = b.doc
                  \/ a.pc \in {"list_write", "agents_write"} /\ a.bucket = b.bucket

(* Request p goes on as r and stores nothing; its rivals know of it.       *)
Fits(p, r) ==
  /\ Moved(p, r) /\ r \in Op /\ r.pc # "store" /\ Placed(r, Len(uploaded))
  /\ \A q \in Requests \ {p} : Rival(r, op[q]) => ~op'[p].alone /\ ~op'[q].alone

LEMMA Numbers ==
  ASSUME Typing
  PROVE  /\ TypeOK /\ Len(uploaded) \in Nat /\ Docs \subseteq Nat
         /\ \A p \in Requests : op[p] \in Op /\ Placed(op[p], Len(uploaded))
         /\ 1 .. Len(uploaded) \subseteq Docs
<1>1. TypeOK /\ Len(uploaded) \in Nat /\ MaxDocs \in Nat
  BY LenProperties, KnowledgeAssumption DEF Typing, TypeOK
<1>2. Cardinality(Storing) \in Nat
  BY KnowledgeAssumption, FS_Subset, FS_CardinalityType DEF Storing
<1>3. Len(uploaded) <= MaxDocs
  BY <1>1, <1>2 DEF Typing
<1> QED
  BY <1>1, <1>3 DEF Typing, TypeOK, Docs

LEMMA FitsByBecoming ==
  ASSUME Typing, NEW p \in Requests, NEW r \in Op, Become(p, r), r.pc \notin Guarded,
         Placed(r, Len(uploaded))
  PROVE  Fits(p, r)
BY Numbers, BecomeMoves DEF Become, Fits, TypeOK, Rival, Guarded

LEMMA FitsIdle ==
  ASSUME Typing, NEW p \in Requests, op' = [op EXCEPT ![p] = IdleOp]
  PROVE  Fits(p, IdleOp)
<1>1. IdleOp \in Op /\ IdleOp.pc # "store" /\ Placed(IdleOp, Len(uploaded))
  BY IdleType DEF Placed, DocSteps
<1> QED
  BY <1>1, IdleType, Numbers, BecomeMoves DEF Fits, TypeOK, Rival

LEMMA MoveCreate ==
  ASSUME Typing, NEW p \in Requests, CreateMemory(p)
  PROVE  \E r : /\ Fits(p, r) /\ SameUpload(r, op[p])
                /\ \/ /\ r.pc = "link_read" /\ r.made = op[p].made
                      /\ Pieces(op[p].text) \subseteq op[p].made
                   \/ /\ r.pc = "chunk"
                      /\ \E k \in Pieces(op[p].text) : r.made = op[p].made \cup {k}
<1> DEFINE todo == (1 .. Len(Chunks(op[p].text))) \ op[p].made
<1>0. op[p] \in Op /\ Placed(op[p], Len(uploaded)) /\ op[p].pc = "chunk" /\ todo = Pieces(op[p].text) \ op[p].made
  BY Numbers DEF CreateMemory, At, Pieces
<1>1. CASE todo = {}
  <2> DEFINE r == [op[p] EXCEPT !.pc = "link_read"]
  <2>1. r \in Op /\ r.pc = "link_read" /\ r.made = op[p].made /\ SameUpload(r, op[p])
    BY <1>0 DEF Op, SameUpload
  <2>2. Become(p, r)
    BY <1>1 DEF CreateMemory
  <2> HIDE DEF r
  <2>3. Placed(r, Len(uploaded))
    BY <1>0, <2>1 DEF Placed, DocSteps, SameUpload
  <2>4. Fits(p, r)
    BY <2>1, <2>2, <2>3, FitsByBecoming DEF Guarded
  <2> QED
    BY <1>0, <1>1, <2>1, <2>4
<1>2. CASE todo # {}
  <2> DEFINE k == Min(todo)
             r == [op[p] EXCEPT !.made = @ \cup {k}]
  <2>0. todo \in SUBSET Nat /\ todo \subseteq Nat \ {0}
    BY <1>0, PiecesType
  <2>1. k \in todo
    BY <1>2, <2>0, MinIn
  <2>2. Become(p, r)
    BY <1>2 DEF CreateMemory
  <2>3. k \in Pieces(op[p].text) /\ k \in Nat \ {0}
    BY <1>0, <2>0, <2>1
  <2> HIDE DEF k
  <2>4. r \in Op /\ r.pc = "chunk" /\ r.made = op[p].made \cup {k} /\ SameUpload(r, op[p])
    BY <1>0, <2>3 DEF Op, SameUpload
  <2> HIDE DEF r
  <2>5. Placed(r, Len(uploaded))
    BY <1>0, <2>4 DEF Placed, DocSteps, SameUpload
  <2>6. Fits(p, r)
    BY <2>2, <2>4, <2>5, FitsByBecoming DEF Guarded
  <2> QED
    BY <2>3, <2>4, <2>6
<1> QED
  BY <1>1, <1>2

ListingOf(r, s) ==
  \/ r = IdleOp
  \/ r.pc = "list_read" /\ SameUpload(r, s) /\ s.bucket # None

LEMMA ListingGoes ==
  ASSUME NEW s \in Op, NEW n \in Nat, s.doc \in 1 .. n
  PROVE  /\ Listing(s) \in Op /\ Listing(s).pc \notin Guarded /\ Placed(Listing(s), n)
         /\ ListingOf(Listing(s), s)
<1>1. Listing(s) \in Op /\ Listing(s).pc \notin Guarded /\ Placed(Listing(s), n)
  BY GoesOn
<1>2. ListingOf(Listing(s), s)
  BY DEF Listing, ListingOf, SameUpload, Op
<1> QED
  BY <1>1, <1>2

LEMMA MoveLinkRead ==
  ASSUME Typing, NEW p \in Requests, LinkRead(p)
  PROVE  \E r : /\ Fits(p, r)
                /\ \/ /\ op[p].doc \in docs /\ r.pc = "link_write" /\ SameUpload(r, op[p])
                      /\ r.made = op[p].made \cup linked[op[p].doc]
                   \/ op[p].doc \notin docs /\ ListingOf(r, op[p])
<1>0. op[p] \in Op /\ Placed(op[p], Len(uploaded)) /\ op[p].pc = "link_read"
      /\ op[p].doc \in 1 .. Len(uploaded) /\ op[p].doc \in Docs /\ Len(uploaded) \in Nat
  BY Numbers DEF LinkRead, At, Placed, DocSteps
<1>1. CASE op[p].doc \in docs
  <2> DEFINE r == [op[p] EXCEPT !.pc = "link_write", !.made = @ \cup linked[op[p].doc]]
  <2>0. linked[op[p].doc] \subseteq Nat \ {0}
    BY <1>0, Numbers DEF TypeOK
  <2>1. r \in Op /\ r.pc = "link_write" /\ r.made = op[p].made \cup linked[op[p].doc] /\ SameUpload(r, op[p])
    BY <1>0, <2>0 DEF Op, SameUpload
  <2>2. Become(p, r)
    BY <1>1 DEF LinkRead
  <2> HIDE DEF r
  <2>3. Placed(r, Len(uploaded))
    BY <1>0, <2>1 DEF Placed, DocSteps, SameUpload
  <2>4. Fits(p, r)
    BY <2>1, <2>2, <2>3, FitsByBecoming DEF Guarded
  <2> QED
    BY <1>1, <2>1, <2>4
<1>2. CASE op[p].doc \notin docs
  <2>1. Become(p, Listing(op[p]))
    BY <1>2 DEF LinkRead
  <2>2. Fits(p, Listing(op[p])) /\ ListingOf(Listing(op[p]), op[p])
    BY <1>0, <2>1, ListingGoes, FitsByBecoming DEF Guarded
  <2> QED
    BY <1>2, <2>2
<1> QED
  BY <1>1, <1>2

LEMMA MoveLinkWrite ==
  ASSUME Typing, NEW p \in Requests, LinkWrite(p)
  PROVE  Fits(p, Listing(op[p])) /\ ListingOf(Listing(op[p]), op[p])
<1>0. op[p] \in Op /\ op[p].doc \in 1 .. Len(uploaded) /\ Len(uploaded) \in Nat
  BY Numbers DEF LinkWrite, At, Placed, DocSteps
<1>1. Become(p, Listing(op[p]))
  BY DEF LinkWrite
<1> QED
  BY <1>0, <1>1, ListingGoes, FitsByBecoming DEF Guarded

LEMMA FitsByReading ==
  ASSUME Typing, NEW p \in Requests, NEW r \in Op, NEW Y \in SUBSET (Requests \ {p}),
         op' = [q \in Requests |-> IF q = p THEN [r EXCEPT !.alone = Y = {}]
                                   ELSE IF q \in Y THEN [op[q] EXCEPT !.alone = FALSE]
                                   ELSE op[q]],
         \A q \in Requests \ {p} : Rival(r, op[q]) => q \in Y,
         r.pc # "store", Placed(r, Len(uploaded))
  PROVE  Fits(p, r)
<1>0. op \in [Requests -> Op]
  BY Numbers DEF TypeOK
<1>4. Moved(p, r)
  BY <1>0, ReadMoves
<1> DEFINE x == Y = {}
<1>1. x \in BOOLEAN
  OBVIOUS
<1>2. op' = [q \in Requests |-> IF q = p THEN [r EXCEPT !.alone = x]
                                ELSE IF q \in Y THEN [op[q] EXCEPT !.alone = FALSE]
                                ELSE op[q]]
  OBVIOUS
<1>3. x => Y = {}
  OBVIOUS
<1> HIDE DEF x
<1>5. ASSUME NEW q \in Requests \ {p}, Rival(r, op[q]) PROVE ~op'[p].alone /\ ~op'[q].alone
  <2>1. q \in Y
    BY <1>5
  <2>2. op'[q] = [op[q] EXCEPT !.alone = FALSE] /\ op'[p] = [r EXCEPT !.alone = x] /\ ~x
    BY <1>2, <1>3, <2>1
  <2>3. op[q] \in Op
    BY <1>0
  <2> QED
    BY <1>1, <2>2, <2>3, Blurred
<1> QED
  BY <1>4, <1>5 DEF Fits

LEMMA MoveListRead ==
  ASSUME Typing, NEW p \in Requests, ListRead(p)
  PROVE  \E r : /\ Fits(p, r)
                /\ \/ r = IdleOp
                   \/ /\ op[p].bucket \in live /\ r.pc = "list_write" /\ SameUpload(r, op[p])
                      /\ r.past = history[op[p].bucket] /\ r.number = count[op[p].bucket]
<1> DEFINE b == op[p].bucket
<1>0. /\ op[p] \in Op /\ Placed(op[p], Len(uploaded)) /\ op[p].pc = "list_read"
      /\ b \in Buckets
  BY Numbers DEF ListRead, At, Placed
<1>1. CASE b \in live
  <2> DEFINE r == [op[p] EXCEPT !.pc = "list_write", !.past = history[b], !.number = count[b]]
             Y == {q \in Requests \ {p} : op[q].pc = r.pc /\ op[q].bucket = b}
  <2>0. history[b] \in Seq(Docs) /\ count[b] \in Nat
    BY <1>0, Numbers DEF TypeOK
  <2>1. r \in Op /\ r.pc = "list_write" /\ r.past = history[b] /\ r.number = count[b] /\ SameUpload(r, op[p])
    BY <1>0, <2>0 DEF Op, SameUpload
  <2>2. ReadList(p, r, LAMBDA s : s.bucket = b)
    BY <1>1 DEF ListRead
  <2>3. op' = [q \in Requests |-> IF q = p THEN [r EXCEPT !.alone = Y = {}]
                                  ELSE IF q \in Y THEN [op[q] EXCEPT !.alone = FALSE]
                                  ELSE op[q]]
    BY <2>2 DEF ReadList
  <2>4. Placed(r, Len(uploaded))
    BY <1>0, <2>1 DEF Placed, DocSteps, SameUpload
  <2>5. \A q \in Requests \ {p} : Rival(r, op[q]) => q \in Y
    BY <2>1 DEF Rival, SameUpload
  <2>6. Y \in SUBSET (Requests \ {p})
    OBVIOUS
  <2> HIDE DEF r, Y
  <2>7. Fits(p, r)
    BY <2>1, <2>3, <2>4, <2>5, <2>6, FitsByReading
  <2> QED
    BY <1>1, <2>1, <2>7
<1>2. CASE b \notin live
  BY <1>2, FitsIdle DEF ListRead, Finish, Become
<1> QED
  BY <1>1, <1>2

(* What an upload does after its next grant, r being the request.          *)
GrantOf(x, r) ==
  \/ x = IdleOp
  \/ SameUpload(x, r) /\ x.pc = "access_read" /\ x.made = r.made
  \/ SameUpload(x, r) /\ x.pc = "chunk" /\ r.keep /\ x.made = r.made
  \/ SameUpload(x, r) /\ x.pc = "list_read" /\ ~r.keep /\ r.bucket # None

LEMMA GrantGoes ==
  ASSUME NEW r \in Op, NEW n \in Nat, r.doc \in 1 .. n
  PROVE  /\ Grant(r) \in Op /\ Grant(r).pc \notin Guarded /\ Placed(Grant(r), n)
         /\ GrantOf(Grant(r), r) /\ GrantOf(Chunk(r), r)
<1>1. Grant(r) \in Op /\ Grant(r).pc \notin Guarded /\ Placed(Grant(r), n)
  BY GoesOn
<1>2. GrantOf(Chunk(r), r)
  BY DEF Chunk, GrantOf, SameUpload, Op
<1>3. GrantOf([r EXCEPT !.pc = "access_read"], r)
  BY DEF GrantOf, SameUpload, Op
<1> QED
  BY <1>1, <1>2, <1>3 DEF Grant

LEMMA MoveAccessRead ==
  ASSUME Typing, NEW p \in Requests, AccessRead(p)
  PROVE  \E r : /\ Fits(p, r)
                /\ \/ GrantOf(r, op[p])
                   \/ /\ op[p].doc \in docs /\ r.pc = "access_write" /\ SameUpload(r, op[p])
                      /\ r.agents = access[op[p].doc] /\ r.made = op[p].made
<1> DEFINE d == op[p].doc
<1>0. /\ op[p] \in Op /\ Placed(op[p], Len(uploaded)) /\ op[p].pc = "access_read"
      /\ d \in 1 .. Len(uploaded) /\ d \in Docs /\ Len(uploaded) \in Nat
  BY Numbers DEF AccessRead, At, Placed, DocSteps
<1>1. PICK a \in op[p].todo :
        LET s == [op[p] EXCEPT !.todo = @ \ {a}, !.agent = a]
        IN IF d \in docs /\ (s.change = "remove" => a \in access[d])
             THEN ReadList(p, [s EXCEPT !.pc = "access_write", !.agents = access[d]],
                           LAMBDA t : t.doc = d)
             ELSE Become(p, Grant(s))
  BY DEF AccessRead
<1> DEFINE s == [op[p] EXCEPT !.todo = @ \ {a}, !.agent = a]
<1>2. s \in Op /\ s.agent = a /\ a \in Agents /\ SameUpload(s, op[p]) /\ s.made = op[p].made /\ s.doc = d
  BY <1>0 DEF Op, SameUpload
<1>3. CASE d \in docs /\ (s.change = "remove" => a \in access[d])
  <2> DEFINE r == [s EXCEPT !.pc = "access_write", !.agents = access[d]]
             Y == {q \in Requests \ {p} : op[q].pc = r.pc /\ op[q].doc = d}
  <2>1. ReadList(p, r, LAMBDA t : t.doc = d)
    BY <1>1, <1>3
  <2>2. op' = [q \in Requests |-> IF q = p THEN [r EXCEPT !.alone = Y = {}]
                                  ELSE IF q \in Y THEN [op[q] EXCEPT !.alone = FALSE]
                                  ELSE op[q]]
    BY <2>1 DEF ReadList
  <2> HIDE DEF s
  <2>3. access[d] \subseteq Agents
    BY <1>0, Numbers DEF TypeOK
  <2>4. /\ r \in Op /\ r.pc = "access_write" /\ r.agents = access[d] /\ SameUpload(r, op[p])
        /\ r.made = op[p].made /\ r.agent = a /\ r.doc = d
    BY <1>2, <2>3 DEF Op, SameUpload
  <2>5. Placed(r, Len(uploaded))
    BY <1>0, <1>2, <2>4 DEF Placed, DocSteps
  <2>6. \A q \in Requests \ {p} : Rival(r, op[q]) => q \in Y
    BY <2>4 DEF Rival
  <2>7. Y \in SUBSET (Requests \ {p})
    OBVIOUS
  <2> HIDE DEF r, Y
  <2>8. Fits(p, r)
    BY <2>2, <2>4, <2>5, <2>6, <2>7, FitsByReading
  <2> QED
    BY <1>3, <2>4, <2>8
<1>4. CASE ~(d \in docs /\ (s.change = "remove" => a \in access[d]))
  <2>1. Become(p, Grant(s))
    BY <1>1, <1>4
  <2> HIDE DEF s
  <2>2. Grant(s) \in Op /\ Grant(s).pc \notin Guarded /\ Placed(Grant(s), Len(uploaded)) /\ GrantOf(Grant(s), s)
    BY <1>0, <1>2, GrantGoes
  <2>3. Fits(p, Grant(s))
    BY <2>1, <2>2, FitsByBecoming
  <2>4. GrantOf(Grant(s), op[p])
    BY <1>2, <2>2 DEF GrantOf, SameUpload
  <2> QED
    BY <2>3, <2>4
<1> QED
  BY <1>3, <1>4

LEMMA MoveAccessWrite ==
  ASSUME Typing, NEW p \in Requests, AccessWrite(p)
  PROVE  Fits(p, Grant(op[p])) /\ GrantOf(Grant(op[p]), op[p])
<1>0. op[p] \in Op /\ op[p].doc \in 1 .. Len(uploaded) /\ Len(uploaded) \in Nat
  BY Numbers DEF AccessWrite, At, Placed, DocSteps
<1>1. Become(p, Grant(op[p]))
  BY DEF AccessWrite
<1> QED
  BY <1>0, <1>1, GrantGoes, FitsByBecoming

(* The uploads.                                                            *)

LEMMA MoveUpload ==
  ASSUME Typing, NEW p \in Requests, StartUpload(p)
  PROVE  \E r \in Op : /\ Moved(p, r) /\ r.pc = "store" /\ r.text \in Uploads /\ r.made = {}
                       /\ ~At(p, "store")
                       /\ UNCHANGED <<Stores, kept>> /\ Counters
<1>0. TypeOK
  BY Numbers
<1>1. PICK t \in Uploads, keep \in BOOLEAN :
        LET r == [IdleOp EXCEPT !.pc = "store", !.text = t, !.keep = keep]
        IN \/ \E b \in live : Begin(p, [r EXCEPT !.bucket = b, !.todo = members[b]])
           \/ \E S \in SUBSET Agents : Begin(p, [r EXCEPT !.todo = S])
  BY DEF StartUpload
<1>2. PICK r \in Op : r.pc = "store" /\ r.text \in Uploads /\ r.made = {} /\ Begin(p, r)
  <2>1. IdleOp \in Op /\ IdleOp.made = {}
    BY IdleType DEF IdleOp
  <2> DEFINE r == [IdleOp EXCEPT !.pc = "store", !.text = t, !.keep = keep]
  <2>2. r \in Op /\ r.pc = "store" /\ r.text = t /\ r.made = {}
    BY <2>1 DEF Op
  <2> HIDE DEF r
  <2>3. \A b \in live : [r EXCEPT !.bucket = b, !.todo = members[b]] \in Op
    BY <1>0, <2>2 DEF Op, TypeOK
  <2>4. \A S \in SUBSET Agents : [r EXCEPT !.todo = S] \in Op
    BY <2>2 DEF Op
  <2>5. \A b, S : /\ [r EXCEPT !.bucket = b, !.todo = S].pc = "store"
                  /\ [r EXCEPT !.bucket = b, !.todo = S].text = t
                  /\ [r EXCEPT !.bucket = b, !.todo = S].made = {}
                  /\ [r EXCEPT !.todo = S].pc = "store" /\ [r EXCEPT !.todo = S].text = t
                  /\ [r EXCEPT !.todo = S].made = {}
    BY <2>2 DEF Op
  <2>6. \/ \E b \in live : Begin(p, [r EXCEPT !.bucket = b, !.todo = members[b]])
        \/ \E S \in SUBSET Agents : Begin(p, [r EXCEPT !.todo = S])
    BY <1>1 DEF r
  <2> QED
    BY <2>3, <2>4, <2>5, <2>6
<1>3. Moved(p, r)
  BY <1>0, <1>2, BecomeMoves DEF Begin, TypeOK
<1>4. UNCHANGED <<Stores, kept>> /\ Counters /\ ~At(p, "store")
  <2>1. UNCHANGED kept
    BY DEF StartUpload
  <2> QED
    BY <1>0, <1>2, <2>1 DEF Begin, Stores, Counters, TypeOK, At
<1> QED
  BY <1>2, <1>3, <1>4

LEMMA MoveStore ==
  ASSUME Typing, NEW p \in Requests, StoreDocument(p)
  PROVE  \E s \in Op, r \in Op :
           /\ Moved(p, s) /\ s.pc \notin Guarded /\ Placed(s, Len(uploaded) + 1)
           /\ r.doc = Len(uploaded) + 1 /\ r.text = op[p].text /\ r.keep = op[p].keep
           /\ r.bucket = op[p].bucket /\ r.made = op[p].made /\ GrantOf(s, r)
<1> DEFINE d == Len(uploaded) + 1
           r == [op[p] EXCEPT !.doc = d]
           u == [r EXCEPT !.todo = {}]
           s == IF r.bucket # None THEN Grant(r) ELSE Chunk(u)
<1>0. /\ Len(uploaded) \in Nat /\ MaxDocs \in Nat /\ op[p] \in Op /\ op \in [Requests -> Op]
      /\ Cardinality(Storing) \in Nat /\ IsFiniteSet(Storing)
  BY Numbers, KnowledgeAssumption, FS_Subset, FS_CardinalityType DEF TypeOK, Storing
<1>1. p \in Storing
  BY DEF StoreDocument, Storing
<1>2. Cardinality(Storing) > 0
  BY <1>0, <1>1, FS_EmptySet
<1>3. d \in Docs /\ d \in 1 .. d /\ d \in Nat
  BY <1>0, <1>2 DEF Docs, Typing
<1>4. /\ r \in Op /\ r.doc = d /\ r.text = op[p].text /\ r.keep = op[p].keep
      /\ r.bucket = op[p].bucket /\ r.made = op[p].made
  BY <1>0, <1>3 DEF Op
<1>5. u \in Op /\ u.doc = d /\ SameUpload(u, r) /\ u.made = r.made
  BY <1>4 DEF Op, SameUpload
<1>7. Become(p, s)
  BY DEF StoreDocument
<1> HIDE DEF u, r, d
<1>6. s \in Op /\ s.pc \notin Guarded /\ Placed(s, d) /\ GrantOf(s, r)
  <2>1. CASE r.bucket # None
    BY <1>3, <1>4, <2>1, GrantGoes
  <2>2. CASE r.bucket = None
    <3>1. Chunk(u) \in Op /\ Chunk(u).pc \notin Guarded /\ Placed(Chunk(u), d) /\ GrantOf(Chunk(u), u)
      BY <1>3, <1>5, GoesOn, GrantGoes
    <3>2. GrantOf(Chunk(u), r)
      BY <1>5, <3>1 DEF GrantOf, SameUpload
    <3> QED
      BY <2>2, <3>1, <3>2
  <2> QED
    BY <2>1, <2>2
<1> HIDE DEF s
<1>8. Moved(p, s)
  BY <1>0, <1>6, <1>7, BecomeMoves DEF Become
<1> QED
  BY <1>4, <1>6, <1>8 DEF d

LEMMA MoveStartAccess ==
  ASSUME Typing, NEW p \in Requests, StartAccess(p)
  PROVE  \E r : /\ Fits(p, r) /\ r.pc = "access_read" /\ r.bucket = None /\ ~r.keep
                /\ r.made = {}
<1>1. PICK d \in docs, a \in Agents, k \in {"add", "remove"} :
        Begin(p, [IdleOp EXCEPT !.pc = "access_read", !.doc = d, !.todo = {a}, !.change = k])
  BY DEF StartAccess
<1> DEFINE r == [IdleOp EXCEPT !.pc = "access_read", !.doc = d, !.todo = {a}, !.change = k]
<1>2. d \in 1 .. Len(uploaded) /\ d \in Docs /\ op \in [Requests -> Op]
  BY Numbers DEF TypeOK
<1>3. /\ IdleOp \in Op /\ IdleOp.bucket = None /\ ~IdleOp.keep /\ IdleOp.made = {}
  BY IdleType DEF IdleOp
<1>4. /\ r \in Op /\ r.pc = "access_read" /\ r.bucket = None /\ ~r.keep /\ r.made = {} /\ r.doc = d
  BY <1>2, <1>3 DEF Op
<1>5. op' = [op EXCEPT ![p] = r]
  BY <1>1 DEF Begin
<1> HIDE DEF r
<1>6. Placed(r, Len(uploaded))
  BY <1>2, <1>4 DEF Placed, DocSteps
<1>7. Fits(p, r)
  BY <1>2, <1>4, <1>5, <1>6, BecomeMoves DEF Fits, Rival
<1> QED
  BY <1>4, <1>7

LEMMA MoveStartAgents ==
  ASSUME Typing, NEW p \in Requests, StartAgents(p)
  PROVE  \E r : Fits(p, r) /\ r.pc = "agents_read"
<1>1. PICK b \in live :
        \/ \E a \in Agents, k \in {"add", "remove"} :
             Begin(p, [IdleOp EXCEPT !.pc = "agents_read", !.bucket = b, !.agent = a, !.change = k])
        \/ \E S \in SUBSET Agents :
             Begin(p, [IdleOp EXCEPT !.pc = "agents_read", !.bucket = b, !.todo = S, !.change = "set"])
  BY DEF StartAgents
<1>2. b \in Buckets /\ op \in [Requests -> Op]
  BY Numbers DEF TypeOK
<1>3. ASSUME NEW a \in Agents, NEW k \in {"add", "remove"},
             Begin(p, [IdleOp EXCEPT !.pc = "agents_read", !.bucket = b, !.agent = a, !.change = k])
      PROVE  \E r : Fits(p, r) /\ r.pc = "agents_read"
  <2> DEFINE r == [IdleOp EXCEPT !.pc = "agents_read", !.bucket = b, !.agent = a, !.change = k]
  <2>1. r \in Op /\ r.pc = "agents_read" /\ r.bucket = b /\ r.agent = a
    BY <1>2, IdleType DEF Op
  <2>2. op' = [op EXCEPT ![p] = r]
    BY <1>3 DEF Begin
  <2> HIDE DEF r
  <2>3. Placed(r, Len(uploaded))
    BY <1>2, <2>1 DEF Placed, DocSteps
  <2>4. Fits(p, r)
    BY <1>2, <2>1, <2>2, <2>3, BecomeMoves DEF Fits, Rival
  <2> QED
    BY <2>1, <2>4
<1>4. ASSUME NEW S \in SUBSET Agents,
             Begin(p, [IdleOp EXCEPT !.pc = "agents_read", !.bucket = b, !.todo = S, !.change = "set"])
      PROVE  \E r : Fits(p, r) /\ r.pc = "agents_read"
  <2> DEFINE r == [IdleOp EXCEPT !.pc = "agents_read", !.bucket = b, !.todo = S, !.change = "set"]
  <2>1. r \in Op /\ r.pc = "agents_read" /\ r.bucket = b /\ r.change = "set"
    BY <1>2, IdleType DEF Op
  <2>2. op' = [op EXCEPT ![p] = r]
    BY <1>4 DEF Begin
  <2> HIDE DEF r
  <2>3. Placed(r, Len(uploaded))
    BY <1>2, <2>1 DEF Placed, DocSteps
  <2>4. Fits(p, r)
    BY <1>2, <2>1, <2>2, <2>3, BecomeMoves DEF Fits, Rival
  <2> QED
    BY <2>1, <2>4
<1> QED
  BY <1>1, <1>3, <1>4

LEMMA MoveAgentsRead ==
  ASSUME Typing, NEW p \in Requests, AgentsRead(p)
  PROVE  \E r : /\ Fits(p, r)
                /\ \/ r = IdleOp
                   \/ /\ op[p].bucket \in live /\ r.pc = "agents_write" /\ SameUpload(r, op[p])
                      /\ r.agents = members[op[p].bucket]
<1> DEFINE b == op[p].bucket
<1>0. /\ op[p] \in Op /\ Placed(op[p], Len(uploaded)) /\ op[p].pc = "agents_read"
      /\ b \in Buckets
  BY Numbers DEF AgentsRead, At, Placed
<1>1. CASE ~(b \notin live \/ (op[p].change = "add" /\ op[p].agent \in members[b]))
  <2> DEFINE r == [op[p] EXCEPT !.pc = "agents_write", !.agents = members[b]]
             Y == {q \in Requests \ {p} : op[q].pc = r.pc /\ op[q].bucket = b}
  <2>0. members[b] \subseteq Agents
    BY <1>0, Numbers DEF TypeOK
  <2>1. /\ r \in Op /\ r.pc = "agents_write" /\ r.agents = members[b] /\ SameUpload(r, op[p])
        /\ r.change = op[p].change /\ r.agent = op[p].agent
    BY <1>0, <2>0 DEF Op, SameUpload
  <2>2. ReadList(p, r, LAMBDA s : s.bucket = b)
    BY <1>1 DEF AgentsRead
  <2>3. op' = [q \in Requests |-> IF q = p THEN [r EXCEPT !.alone = Y = {}]
                                  ELSE IF q \in Y THEN [op[q] EXCEPT !.alone = FALSE]
                                  ELSE op[q]]
    BY <2>2 DEF ReadList
  <2>4. Placed(r, Len(uploaded))
    BY <1>0, <2>1 DEF Placed, DocSteps, SameUpload
  <2>5. \A q \in Requests \ {p} : Rival(r, op[q]) => q \in Y
    BY <2>1 DEF Rival, SameUpload
  <2>6. Y \in SUBSET (Requests \ {p})
    OBVIOUS
  <2> HIDE DEF r, Y
  <2>7. Fits(p, r)
    BY <2>1, <2>3, <2>4, <2>5, <2>6, FitsByReading
  <2> QED
    BY <1>1, <2>1, <2>7
<1>2. CASE b \notin live \/ (op[p].change = "add" /\ op[p].agent \in members[b])
  BY <1>2, FitsIdle DEF AgentsRead, Finish, Become
<1> QED
  BY <1>1, <1>2

LEMMA MoveIdle ==
  ASSUME Typing, NEW p \in Requests, ListWrite(p) \/ AgentsWrite(p) \/ Fail(p)
  PROVE  Fits(p, IdleOp)
BY FitsIdle DEF ListWrite, AgentsWrite, Fail, Finish, Become

-----------------------------------------------------------------------------
LEMMA TypedUpload ==
  ASSUME Typing, NEW p \in Requests, StartUpload(p) PROVE Typing'
<1>0. TypeOK /\ Len(uploaded) \in Nat /\ MaxDocs \in Nat
  BY Numbers, KnowledgeAssumption
<1>1. PICK r \in Op : /\ Moved(p, r) /\ r.pc = "store" /\ r.text \in Uploads
                      /\ ~At(p, "store")
                      /\ UNCHANGED Stores /\ Counters
  BY MoveUpload
<1>2. Cardinality(Storing) \in Nat /\ Cardinality(Storing)' = Cardinality(Storing) + 1
  BY <1>1, MovedStoring
<1>3. Len(uploaded) + Cardinality(Storing) < MaxDocs
  BY DEF StartUpload, Room, Storing
<1>4. (Len(uploaded) + Cardinality(Storing) <= MaxDocs)'
  BY <1>0, <1>1, <1>2, <1>3 DEF Stores, documents
<1>5. Placed(r, Len(uploaded))
  BY <1>1 DEF Placed, DocSteps
<1>6. \A q \in Requests : Placed(op[q], Len(uploaded))'
  BY <1>0, <1>1, <1>5, MovedPlaced DEF Stores, documents
<1>7. TypeOK'
  BY <1>0, <1>1 DEF TypeOK, Stores, Counters, documents, buckets, Moved
<1> QED
  BY <1>4, <1>6, <1>7 DEF Typing

LEMMA TypedStore ==
  ASSUME Typing, NEW p \in Requests, StoreDocument(p) PROVE Typing'
<1> DEFINE d == Len(uploaded) + 1
           row == [text |-> op[p].text, keep |-> op[p].keep]
<1>0. /\ TypeOK /\ Len(uploaded) \in Nat /\ MaxDocs \in Nat /\ op[p] \in Op
      /\ op[p].text \in Uploads
      /\ Cardinality(Storing) \in Nat /\ IsFiniteSet(Storing) /\ p \in Storing
  BY Numbers, KnowledgeAssumption, FS_Subset, FS_CardinalityType DEF Storing, StoreDocument, At, Placed
<1>1. PICK s \in Op : Moved(p, s) /\ s.pc \notin Guarded /\ Placed(s, d)
  BY MoveStore
<1>2. /\ uploaded' = Append(uploaded, row) /\ docs' = docs \cup {d}
      /\ access' = [access EXCEPT ![d] = op[p].todo]
      /\ UNCHANGED <<linked, buckets, requests, faults>>
  <2>1. [op[p] EXCEPT !.doc = d].text = op[p].text /\ [op[p] EXCEPT !.doc = d].keep = op[p].keep
        /\ [op[p] EXCEPT !.doc = d].todo = op[p].todo
    BY <1>0 DEF Op
  <2> QED
    BY <2>1 DEF StoreDocument, Become
<1>3. row \in [text : Uploads, keep : BOOLEAN] /\ op[p].todo \subseteq Agents
  BY <1>0 DEF Op
<1> HIDE DEF row
<1>4. uploaded' \in Seq([text : Uploads, keep : BOOLEAN]) /\ Len(uploaded)' = d
  BY <1>0, <1>2, <1>3, AppendProperties DEF TypeOK
<1>5. Cardinality(Storing)' = Cardinality(Storing) - 1
  BY <1>1, MovedStoring DEF StoreDocument, Guarded
<1>6. (Len(uploaded) + Cardinality(Storing) <= MaxDocs)'
  BY <1>0, <1>4, <1>5 DEF Typing
<1>7. \A q \in Requests : Placed(op[q], Len(uploaded))'
  <2>1. Len(uploaded)' \in Nat /\ Len(uploaded) <= Len(uploaded)' /\ Placed(s, Len(uploaded)')
    BY <1>0, <1>1, <1>4
  <2> QED
    BY <1>1, <2>1, MovedPlaced
<1>8. d \in Docs
  <2>1. Cardinality(Storing) > 0
    BY <1>0, FS_EmptySet
  <2> QED
    BY <1>0, <2>1 DEF Typing, Docs
<1>9. TypeOK'
  <2>1. 1 .. Len(uploaded) \subseteq 1 .. d /\ docs \subseteq 1 .. Len(uploaded) /\ d \in 1 .. d
    BY <1>0 DEF TypeOK
  <2>2. docs' \subseteq 1 .. Len(uploaded')
    BY <1>2, <1>4, <2>1
  <2>3. access' \in [Docs -> SUBSET Agents] /\ linked' \in [Docs -> SUBSET (Nat \ {0})]
    BY <1>0, <1>2, <1>3, <1>8 DEF TypeOK
  <2>4. \A e \in Docs \ docs' : access'[e] = {} /\ linked'[e] = {}
    BY <1>0, <1>2, <1>8 DEF TypeOK
  <2> QED
    BY <1>0, <1>1, <1>2, <1>4, <2>2, <2>3, <2>4 DEF TypeOK, buckets, Moved
<1> QED
  BY <1>6, <1>7, <1>9 DEF Typing

LEMMA TypedMove ==
  ASSUME Typing, NEW p \in Requests, NEW r, Fits(p, r), UNCHANGED uploaded,
         op' \in [Requests -> Op] => TypeOK'
  PROVE  Typing'
BY TypedStep DEF Fits, Typing

LEMMA TypedQuiet ==
  ASSUME Typing, NEW p \in Requests, NEW r, Fits(p, r), UNCHANGED Stores, Counters
  PROVE  Typing'
<1>1. op' \in [Requests -> Op] => TypeOK'
  BY Numbers DEF TypeOK, Stores, documents, buckets, Counters
<1> QED
  BY <1>1, TypedMove DEF Stores, documents

(* The steps that read, or change nothing but their own request.           *)
QuietStep(p) ==
  \/ CreateMemory(p) \/ LinkRead(p) \/ ListRead(p)
  \/ StartAccess(p) \/ AccessRead(p) \/ StartAgents(p) \/ AgentsRead(p) \/ Fail(p)

LEMMA Quiet ==
  ASSUME Typing, NEW p \in Requests, QuietStep(p)
  PROVE  UNCHANGED Stores /\ (UNCHANGED kept \/ StartAccess(p)) /\ Counters /\ \E r : Fits(p, r)
<1>0. requests \in Nat /\ faults \in Nat
  BY Numbers DEF TypeOK
<1>1. CASE CreateMemory(p)
  <2>1. \E r : Fits(p, r)
    BY <1>1, MoveCreate
  <2>2. UNCHANGED <<Stores, kept>>
    BY <1>1 DEF CreateMemory, Become, Stores
  <2>3. Counters
    BY <1>0, <1>1 DEF CreateMemory, Become, Counters
  <2> QED
    BY <2>1, <2>2, <2>3
<1>2. CASE LinkRead(p)
  <2>1. \E r : Fits(p, r)
    BY <1>2, MoveLinkRead
  <2>2. UNCHANGED <<Stores, kept>>
    BY <1>2 DEF LinkRead, Become, Stores
  <2>3. Counters
    BY <1>0, <1>2 DEF LinkRead, Become, Listing, Counters
  <2> QED
    BY <2>1, <2>2, <2>3
<1>3. CASE ListRead(p)
  <2>1. \E r : Fits(p, r)
    BY <1>3, MoveListRead
  <2>2. UNCHANGED <<Stores, kept>>
    BY <1>3 DEF ListRead, Become, Stores
  <2>3. Counters
    BY <1>0, <1>3 DEF ListRead, ReadList, Finish, Become, Counters
  <2> QED
    BY <2>1, <2>2, <2>3
<1>4. CASE StartAccess(p)
  <2>1. \E r : Fits(p, r)
    BY <1>4, MoveStartAccess
  <2>2. UNCHANGED Stores
    BY <1>4 DEF StartAccess, Begin, Stores
  <2>3. Counters
    BY <1>0, <1>4 DEF StartAccess, Begin, Counters
  <2> QED
    BY <1>4, <2>1, <2>2, <2>3
<1>5. CASE AccessRead(p)
  <2>1. \E r : Fits(p, r)
    BY <1>5, MoveAccessRead
  <2>2. UNCHANGED <<Stores, kept>>
    BY <1>5 DEF AccessRead, Become, Stores
  <2>3. Counters
    BY <1>0, <1>5 DEF AccessRead, ReadList, Become, Counters
  <2> QED
    BY <2>1, <2>2, <2>3
<1>6. CASE StartAgents(p)
  <2>1. \E r : Fits(p, r)
    BY <1>6, MoveStartAgents
  <2>2. UNCHANGED <<Stores, kept>>
    BY <1>6 DEF StartAgents, Begin, Stores
  <2>3. Counters
    <3>1. \E r : Begin(p, r)
      BY <1>6 DEF StartAgents
    <3> QED
      BY <1>0, <3>1 DEF Begin, Counters
  <2> QED
    BY <2>1, <2>2, <2>3
<1>7. CASE AgentsRead(p)
  <2>1. \E r : Fits(p, r)
    BY <1>7, MoveAgentsRead
  <2>2. UNCHANGED <<Stores, kept>>
    BY <1>7 DEF AgentsRead, Become, Stores
  <2>3. Counters
    BY <1>0, <1>7 DEF AgentsRead, ReadList, Finish, Become, Counters
  <2> QED
    BY <2>1, <2>2, <2>3
<1>8. CASE Fail(p)
  <2>1. \E r : Fits(p, r)
    BY <1>8, MoveIdle
  <2>2. UNCHANGED <<Stores, kept>>
    BY <1>8 DEF Fail, Become, Stores
  <2>3. Counters
    BY <1>0, <1>8 DEF Fail, Stores, Counters
  <2> QED
    BY <2>1, <2>2, <2>3
<1> QED
  BY <1>1, <1>2, <1>3, <1>4, <1>5, <1>6, <1>7, <1>8 DEF QuietStep

LEMMA TypedWrites ==
  ASSUME Typing, NEW p \in Requests,
         LinkWrite(p) \/ ListWrite(p) \/ AccessWrite(p) \/ AgentsWrite(p)
  PROVE  Typing'
<1>0. TypeOK /\ op[p] \in Op /\ Placed(op[p], Len(uploaded)) /\ 1 .. Len(uploaded) \subseteq Docs
  BY Numbers
<1>1. CASE LinkWrite(p)
  <2>1. linked' \in [Docs -> SUBSET (Nat \ {0})] /\ \A d \in Docs \ docs : linked'[d] = {}
    BY <1>0, <1>1 DEF LinkWrite, TypeOK, Op
  <2>2. op' \in [Requests -> Op] => TypeOK'
    BY <1>0, <1>1, <2>1 DEF LinkWrite, TypeOK, buckets, Become
  <2> QED
    BY <1>1, <2>2, MoveLinkWrite, TypedMove DEF LinkWrite
<1>2. CASE ListWrite(p)
  <2>1. op[p].doc \in Docs /\ op[p].past \in Seq(Docs) /\ op[p].number \in Nat
    BY <1>0, <1>2 DEF ListWrite, At, Placed, DocSteps, Op
  <2>2. <<op[p].doc>> \o op[p].past \in Seq(Docs) /\ op[p].number + 1 \in Nat
    BY <2>1, Listed
  <2>3. /\ history' \in [Buckets -> Seq(Docs)] /\ count' \in [Buckets -> Nat]
        /\ \A b \in Buckets \ live : history'[b] = <<>>
    BY <1>0, <1>2, <2>2 DEF ListWrite, TypeOK
  <2>4. op' \in [Requests -> Op] => TypeOK'
    BY <1>0, <1>2, <2>3 DEF ListWrite, TypeOK, documents, Finish, Become
  <2> QED
    BY <1>2, <2>4, MoveIdle, TypedMove DEF ListWrite, documents
<1>3. CASE AccessWrite(p)
  <2>1. Changed(op[p]) \subseteq Agents
    BY <1>0, <1>3 DEF AccessWrite, At, Placed, Changed, Op
  <2>2. access' \in [Docs -> SUBSET Agents] /\ \A d \in Docs \ docs : access'[d] = {}
    BY <1>0, <1>3, <2>1 DEF AccessWrite, TypeOK
  <2>3. op' \in [Requests -> Op] => TypeOK'
    BY <1>0, <1>3, <2>2 DEF AccessWrite, TypeOK, buckets, Become
  <2> QED
    BY <1>3, <2>3, MoveAccessWrite, TypedMove DEF AccessWrite
<1>4. CASE AgentsWrite(p)
  <2> DEFINE new == IF op[p].change = "set" THEN op[p].todo ELSE Changed(op[p])
  <2>1. new \subseteq Agents
    BY <1>0, <1>4 DEF AgentsWrite, At, Placed, Changed, Op
  <2>2. members' = IF op[p].bucket \in live THEN [members EXCEPT ![op[p].bucket] = new] ELSE members
    BY <1>4 DEF AgentsWrite
  <2> HIDE DEF new
  <2>3. members' \in [Buckets -> SUBSET Agents] /\ \A b \in Buckets \ live : members'[b] = {}
    BY <1>0, <2>1, <2>2 DEF TypeOK
  <2>4. op' \in [Requests -> Op] => TypeOK'
    BY <1>0, <1>4, <2>3 DEF AgentsWrite, TypeOK, documents, Finish, Become
  <2> QED
    BY <1>4, <2>4, MoveIdle, TypedMove DEF AgentsWrite, documents
<1> QED
  BY <1>1, <1>2, <1>3, <1>4

(* Nothing a request waits for is in the way of the deletes.               *)
LEMMA TypedStill ==
  ASSUME Typing, UNCHANGED <<uploaded, op>>, TypeOK' PROVE Typing'
<1>1. Storing' = Storing
  BY DEF Storing, At
<1> QED
  BY <1>1 DEF Typing

LEMMA TypedDeletes ==
  ASSUME Typing,
         (\E d \in docs : DeleteDocument(d)) \/ (\E b \in live : DeleteBucket(b))
  PROVE  Typing'
<1>0. TypeOK /\ <<>> \in Seq(Docs)
  BY Numbers, EmptySeq
<1>1. CASE \E d \in docs : DeleteDocument(d)
  <2>1. PICK d \in docs : DeleteDocument(d)
    BY <1>1
  <2>2. /\ access' \in [Docs -> SUBSET Agents] /\ linked' \in [Docs -> SUBSET (Nat \ {0})]
        /\ \A e \in Docs \ docs' : access'[e] = {} /\ linked'[e] = {}
    BY <1>0, <2>1 DEF DeleteDocument, TypeOK
  <2>3. TypeOK'
    BY <1>0, <2>1, <2>2 DEF DeleteDocument, TypeOK, buckets
  <2> QED
    BY <2>1, <2>3, TypedStill DEF DeleteDocument
<1>2. CASE \E b \in live : DeleteBucket(b)
  <2>1. PICK b \in live : DeleteBucket(b)
    BY <1>2
  <2>2. /\ members' \in [Buckets -> SUBSET Agents] /\ history' \in [Buckets -> Seq(Docs)]
        /\ count' \in [Buckets -> Nat]
        /\ \A e \in Buckets \ live' : members'[e] = {} /\ history'[e] = <<>>
    BY <1>0, <2>1 DEF DeleteBucket, TypeOK
  <2>3. TypeOK'
    BY <1>0, <2>1, <2>2 DEF DeleteBucket, TypeOK, documents
  <2> QED
    BY <2>1, <2>3, TypedStill DEF DeleteBucket, documents
<1> QED
  BY <1>1, <1>2

LEMMA TypingStep == Typing /\ [Next]_vars => Typing'
<1> SUFFICES ASSUME Typing, [Next]_vars PROVE Typing'
  OBVIOUS
<1>1. CASE UNCHANGED vars
  <2>1. TypeOK'
    BY <1>1, Numbers DEF vars, documents, buckets, TypeOK
  <2> QED
    BY <1>1, <2>1, TypedStill DEF vars, documents
<1>2. ASSUME NEW p \in Requests, QuietStep(p) PROVE Typing'
  BY <1>2, Quiet, TypedQuiet
<1> QED
  BY <1>1, <1>2, TypedUpload, TypedStore, TypedWrites, TypedDeletes DEF Next, QuietStep

(* Access lists, links, agents and histories belong to rows.               *)
THEOREM TypeCorrect == Spec => []TypeOK
<1>1. Typing => TypeOK
  BY DEF Typing
<1> QED
  BY <1>1, TypingInit, TypingStep, PTL DEF Spec

-----------------------------------------------------------------------------
(* Who is alone between a read and a write of one list.                    *)

(* Nobody is alone who has a rival.                                        *)
AloneOK == \A p \in Requests : \A q \in Requests \ {p} : Rival(op[p], op[q]) => ~op[p].alone

LEMMA AloneMoved ==
  ASSUME AloneOK, NEW p \in Requests, NEW r, Moved(p, r),
         \A q \in Requests \ {p} : Rival(r, op[q]) => ~op'[p].alone /\ ~op'[q].alone
  PROVE  AloneOK'
<1> SUFFICES ASSUME NEW a \in Requests, NEW b \in Requests \ {a}, Rival(op'[a], op'[b])
             PROVE  ~op'[a].alone
  BY DEF AloneOK, Rival
<1>1. CASE a = p
  <2>1. Rival(r, op[b])
    BY <1>1 DEF Moved, Alike, Rival
  <2> QED
    BY <1>1, <2>1
<1>2. CASE b = p
  <2>1. Rival(r, op[a])
    BY <1>2 DEF Moved, Alike, Rival
  <2> QED
    BY <1>2, <2>1
<1>3. CASE a # p /\ b # p
  <2>1. Rival(op[a], op[b]) /\ (op'[a].alone => op[a].alone)
    BY <1>3 DEF Moved, Alike, Rival
  <2> QED
    BY <2>1 DEF AloneOK
<1> QED
  BY <1>1, <1>2, <1>3

LEMMA AloneFits ==
  ASSUME AloneOK, NEW p \in Requests, NEW r, Fits(p, r) PROVE AloneOK'
BY AloneMoved DEF Fits

(* What each step of a request is, seen from the lists.                    *)
LEMMA AloneStep == Typing /\ AloneOK /\ [Next]_vars => AloneOK'
<1> SUFFICES ASSUME Typing, AloneOK, [Next]_vars PROVE AloneOK'
  OBVIOUS
<1>1. ASSUME UNCHANGED op PROVE AloneOK'
  BY <1>1 DEF AloneOK, Rival
<1>2. ASSUME NEW p \in Requests, StartUpload(p) PROVE AloneOK'
  <2>1. PICK r \in Op : Moved(p, r) /\ r.pc = "store"
    BY <1>2, MoveUpload
  <2>2. \A q \in Requests \ {p} : ~Rival(r, op[q])
    BY <2>1 DEF Rival
  <2> QED
    BY <2>1, <2>2, AloneMoved
<1>3. ASSUME NEW p \in Requests, StoreDocument(p) PROVE AloneOK'
  <2>1. PICK r \in Op : Moved(p, r) /\ r.pc \notin Guarded
    BY <1>3, MoveStore
  <2>2. \A q \in Requests \ {p} : ~Rival(r, op[q])
    BY <2>1 DEF Rival, Guarded
  <2> QED
    BY <2>1, <2>2, AloneMoved
<1>4. ASSUME NEW p \in Requests, QuietStep(p) PROVE AloneOK'
  BY <1>4, Quiet, AloneFits
<1>5. ASSUME NEW p \in Requests, LinkWrite(p) \/ ListWrite(p) \/ AccessWrite(p) \/ AgentsWrite(p)
      PROVE  AloneOK'
  BY <1>5, MoveLinkWrite, MoveIdle, MoveAccessWrite, AloneFits
<1>6. ASSUME NEW d, DeleteDocument(d) \/ DeleteBucket(d) PROVE AloneOK'
  BY <1>1, <1>6 DEF DeleteDocument, DeleteBucket
<1> QED
  BY <1>1, <1>2, <1>3, <1>4, <1>5, <1>6 DEF Next, QuietStep, vars

-----------------------------------------------------------------------------
(* Revoked access stays away.                                              *)

(* What was revoked is in no access list, present or as it was read.       *)
RevokeOK ==
  /\ kept.revoked \subseteq (1 .. Len(uploaded)) \X Agents
  /\ \A x \in kept.revoked : x[1] \in docs => x[2] \notin access[x[1]]
  /\ \A p \in Requests : op[p].pc = "access_write" =>
       \A x \in kept.revoked : x[1] = op[p].doc /\ x[1] \in docs => x[2] \notin op[p].agents

(* The same for the agents of a bucket.                                    *)
RemoveOK ==
  /\ kept.removed \subseteq Buckets \X Agents
  /\ \A x \in kept.removed : x[1] \in live => x[2] \notin members[x[1]]
  /\ \A p \in Requests : op[p].pc = "agents_write" =>
       \A x \in kept.removed : x[1] = op[p].bucket /\ x[1] \in live => x[2] \notin op[p].agents

(* What was revoked, no request that was there before is still to give.    *)
GivenOK == \A p \in Requests : \A x \in kept.revoked : ~Gives(op[p], x[1], x[2])

KeptType == kept = [revoked |-> kept.revoked, removed |-> kept.removed, listed |-> kept.listed]

RightsInv == Typing /\ AloneOK /\ KeptType /\ RevokeOK /\ RemoveOK /\ GivenOK

LEMMA RevokeFrame ==
  ASSUME Typing, RevokeOK, kept'.revoked \subseteq kept.revoked,
         Len(uploaded') \in Nat, Len(uploaded) <= Len(uploaded'),
         \A d \in docs' : d \in 1 .. Len(uploaded) => d \in docs /\ access'[d] = access[d],
         \A q \in Requests : op'[q].pc = "access_write" =>
           op[q].pc = "access_write" /\ op'[q].doc = op[q].doc /\ op'[q].agents = op[q].agents
  PROVE  RevokeOK'
<1>1. kept'.revoked \subseteq (1 .. Len(uploaded)) \X Agents
  BY DEF RevokeOK
<1>2. Len(uploaded) \in Nat
  BY Numbers
<1>3. \A x \in kept'.revoked : x[1] \in 1 .. Len(uploaded) /\ x[1] \in 1 .. Len(uploaded') /\ x \in (1 .. Len(uploaded')) \X Agents
  BY <1>1, <1>2
<1>4. \A x \in kept'.revoked : x[1] \in docs' => x[1] \in docs /\ x[2] \notin access'[x[1]]
  BY <1>3 DEF RevokeOK
<1>5. ASSUME NEW q \in Requests, op'[q].pc = "access_write",
             NEW x \in kept'.revoked, x[1] = op'[q].doc, x[1] \in docs'
      PROVE  x[2] \notin op'[q].agents
  BY <1>4, <1>5 DEF RevokeOK
<1> QED
  BY <1>3, <1>4, <1>5 DEF RevokeOK

LEMMA RemoveFrame ==
  ASSUME RemoveOK, kept'.removed = kept.removed,
         \A b \in live' : b \in live /\ members'[b] = members[b],
         \A q \in Requests : op'[q].pc = "agents_write" =>
           op[q].pc = "agents_write" /\ op'[q].bucket = op[q].bucket /\ op'[q].agents = op[q].agents
  PROVE  RemoveOK'
BY DEF RemoveOK

(* A request that moves gives nothing that it was not to give before.      *)
LEMMA GivenFrame ==
  ASSUME GivenOK, NEW p \in Requests, NEW r, Moved(p, r), kept'.revoked \subseteq kept.revoked,
         \A x \in kept'.revoked : Gives(r, x[1], x[2]) => Gives(op[p], x[1], x[2])
  PROVE  GivenOK'
<1> SUFFICES ASSUME NEW q \in Requests, NEW x \in kept'.revoked, Gives(op'[q], x[1], x[2])
             PROVE  FALSE
  BY DEF GivenOK, Gives
<1>1. CASE q = p
  <2>1. Gives(r, x[1], x[2])
    BY <1>1 DEF Moved, Alike, Gives
  <2> QED
    BY <2>1 DEF GivenOK
<1>2. CASE q # p
  <2>1. Gives(op[q], x[1], x[2])
    BY <1>2 DEF Moved, Alike, Gives
  <2> QED
    BY <2>1 DEF GivenOK
<1> QED
  BY <1>1, <1>2

(* Neither the next agent of a loop nor what comes behind the loop gives   *)
(* more than was left.                                                     *)
LEMMA GivenGrant ==
  ASSUME NEW r \in Op, NEW d, NEW a, Gives(Grant(r), d, a)
  PROVE  r.change = "add" /\ r.doc = d /\ a \in r.todo
<1>1. CASE r.todo # {}
  <2> DEFINE s == [r EXCEPT !.pc = "access_read"]
  <2>1. Grant(r) = s
    BY <1>1 DEF Grant
  <2>2. s.pc = "access_read" /\ s.change = r.change /\ s.doc = r.doc /\ s.todo = r.todo
    BY DEF Op
  <2> HIDE DEF s
  <2> QED
    BY <2>1, <2>2 DEF Gives
<1>2. CASE r.todo = {}
  <2>1. Grant(r).pc \notin {"access_read", "access_write"}
    BY <1>2, IdleType DEF Grant, Chunk, Op
  <2> QED
    BY <2>1 DEF Gives
<1> QED
  BY <1>1, <1>2

(* A move of p to a record that is not about to write leaves the readers.  *)
LEMMA Readers ==
  ASSUME NEW p \in Requests, NEW r, Moved(p, r), NEW c, r.pc # c
  PROVE  \A q \in Requests : op'[q].pc = c =>
           /\ op[q].pc = c /\ op'[q].doc = op[q].doc /\ op'[q].bucket = op[q].bucket
           /\ op'[q].agents = op[q].agents
BY DEF Moved, Alike

LEMMA RightsQuiet ==
  ASSUME RightsInv, NEW p \in Requests, QuietStep(p)
  PROVE  KeptType' /\ RevokeOK' /\ RemoveOK'
<1>1. /\ UNCHANGED Stores
      /\ kept'.revoked \subseteq kept.revoked /\ kept'.removed = kept.removed /\ KeptType'
  <2>1. UNCHANGED Stores /\ (UNCHANGED kept \/ StartAccess(p))
    BY Quiet DEF RightsInv
  <2>2. UNCHANGED kept \/ \E S : kept' = [kept EXCEPT !.revoked = S] /\ S \subseteq kept.revoked
    <3>1. CASE StartAccess(p)
      <4>1. PICK d, a, k : kept' = [kept EXCEPT !.revoked = IF k = "add" THEN @ \ {<<d, a>>} ELSE @]
        BY <3>1 DEF StartAccess
      <4> DEFINE S == IF k = "add" THEN kept.revoked \ {<<d, a>>} ELSE kept.revoked
      <4>2. kept' = [kept EXCEPT !.revoked = S] /\ S \subseteq kept.revoked
        BY <4>1
      <4> QED
        BY <4>2
    <3> QED
      BY <2>1, <3>1
  <2> QED
    BY <2>1, <2>2 DEF RightsInv, KeptType
<1>2. KeptType'
  BY <1>1
<1>3. Len(uploaded) \in Nat /\ op[p] \in Op
  BY Numbers DEF RightsInv
<1>4. ASSUME NEW r, Moved(p, r), r.pc # "access_write" PROVE RevokeOK'
  BY <1>1, <1>3, <1>4, Readers, RevokeFrame DEF RightsInv, Stores, documents
<1>5. ASSUME NEW r, Moved(p, r), r.pc # "agents_write" PROVE RemoveOK'
  BY <1>1, <1>5, Readers, RemoveFrame DEF RightsInv, Stores, buckets
<1>6. CASE AccessRead(p)
  <2>1. PICK r : /\ Moved(p, r)
                 /\ \/ GrantOf(r, op[p])
                    \/ r.pc = "access_write" /\ r.doc = op[p].doc /\ r.agents = access[op[p].doc]
    BY <1>6, MoveAccessRead DEF RightsInv, Fits, SameUpload
  <2>2. r.pc # "agents_write"
    BY <2>1, IdleType DEF GrantOf
  <2>3. ASSUME r.pc # "access_write" PROVE RevokeOK'
    BY <1>4, <2>1, <2>3
  <2>4. ASSUME r.pc = "access_write", r.doc = op[p].doc, r.agents = access[op[p].doc] PROVE RevokeOK'
    <3>1. \A q \in Requests \ {p} : op'[q].pc = op[q].pc /\ op'[q].doc = op[q].doc /\ op'[q].agents = op[q].agents
      BY <2>1 DEF Moved, Alike
    <3>2. op'[p].doc = op[p].doc /\ op'[p].agents = access[op[p].doc]
      BY <2>1, <2>4 DEF Moved, Alike
    <3> QED
      BY <1>1, <3>1, <3>2 DEF RevokeOK, RightsInv, Stores, documents
  <2>5. r.pc = "access_write" => r.doc = op[p].doc /\ r.agents = access[op[p].doc]
    BY <2>1, IdleType DEF GrantOf
  <2> QED
    BY <1>2, <1>5, <2>1, <2>2, <2>3, <2>4, <2>5
<1>7. CASE AgentsRead(p)
  <2>1. PICK r : /\ Moved(p, r)
                 /\ \/ r = IdleOp
                    \/ r.pc = "agents_write" /\ r.bucket = op[p].bucket /\ r.agents = members[op[p].bucket]
    BY <1>7, MoveAgentsRead DEF RightsInv, Fits, SameUpload
  <2>2. r.pc # "access_write"
    BY <2>1, IdleType
  <2>3. ASSUME r.pc # "agents_write" PROVE RemoveOK'
    BY <1>5, <2>1, <2>3
  <2>4. ASSUME r.bucket = op[p].bucket, r.agents = members[op[p].bucket] PROVE RemoveOK'
    <3>1. \A q \in Requests \ {p} : op'[q].pc = op[q].pc /\ op'[q].bucket = op[q].bucket /\ op'[q].agents = op[q].agents
      BY <2>1 DEF Moved, Alike
    <3>2. op'[p].bucket = op[p].bucket /\ op'[p].agents = members[op[p].bucket]
      BY <2>1, <2>4 DEF Moved, Alike
    <3> QED
      BY <1>1, <3>1, <3>2 DEF RemoveOK, RightsInv, Stores, buckets
  <2> QED
    BY <1>2, <1>4, <2>1, <2>2, <2>3, <2>4, IdleType
<1>8. CASE CreateMemory(p)
  <2>1. \E r : Moved(p, r) /\ r.pc \in {"link_read", "chunk"}
    BY <1>8, MoveCreate DEF RightsInv, Fits
  <2> QED
    BY <1>2, <1>4, <1>5, <2>1
<1>9. CASE LinkRead(p)
  <2>1. \E r : Moved(p, r) /\ r.pc \in {"link_write", "list_read", "idle"}
    BY <1>9, MoveLinkRead, IdleType DEF RightsInv, Fits, ListingOf
  <2> QED
    BY <1>2, <1>4, <1>5, <2>1
<1>10. CASE ListRead(p)
  <2>1. \E r : Moved(p, r) /\ r.pc \in {"list_write", "idle"}
    BY <1>10, MoveListRead, IdleType DEF RightsInv, Fits
  <2> QED
    BY <1>2, <1>4, <1>5, <2>1
<1>11. CASE StartAccess(p) \/ StartAgents(p) \/ Fail(p)
  <2>1. \E r : Moved(p, r) /\ r.pc \in {"access_read", "agents_read", "idle"}
    BY <1>11, MoveStartAccess, MoveStartAgents, MoveIdle, IdleType DEF RightsInv, Fits
  <2> QED
    BY <1>2, <1>4, <1>5, <2>1
<1> QED
  BY <1>6, <1>7, <1>8, <1>9, <1>10, <1>11 DEF QuietStep

(* The steps of a request do not add to what it is to give.                *)
LEMMA GivenQuiet ==
  ASSUME RightsInv, NEW p \in Requests, QuietStep(p) PROVE GivenOK'
<1>0. op[p] \in Op /\ op \in [Requests -> Op]
  BY Numbers DEF RightsInv, TypeOK
<1>1. CASE StartAccess(p)
  <2>1. PICK d \in docs, a \in Agents, k \in {"add", "remove"} :
          /\ Begin(p, [IdleOp EXCEPT !.pc = "access_read", !.doc = d, !.todo = {a}, !.change = k])
          /\ kept' = [kept EXCEPT !.revoked = IF k = "add" THEN @ \ {<<d, a>>} ELSE @]
    BY <1>1 DEF StartAccess
  <2> DEFINE r == [IdleOp EXCEPT !.pc = "access_read", !.doc = d, !.todo = {a}, !.change = k]
  <2>2. op' = [op EXCEPT ![p] = r]
    BY <2>1 DEF Begin
  <2>3. r.pc = "access_read" /\ r.doc = d /\ r.todo = {a} /\ r.change = k
    BY DEF IdleOp
  <2>4. kept'.revoked = IF k = "add" THEN kept.revoked \ {<<d, a>>} ELSE kept.revoked
    BY <2>1 DEF RightsInv, KeptType
  <2> HIDE DEF r
  <2>5. kept.revoked \subseteq (1 .. Len(uploaded)) \X Agents
    BY DEF RightsInv, RevokeOK
  <2> SUFFICES ASSUME NEW q \in Requests, NEW x \in kept'.revoked, Gives(op'[q], x[1], x[2])
               PROVE  FALSE
    BY DEF GivenOK, Gives
  <2>6. x \in kept.revoked /\ x = <<x[1], x[2]>>
    BY <2>4, <2>5
  <2>7. CASE q = p
    <3>1. Gives(r, x[1], x[2])
      BY <1>0, <2>2, <2>7
    <3>2. k = "add" /\ x[1] = d /\ x[2] = a
      BY <2>3, <3>1 DEF Gives
    <3> QED
      BY <2>4, <2>6, <3>2
  <2>8. CASE q # p
    BY <1>0, <2>2, <2>6, <2>8 DEF RightsInv, GivenOK
  <2> QED
    BY <2>7, <2>8
<1>2. ASSUME ~StartAccess(p) PROVE UNCHANGED kept
  BY <1>2, Quiet DEF RightsInv
<1>3. CASE AccessRead(p)
  <2>1. /\ op[p].pc = "access_read" /\ UNCHANGED kept
        /\ \E a \in op[p].todo :
             LET r == [op[p] EXCEPT !.todo = @ \ {a}, !.agent = a]
             IN \/ ReadList(p, [r EXCEPT !.pc = "access_write", !.agents = access[op[p].doc]],
                            LAMBDA s : s.doc = op[p].doc)
                \/ Become(p, Grant(r))
    BY <1>3 DEF AccessRead, At
  <2>2. PICK a \in op[p].todo :
          LET r == [op[p] EXCEPT !.todo = @ \ {a}, !.agent = a]
          IN \/ ReadList(p, [r EXCEPT !.pc = "access_write", !.agents = access[op[p].doc]],
                         LAMBDA s : s.doc = op[p].doc)
             \/ Become(p, Grant(r))
    BY <2>1
  <2> DEFINE r == [op[p] EXCEPT !.todo = @ \ {a}, !.agent = a]
             w == [r EXCEPT !.pc = "access_write", !.agents = access[op[p].doc]]
  <2>3. /\ r.todo = op[p].todo \ {a} /\ r.agent = a /\ r.change = op[p].change /\ r.doc = op[p].doc
        /\ w.todo = op[p].todo \ {a} /\ w.agent = a /\ w.change = op[p].change /\ w.doc = op[p].doc
        /\ r \in Op
    BY <1>0 DEF Op
  <2>4. ASSUME NEW q \in Requests, NEW x \in kept.revoked, Gives(op'[q], x[1], x[2]) PROVE FALSE
    <3>1. CASE q = p /\ Become(p, Grant(r))
      <4>1. op'[p] = Grant(r)
        BY <1>0, <3>1 DEF Become
      <4> HIDE DEF r
      <4>2. Gives(op[p], x[1], x[2])
        BY <2>1, <2>3, <2>4, <3>1, <4>1, GivenGrant DEF Gives
      <4> QED
        BY <4>2 DEF RightsInv, GivenOK
    <3>2. CASE q = p /\ ReadList(p, w, LAMBDA s : s.doc = op[p].doc)
      <4>1. \E y : op'[p] = [w EXCEPT !.alone = y]
        BY <3>2 DEF ReadList
      <4>2. op'[p].change = w.change /\ op'[p].doc = w.doc /\ op'[p].todo = w.todo /\ op'[p].agent = w.agent
        BY <1>0, <4>1 DEF Op
      <4> HIDE DEF w, r
      <4>3. Gives(op[p], x[1], x[2])
        BY <2>1, <2>2, <2>3, <2>4, <3>2, <4>2 DEF Gives
      <4> QED
        BY <4>3 DEF RightsInv, GivenOK
    <3>3. CASE q # p
      <4>1. PICK s : Moved(p, s)
        BY <1>3, MoveAccessRead DEF RightsInv, Fits
      <4>2. Gives(op[q], x[1], x[2])
        BY <2>4, <3>3, <4>1 DEF Moved, Alike, Gives
      <4> QED
        BY <4>2 DEF RightsInv, GivenOK
    <3> QED
      BY <2>2, <3>1, <3>2, <3>3
  <2> QED
    BY <2>1, <2>4 DEF GivenOK, Gives
<1>4. ASSUME ~StartAccess(p), NEW r, Moved(p, r), r.pc \notin {"access_read", "access_write"}
      PROVE  GivenOK'
  <2>1. \A x : ~Gives(r, x[1], x[2])
    BY <1>4 DEF Gives
  <2> QED
    BY <1>2, <1>4, <2>1, GivenFrame DEF RightsInv
<1>5. CASE CreateMemory(p) \/ LinkRead(p) \/ ListRead(p)
  <2>1. \E r : Moved(p, r) /\ r.pc \in {"link_read", "chunk", "link_write", "list_read", "list_write", "idle"}
    BY <1>5, MoveCreate, MoveLinkRead, MoveListRead, IdleType DEF RightsInv, Fits, ListingOf
  <2> QED
    BY <1>1, <1>4, <2>1
<1>6. CASE StartAgents(p) \/ AgentsRead(p) \/ Fail(p)
  <2>1. \E r : Moved(p, r) /\ r.pc \in {"agents_read", "agents_write", "idle"}
    BY <1>6, MoveStartAgents, MoveAgentsRead, MoveIdle, IdleType DEF RightsInv, Fits
  <2> QED
    BY <1>1, <1>4, <2>1
<1> QED
  BY <1>1, <1>3, <1>5, <1>6 DEF QuietStep

LEMMA GivenOthers ==
  ASSUME RightsInv, NEW p \in Requests,
         \/ StartUpload(p) \/ StoreDocument(p) \/ LinkWrite(p) \/ ListWrite(p) \/ AgentsWrite(p)
  PROVE  GivenOK'
<1>0. op[p] \in Op /\ Len(uploaded) \in Nat /\ kept.revoked \subseteq (1 .. Len(uploaded)) \X Agents
  BY Numbers DEF RightsInv, RevokeOK
<1>1. kept'.revoked = kept.revoked
  <2>1. \/ UNCHANGED kept
        \/ \E S : kept' = [kept EXCEPT !.listed = S]
        \/ \E S : kept' = [kept EXCEPT !.removed = S]
    BY DEF StartUpload, StoreDocument, LinkWrite, ListWrite, AgentsWrite
  <2> QED
    BY <2>1 DEF RightsInv, KeptType
<1>2. ASSUME NEW r, Moved(p, r), r.pc \notin {"access_read", "access_write"} PROVE GivenOK'
  <2>1. \A x : ~Gives(r, x[1], x[2])
    BY <1>2 DEF Gives
  <2> QED
    BY <1>1, <1>2, <2>1, GivenFrame DEF RightsInv
<1>3. CASE StartUpload(p)
  <2>1. \E r \in Op : Moved(p, r) /\ r.pc = "store"
    BY <1>3, MoveUpload DEF RightsInv
  <2> QED
    BY <1>2, <2>1
<1>4. CASE StoreDocument(p)
  <2>1. PICK s \in Op, r \in Op : Moved(p, s) /\ r.doc = Len(uploaded) + 1 /\ GrantOf(s, r)
    BY <1>4, MoveStore DEF RightsInv
  <2>2. s.doc = Len(uploaded) + 1 \/ s.pc \notin {"access_read", "access_write"}
    BY <2>1, IdleType DEF GrantOf, SameUpload
  <2>3. \A x \in kept'.revoked : ~Gives(s, x[1], x[2])
    BY <1>0, <1>1, <2>2 DEF Gives
  <2> QED
    BY <1>1, <2>1, <2>3, GivenFrame DEF RightsInv
<1>5. CASE LinkWrite(p)
  <2>1. \E r : Moved(p, r) /\ r.pc \in {"list_read", "idle"}
    BY <1>5, MoveLinkWrite, IdleType DEF RightsInv, Fits, ListingOf
  <2> QED
    BY <1>2, <2>1
<1>6. CASE ListWrite(p) \/ AgentsWrite(p)
  <2>1. Moved(p, IdleOp) /\ IdleOp.pc = "idle"
    BY <1>6, MoveIdle, IdleType DEF RightsInv, Fits
  <2> QED
    BY <1>2, <2>1
<1> QED
  BY <1>3, <1>4, <1>5, <1>6

(* A revocation is kept only when nobody is still to give what it took.    *)
LEMMA GivenAccess ==
  ASSUME RightsInv, NEW p \in Requests, AccessWrite(p) PROVE GivenOK'
<1>0. op[p] \in Op /\ op \in [Requests -> Op] /\ op[p].pc = "access_write"
  BY Numbers DEF RightsInv, TypeOK, AccessWrite, At
<1>1. op' = [op EXCEPT ![p] = Grant(op[p])]
  BY DEF AccessWrite, Become
<1>2. ASSUME NEW q \in Requests, NEW d, NEW a, Gives(op'[q], d, a) PROVE Gives(op[q], d, a)
  <2>1. CASE q = p
    <3>1. Gives(Grant(op[p]), d, a)
      BY <1>0, <1>1, <1>2, <2>1
    <3> QED
      BY <1>0, <2>1, <3>1, GivenGrant DEF Gives
  <2>2. CASE q # p
    BY <1>0, <1>1, <1>2, <2>2
  <2> QED
    BY <2>1, <2>2
<1>3. ASSUME NEW x \in kept'.revoked
      PROVE  x \in kept.revoked \/ \A q \in Requests : ~Gives(op[q], x[1], x[2])
  <2> DEFINE d == op[p].doc
             S == IF /\ op[p].change = "remove" /\ op[p].alone
                     /\ \A q \in Requests : ~Gives(op[q], d, op[p].agent)
                  THEN kept.revoked \cup {<<d, op[p].agent>>} ELSE kept.revoked
  <2>1. UNCHANGED kept \/ kept' = [kept EXCEPT !.revoked = S]
    BY DEF AccessWrite
  <2>2. kept'.revoked = kept.revoked \/ kept'.revoked = S
    BY <2>1 DEF RightsInv, KeptType
  <2> QED
    BY <2>2
<1> SUFFICES ASSUME NEW q \in Requests, NEW x \in kept'.revoked, Gives(op'[q], x[1], x[2])
             PROVE  FALSE
  BY DEF GivenOK, Gives
<1> QED
  BY <1>2, <1>3 DEF RightsInv, GivenOK

LEMMA RightsUpload ==
  ASSUME RightsInv, NEW p \in Requests, StartUpload(p) \/ StoreDocument(p)
  PROVE  KeptType' /\ RevokeOK' /\ RemoveOK'
<1>0. /\ TypeOK /\ Len(uploaded) \in Nat
      /\ docs \subseteq 1 .. Len(uploaded) /\ 1 .. Len(uploaded) \subseteq Docs
  BY Numbers DEF RightsInv, TypeOK
<1>1. CASE StartUpload(p)
  <2>1. PICK r \in Op : Moved(p, r) /\ r.pc = "store" /\ UNCHANGED <<Stores, kept>>
    BY <1>1, MoveUpload DEF RightsInv
  <2>2. RevokeOK'
    BY <1>0, <2>1, Readers, RevokeFrame DEF RightsInv, Stores, documents
  <2>3. RemoveOK'
    BY <2>1, Readers, RemoveFrame DEF RightsInv, Stores, buckets
  <2> QED
    BY <2>1, <2>2, <2>3 DEF RightsInv, KeptType
<1>2. CASE StoreDocument(p)
  <2> DEFINE d == Len(uploaded) + 1
  <2>1. PICK r \in Op : Moved(p, r) /\ r.pc \notin Guarded
    BY <1>2, MoveStore DEF RightsInv
  <2>2. /\ docs' = docs \cup {d} /\ UNCHANGED <<buckets, kept>>
        /\ \E S : access' = [access EXCEPT ![d] = S]
        /\ \E row : uploaded' = Append(uploaded, row)
    BY <1>2 DEF StoreDocument
  <2>3. Len(uploaded') \in Nat /\ Len(uploaded) <= Len(uploaded')
    BY <1>2, TypedStore, Numbers, LenProperties, <1>0, <2>2 DEF RightsInv, TypeOK
  <2>4. \A e \in docs' : e \in 1 .. Len(uploaded) => e \in docs /\ access'[e] = access[e]
    BY <1>0, <2>2 DEF TypeOK
  <2>5. RevokeOK'
    BY <2>1, <2>2, <2>3, <2>4, Readers, RevokeFrame DEF RightsInv, Guarded
  <2>6. RemoveOK'
    BY <2>1, <2>2, Readers, RemoveFrame DEF RightsInv, Guarded, buckets
  <2> QED
    BY <2>2, <2>5, <2>6 DEF RightsInv, KeptType
<1> QED
  BY <1>1, <1>2

LEMMA RightsOthers ==
  ASSUME RightsInv, NEW p \in Requests, LinkWrite(p) \/ ListWrite(p)
  PROVE  KeptType' /\ RevokeOK' /\ RemoveOK'
<1>1. PICK r : Moved(p, r) /\ r.pc \notin Guarded
  <2>1. CASE LinkWrite(p)
    BY <2>1, MoveLinkWrite, IdleType DEF RightsInv, Fits, ListingOf, Guarded
  <2>2. CASE ListWrite(p)
    BY <2>2, MoveIdle, IdleType DEF RightsInv, Fits, Guarded
  <2> QED
    BY <2>1, <2>2
<1>2. UNCHANGED <<uploaded, docs, access, live, members>>
  BY DEF LinkWrite, ListWrite, buckets, documents
<1>3. KeptType' /\ kept'.revoked = kept.revoked /\ kept'.removed = kept.removed
  <2>1. \/ UNCHANGED kept
        \/ \E S : kept' = [kept EXCEPT !.listed = S]
    BY DEF LinkWrite, ListWrite
  <2> QED
    BY <2>1 DEF RightsInv, KeptType
<1>4. RevokeOK'
  BY <1>1, <1>2, <1>3, Numbers, Readers, RevokeFrame DEF RightsInv, Guarded
<1>5. RemoveOK'
  BY <1>1, <1>2, <1>3, Readers, RemoveFrame DEF RightsInv, Guarded
<1> QED
  BY <1>3, <1>4, <1>5

LEMMA RightsAccess ==
  ASSUME RightsInv, NEW p \in Requests, AccessWrite(p)
  PROVE  KeptType' /\ RevokeOK' /\ RemoveOK'
<1> DEFINE r == op[p]
           d == r.doc
           x == <<d, r.agent>>
           new == IF /\ r.change = "remove" /\ r.alone
                     /\ \A q \in Requests : ~Gives(op[q], d, r.agent)
                  THEN kept.revoked \cup {x} ELSE kept.revoked
<1>0. /\ TypeOK /\ r \in Op /\ r.pc = "access_write" /\ r.agent \in Agents
      /\ d \in 1 .. Len(uploaded) /\ d \in Docs /\ Len(uploaded) \in Nat
  BY Numbers DEF RightsInv, AccessWrite, At, Placed, DocSteps
<1>1. PICK s : Moved(p, s) /\ s.pc \notin Guarded
  BY MoveAccessWrite DEF RightsInv, Fits, GrantOf, IdleOp, Guarded
<1>2. UNCHANGED <<uploaded, docs, linked, buckets>>
  BY DEF AccessWrite
<1>3. CASE d \notin docs
  <2>1. UNCHANGED <<access, kept>>
    BY <1>3 DEF AccessWrite
  <2>2. RevokeOK'
    BY <1>0, <1>1, <1>2, <2>1, Readers, RevokeFrame DEF RightsInv, Guarded
  <2>3. RemoveOK'
    BY <1>1, <1>2, <2>1, Readers, RemoveFrame DEF RightsInv, Guarded, buckets
  <2> QED
    BY <2>1, <2>2, <2>3 DEF RightsInv, KeptType
<1>4. CASE d \in docs
  <2>1. access' = [access EXCEPT ![d] = Changed(r)] /\ kept' = [kept EXCEPT !.revoked = new]
    BY <1>4 DEF AccessWrite
  <2>2. kept'.revoked = new /\ kept'.removed = kept.removed /\ KeptType'
    BY <2>1 DEF RightsInv, KeptType
  <2>3. RemoveOK'
    BY <1>1, <1>2, <2>2, Readers, RemoveFrame DEF RightsInv, Guarded, buckets
  <2>4. new \subseteq (1 .. Len(uploaded)) \X Agents
    BY <1>0 DEF RightsInv, RevokeOK
  <2>5. ASSUME NEW y \in new, y[1] \in docs PROVE y[2] \notin access'[y[1]]
    <3>1. CASE y[1] # d
      BY <1>0, <2>1, <2>5, <3>1 DEF RightsInv, RevokeOK, TypeOK
    <3>2. CASE y[1] = d
      <4>1. access'[d] = Changed(r)
        BY <1>0, <2>1 DEF TypeOK
      <4>2. y \in kept.revoked => y[2] \notin r.agents
        BY <1>0, <2>5, <3>2 DEF RightsInv, RevokeOK
      <4>3. y \in kept.revoked /\ r.change = "add" => y[2] # r.agent
        BY <1>0, <3>2 DEF RightsInv, GivenOK, Gives
      <4>4. CASE y \in kept.revoked
        BY <3>2, <4>1, <4>2, <4>3, <4>4 DEF Changed
      <4>5. CASE y \notin kept.revoked
        <5>1. y = x /\ r.change = "remove"
          BY <4>5
        <5> QED
          BY <3>2, <4>1, <5>1 DEF Changed
      <4> QED
        BY <4>4, <4>5
    <3> QED
      BY <3>1, <3>2
  <2>6. ASSUME NEW q \in Requests, op'[q].pc = "access_write",
               NEW y \in new, y[1] = op'[q].doc, y[1] \in docs
        PROVE  y[2] \notin op'[q].agents
    <3>1. /\ q # p /\ op[q].pc = "access_write" /\ op'[q].doc = op[q].doc
          /\ op'[q].agents = op[q].agents
      BY <1>1, <2>6 DEF Moved, Alike, Guarded
    <3>2. CASE y \in kept.revoked
      BY <2>6, <3>1, <3>2 DEF RightsInv, RevokeOK
    <3>3. CASE y \notin kept.revoked
      <4>1. y = x /\ r.alone
        BY <3>3
      <4>2. Rival(op[p], op[q])
        BY <1>0, <2>6, <3>1, <4>1 DEF Rival
      <4> QED
        BY <3>1, <4>1, <4>2 DEF RightsInv, AloneOK
    <3> QED
      BY <3>2, <3>3
  <2> HIDE DEF new
  <2>7. RevokeOK'
    BY <1>2, <2>2, <2>4, <2>5, <2>6 DEF RevokeOK
  <2> QED
    BY <2>2, <2>3, <2>7
<1> QED
  BY <1>3, <1>4

LEMMA RightsAgents ==
  ASSUME RightsInv, NEW p \in Requests, AgentsWrite(p)
  PROVE  KeptType' /\ RevokeOK' /\ RemoveOK'
<1> DEFINE r == op[p]
           b == r.bucket
           x == <<b, r.agent>>
           list == IF r.change = "set" THEN r.todo ELSE Changed(r)
           new == IF r.change = "remove" /\ r.alone THEN kept.removed \cup {x}
                  ELSE IF r.change = "set" THEN kept.removed \ ({b} \X list)
                  ELSE IF r.change = "add" THEN kept.removed \ {x}
                  ELSE kept.removed
<1>0. /\ TypeOK /\ r \in Op /\ r.pc = "agents_write" /\ (r.change = "set" \/ r.agent \in Agents)
      /\ b \in Buckets /\ Len(uploaded) \in Nat
  BY Numbers DEF RightsInv, AgentsWrite, At, Placed
<1>1. PICK s : Moved(p, s) /\ s.pc \notin Guarded
  BY MoveIdle, IdleType DEF RightsInv, Fits, Guarded
<1>2. UNCHANGED <<documents, live, history, count>>
  BY DEF AgentsWrite
<1>3. CASE b \notin live
  <2>1. UNCHANGED <<members, kept>>
    BY <1>3 DEF AgentsWrite
  <2>2. RevokeOK'
    BY <1>0, <1>1, <1>2, <2>1, Readers, RevokeFrame DEF RightsInv, Guarded, documents
  <2>3. RemoveOK'
    BY <1>1, <1>2, <2>1, Readers, RemoveFrame DEF RightsInv, Guarded
  <2> QED
    BY <2>1, <2>2, <2>3 DEF RightsInv, KeptType
<1>4. CASE b \in live
  <2>1. members' = [members EXCEPT ![b] = list] /\ kept' = [kept EXCEPT !.removed = new]
    BY <1>4 DEF AgentsWrite
  <2>2. kept'.removed = new /\ kept'.revoked = kept.revoked /\ KeptType'
    BY <2>1 DEF RightsInv, KeptType
  <2>3. RevokeOK'
    BY <1>0, <1>1, <1>2, <2>2, Readers, RevokeFrame DEF RightsInv, Guarded, documents
  <2>4. new \subseteq Buckets \X Agents
    BY <1>0 DEF RightsInv, RemoveOK
  <2>5. ASSUME NEW y \in new, y[1] \in live PROVE y[2] \notin members'[y[1]]
    <3>0. y = <<y[1], y[2]>>
      BY <2>4
    <3>1. CASE y[1] # b
      BY <1>0, <2>1, <2>5, <3>1 DEF RightsInv, RemoveOK, TypeOK
    <3>2. CASE y[1] = b
      <4>1. members'[b] = list
        BY <1>0, <2>1 DEF TypeOK
      <4>2. y \in kept.removed => y[2] \notin r.agents
        BY <1>0, <2>5, <3>2 DEF RightsInv, RemoveOK
      <4>3. CASE r.change = "set"
        BY <3>0, <3>2, <4>1, <4>3
      <4>4. CASE r.change = "add"
        BY <3>0, <3>2, <4>1, <4>2, <4>4 DEF Changed
      <4>5. CASE r.change = "remove"
        BY <3>0, <3>2, <4>1, <4>2, <4>5 DEF Changed
      <4> QED
        BY <1>0, <4>3, <4>4, <4>5 DEF Op
    <3> QED
      BY <3>1, <3>2
  <2>6. ASSUME NEW q \in Requests, op'[q].pc = "agents_write",
               NEW y \in new, y[1] = op'[q].bucket, y[1] \in live
        PROVE  y[2] \notin op'[q].agents
    <3>1. /\ q # p /\ op[q].pc = "agents_write" /\ op'[q].bucket = op[q].bucket
          /\ op'[q].agents = op[q].agents
      BY <1>1, <2>6 DEF Moved, Alike, Guarded
    <3>2. CASE y \in kept.removed
      BY <2>6, <3>1, <3>2 DEF RightsInv, RemoveOK
    <3>3. CASE y \notin kept.removed
      <4>1. y = x /\ r.alone
        BY <3>3
      <4>2. Rival(op[p], op[q])
        BY <1>0, <2>6, <3>1, <4>1 DEF Rival
      <4> QED
        BY <3>1, <4>1, <4>2 DEF RightsInv, AloneOK
    <3> QED
      BY <3>2, <3>3
  <2> HIDE DEF new, list
  <2>7. RemoveOK'
    BY <1>2, <2>2, <2>4, <2>5, <2>6 DEF RemoveOK
  <2> QED
    BY <2>2, <2>3, <2>7
<1> QED
  BY <1>3, <1>4

LEMMA RightsDeletes ==
  ASSUME RightsInv,
         \/ \E d \in docs : DeleteDocument(d)
         \/ \E b \in live : DeleteBucket(b)
         \/ UNCHANGED vars
  PROVE  KeptType' /\ RevokeOK' /\ RemoveOK'
<1>0. TypeOK /\ Len(uploaded) \in Nat
  BY Numbers DEF RightsInv
<1>1. UNCHANGED <<uploaded, op, kept>>
  BY DEF DeleteDocument, DeleteBucket, documents, vars
<1>2. \A d \in docs' : d \in docs /\ access'[d] = access[d]
  <2>1. ASSUME NEW e \in docs, DeleteDocument(e) PROVE \A d \in docs' : d \in docs /\ access'[d] = access[d]
    BY <1>0, <2>1 DEF DeleteDocument, TypeOK
  <2> QED
    BY <2>1 DEF DeleteBucket, documents, vars
<1>3. \A b \in live' : b \in live /\ members'[b] = members[b]
  <2>1. ASSUME NEW e \in live, DeleteBucket(e) PROVE \A b \in live' : b \in live /\ members'[b] = members[b]
    BY <1>0, <2>1 DEF DeleteBucket, TypeOK
  <2> QED
    BY <2>1 DEF DeleteDocument, buckets, vars
<1>4. RevokeOK'
  BY <1>0, <1>1, <1>2, RevokeFrame DEF RightsInv
<1>5. RemoveOK'
  BY <1>1, <1>3, RemoveFrame DEF RightsInv
<1> QED
  BY <1>1, <1>4, <1>5 DEF RightsInv, KeptType

LEMMA RightsInit == Init => RightsInv
<1> SUFFICES ASSUME Init PROVE RightsInv
  OBVIOUS
<1>1. \A p \in Requests : op[p].pc = "idle"
  BY IdleType DEF Init
<1>2. kept = [revoked |-> {}, removed |-> {}, listed |-> {}]
  BY DEF Init
<1> QED
  BY <1>1, <1>2, TypingInit DEF RightsInv, AloneOK, Rival, KeptType, RevokeOK, RemoveOK, GivenOK

LEMMA RightsStep == RightsInv /\ [Next]_vars => RightsInv'
<1> SUFFICES ASSUME RightsInv, [Next]_vars PROVE RightsInv'
  OBVIOUS
<1>1. Typing' /\ AloneOK'
  BY TypingStep, AloneStep DEF RightsInv
<1>2. KeptType' /\ RevokeOK' /\ RemoveOK'
  BY RightsQuiet, RightsUpload, RightsOthers, RightsAccess, RightsAgents, RightsDeletes
     DEF Next, QuietStep
<1>3. GivenOK'
  <2>1. CASE UNCHANGED <<op, kept>>
    BY <2>1 DEF RightsInv, GivenOK, Gives
  <2> QED
    BY <2>1, GivenQuiet, GivenOthers, GivenAccess
       DEF Next, QuietStep, vars, DeleteDocument, DeleteBucket
<1> QED
  BY <1>1, <1>2, <1>3 DEF RightsInv

(* Access that was taken away comes back only by a grant asked for later,  *)
(* unless, when it was taken, a request was between the read and the write *)
(* of the same list or was still to give that access.                      *)
THEOREM RevocationsStick == Spec => []LoneRevokeSticks
<1>1. RightsInv => LoneRevokeSticks
  BY DEF RightsInv, RevokeOK, RemoveOK, LoneRevokeSticks
<1> QED
  BY <1>1, RightsInit, RightsStep, PTL DEF Spec

-----------------------------------------------------------------------------
(* Listed documents are complete.                                          *)

(* Document d names all its memories; up and ln are uploaded and linked.   *)
Whole(d, up, ln) == ln[d] = Pieces(up[d].text)

(* Whatever history s lists is whole, if it was to be and is still there.  *)
Complete(s, up, ds, ln) ==
  /\ ToSet(s) \subseteq 1 .. Len(up)
  /\ \A d \in ToSet(s) \cap ds : up[d].keep => Whole(d, up, ln)

(* An upload gets to the next part when the one before is done.            *)
WholeOK(r, up, ds, ln) ==
  /\ r.pc \in {"store", "access_read", "access_write"} => r.made = {}
  /\ r.pc \in DocSteps /\ (r.keep \/ r.bucket # None) =>
       up[r.doc].text = r.text /\ up[r.doc].keep = r.keep
  /\ r.pc \in {"chunk", "link_read", "link_write"} => r.keep /\ r.made \subseteq Pieces(r.text)
  /\ r.pc \in {"link_read", "link_write"} => Pieces(r.text) \subseteq r.made
  /\ r.pc \in {"list_read", "list_write"} =>
       r.bucket # None /\ (r.doc \in ds /\ r.keep => Whole(r.doc, up, ln))
  /\ r.pc = "list_write" => Complete(r.past, up, ds, ln)

WholeInv ==
  /\ Typing
  /\ \A p \in Requests : WholeOK(op[p], uploaded, docs, linked)
  /\ \A b \in Buckets : Complete(history[b], uploaded, docs, linked)
  /\ \A d \in docs : linked[d] \subseteq Pieces(uploaded[d].text)

(* What the steps of others do to a document: nothing, or they delete it,  *)
(* or they name all its memories.                                          *)
Grown ==
  /\ Len(uploaded) \in Nat /\ Len(uploaded') \in Nat /\ Len(uploaded) <= Len(uploaded')
  /\ \A d \in 1 .. Len(uploaded) :
       /\ uploaded'[d] = uploaded[d]
       /\ d \in docs' => d \in docs /\ (linked'[d] = linked[d] \/ Whole(d, uploaded', linked'))

LEMMA CompleteGrows ==
  ASSUME Grown, NEW s, Complete(s, uploaded, docs, linked)
  PROVE  Complete(s, uploaded', docs', linked')
<1>1. ToSet(s) \subseteq 1 .. Len(uploaded')
  BY DEF Complete, Grown
<1>2. ASSUME NEW d \in ToSet(s) \cap docs', uploaded'[d].keep PROVE Whole(d, uploaded', linked')
  <2>1. d \in 1 .. Len(uploaded)
    BY DEF Complete
  <2> QED
    BY <1>2, <2>1 DEF Complete, Grown, Whole
<1> QED
  BY <1>1, <1>2 DEF Complete

LEMMA WholeGrows ==
  ASSUME Grown, NEW r, Placed(r, Len(uploaded)), WholeOK(r, uploaded, docs, linked)
  PROVE  WholeOK(r, uploaded', docs', linked')
<1>1. r.pc = "list_write" => Complete(r.past, uploaded', docs', linked')
  BY CompleteGrows DEF WholeOK
<1>2. r.pc \in DocSteps =>
        /\ r.doc \in 1 .. Len(uploaded) /\ uploaded'[r.doc] = uploaded[r.doc]
        /\ r.doc \in docs' => r.doc \in docs /\ (linked'[r.doc] = linked[r.doc] \/ Whole(r.doc, uploaded', linked'))
  BY DEF Placed, Grown
<1>3. r.pc \in {"list_read", "list_write"} =>
        r.bucket # None /\ (r.doc \in docs' /\ r.keep => Whole(r.doc, uploaded', linked'))
  BY <1>2 DEF WholeOK, Whole, DocSteps
<1> QED
  BY <1>1, <1>2, <1>3 DEF WholeOK

LEMMA WholeAlike ==
  ASSUME NEW a, NEW b, Alike(a, b), NEW up, NEW ds, NEW ln, WholeOK(b, up, ds, ln)
  PROVE  WholeOK(a, up, ds, ln)
BY DEF Alike, WholeOK

LEMMA WholeMoved ==
  ASSUME WholeInv, Typing', NEW p \in Requests, NEW r, Moved(p, r), Grown,
         WholeOK(r, uploaded', docs', linked'),
         \A b \in Buckets : history'[b] = history[b] \/ Complete(history'[b], uploaded', docs', linked'),
         \A d \in docs' : linked'[d] \subseteq Pieces(uploaded'[d].text)
  PROVE  WholeInv'
<1>1. ASSUME NEW q \in Requests PROVE WholeOK(op'[q], uploaded', docs', linked')
  <2>1. CASE q = p
    BY <2>1, WholeAlike DEF Moved
  <2>2. CASE q # p
    <3>1. WholeOK(op[q], uploaded', docs', linked')
      BY WholeGrows DEF WholeInv, Typing
    <3> QED
      BY <2>2, <3>1, WholeAlike DEF Moved
  <2> QED
    BY <2>1, <2>2
<1>2. ASSUME NEW b \in Buckets PROVE Complete(history'[b], uploaded', docs', linked')
  BY CompleteGrows DEF WholeInv
<1> QED
  BY <1>1, <1>2 DEF WholeInv

LEMMA GrownStill ==
  ASSUME Typing, UNCHANGED <<uploaded, docs, linked>> PROVE Grown
<1>1. Len(uploaded) \in Nat
  BY Numbers
<1> QED
  BY <1>1 DEF Grown

LEMMA WholeStill ==
  ASSUME WholeInv, Typing', NEW p \in Requests, NEW r, Moved(p, r),
         UNCHANGED <<uploaded, docs, linked, history>>,
         WholeOK(r, uploaded, docs, linked)
  PROVE  WholeInv'
<1>1. Grown
  BY GrownStill DEF WholeInv
<1>2. /\ WholeOK(r, uploaded', docs', linked')
      /\ \A d \in docs' : linked'[d] \subseteq Pieces(uploaded'[d].text)
      /\ \A b \in Buckets : history'[b] = history[b]
  BY DEF WholeInv
<1> QED
  BY <1>1, <1>2, WholeMoved

LEMMA WholeIdle ==
  ASSUME NEW up, NEW ds, NEW ln PROVE WholeOK(IdleOp, up, ds, ln)
BY IdleType DEF WholeOK, DocSteps

LEMMA WholeGrant ==
  ASSUME NEW r, NEW s, NEW up, NEW ds, NEW ln, GrantOf(s, r), r.made = {},
         r.keep \/ r.bucket # None => up[r.doc].text = r.text /\ up[r.doc].keep = r.keep
  PROVE  WholeOK(s, up, ds, ln)
<1>1. CASE s = IdleOp
  BY <1>1, WholeIdle
<1>2. CASE s # IdleOp
  BY <1>2 DEF GrantOf, SameUpload, WholeOK, DocSteps
<1> QED
  BY <1>1, <1>2

LEMMA WholeListing ==
  ASSUME NEW r, NEW s, NEW up, NEW ds, NEW ln, ListingOf(s, r),
         r.keep \/ r.bucket # None => up[r.doc].text = r.text /\ up[r.doc].keep = r.keep,
         r.doc \in ds => Whole(r.doc, up, ln)
  PROVE  WholeOK(s, up, ds, ln)
<1>1. CASE s = IdleOp
  BY <1>1, WholeIdle
<1>2. CASE s # IdleOp
  BY <1>2 DEF ListingOf, SameUpload, WholeOK, DocSteps
<1> QED
  BY <1>1, <1>2

LEMMA WholeQuiet ==
  ASSUME WholeInv, Typing', NEW p \in Requests, QuietStep(p) PROVE WholeInv'
<1>0. /\ UNCHANGED <<uploaded, docs, linked, history>>
      /\ op[p] \in Op /\ WholeOK(op[p], uploaded, docs, linked)
      /\ Placed(op[p], Len(uploaded)) /\ docs \subseteq 1 .. Len(uploaded)
  BY Quiet, Numbers DEF WholeInv, Stores, documents, buckets, TypeOK
<1>1. ASSUME NEW r, Fits(p, r), WholeOK(r, uploaded, docs, linked) PROVE WholeInv'
  BY <1>0, <1>1, WholeStill DEF Fits
<1>2. CASE CreateMemory(p)
  <2>1. PICK r : /\ Fits(p, r) /\ SameUpload(r, op[p])
                 /\ \/ /\ r.pc = "link_read" /\ r.made = op[p].made
                       /\ Pieces(op[p].text) \subseteq op[p].made
                    \/ /\ r.pc = "chunk"
                       /\ \E k \in Pieces(op[p].text) : r.made = op[p].made \cup {k}
    BY <1>2, MoveCreate DEF WholeInv
  <2>2. op[p].pc = "chunk"
    BY <1>2 DEF CreateMemory, At
  <2>3. WholeOK(r, uploaded, docs, linked)
    BY <1>0, <2>1, <2>2 DEF WholeOK, SameUpload, DocSteps
  <2> QED
    BY <1>1, <2>1, <2>3
<1>3. CASE LinkRead(p)
  <2>1. PICK r : /\ Fits(p, r)
                 /\ \/ /\ op[p].doc \in docs /\ r.pc = "link_write" /\ SameUpload(r, op[p])
                       /\ r.made = op[p].made \cup linked[op[p].doc]
                    \/ op[p].doc \notin docs /\ ListingOf(r, op[p])
    BY <1>3, MoveLinkRead DEF WholeInv
  <2>2. op[p].pc = "link_read"
    BY <1>3 DEF LinkRead, At
  <2>3. /\ uploaded[op[p].doc].text = op[p].text /\ uploaded[op[p].doc].keep = op[p].keep
        /\ op[p].keep /\ op[p].made = Pieces(op[p].text)
    BY <1>0, <2>2 DEF WholeOK, DocSteps
  <2>4. CASE op[p].doc \in docs
    <3>1. linked[op[p].doc] \subseteq Pieces(op[p].text)
      BY <2>3, <2>4 DEF WholeInv
    <3>2. WholeOK(r, uploaded, docs, linked)
      BY <2>1, <2>3, <2>4, <3>1 DEF WholeOK, SameUpload, DocSteps
    <3> QED
      BY <1>1, <2>1, <3>2
  <2>5. CASE op[p].doc \notin docs
    BY <1>1, <2>1, <2>3, <2>5, WholeListing
  <2> QED
    BY <2>4, <2>5
<1>4. CASE ListRead(p)
  <2>1. PICK r : /\ Fits(p, r)
                 /\ \/ r = IdleOp
                    \/ /\ op[p].bucket \in live /\ r.pc = "list_write" /\ SameUpload(r, op[p])
                       /\ r.past = history[op[p].bucket]
    BY <1>4, MoveListRead DEF WholeInv
  <2>2. op[p].pc = "list_read" /\ op[p].bucket \in Buckets
    BY <1>0, <1>4 DEF ListRead, At, Placed
  <2>3. ASSUME r # IdleOp PROVE WholeOK(r, uploaded, docs, linked)
    <3>1. Complete(r.past, uploaded, docs, linked)
      BY <2>1, <2>2, <2>3 DEF WholeInv
    <3> QED
      BY <1>0, <2>1, <2>2, <2>3, <3>1 DEF WholeOK, SameUpload, DocSteps
  <2> QED
    BY <1>1, <2>1, <2>3, WholeIdle
<1>5. CASE AccessRead(p)
  <2>1. PICK r : /\ Fits(p, r)
                 /\ \/ GrantOf(r, op[p])
                    \/ r.pc = "access_write" /\ SameUpload(r, op[p]) /\ r.made = op[p].made
    BY <1>5, MoveAccessRead DEF WholeInv
  <2>2. op[p].pc = "access_read"
    BY <1>5 DEF AccessRead, At
  <2>3. /\ op[p].made = {}
        /\ op[p].keep \/ op[p].bucket # None =>
             uploaded[op[p].doc].text = op[p].text /\ uploaded[op[p].doc].keep = op[p].keep
    BY <1>0, <2>2 DEF WholeOK, DocSteps
  <2>4. CASE GrantOf(r, op[p])
    BY <1>1, <2>1, <2>3, <2>4, WholeGrant
  <2>5. CASE r.pc = "access_write" /\ SameUpload(r, op[p]) /\ r.made = op[p].made
    <3>1. WholeOK(r, uploaded, docs, linked)
      BY <2>3, <2>5 DEF WholeOK, SameUpload, DocSteps
    <3> QED
      BY <1>1, <2>1, <3>1
  <2> QED
    BY <2>1, <2>4, <2>5
<1>6. CASE StartAccess(p)
  <2>1. PICK r : Fits(p, r) /\ r.pc = "access_read" /\ r.bucket = None /\ ~r.keep /\ r.made = {}
    BY <1>6, MoveStartAccess DEF WholeInv
  <2>2. WholeOK(r, uploaded, docs, linked)
    BY <2>1 DEF WholeOK, DocSteps
  <2> QED
    BY <1>1, <2>1, <2>2
<1>7. CASE StartAgents(p) \/ AgentsRead(p) \/ Fail(p)
  <2>1. PICK r : Fits(p, r) /\ r.pc \in {"agents_read", "agents_write", "idle"}
    BY <1>7, MoveStartAgents, MoveAgentsRead, MoveIdle, IdleType DEF WholeInv
  <2>2. WholeOK(r, uploaded, docs, linked)
    BY <2>1 DEF WholeOK, DocSteps
  <2> QED
    BY <1>1, <2>1, <2>2
<1> QED
  BY <1>2, <1>3, <1>4, <1>5, <1>6, <1>7 DEF QuietStep

LEMMA WholeUpload ==
  ASSUME WholeInv, Typing', NEW p \in Requests, StartUpload(p) PROVE WholeInv'
<1>1. PICK r \in Op : Moved(p, r) /\ r.pc = "store" /\ r.made = {} /\ UNCHANGED Stores
  BY MoveUpload DEF WholeInv
<1>2. WholeOK(r, uploaded, docs, linked)
  BY <1>1 DEF WholeOK, DocSteps
<1> QED
  BY <1>1, <1>2, WholeStill DEF Stores, documents, buckets

LEMMA WholeStore ==
  ASSUME WholeInv, Typing', NEW p \in Requests, StoreDocument(p) PROVE WholeInv'
<1> DEFINE d == Len(uploaded) + 1
           row == [text |-> op[p].text, keep |-> op[p].keep]
<1>0. /\ TypeOK /\ Len(uploaded) \in Nat /\ op[p] \in Op /\ op[p].pc = "store"
      /\ WholeOK(op[p], uploaded, docs, linked) /\ op[p].made = {}
      /\ docs \subseteq 1 .. Len(uploaded)
  BY Numbers DEF WholeInv, StoreDocument, At, WholeOK, TypeOK
<1>1. PICK s \in Op, r \in Op :
        /\ Moved(p, s) /\ r.doc = d /\ r.text = op[p].text /\ r.keep = op[p].keep
        /\ r.bucket = op[p].bucket /\ r.made = op[p].made /\ GrantOf(s, r)
  BY MoveStore DEF WholeInv
<1>2. uploaded' = Append(uploaded, row) /\ docs' = docs \cup {d} /\ UNCHANGED <<linked, history>>
  <2>1. /\ [op[p] EXCEPT !.doc = d].text = op[p].text
        /\ [op[p] EXCEPT !.doc = d].keep = op[p].keep
    BY <1>0 DEF Op
  <2> QED
    BY <2>1 DEF StoreDocument, buckets
<1>3. row \in [text : Uploads, keep : BOOLEAN] /\ row.text = op[p].text /\ row.keep = op[p].keep
  BY <1>0 DEF Op, StoreDocument, At, Placed, WholeInv, Typing
<1> HIDE DEF row
<1>4. /\ Len(uploaded') = d /\ uploaded'[d] = row
      /\ \A e \in 1 .. Len(uploaded) : uploaded'[e] = uploaded[e]
  BY <1>0, <1>2, <1>3, AppendProperties DEF TypeOK
<1>5. Grown
  <2>1. d \notin 1 .. Len(uploaded)
    BY <1>0
  <2> QED
    BY <1>0, <1>2, <1>4, <2>1 DEF Grown
<1>6. WholeOK(s, uploaded', docs', linked')
  BY <1>0, <1>1, <1>3, <1>4, WholeGrant
<1>7. \A e \in docs' : linked'[e] \subseteq Pieces(uploaded'[e].text)
  <2>1. d \in Docs /\ d \notin docs
    <3>1. d \in 1 .. Len(uploaded')
      BY <1>0, <1>4
    <3>2. (1 .. Len(uploaded') \subseteq Docs)
      <4>1. Typing' => (1 .. Len(uploaded) \subseteq Docs)'
        BY Numbers, PTL
      <4> QED
        BY <4>1
    <3> QED
      BY <1>0, <3>1, <3>2
  <2>2. linked[d] = {}
    BY <1>0, <2>1 DEF TypeOK
  <2>3. \A e \in docs : linked[e] \subseteq Pieces(uploaded'[e].text)
    BY <1>0, <1>4 DEF WholeInv
  <2> QED
    BY <1>2, <2>2, <2>3
<1> QED
  BY <1>1, <1>2, <1>5, <1>6, <1>7, WholeMoved

LEMMA WholeWrites ==
  ASSUME WholeInv, Typing', NEW p \in Requests,
         LinkWrite(p) \/ ListWrite(p) \/ AccessWrite(p) \/ AgentsWrite(p)
  PROVE  WholeInv'
<1>0. /\ TypeOK /\ op[p] \in Op /\ Placed(op[p], Len(uploaded)) /\ Len(uploaded) \in Nat
      /\ WholeOK(op[p], uploaded, docs, linked) /\ docs \subseteq 1 .. Len(uploaded)
      /\ 1 .. Len(uploaded) \subseteq Docs
  BY Numbers DEF WholeInv, TypeOK
<1>1. CASE LinkWrite(p)
  <2> DEFINE r == op[p]
             d == r.doc
  <2>1. /\ r.pc = "link_write" /\ d \in 1 .. Len(uploaded) /\ d \in Docs
        /\ linked' = IF d \in docs THEN [linked EXCEPT ![d] = r.made] ELSE linked
        /\ UNCHANGED <<uploaded, docs, history>>
    BY <1>0, <1>1 DEF LinkWrite, At, buckets, Placed, DocSteps
  <2>2. uploaded[d].text = r.text /\ uploaded[d].keep = r.keep /\ r.made = Pieces(r.text)
    BY <1>0, <2>1 DEF WholeOK, DocSteps
  <2>3. d \in docs => linked'[d] = Pieces(uploaded[d].text)
    BY <1>0, <2>1, <2>2 DEF TypeOK
  <2>4. \A e \in Docs : e # d => linked'[e] = linked[e]
    BY <1>0, <2>1 DEF TypeOK
  <2>5. Grown
    BY <1>0, <2>1, <2>3, <2>4 DEF Grown, Whole
  <2>6. Moved(p, Listing(r)) /\ ListingOf(Listing(r), r)
    BY <1>1, MoveLinkWrite DEF WholeInv, Fits
  <2>7. WholeOK(Listing(r), uploaded', docs', linked')
    BY <2>1, <2>2, <2>3, <2>6, WholeListing DEF Whole
  <2>8. \A e \in docs' : linked'[e] \subseteq Pieces(uploaded'[e].text)
    BY <1>0, <2>1, <2>3, <2>4 DEF WholeInv
  <2> QED
    BY <2>1, <2>5, <2>6, <2>7, <2>8, WholeMoved
<1>2. CASE ListWrite(p)
  <2> DEFINE d == op[p].doc
             b == op[p].bucket
             s == op[p].past
  <2>1. /\ op[p].pc = "list_write" /\ d \in 1 .. Len(uploaded) /\ d \in Docs /\ b \in Buckets
        /\ history' = IF b \in live THEN [history EXCEPT ![b] = <<d>> \o s] ELSE history
        /\ UNCHANGED <<uploaded, docs, linked>>
    BY <1>0, <1>2 DEF ListWrite, At, documents, Placed, DocSteps
  <2>2. Complete(s, uploaded, docs, linked) /\ (d \in docs /\ op[p].keep => Whole(d, uploaded, linked))
        /\ uploaded[d].keep = op[p].keep
    BY <1>0, <2>1 DEF WholeOK, DocSteps
  <2>3. ToSet(<<d>> \o s) = {d} \cup ToSet(s)
    BY <1>0, <2>1, Listed DEF Op
  <2>4. Complete(<<d>> \o s, uploaded, docs, linked)
    BY <2>1, <2>2, <2>3 DEF Complete
  <2>5. \A c \in Buckets : history'[c] = history[c] \/ Complete(history'[c], uploaded', docs', linked')
    BY <1>0, <2>1, <2>4 DEF TypeOK
  <2>6. Moved(p, IdleOp) /\ WholeOK(IdleOp, uploaded', docs', linked')
    BY <1>2, MoveIdle, WholeIdle DEF WholeInv, Fits
  <2>7. Grown
    BY <2>1, GrownStill DEF WholeInv
  <2>8. \A e \in docs' : linked'[e] \subseteq Pieces(uploaded'[e].text)
    BY <2>1 DEF WholeInv
  <2> QED
    BY <2>5, <2>6, <2>7, <2>8, WholeMoved
<1>3. CASE AccessWrite(p)
  <2>1. op[p].pc = "access_write" /\ UNCHANGED <<uploaded, docs, linked, history>>
    BY <1>3 DEF AccessWrite, At, buckets
  <2>2. Moved(p, Grant(op[p])) /\ GrantOf(Grant(op[p]), op[p])
    BY <1>3, MoveAccessWrite DEF WholeInv, Fits
  <2>3. WholeOK(Grant(op[p]), uploaded, docs, linked)
    BY <1>0, <2>1, <2>2, WholeGrant DEF WholeOK, DocSteps
  <2> QED
    BY <2>1, <2>2, <2>3, WholeStill
<1>4. CASE AgentsWrite(p)
  <2>1. UNCHANGED <<uploaded, docs, linked, history>> /\ Moved(p, IdleOp)
    BY <1>4, MoveIdle DEF AgentsWrite, documents, WholeInv, Fits
  <2> QED
    BY <2>1, WholeIdle, WholeStill
<1> QED
  BY <1>1, <1>2, <1>3, <1>4

LEMMA WholeDeletes ==
  ASSUME WholeInv, Typing',
         \/ \E d \in docs : DeleteDocument(d)
         \/ \E b \in live : DeleteBucket(b)
         \/ UNCHANGED vars
  PROVE  WholeInv'
<1>0. TypeOK /\ Len(uploaded) \in Nat /\ docs \subseteq 1 .. Len(uploaded)
  BY Numbers DEF WholeInv, TypeOK
<1>1. UNCHANGED <<uploaded, op>>
  BY DEF DeleteDocument, DeleteBucket, documents, vars
<1>2. \A e \in docs' : e \in docs /\ linked'[e] = linked[e]
  <2>1. ASSUME NEW d \in docs, DeleteDocument(d)
        PROVE  \A e \in docs' : e \in docs /\ linked'[e] = linked[e]
    BY <1>0, <2>1 DEF DeleteDocument, TypeOK
  <2> QED
    BY <2>1 DEF DeleteBucket, documents, vars
<1>3. Grown
  BY <1>0, <1>1, <1>2 DEF Grown
<1>4. \A q \in Requests : WholeOK(op'[q], uploaded', docs', linked')
  BY <1>1, <1>3, WholeGrows DEF WholeInv, Typing
<1>5. \A c \in Buckets : history'[c] = history[c] \/ history'[c] = <<>>
  BY <1>0 DEF DeleteDocument, DeleteBucket, buckets, vars, TypeOK
<1>6. Complete(<<>>, uploaded', docs', linked')
  BY DEF Complete, ToSet
<1>7. \A c \in Buckets : Complete(history'[c], uploaded', docs', linked')
  BY <1>3, <1>5, <1>6, CompleteGrows DEF WholeInv
<1>8. \A e \in docs' : linked'[e] \subseteq Pieces(uploaded'[e].text)
  BY <1>1, <1>2 DEF WholeInv
<1> QED
  BY <1>4, <1>7, <1>8 DEF WholeInv

LEMMA WholeInit == Init => WholeInv
<1> SUFFICES ASSUME Init PROVE WholeInv
  OBVIOUS
<1>1. \A p \in Requests : WholeOK(op[p], uploaded, docs, linked)
  BY WholeIdle DEF Init
<1>2. \A b \in Buckets : history[b] = <<>>
  BY DEF Init
<1>3. Complete(<<>>, uploaded, docs, linked)
  BY DEF Complete, ToSet
<1>4. docs = {}
  BY DEF Init
<1> QED
  BY <1>1, <1>2, <1>3, <1>4, TypingInit DEF WholeInv

LEMMA WholeStep == WholeInv /\ [Next]_vars => WholeInv'
<1> SUFFICES ASSUME WholeInv, [Next]_vars PROVE WholeInv'
  OBVIOUS
<1>1. Typing'
  BY TypingStep DEF WholeInv
<1> QED
  BY <1>1, WholeQuiet, WholeUpload, WholeStore, WholeWrites, WholeDeletes DEF Next, QuietStep

(* A listed document that was to have memories has one for every chunk.    *)
THEOREM ListedComplete == Spec => []ListedIsWhole
<1>1. ASSUME WholeInv PROVE ListedIsWhole
  <2>1. live \subseteq Buckets
    BY <1>1, Numbers DEF WholeInv, TypeOK
  <2> QED
    BY <1>1, <2>1 DEF WholeInv, Complete, Whole, Pieces, ListedIsWhole
<1> QED
  BY <1>1, WholeInit, WholeStep, PTL DEF Spec

-----------------------------------------------------------------------------
(* Uploads are in the history of their bucket.                             *)

(* An upload into a bucket, after its document is stored.                  *)
Uploading(r) == r.pc \in DocSteps /\ r.bucket # None

(* History s of bucket b, with count n, has all it must have, once each.   *)
ListedBy(s, n, b) ==
  /\ n = Len(s) /\ IsInjective(s) /\ ToSet(s) \subseteq 1 .. Len(uploaded)
  /\ \A x \in kept.listed : x[1] = b /\ b \in live => x[2] \in ToSet(s)

(* An upload that is under way is in no history, written or about to be.   *)
Unlisted ==
  /\ \A p \in Requests : Uploading(op[p]) =>
       /\ \A b \in Buckets : op[p].doc \notin ToSet(history[b])
       /\ \A q \in Requests : op[q].pc = "list_write" => op[p].doc \notin ToSet(op[q].past)
  /\ \A p \in Requests, q \in Requests :
       p # q /\ Uploading(op[p]) /\ Uploading(op[q]) => op[p].doc # op[q].doc

Histories ==
  /\ kept.listed \subseteq Buckets \X Docs
  /\ \A b \in Buckets : ListedBy(history[b], count[b], b)
  /\ \A p \in Requests : op[p].pc = "list_write" =>
       ListedBy(op[p].past, op[p].number, op[p].bucket)

ListInv == RightsInv /\ Unlisted /\ Histories

LEMMA ListMoved ==
  ASSUME ListInv, RightsInv', NEW p \in Requests, NEW r, Moved(p, r),
         UNCHANGED <<history, count, live>>, kept'.listed = kept.listed,
         Len(uploaded) <= Len(uploaded'),
         Uploading(r) => \/ Uploading(op[p]) /\ r.doc = op[p].doc
                         \/ r.doc \notin 1 .. Len(uploaded),
         r.pc = "list_write" => /\ r.bucket \in Buckets /\ r.past = history[r.bucket]
                                /\ r.number = count[r.bucket]
  PROVE  ListInv'
<1>0. /\ Len(uploaded) \in Nat /\ Len(uploaded') \in Nat
      /\ \A q \in Requests : Placed(op[q], Len(uploaded))
  <2>1. Typing' => (Len(uploaded) \in Nat)'
    BY Numbers, PTL
  <2> QED
    BY <2>1, Numbers DEF ListInv, RightsInv
<1>1. \A s, n, b : ListedBy(s, n, b) => /\ n = Len(s) /\ IsInjective(s)
                                        /\ ToSet(s) \subseteq 1 .. Len(uploaded')
                                        /\ \A x \in kept'.listed : x[1] = b /\ b \in live' => x[2] \in ToSet(s)
  BY <1>0 DEF ListedBy
<1>2. \A b \in Buckets : ListedBy(history[b], count[b], b)'
  <2> SUFFICES ASSUME NEW b \in Buckets PROVE ListedBy(history[b], count[b], b)'
    OBVIOUS
  <2>1. ListedBy(history[b], count[b], b)
    BY DEF ListInv, Histories
  <2>2. history'[b] = history[b] /\ count'[b] = count[b]
    OBVIOUS
  <2> QED
    BY <1>1, <2>1, <2>2 DEF ListedBy
<1>3. ASSUME NEW q \in Requests, op'[q].pc = "list_write"
      PROVE  /\ ListedBy(op[q].past, op[q].number, op[q].bucket)'
             /\ \/ q # p /\ op[q].pc = "list_write" /\ op'[q].past = op[q].past
                \/ \E b \in Buckets : op'[q].past = history[b]
  <2>1. CASE q = p
    <3>1. op'[q].bucket = r.bucket /\ op'[q].past = r.past /\ op'[q].number = r.number /\ r.pc = "list_write"
      BY <1>3, <2>1 DEF Moved, Alike
    <3>2. ListedBy(history[r.bucket], count[r.bucket], r.bucket)
      BY <3>1 DEF ListInv, Histories
    <3> QED
      BY <1>1, <3>1, <3>2 DEF ListedBy
  <2>2. CASE q # p
    <3>1. /\ op'[q].bucket = op[q].bucket /\ op'[q].past = op[q].past
          /\ op'[q].number = op[q].number /\ op[q].pc = "list_write"
      BY <1>3, <2>2 DEF Moved, Alike
    <3>2. ListedBy(op[q].past, op[q].number, op[q].bucket)
      BY <3>1 DEF ListInv, Histories
    <3> QED
      BY <1>1, <2>2, <3>1, <3>2 DEF ListedBy
  <2> QED
    BY <2>1, <2>2
<1>4. Histories'
  BY <1>2, <1>3 DEF ListInv, Histories
<1>5. ASSUME NEW q \in Requests, Uploading(op'[q])
      PROVE  \/ Uploading(op[q]) /\ op'[q].doc = op[q].doc
             \/ q = p /\ op'[q].doc \notin 1 .. Len(uploaded)
  BY <1>5 DEF Moved, Alike, Uploading
<1>6. \A q \in Requests : Uploading(op[q]) => op[q].doc \in 1 .. Len(uploaded)
  BY <1>0 DEF Placed, Uploading
<1>7. \A b \in Buckets : ToSet(history[b]) \subseteq 1 .. Len(uploaded)
  BY DEF ListInv, Histories, ListedBy
<1>8. \A q \in Requests : op[q].pc = "list_write" => ToSet(op[q].past) \subseteq 1 .. Len(uploaded)
  BY DEF ListInv, Histories, ListedBy
<1>9. ASSUME NEW a \in Requests, Uploading(op'[a]), NEW b \in Buckets
      PROVE  op'[a].doc \notin ToSet(history'[b])
  BY <1>5, <1>7, <1>9 DEF ListInv, Unlisted
<1>10. ASSUME NEW a \in Requests, Uploading(op'[a]), NEW q \in Requests, op'[q].pc = "list_write"
       PROVE  op'[a].doc \notin ToSet(op'[q].past)
  <2>1. CASE \E b \in Buckets : op'[q].past = history[b]
    BY <1>5, <1>7, <1>10, <2>1 DEF ListInv, Unlisted
  <2>2. CASE op[q].pc = "list_write" /\ op'[q].past = op[q].past
    BY <1>5, <1>8, <1>10, <2>2 DEF ListInv, Unlisted
  <2> QED
    BY <1>3, <1>10, <2>1, <2>2
<1>11. ASSUME NEW a \in Requests, NEW b \in Requests, a # b, Uploading(op'[a]), Uploading(op'[b])
       PROVE  op'[a].doc # op'[b].doc
  BY <1>5, <1>6, <1>11 DEF ListInv, Unlisted
<1>12. Unlisted'
  BY <1>9, <1>10, <1>11 DEF Unlisted
<1> QED
  BY <1>4, <1>12 DEF ListInv

LEMMA ListQuiet ==
  ASSUME ListInv, RightsInv', NEW p \in Requests, QuietStep(p) PROVE ListInv'
<1>0. /\ UNCHANGED <<uploaded, history, count, live>> /\ kept'.listed = kept.listed
      /\ Len(uploaded) <= Len(uploaded') /\ Placed(op[p], Len(uploaded)) /\ op[p] \in Op
      /\ Typing
  <2>1. Len(uploaded) \in Nat /\ Placed(op[p], Len(uploaded)) /\ op[p] \in Op
    BY Numbers DEF ListInv, RightsInv
  <2>2. kept'.listed = kept.listed
    <3>1. UNCHANGED kept \/ \E S : kept' = [kept EXCEPT !.revoked = S]
      <4>1. CASE StartAccess(p)
        BY <4>1 DEF StartAccess
      <4> QED
        BY <4>1, Quiet DEF ListInv, RightsInv
    <3> QED
      BY <3>1 DEF ListInv, RightsInv, KeptType
  <2> QED
    BY <2>1, <2>2, Quiet DEF ListInv, RightsInv, Stores, documents, buckets
<1>1. ASSUME NEW r, Fits(p, r), r.pc # "list_write",
             Uploading(r) => Uploading(op[p]) /\ r.doc = op[p].doc
      PROVE  ListInv'
  BY <1>0, <1>1, ListMoved DEF Fits
<1>2. CASE CreateMemory(p)
  <2>1. PICK r : Fits(p, r) /\ SameUpload(r, op[p]) /\ r.pc \in {"link_read", "chunk"}
    BY <1>0, <1>2, MoveCreate
  <2> QED
    BY <1>1, <1>2, <2>1 DEF Uploading, SameUpload, CreateMemory, At, DocSteps
<1>3. CASE LinkRead(p)
  <2>1. PICK r : Fits(p, r) /\ (ListingOf(r, op[p]) \/ (r.pc = "link_write" /\ SameUpload(r, op[p])))
    BY <1>0, <1>3, MoveLinkRead
  <2> QED
    BY <1>1, <1>3, <2>1, IdleType DEF Uploading, SameUpload, ListingOf, LinkRead, At, DocSteps
<1>4. CASE ListRead(p)
  <2>1. PICK r : /\ Fits(p, r)
                 /\ \/ r = IdleOp
                    \/ /\ r.pc = "list_write" /\ SameUpload(r, op[p])
                       /\ r.past = history[op[p].bucket] /\ r.number = count[op[p].bucket]
    BY <1>0, <1>4, MoveListRead
  <2>2. op[p].pc = "list_read" /\ op[p].bucket \in Buckets
    BY <1>0, <1>4 DEF ListRead, At, Placed
  <2>3. Uploading(r) => Uploading(op[p]) /\ r.doc = op[p].doc
    BY <2>1, <2>2, IdleType DEF Uploading, SameUpload, DocSteps
  <2>4. r.pc = "list_write" => /\ r.bucket \in Buckets /\ r.past = history[r.bucket]
                               /\ r.number = count[r.bucket]
    BY <2>1, <2>2, IdleType DEF SameUpload
  <2> QED
    BY <1>0, <2>1, <2>3, <2>4, ListMoved DEF Fits
<1>5. CASE AccessRead(p)
  <2>1. PICK r : Fits(p, r) /\ (GrantOf(r, op[p]) \/ (r.pc = "access_write" /\ SameUpload(r, op[p])))
    BY <1>0, <1>5, MoveAccessRead
  <2> QED
    BY <1>1, <1>5, <2>1, IdleType DEF Uploading, SameUpload, GrantOf, AccessRead, At, DocSteps
<1>6. CASE StartAccess(p)
  <2>1. PICK r : Fits(p, r) /\ r.pc = "access_read" /\ r.bucket = None
    BY <1>0, <1>6, MoveStartAccess
  <2> QED
    BY <1>1, <2>1 DEF Uploading
<1>7. CASE StartAgents(p) \/ AgentsRead(p) \/ Fail(p)
  <2>1. PICK r : Fits(p, r) /\ r.pc \in {"agents_read", "agents_write", "idle"}
    BY <1>0, <1>7, MoveStartAgents, MoveAgentsRead, MoveIdle, IdleType
  <2> QED
    BY <1>1, <2>1 DEF Uploading, DocSteps
<1> QED
  BY <1>2, <1>3, <1>4, <1>5, <1>6, <1>7 DEF QuietStep

LEMMA ListOthers ==
  ASSUME ListInv, RightsInv', NEW p \in Requests,
         StartUpload(p) \/ StoreDocument(p) \/ LinkWrite(p) \/ AccessWrite(p) \/ AgentsWrite(p)
  PROVE  ListInv'
<1>0. /\ Typing /\ KeptType /\ Len(uploaded) \in Nat /\ Placed(op[p], Len(uploaded)) /\ op[p] \in Op
  BY Numbers DEF ListInv, RightsInv
<1>1. CASE StartUpload(p)
  <2>1. PICK r \in Op : Moved(p, r) /\ r.pc = "store" /\ UNCHANGED <<Stores, kept>>
    BY <1>0, <1>1, MoveUpload
  <2> QED
    BY <1>0, <2>1, ListMoved DEF Uploading, DocSteps, Stores, documents, buckets
<1>2. CASE StoreDocument(p)
  <2>1. PICK s \in Op, r \in Op :
          Moved(p, s) /\ s.pc \notin Guarded /\ r.doc = Len(uploaded) + 1 /\ GrantOf(s, r)
    BY <1>0, <1>2, MoveStore
  <2>2. Uploading(s) => s.doc \notin 1 .. Len(uploaded)
    BY <1>0, <2>1, IdleType DEF Uploading, GrantOf, SameUpload, DocSteps
  <2>3. UNCHANGED <<history, count, live, kept>> /\ \E row : uploaded' = Append(uploaded, row)
    BY <1>2 DEF StoreDocument, buckets
  <2>4. Len(uploaded) <= Len(uploaded')
    BY <1>0, <2>3, LenProperties DEF Typing, TypeOK
  <2> QED
    BY <2>1, <2>2, <2>3, <2>4, ListMoved DEF Guarded
<1>3. CASE LinkWrite(p)
  <2>1. /\ op[p].pc = "link_write" /\ Moved(p, Listing(op[p])) /\ ListingOf(Listing(op[p]), op[p])
        /\ UNCHANGED <<uploaded, history, count, live, kept>>
    BY <1>0, <1>3, MoveLinkWrite DEF LinkWrite, At, Fits, buckets
  <2>2. Uploading(Listing(op[p])) => Uploading(op[p]) /\ Listing(op[p]).doc = op[p].doc
    BY <2>1, IdleType DEF Uploading, ListingOf, SameUpload, DocSteps
  <2>3. Listing(op[p]).pc # "list_write"
    BY <2>1, IdleType DEF ListingOf
  <2> QED
    BY <1>0, <2>1, <2>2, <2>3, ListMoved
<1>4. CASE AccessWrite(p)
  <2>1. /\ op[p].pc = "access_write" /\ Moved(p, Grant(op[p])) /\ GrantOf(Grant(op[p]), op[p])
        /\ UNCHANGED <<uploaded, history, count, live>>
    BY <1>0, <1>4, MoveAccessWrite DEF AccessWrite, At, Fits, buckets
  <2>2. kept'.listed = kept.listed
    <3>1. UNCHANGED kept \/ \E S : kept' = [kept EXCEPT !.revoked = S]
      BY <1>4 DEF AccessWrite
    <3> QED
      BY <1>0, <3>1 DEF KeptType
  <2>3. Uploading(Grant(op[p])) => Uploading(op[p]) /\ Grant(op[p]).doc = op[p].doc
    BY <2>1, IdleType DEF Uploading, GrantOf, SameUpload, DocSteps
  <2>4. Grant(op[p]).pc # "list_write"
    BY <2>1, IdleType DEF GrantOf
  <2> QED
    BY <1>0, <2>1, <2>2, <2>3, <2>4, ListMoved
<1>5. CASE AgentsWrite(p)
  <2>1. Moved(p, IdleOp) /\ UNCHANGED <<uploaded, history, count, live>>
    BY <1>0, <1>5, MoveIdle DEF AgentsWrite, Fits, documents
  <2>2. kept'.listed = kept.listed
    <3>1. UNCHANGED kept \/ \E S : kept' = [kept EXCEPT !.removed = S]
      BY <1>5 DEF AgentsWrite
    <3> QED
      BY <1>0, <3>1 DEF KeptType
  <2>3. ~Uploading(IdleOp) /\ IdleOp.pc # "list_write"
    BY IdleType DEF Uploading, DocSteps
  <2> QED
    BY <1>0, <2>1, <2>2, <2>3, ListMoved
<1> QED
  BY <1>1, <1>2, <1>3, <1>4, <1>5

LEMMA ListWrites ==
  ASSUME ListInv, RightsInv', NEW p \in Requests, ListWrite(p) PROVE ListInv'
<1> PICK b, d, s : b = op[p].bucket /\ d = op[p].doc /\ s = <<d>> \o op[p].past
  OBVIOUS
<1>0. /\ Typing /\ TypeOK /\ KeptType /\ Len(uploaded) \in Nat /\ op[p] \in Op
      /\ op[p].pc = "list_write" /\ b \in Buckets /\ d \in 1 .. Len(uploaded) /\ d \in Docs
      /\ op[p].past \in Seq(Docs)
      /\ \A q \in Requests : Placed(op[q], Len(uploaded))
  <2>1. Typing /\ TypeOK /\ KeptType /\ Len(uploaded) \in Nat /\ op[p] \in Op /\ Placed(op[p], Len(uploaded))
        /\ \A q \in Requests : Placed(op[q], Len(uploaded))
    BY Numbers DEF ListInv, RightsInv
  <2>2. op[p].pc = "list_write"
    BY DEF ListWrite, At
  <2> QED
    BY <2>1, <2>2, Numbers DEF Placed, DocSteps, Op
<1>1. Moved(p, IdleOp) /\ UNCHANGED <<uploaded, live>>
  BY <1>0, MoveIdle DEF ListWrite, Fits, documents
<1>2. ~Uploading(IdleOp) /\ IdleOp.pc # "list_write"
  BY IdleType DEF Uploading, DocSteps
<1>3. CASE b \notin live
  <2>1. UNCHANGED <<history, count, kept>>
    BY <1>3 DEF ListWrite
  <2> QED
    BY <1>0, <1>1, <1>2, <2>1, ListMoved
<1>4. CASE b \in live
  <2>1. /\ history' = [history EXCEPT ![b] = s]
        /\ count' = [count EXCEPT ![b] = op[p].number + 1]
        /\ kept' = IF op[p].alone THEN [kept EXCEPT !.listed = @ \cup {<<b, d>>}] ELSE kept
    BY <1>4 DEF ListWrite
  <2>2. /\ history'[b] = s /\ count'[b] = op[p].number + 1
        /\ \A e \in Buckets \ {b} : history'[e] = history[e] /\ count'[e] = count[e]
    BY <1>0, <2>1 DEF TypeOK
  <2>3. kept'.listed = IF op[p].alone THEN kept.listed \cup {<<b, d>>} ELSE kept.listed
    BY <1>0, <2>1 DEF KeptType
  <2>4. Uploading(op[p])
    BY <1>0, KnowledgeAssumption DEF Uploading, DocSteps
  <2>5. d \notin ToSet(op[p].past)
    BY <1>0, <2>4 DEF ListInv, Unlisted
  <2>6. ListedBy(op[p].past, op[p].number, b)
    BY <1>0 DEF ListInv, Histories
  <2>7. Len(s) = op[p].number + 1 /\ ToSet(s) = {d} \cup ToSet(op[p].past) /\ IsInjective(s)
    BY <1>0, <2>5, <2>6, Listed DEF ListedBy
  <2>8. ListedBy(history[b], count[b], b)'
    <3>1. ToSet(s) \subseteq 1 .. Len(uploaded')
      BY <1>0, <1>1, <2>6, <2>7 DEF ListedBy
    <3>2. \A x \in kept'.listed : x[1] = b /\ b \in live' => x[2] \in ToSet(s)
      BY <1>1, <2>3, <2>6, <2>7 DEF ListedBy
    <3> QED
      BY <2>2, <3>1, <3>2, <2>7 DEF ListedBy
  <2>9. ASSUME NEW e \in Buckets \ {b} PROVE ListedBy(history[e], count[e], e)'
    <3>1. ListedBy(history[e], count[e], e)
      BY DEF ListInv, Histories
    <3> QED
      BY <1>1, <2>2, <2>3, <3>1 DEF ListedBy
  <2>10. ASSUME NEW q \in Requests, op'[q].pc = "list_write"
         PROVE  /\ q # p /\ op[q].pc = "list_write" /\ op'[q].past = op[q].past
                /\ ListedBy(op[q].past, op[q].number, op[q].bucket)'
    <3>1. q # p /\ op[q].pc = "list_write" /\ op'[q].past = op[q].past
          /\ op'[q].number = op[q].number /\ op'[q].bucket = op[q].bucket
      BY <1>1, <1>2, <2>10 DEF Moved, Alike
    <3>2. ListedBy(op[q].past, op[q].number, op[q].bucket)
      BY <3>1 DEF ListInv, Histories
    <3>3. op[p].alone => op[q].bucket # b
      BY <1>0, <3>1 DEF ListInv, RightsInv, AloneOK, Rival
    <3> QED
      BY <1>1, <2>3, <3>1, <3>2, <3>3 DEF ListedBy
  <2>11. kept'.listed \subseteq Buckets \X Docs
    BY <1>0, <2>3 DEF ListInv, Histories
  <2>12. Histories'
    <3>1. \A e \in Buckets : ListedBy(history[e], count[e], e)'
      BY <2>8, <2>9
    <3> QED
      BY <2>10, <2>11, <3>1 DEF Histories
  <2>13. ASSUME NEW q \in Requests, Uploading(op'[q])
         PROVE  q # p /\ Uploading(op[q]) /\ op'[q].doc = op[q].doc
    BY <1>1, <1>2, <2>13 DEF Moved, Alike, Uploading
  <2>14. ASSUME NEW q \in Requests, Uploading(op'[q])
         PROVE  \A e \in Buckets : op'[q].doc \notin ToSet(history'[e])
    <3>1. op[q].doc # d /\ op[q].doc \notin ToSet(op[p].past)
      BY <1>0, <2>4, <2>13, <2>14 DEF ListInv, Unlisted
    <3>2. \A e \in Buckets : op[q].doc \notin ToSet(history[e])
      BY <2>13, <2>14 DEF ListInv, Unlisted
    <3> QED
      BY <2>2, <2>7, <2>13, <2>14, <3>1, <3>2
  <2>15. Unlisted'
    BY <2>10, <2>13, <2>14 DEF ListInv, Unlisted
  <2> QED
    BY <2>12, <2>15 DEF ListInv
<1> QED
  BY <1>3, <1>4

LEMMA ListStill ==
  ASSUME ListInv, RightsInv', UNCHANGED <<uploaded, op, kept>>, live' \subseteq live,
         \A b \in Buckets : \/ history'[b] = history[b] /\ count'[b] = count[b]
                            \/ history'[b] = <<>> /\ count'[b] = 0 /\ b \notin live'
  PROVE  ListInv'
<1>1. ASSUME NEW b \in Buckets
      PROVE  ListedBy(history[b], count[b], b)' /\ ToSet(history'[b]) \subseteq ToSet(history[b])
  <2>1. CASE history'[b] = history[b] /\ count'[b] = count[b]
    <3>1. ListedBy(history[b], count[b], b)
      BY DEF ListInv, Histories
    <3> QED
      BY <2>1, <3>1 DEF ListedBy
  <2>2. CASE history'[b] = <<>> /\ count'[b] = 0 /\ b \notin live'
    <3>1. ToSet(<<>>) = {} /\ IsInjective(<<>>) /\ Len(<<>>) = 0
      BY EmptySeq DEF ToSet, IsInjective
    <3> QED
      BY <2>2, <3>1 DEF ListedBy
  <2> QED
    BY <2>1, <2>2
<1>2. ASSUME NEW q \in Requests, op[q].pc = "list_write"
      PROVE  ListedBy(op[q].past, op[q].number, op[q].bucket)'
  <2>1. ListedBy(op[q].past, op[q].number, op[q].bucket)
    BY <1>2 DEF ListInv, Histories
  <2> QED
    BY <2>1 DEF ListedBy
<1>3. Histories'
  BY <1>1, <1>2 DEF ListInv, Histories
<1>4. Unlisted'
  BY <1>1 DEF ListInv, Unlisted
<1> QED
  BY <1>3, <1>4 DEF ListInv

LEMMA ListDeletes ==
  ASSUME ListInv, RightsInv',
         \/ UNCHANGED vars
         \/ \E d \in docs : DeleteDocument(d)
         \/ \E b \in live : DeleteBucket(b)
  PROVE  ListInv'
<1>1. CASE UNCHANGED vars
  BY <1>1, ListStill DEF vars, documents, buckets
<1>2. CASE \E d \in docs : DeleteDocument(d)
  BY <1>2, ListStill DEF DeleteDocument, buckets
<1>3. CASE \E b \in live : DeleteBucket(b)
  <2>1. PICK b \in live : DeleteBucket(b)
    BY <1>3
  <2>2. TypeOK
    BY Numbers DEF ListInv, RightsInv
  <2> QED
    BY <2>1, <2>2, ListStill DEF DeleteBucket, TypeOK, documents
<1> QED
  BY <1>1, <1>2, <1>3

LEMMA ListInit == Init => ListInv
<1> SUFFICES ASSUME Init PROVE ListInv
  OBVIOUS
<1>1. RightsInv
  BY RightsInit
<1>2. \A p \in Requests : op[p].pc = "idle"
  BY IdleType DEF Init
<1>3. ToSet(<<>>) = {} /\ IsInjective(<<>>) /\ Len(<<>>) = 0
  BY EmptySeq DEF ToSet, IsInjective
<1>4. kept.listed = {} /\ \A b \in Buckets : history[b] = <<>> /\ count[b] = 0
  BY DEF Init
<1>5. Unlisted
  BY <1>2 DEF Unlisted, Uploading, DocSteps
<1>6. Histories
  BY <1>2, <1>3, <1>4 DEF Histories, ListedBy
<1> QED
  BY <1>1, <1>5, <1>6 DEF ListInv

LEMMA ListStep == ListInv /\ [Next]_vars => ListInv'
<1> SUFFICES ASSUME ListInv, [Next]_vars PROVE ListInv'
  OBVIOUS
<1>1. RightsInv'
  BY RightsStep DEF ListInv
<1> QED
  BY <1>1, ListQuiet, ListOthers, ListWrites, ListDeletes DEF Next, QuietStep

(* An upload whose entry was written with no other write of the history    *)
(* of its bucket in between stays in that history while the bucket lives,  *)
(* nothing is listed twice, and the count is the length of the history.    *)
THEOREM UploadsListed == Spec => []LoneUploadIsListed
<1>1. ASSUME ListInv PROVE LoneUploadIsListed
  <2>1. live \subseteq Buckets
    BY <1>1, Numbers DEF ListInv, RightsInv, TypeOK
  <2> QED
    BY <1>1, <2>1 DEF ListInv, Histories, ListedBy, LoneUploadIsListed
<1> QED
  BY <1>1, ListInit, ListStep, PTL DEF Spec

-----------------------------------------------------------------------------
(* Cutting a text into chunks.  What is shown for every position of a text *)
(* is shown by looking at the last one for which it would fail.            *)

LEMMA LastFailure ==
  ASSUME NEW n \in Nat, NEW S \in SUBSET (0 .. n), S # {}
  PROVE  \E s \in S : \A r \in S : r <= s
<1> DEFINE D == {n - s : s \in S}
<1>1. D \in SUBSET Nat /\ D # {}
  <2>1. \A s \in S : n - s \in Nat
    OBVIOUS
  <2>2. \A d \in D : d \in Nat
    BY <2>1
  <2>3. \E d : d \in D
    OBVIOUS
  <2> QED
    BY <2>2, <2>3
<1> HIDE DEF D
<1>2. PICK d \in D : \A c \in D : d <= c
  BY <1>1, Least
<1>3. PICK s \in S : d = n - s
  BY <1>2 DEF D
<1>4. \A r \in S : n - s <= n - r
  BY <1>2, <1>3 DEF D
<1>5. \A r \in S : r <= s
  BY <1>4
<1> QED
  BY <1>5

(* A chunk ends behind its start and within the size; if it ends before    *)
(* the size, it is longer than the overlap.                                *)
LEMMA ChunkEnds ==
  ASSUME NEW t \in Texts, NEW s \in 0 .. Len(t), s # Len(t)
  PROVE  LET e == ChunkEnd(t, s)
         IN /\ Len(t) \in Nat /\ e \in s + 1 .. Len(t)
            /\ NextStart(t, s) \in s + 1 .. Len(t)
            /\ e = Len(t) \/ NextStart(t, s) = e - Overlap
<1> DEFINE n == Len(t)
           l == Limit(t, s)
           e == ChunkEnd(t, s)
<1>1. n \in Nat
  BY KnowledgeAssumption, LenProperties
<1>2. ChunkSize \in Nat /\ ChunkSize > 0 /\ Overlap \in Nat /\ 2 * Overlap <= ChunkSize
  BY KnowledgeAssumption
<1> HIDE DEF n
<1>3. l \in s + 1 .. n /\ (l = n \/ l = s + ChunkSize)
  <2> DEFINE M == {s + ChunkSize, n}
  <2>1. M \in SUBSET Nat /\ M # {} /\ l = Min(M)
    BY <1>1, <1>2 DEF Limit, n
  <2>2. Min(M) \in M /\ \A k \in M : Min(M) <= k
    <3> HIDE DEF M
    <3> QED
      BY <2>1, MinIn
  <2>3. Min(M) <= n
    BY <2>2
  <2> HIDE DEF l
  <2> QED
    BY <1>1, <1>2, <2>1, <2>2, <2>3 DEF n
<1> HIDE DEF l
<1>4. CASE l < n /\ Cuts(t, s) # {}
  <2> DEFINE C == Cuts(t, s)
  <2>1. C \subseteq 0 .. n /\ C # {}
    <3>1. \A k \in C : k \in s + 1 .. l
      BY DEF Cuts, l
    <3>2. s + 1 .. l \subseteq 0 .. n
      BY <1>1, <1>3
    <3>3. C # {}
      BY <1>4
    <3> HIDE DEF C
    <3> QED
      BY <3>1, <3>2, <3>3
  <2> HIDE DEF C
  <2>2. \E x \in C : \A y \in C : x >= y
    BY <1>1, <2>1, LastFailure
  <2>3. Max(C) \in C
    BY <2>2 DEF Max
  <2>4. e = Max(C)
    BY <1>4 DEF ChunkEnd, C, l, n
  <2>5. e \in s + 1 .. l /\ 2 * (e - s - 1) > ChunkSize
    BY <2>3, <2>4 DEF C, Cuts, l
  <2> HIDE DEF e
  <2>6. e - s > Overlap
    BY <1>1, <1>2, <1>3, <2>5
  <2>7. NextStart(t, s) = e - Overlap
    BY <1>1, <1>2, <1>3, <2>5, <2>6 DEF NextStart, e
  <2>8. e \in s + 1 .. n /\ e - Overlap \in s + 1 .. n
    BY <1>1, <1>2, <1>3, <2>5, <2>6
  <2> QED
    BY <1>1, <2>7, <2>8 DEF e, n
<1>5. CASE ~(l < n /\ Cuts(t, s) # {})
  <2>1. e = l
    BY <1>5 DEF ChunkEnd, l, n
  <2>2. NextStart(t, s) = IF l - s <= Overlap THEN l ELSE l - Overlap
    BY <2>1 DEF NextStart, l
  <2>3. l - s <= Overlap => l = n
    BY <1>1, <1>2, <1>3
  <2> HIDE DEF e
  <2> QED
    BY <1>1, <1>2, <1>3, <2>1, <2>2, <2>3 DEF e, n
<1> QED
  BY <1>4, <1>5

(* The chunks from s on, when f gives those from the next start on.        *)
Cut(t, f, s) ==
  IF s = Len(t) THEN <<>>
  ELSE Trim(t, s, ChunkEnd(t, s)) \o f[NextStart(t, s)]

Spans == Seq(Nat \X Nat)

(* Trimming leaves one piece, from the first to the last character that is *)
(* not blank, or none.                                                     *)
LEMMA SpanType ==
  ASSUME NEW t, NEW s \in Nat, NEW e \in Nat
  PROVE  /\ Trim(t, s, e) \in Spans
         /\ \A k \in s + 1 .. e : ~Blank(t[k]) =>
              \E c \in Nat \X Nat : /\ Trim(t, s, e) = <<c>>
                                    /\ \A j \in s + 1 .. e : ~Blank(t[j]) => c[1] < j /\ j <= c[2]
<1> DEFINE W == {k \in s + 1 .. e : ~Blank(t[k])}
           c == <<Min(W) - 1, Max(W)>>
<1>1. Trim(t, s, e) = IF W = {} THEN <<>> ELSE <<c>>
  BY DEF Trim
<1>2. W \in SUBSET Nat /\ W \in SUBSET (0 .. e) /\ \A k \in W : k > 0
  OBVIOUS
<1>3. ASSUME W # {}
      PROVE  /\ Min(W) \in W /\ Max(W) \in W
             /\ \A k \in W : Min(W) <= k /\ k <= Max(W)
  <2> HIDE DEF W
  <2>1. \E x \in W : \A y \in W : y <= x
    BY <1>2, <1>3, LastFailure
  <2>2. \E x \in W : \A y \in W : x >= y
    <3>1. PICK x \in W : \A y \in W : y <= x
      BY <2>1
    <3>2. \A y \in W : x >= y
      BY <1>2, <3>1
    <3> QED
      BY <3>2
  <2>3. Max(W) \in W /\ \A y \in W : Max(W) >= y
    BY <2>2 DEF Max
  <2> QED
    BY <1>2, <1>3, <2>3, MinIn
<1>4. ASSUME W # {} PROVE c \in Nat \X Nat /\ \A j \in W : c[1] < j /\ j <= c[2]
  <2> DEFINE a == Min(W)
             b == Max(W)
  <2>1. a \in W /\ b \in W /\ \A k \in W : a <= k /\ k <= b
    BY <1>3, <1>4
  <2>2. a \in Nat /\ a > 0 /\ b \in Nat /\ \A k \in W : k \in Nat
    BY <1>2, <2>1
  <2> HIDE DEF a, b, W
  <2>3. <<a - 1, b>> \in Nat \X Nat /\ \A j \in W : a - 1 < j /\ j <= b
    BY <2>1, <2>2
  <2> QED
    BY <2>3 DEF a, b
<1> HIDE DEF c
<1>5. W # {} => <<c>> \in Spans
  BY <1>4 DEF Spans
<1>6. <<>> \in Spans
  BY EmptySeq DEF Spans
<1>7. ASSUME NEW k \in s + 1 .. e, ~Blank(t[k])
      PROVE  \E d \in Nat \X Nat : /\ Trim(t, s, e) = <<d>>
                                   /\ \A j \in s + 1 .. e : ~Blank(t[j]) => d[1] < j /\ j <= d[2]
  <2>1. W # {} /\ \A j \in s + 1 .. e : ~Blank(t[j]) => j \in W
    BY <1>7
  <2> HIDE DEF W
  <2> QED
    BY <1>1, <1>4, <2>1
<1> HIDE DEF W
<1> QED
  BY <1>1, <1>5, <1>6, <1>7

LEMMA Behind ==
  ASSUME NEW S, NEW p \in Seq(S), NEW q \in Seq(S)
  PROVE  ToSet(q) \subseteq ToSet(p \o q)
<1>1. /\ p \o q \in Seq(S) /\ Len(p \o q) = Len(p) + Len(q)
      /\ \A i \in 1 .. Len(p) + Len(q) : (p \o q)[i] = IF i <= Len(p) THEN p[i] ELSE q[i - Len(p)]
      /\ Len(p) \in Nat /\ Len(q) \in Nat
  BY ConcatProperties, LenProperties
<1>2. DOMAIN (p \o q) = 1 .. Len(p) + Len(q) /\ DOMAIN q = 1 .. Len(q)
  BY <1>1, LenProperties
<1>3. \A i \in 1 .. Len(q) : i + Len(p) \in 1 .. Len(p) + Len(q) /\ (p \o q)[i + Len(p)] = q[i]
  BY <1>1
<1> QED
  BY <1>2, <1>3 DEF ToSet

LEMMA CutType ==
  ASSUME NEW t \in Texts, NEW s \in 0 .. Len(t), NEW f,
         \A r \in s + 1 .. Len(t) : f[r] \in Spans
  PROVE  Cut(t, f, s) \in Spans
<1>1. CASE s = Len(t)
  BY <1>1, EmptySeq DEF Cut, Spans
<1>2. CASE s # Len(t)
  <2> DEFINE e == ChunkEnd(t, s)
             a == Trim(t, s, e)
             b == f[NextStart(t, s)]
  <2>1. e \in s + 1 .. Len(t) /\ NextStart(t, s) \in s + 1 .. Len(t) /\ Len(t) \in Nat
    BY <1>2, ChunkEnds
  <2>2. b \in Spans
    BY <2>1
  <2>3. a \in Spans
    <3>1. s \in Nat /\ e \in Nat
      BY <2>1
    <3> HIDE DEF e
    <3> QED
      BY <3>1, SpanType
  <2>4. Cut(t, f, s) = a \o b
    BY <1>2 DEF Cut
  <2> HIDE DEF a, b
  <2> QED
    BY <2>2, <2>3, <2>4, ConcatProperties DEF Spans
<1> QED
  BY <1>1, <1>2

(* The definition of Chunks by recursion defines a function: there is one  *)
(* from every position on, hence one from the start.                       *)
CutsFrom(t, f, m) == f = [s \in m .. Len(t) |-> Cut(t, f, s)]

LEMMA CutsExist ==
  ASSUME NEW t \in Texts
  PROVE  \E f : CutsFrom(t, f, 0)
<1> DEFINE n == Len(t)
           S == {m \in 0 .. n : ~\E f : CutsFrom(t, f, m)}
<1>0. n \in Nat
  BY KnowledgeAssumption, LenProperties
<1>1. SUFFICES ASSUME S # {} PROVE FALSE
  BY <1>0
<1>2. PICK m \in S : \A r \in S : r <= m
  <2>1. S \in SUBSET (0 .. n)
    OBVIOUS
  <2> HIDE DEF S
  <2> QED
    BY <1>0, <1>1, <2>1, LastFailure
<1>3. m \in 0 .. n /\ ~\E f : CutsFrom(t, f, m)
  BY <1>2
<1>4. \E g : \A r \in m + 1 .. n : g[r] = Cut(t, g, r)
  <2>1. CASE m = n
    BY <1>0, <2>1
  <2>2. CASE m < n
    <3>1. m + 1 \in 0 .. n /\ m + 1 \notin S
      BY <1>0, <1>2, <1>3, <2>2
    <3>2. PICK g : CutsFrom(t, g, m + 1)
      BY <3>1
    <3>3. \A r \in m + 1 .. n : g[r] = Cut(t, g, r)
      BY <3>2 DEF CutsFrom
    <3> QED
      BY <3>3
  <2> QED
    BY <1>0, <1>3, <2>1, <2>2
<1>5. PICK g : \A r \in m + 1 .. n : g[r] = Cut(t, g, r)
  BY <1>4
<1> DEFINE f == [r \in m .. n |-> IF r = m THEN Cut(t, g, m) ELSE g[r]]
<1>6. \A r \in m .. n : Cut(t, f, r) = Cut(t, g, r)
  <2> SUFFICES ASSUME NEW r \in m .. n PROVE Cut(t, f, r) = Cut(t, g, r)
    OBVIOUS
  <2>1. CASE r = n
    BY <2>1 DEF Cut
  <2>2. CASE r # n
    <3>1. NextStart(t, r) \in r + 1 .. n /\ r \in 0 .. n
      BY <1>0, <1>3, <2>2, ChunkEnds
    <3>2. f[NextStart(t, r)] = g[NextStart(t, r)]
      BY <1>0, <1>3, <3>1
    <3> HIDE DEF f
    <3> QED
      BY <2>2, <3>2 DEF Cut
  <2> QED
    BY <2>1, <2>2
<1>7. \A r \in m .. n : f[r] = Cut(t, f, r)
  BY <1>0, <1>3, <1>5, <1>6
<1>8. f = [r \in m .. n |-> Cut(t, f, r)]
  <2>1. f = [r \in m .. n |-> f[r]]
    OBVIOUS
  <2> HIDE DEF f
  <2> QED
    BY <1>7, <2>1
<1> HIDE DEF f
<1>9. CutsFrom(t, f, m)
  BY <1>8 DEF CutsFrom
<1> QED
  BY <1>3, <1>9

LEMMA CutsTyped ==
  ASSUME NEW t \in Texts, NEW f, \A s \in 0 .. Len(t) : f[s] = Cut(t, f, s)
  PROVE  \A s \in 0 .. Len(t) : f[s] \in Spans
<1> DEFINE n == Len(t)
           S == {s \in 0 .. n : f[s] \notin Spans}
<1>0. n \in Nat
  BY KnowledgeAssumption, LenProperties
<1>1. SUFFICES ASSUME S # {} PROVE FALSE
  OBVIOUS
<1>2. PICK s \in S : \A r \in S : r <= s
  <2>1. S \in SUBSET (0 .. n)
    OBVIOUS
  <2> HIDE DEF S
  <2> QED
    BY <1>0, <1>1, <2>1, LastFailure
<1>3. s \in 0 .. n /\ \A r \in s + 1 .. n : f[r] \in Spans
  BY <1>0, <1>2
<1>4. Cut(t, f, s) \in Spans
  BY <1>0, <1>3, CutType
<1> QED
  BY <1>2, <1>3, <1>4

LEMMA ChunksAre ==
  ASSUME NEW t \in Texts
  PROVE  \E f : /\ Chunks(t) = f[0]
                /\ \A s \in 0 .. Len(t) : f[s] = Cut(t, f, s) /\ f[s] \in Spans
<1> DEFINE n == Len(t)
           from == CHOOSE f : f = [s \in 0 .. n |-> Cut(t, f, s)]
<1>1. from = [s \in 0 .. n |-> Cut(t, from, s)]
  BY CutsExist DEF CutsFrom
<1>2. Chunks(t) = from[0]
  BY DEF Chunks, Cut
<1> HIDE DEF from
<1>3. \A s \in 0 .. n : from[s] = Cut(t, from, s)
  BY <1>1
<1>4. \A s \in 0 .. n : from[s] \in Spans
  BY <1>3, CutsTyped
<1> QED
  BY <1>2, <1>3, <1>4

(* A passage that starts in or behind a chunk and is no longer than the    *)
(* overlap ends in it, or starts in or behind the next one.                *)
LEMMA PassagesCovered ==
  ASSUME NEW t \in Texts
  PROVE  KeepsPassages(t)
<1> SUFFICES ASSUME NEW w \in Passages(t)
             PROVE  \E c \in ToSet(Chunks(t)) : c[1] <= w[1] /\ w[2] <= c[2]
  BY DEF KeepsPassages
<1> DEFINE n == Len(t)
           a == w[1]
           b == w[2]
<1>1. n \in Nat /\ Overlap \in Nat
  BY KnowledgeAssumption, LenProperties
<1>2. /\ a \in 0 .. n /\ b \in 0 .. n /\ a < b
      /\ b - a <= Overlap \/ b - a <= 1
      /\ ~Blank(t[a + 1]) /\ ~Blank(t[b])
  <2>1. Max({Overlap, 1}) \in {Overlap, 1}
    <3>1. \E x \in {Overlap, 1} : \A y \in {Overlap, 1} : x >= y
      BY <1>1
    <3> QED
      BY <3>1 DEF Max
  <2>2. b - a <= Max({Overlap, 1})
    BY DEF Passages
  <2> HIDE DEF n
  <2>3. b - a <= Overlap \/ b - a <= 1
    BY <2>1, <2>2, Zenon
  <2> QED
    BY <2>3 DEF Passages, n
<1> HIDE DEF a, b
<1>3. PICK f : /\ Chunks(t) = f[0]
               /\ \A s \in 0 .. n : f[s] = Cut(t, f, s) /\ f[s] \in Spans
  BY ChunksAre
<1> DEFINE Covers(s) == \E c \in ToSet(f[s]) : c[1] <= a /\ b <= c[2]
           S == {s \in 0 .. a : ~Covers(s)}
<1>4. SUFFICES S = {}
  BY <1>1, <1>2, <1>3 DEF a, b
<1>5. SUFFICES ASSUME S # {} PROVE FALSE
  OBVIOUS
<1>6. PICK s \in S : \A r \in S : r <= s
  <2>1. S \in SUBSET (0 .. a) /\ a \in Nat
    BY <1>1, <1>2
  <2> HIDE DEF S
  <2> QED
    BY <1>5, <2>1, LastFailure
<1>7. s \in 0 .. a /\ s \in 0 .. n /\ s # n /\ ~Covers(s)
  BY <1>1, <1>2, <1>6
<1> DEFINE e == ChunkEnd(t, s)
           d == NextStart(t, s)
           p == Trim(t, s, e)
<1>8. e \in s + 1 .. n /\ d \in s + 1 .. n /\ (e = n \/ d = e - Overlap)
  BY <1>7, ChunkEnds
<1>9. f[s] = p \o f[d] /\ f[d] \in Spans
  <2>1. f[s] = Cut(t, f, s) /\ f[d] \in Spans
    BY <1>1, <1>3, <1>7, <1>8
  <2> QED
    BY <1>7, <2>1 DEF Cut
<1> HIDE DEF e, d
<1>10. CASE b <= e
  <2>1. a + 1 \in s + 1 .. e /\ b \in s + 1 .. e /\ s \in Nat /\ e \in Nat
    BY <1>1, <1>2, <1>7, <1>8, <1>10
  <2>2. PICK c \in Nat \X Nat : p = <<c>> /\ c[1] < a + 1 /\ b <= c[2]
    BY <1>2, <2>1, SpanType
  <2>3. c \in ToSet(f[s])
    <3>1. f[s] = <<c>> \o f[d] /\ f[d] \in Seq(Nat \X Nat)
      BY <1>9, <2>2 DEF Spans
    <3> QED
      BY <3>1, Listed
  <2>4. c[1] <= a
    <3>1. c[1] \in Nat
      OBVIOUS
    <3> QED
      BY <1>2, <2>2, <3>1
  <2>5. Covers(s)
    BY <2>2, <2>3, <2>4
  <2> QED
    BY <1>7, <2>5
<1>11. CASE b > e
  <2>1. d <= a
    BY <1>1, <1>2, <1>7, <1>8, <1>11
  <2>2. d \in 0 .. a /\ d > s
    BY <1>1, <1>2, <1>7, <1>8, <2>1
  <2>3. d \notin S
    BY <1>6, <1>7, <2>2
  <2>4. Covers(d)
    BY <2>2, <2>3
  <2>5. ToSet(f[d]) \subseteq ToSet(f[s])
    <3>1. p \in Spans
      <4>1. s \in Nat /\ e \in Nat
        BY <1>1, <1>7, <1>8
      <4> QED
        BY <4>1, SpanType
    <3> HIDE DEF p
    <3> QED
      BY <1>9, <3>1, Behind DEF Spans
  <2> QED
    BY <1>7, <2>4, <2>5
<1> QED
  BY <1>1, <1>2, <1>7, <1>8, <1>10, <1>11

(* Wherever cuts fall and whatever is trimmed, for any size of chunks of   *)
(* which the overlap is at most half, a passage no longer than the overlap *)
(* that starts and ends with a character that is not blank is whole in one *)
(* of the chunks (chunkContent); in particular no such character is lost,  *)
(* and cutting ends.                                                       *)
THEOREM PassagesKept == Spec => []ChunksKeepPassages
<1>1. ChunksKeepPassages
  BY PassagesCovered DEF ChunksKeepPassages
<1> QED
  BY <1>1, PTL
=============================================================================
