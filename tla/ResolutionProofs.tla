---------------------------- MODULE ResolutionProofs ----------------------------
(***************************************************************************)
(* Theorems about Resolution, for any number of facts, ingests, deletions, *)
(* hops and failures.                                                      *)
(***************************************************************************)
EXTENDS Resolution, TLAPS

SamePair(e, i, j) == {e.from, e.to} = {i, j}

(* What process p knows at each of its calls.  No edge on a pair that it   *)
(* is still to judge is its own or older than the relations it has read.   *)
IngestOK(p, s) ==
  /\ s \in Ingest
  /\ s.todo \subseteq drawn /\ s.cand \subseteq drawn
  /\ s.pc = "create" => s.left > 0
  /\ s.pc \in {"index", "rows", "relations", "judge", "edge", "stamp"} => s.id \in drawn
  /\ s.pc \in {"rows", "relations", "judge", "edge", "stamp"} => s.id \notin s.cand
  /\ s.pc \in {"edge", "stamp"} => s.target \in s.cand
  /\ s.pc = "stamp" => <<s.id, s.target>> \in replaced
  /\ s.pc \in {"judge", "edge", "stamp"} =>
       /\ s.since <= clock
       /\ \A c \in s.cand, e \in edges :
            SamePair(e, s.id, c) => \/ e.by # p /\ s.since <= e.at
                                    \/ s.pc = "stamp" /\ c = s.target

(* Edges join two facts; what was replaced keeps its edge until one of the *)
(* two facts is deleted.                                                   *)
GraphOK ==
  /\ \A e \in edges : /\ e.from # e.to
                      /\ e.kind = "supersedes" => <<e.from, e.to>> \in replaced
  /\ \A i, j \in stored :
       <<j, i>> \in replaced => \E e \in Successors(i) : e.from = j
  /\ \A i \in invalid : \E j \in drawn : <<j, i>> \in replaced
  /\ deletes = 0 => stored = drawn

WalkOK ==
  /\ walk.pc = "idle" => walk.chain = <<>>
  /\ walk.pc \in {"relations", "find"} => walk.chain # <<>>
  /\ walk.pc = "find" => /\ Len(walk.chain) <= MaxHops
                         /\ walk.next \in drawn /\ walk.next \notin Visited
                         /\ <<walk.next, Tip>> \in replaced
  /\ walk.pc = "relations" /\ walk.old /\ deletes = 0 =>
       Len(walk.chain) > 1 \/ Successors(Tip) # {}

RInv == /\ TypeOK /\ GraphOK /\ JudgedOnce /\ WalkIsHistory /\ WalkLeavesReplaced /\ WalkOK
        /\ \A p \in Procs : IngestOK(p, ing[p])

-----------------------------------------------------------------------------
(* The records that the loops of an ingest go on with.                     *)

LEMMA IdleIngestOK ==
  ASSUME NEW p \in Procs
  PROVE  IdleIngest \in Ingest /\ IngestOK(p, IdleIngest)
BY DEF IdleIngest, Ingest, Kinds, IngestOK

LEMMA NextFactOK ==
  ASSUME NEW p \in Procs, NEW s \in Ingest, s.todo \subseteq drawn
  PROVE  IngestOK(p, NextFact(s))
<1>1. CASE s.todo = {}
  BY <1>1, IdleIngestOK DEF NextFact
<1>2. CASE s.todo # {}
  <2> DEFINE n == NextFact(s)
  <2>1. /\ n.pc = "get" /\ n.left = 0 /\ n.todo = s.todo
        /\ n.id = None /\ n.cand = {} /\ n.target = None
        /\ n.kind = "other" /\ n.since = 0
    BY <1>2 DEF NextFact, IdleIngest
  <2>2. n \in Ingest
    BY <1>2, <2>1 DEF NextFact, IdleIngest, Ingest, Kinds
  <2> QED
    BY <2>1, <2>2 DEF IngestOK
<1> QED
  BY <1>1, <1>2

LEMMA NextCandidateOK ==
  ASSUME NEW p \in Procs, NEW s, IngestOK(p, s), s.pc \in {"edge", "stamp"}
  PROVE  IngestOK(p, NextCandidate(s))
<1> DEFINE n == NextCandidate(s)
<1>0. s \in Ingest
  BY DEF IngestOK
<1>1. /\ n.pc = "judge" /\ n.left = s.left /\ n.todo = s.todo
      /\ n.id = s.id /\ n.cand = s.cand \ {s.target} /\ n.target = None
      /\ n.kind = "other" /\ n.since = s.since
  BY <1>0 DEF NextCandidate, Ingest
<1>2. n \in Ingest
  BY <1>0 DEF NextCandidate, Ingest, Kinds
<1> QED
  BY <1>1, <1>2 DEF IngestOK

-----------------------------------------------------------------------------
(* Steps that move one ingest and leave the graph alone.                   *)

LEMMA OnlyIngest ==
  ASSUME RInv, NEW p \in Procs, NEW s, IngestOK(p, s), ing' = [ing EXCEPT ![p] = s],
         UNCHANGED <<drawn, graph, walk, deletes>>, ingests' \in Nat, faults' \in Nat
  PROVE  RInv'
<1>0. /\ TypeOK /\ GraphOK /\ JudgedOnce /\ WalkIsHistory /\ WalkLeavesReplaced /\ WalkOK
      /\ \A q \in Procs : IngestOK(q, ing[q])
  BY DEF RInv
<1>1. ing' \in [Procs -> Ingest] /\ \A q \in Procs : ing'[q] = IF q = p THEN s ELSE ing[q]
  BY <1>0 DEF TypeOK, IngestOK
<1>2. TypeOK'
  BY <1>0, <1>1 DEF TypeOK, graph
<1>3. (GraphOK /\ JudgedOnce /\ WalkIsHistory /\ WalkLeavesReplaced /\ WalkOK)'
  <2>1. (GraphOK /\ JudgedOnce)'
    BY <1>0 DEF GraphOK, JudgedOnce, Successors, graph
  <2>2. (WalkIsHistory /\ WalkLeavesReplaced)'
    BY <1>0 DEF WalkIsHistory, WalkLeavesReplaced, graph
  <2>3. WalkOK'
    BY <1>0 DEF WalkOK, Successors, Visited, Tip, graph
  <2> QED
    BY <2>1, <2>2, <2>3
<1>4. \A q \in Procs : IngestOK(q, ing[q])'
  <2> TAKE q \in Procs
  <2>1. IngestOK(q, ing'[q])
    BY <1>0, <1>1
  <2> QED
    BY <2>1 DEF IngestOK, graph, SamePair
<1> QED
  BY <1>2, <1>3, <1>4 DEF RInv

LEMMA StartInv == ASSUME RInv, NEW p \in Procs, StartIngest(p) PROVE RInv'
<1>1. PICK n \in 1 .. MaxFacts :
        ing' = [ing EXCEPT ![p] = [IdleIngest EXCEPT !.pc = "create", !.left = n]]
  BY DEF StartIngest
<1> DEFINE s == [IdleIngest EXCEPT !.pc = "create", !.left = n]
<1>2. n \in Nat /\ n > 0
  BY ResolutionAssumption
<1>3. /\ s.pc = "create" /\ s.left = n /\ s.todo = {}
      /\ s.id = None /\ s.cand = {} /\ s.target = None
      /\ s.kind = "other" /\ s.since = 0
  BY DEF IdleIngest
<1>4. s \in Ingest
  BY <1>2 DEF IdleIngest, Ingest, Kinds
<1>5. IngestOK(p, s)
  BY <1>2, <1>3, <1>4 DEF IngestOK
<1>6. UNCHANGED <<drawn, graph, walk, deletes>> /\ ing' = [ing EXCEPT ![p] = s]
  BY <1>1 DEF StartIngest
<1>7. ingests' \in Nat /\ faults' \in Nat
  <2>1. ingests \in Nat /\ faults \in Nat
    BY DEF RInv, TypeOK
  <2> QED
    BY <2>1 DEF StartIngest
<1> QED
  BY <1>5, <1>6, <1>7, OnlyIngest

(* The calls of resolveMemory that read.                                   *)
LEMMA ReadInv ==
  ASSUME RInv, NEW p \in Procs,
         GetFact(p) \/ SimilarIndex(p) \/ SimilarRows(p) \/ ReadRelations(p) \/ Judge(p)
  PROVE  RInv'
<1> DEFINE r == ing[p]
<1>0. TypeOK /\ IngestOK(p, r) /\ r \in Ingest /\ ing \in [Procs -> Ingest]
  BY DEF RInv, TypeOK
<1>1. UNCHANGED <<drawn, graph, walk, deletes>> /\ ingests' \in Nat /\ faults' \in Nat
  <2>1. UNCHANGED <<drawn, graph, walk, deletes, ingests>> /\ faults' \in {faults, faults + 1}
    BY DEF GetFact, SimilarIndex, SimilarRows, ReadRelations, Judge, Become
  <2>2. ingests \in Nat /\ faults \in Nat
    BY <1>0 DEF TypeOK
  <2> QED
    BY <2>1, <2>2
<1> SUFFICES \E s : IngestOK(p, s) /\ ing' = [ing EXCEPT ![p] = s]
  BY <1>1, OnlyIngest
<1> HIDE DEF r
<1>2. CASE GetFact(p)
  <2>1. PICK i \in r.todo :
          LET t == [r EXCEPT !.todo = @ \ {i}, !.id = i]
          IN Become(p, IF i \in stored THEN [t EXCEPT !.pc = "index"] ELSE NextFact(t))
    BY <1>2 DEF GetFact, r
  <2> DEFINE t == [r EXCEPT !.todo = @ \ {i}, !.id = i]
  <2> DEFINE x == [t EXCEPT !.pc = "index"]
  <2>2. r.pc = "get" /\ i \in drawn /\ i \in Facts /\ r.todo \subseteq drawn
    BY <1>0, <1>2 DEF GetFact, At, IngestOK, Ingest, r
  <2>3. /\ t.pc = r.pc /\ t.left = r.left /\ t.todo = r.todo \ {i}
        /\ t.id = i /\ t.cand = r.cand /\ t.target = r.target
        /\ t.kind = r.kind /\ t.since = r.since
    BY <1>0 DEF Ingest
  <2>4. /\ x.pc = "index" /\ x.left = r.left /\ x.todo = r.todo \ {i}
        /\ x.id = i /\ x.cand = r.cand /\ x.target = r.target
        /\ x.kind = r.kind /\ x.since = r.since
    BY <2>3
  <2>5. t \in Ingest /\ t.todo \subseteq drawn
    BY <1>0, <2>2, <2>3 DEF Ingest
  <2>6. x \in Ingest
    BY <1>0, <2>2, <2>4 DEF Ingest
  <2>7. IngestOK(p, x)
    BY <1>0, <2>2, <2>4, <2>6 DEF IngestOK
  <2>8. IngestOK(p, NextFact(t))
    BY <2>5, NextFactOK
  <2>9. ing' = [ing EXCEPT ![p] = IF i \in stored THEN x ELSE NextFact(t)]
    BY <2>1 DEF Become
  <2> QED
    BY <2>7, <2>8, <2>9
<1>3. CASE SimilarIndex(p)
  <2> DEFINE x == [r EXCEPT !.pc = "rows", !.cand = stored \ {r.id}]
  <2>1. /\ x.pc = "rows" /\ x.left = r.left /\ x.todo = r.todo
        /\ x.id = r.id /\ x.cand = stored \ {r.id} /\ x.target = r.target
        /\ x.kind = r.kind /\ x.since = r.since
    BY <1>0 DEF Ingest
  <2>2. stored \subseteq drawn /\ drawn \subseteq Facts /\ r.pc = "index"
    BY <1>0, <1>3 DEF TypeOK, SimilarIndex, At, r
  <2>3. x \in Ingest
    BY <1>0, <2>1, <2>2 DEF Ingest
  <2>4. IngestOK(p, x)
    BY <1>0, <2>1, <2>2, <2>3 DEF IngestOK
  <2>5. IngestOK(p, NextFact(r))
    BY <1>0, NextFactOK DEF IngestOK
  <2>6. ing' = [ing EXCEPT ![p] = x] \/ ing' = [ing EXCEPT ![p] = NextFact(r)]
    BY <1>3 DEF SimilarIndex, Become, r
  <2> QED
    BY <2>4, <2>5, <2>6
<1>4. CASE SimilarRows(p)
  <2> DEFINE x == [r EXCEPT !.pc = "relations", !.cand = @ \ invalid]
  <2>1. /\ x.pc = "relations" /\ x.left = r.left /\ x.todo = r.todo
        /\ x.id = r.id /\ x.cand = r.cand \ invalid /\ x.target = r.target
        /\ x.kind = r.kind /\ x.since = r.since
    BY <1>0 DEF Ingest
  <2>2. ing' = [ing EXCEPT ![p] = x] /\ r.pc = "rows"
    BY <1>4 DEF SimilarRows, Become, At, r
  <2>3. x \in Ingest
    BY <1>0, <2>1 DEF Ingest
  <2>4. IngestOK(p, x)
    BY <1>0, <2>1, <2>2, <2>3 DEF IngestOK
  <2> QED
    BY <2>2, <2>4
<1>5. CASE ReadRelations(p)
  <2> DEFINE x == [r EXCEPT !.pc = "judge", !.cand = @ \ Linked(r.id), !.since = clock]
  <2>1. /\ x.pc = "judge" /\ x.left = r.left /\ x.todo = r.todo
        /\ x.id = r.id /\ x.cand = r.cand \ Linked(r.id) /\ x.target = r.target
        /\ x.kind = r.kind /\ x.since = clock
    BY <1>0 DEF Ingest
  <2>2. ing' = [ing EXCEPT ![p] = x] /\ r.pc = "relations" /\ clock \in Nat
    BY <1>0, <1>5 DEF ReadRelations, Become, At, TypeOK, r
  <2>3. x \in Ingest
    BY <1>0, <2>1, <2>2 DEF Ingest
  <2>4. \A c \in r.cand \ Linked(r.id), e \in edges : ~SamePair(e, r.id, c)
    BY <1>0 DEF Linked, SamePair, Ingest
  <2>5. IngestOK(p, x)
    BY <1>0, <2>1, <2>2, <2>3, <2>4 DEF IngestOK
  <2> QED
    BY <2>2, <2>5
<1>6. CASE Judge(p)
  <2>0. r.pc = "judge"
    BY <1>6 DEF Judge, At, r
  <2>1. CASE Become(p, NextFact(r))
    BY <1>0, <2>1, NextFactOK DEF IngestOK, Become
  <2>2. ASSUME NEW c \in r.cand, Become(p, [r EXCEPT !.cand = @ \ {c}])
        PROVE  \E s : IngestOK(p, s) /\ ing' = [ing EXCEPT ![p] = s]
    <3> DEFINE x == [r EXCEPT !.cand = @ \ {c}]
    <3>1. /\ x.pc = r.pc /\ x.left = r.left /\ x.todo = r.todo
          /\ x.id = r.id /\ x.cand = r.cand \ {c} /\ x.target = r.target
          /\ x.kind = r.kind /\ x.since = r.since
      BY <1>0 DEF Ingest
    <3>2. x \in Ingest
      BY <1>0, <3>1 DEF Ingest
    <3>3. IngestOK(p, x)
      BY <1>0, <2>0, <3>1, <3>2 DEF IngestOK
    <3> QED
      BY <2>2, <3>3 DEF Become
  <2>3. ASSUME NEW c \in r.cand, NEW k \in Kinds,
               Become(p, [r EXCEPT !.pc = "edge", !.target = c, !.kind = k])
        PROVE  \E s : IngestOK(p, s) /\ ing' = [ing EXCEPT ![p] = s]
    <3> DEFINE x == [r EXCEPT !.pc = "edge", !.target = c, !.kind = k]
    <3>1. /\ x.pc = "edge" /\ x.left = r.left /\ x.todo = r.todo
          /\ x.id = r.id /\ x.cand = r.cand /\ x.target = c
          /\ x.kind = k /\ x.since = r.since
      BY <1>0 DEF Ingest
    <3>2. x \in Ingest
      BY <1>0, <3>1 DEF Ingest
    <3>3. IngestOK(p, x)
      BY <1>0, <2>0, <3>1, <3>2 DEF IngestOK
    <3> QED
      BY <2>3, <3>3 DEF Become
  <2> QED
    BY <1>6, <2>1, <2>2, <2>3 DEF Judge, r
<1> QED
  BY <1>2, <1>3, <1>4, <1>5, <1>6

LEMMA FailInv == ASSUME RInv, NEW p \in Procs, Fail(p) PROVE RInv'
<1>0. IngestOK(p, ing[p])
  BY DEF RInv
<1>1. /\ UNCHANGED <<drawn, graph, walk, deletes>> /\ ingests' \in Nat /\ faults' \in Nat
  BY DEF RInv, TypeOK, Fail, Become
<1>2. CASE ing[p].pc \in {"edge", "stamp"} /\ Become(p, NextCandidate(ing[p]))
  <2>1. IngestOK(p, NextCandidate(ing[p]))
    BY <1>0, <1>2, NextCandidateOK
  <2> QED
    BY <1>1, <1>2, <2>1, OnlyIngest DEF Become
<1>3. CASE Become(p, IdleIngest)
  BY <1>1, <1>3, IdleIngestOK, OnlyIngest DEF Become
<1> QED
  BY <1>2, <1>3 DEF Fail

-----------------------------------------------------------------------------
(* Steps that change the graph.                                            *)

(* An id is drawn and stored; only the ingest that asked for it has it.    *)
LEMMA DrawInv ==
  ASSUME RInv, NEW p \in Procs, NEW i \in Facts \ drawn, NEW s \in Ingest,
         s.todo \subseteq drawn \cup {i}, s.cand \subseteq drawn,
         s.pc \in {"idle", "create", "get"}, s.pc = "create" => s.left > 0,
         drawn' = drawn \cup {i}, stored' = stored \cup {i}, ing' = [ing EXCEPT ![p] = s],
         UNCHANGED <<invalid, edges, clock, replaced, walk, ingests, deletes, faults>>
  PROVE  RInv'
<1>0. /\ TypeOK /\ GraphOK /\ JudgedOnce /\ WalkIsHistory /\ WalkLeavesReplaced /\ WalkOK
      /\ \A q \in Procs : IngestOK(q, ing[q])
  BY DEF RInv
<1>1. ing' \in [Procs -> Ingest] /\ \A q \in Procs : ing'[q] = IF q = p THEN s ELSE ing[q]
  BY <1>0 DEF TypeOK
<1>2. TypeOK'
  <2>1. /\ drawn \subseteq Facts /\ stored \subseteq drawn /\ invalid \subseteq stored
        /\ edges \subseteq Edge /\ clock \in Nat /\ walk \in Walk
        /\ \A e \in edges : e.at < clock /\ {e.from, e.to} \subseteq drawn
        /\ replaced \subseteq drawn \X drawn
        /\ {ingests, deletes, faults} \subseteq Nat
    BY <1>0 DEF TypeOK
  <2>2. replaced' \subseteq drawn' \X drawn'
    BY <2>1
  <2>3. \A e \in edges' : e.at < clock' /\ {e.from, e.to} \subseteq drawn'
    BY <2>1
  <2> QED
    BY <1>1, <2>1, <2>2, <2>3 DEF TypeOK
<1>3. GraphOK'
  <2>1. \A j, k : <<j, k>> \in replaced => j \in drawn /\ k \in drawn
    BY <1>0 DEF TypeOK
  <2>2. \A k : Successors(k)' = Successors(k)
    BY DEF Successors
  <2> QED
    BY <1>0, <2>1, <2>2 DEF GraphOK
<1>4. (JudgedOnce /\ WalkIsHistory /\ WalkLeavesReplaced)'
  BY <1>0 DEF JudgedOnce, WalkIsHistory, WalkLeavesReplaced
<1>5. WalkOK'
  BY <1>0 DEF WalkOK, Successors, Visited, Tip
<1>6. \A q \in Procs : IngestOK(q, ing[q])'
  <2> TAKE q \in Procs
  <2>1. CASE q = p
    BY <1>1, <2>1 DEF IngestOK
  <2>2. CASE q # p
    BY <1>0, <1>1, <2>2 DEF IngestOK
  <2> QED
    BY <2>1, <2>2
<1> QED
  BY <1>2, <1>3, <1>4, <1>5, <1>6 DEF RInv

LEMMA CreateInv == ASSUME RInv, NEW p \in Procs, CreateFact(p) PROVE RInv'
<1> DEFINE r == [ing[p] EXCEPT !.left = @ - 1]
<1>0. TypeOK /\ IngestOK(p, ing[p]) /\ ing[p] \in Ingest /\ ing[p].pc = "create"
      /\ ing[p].left > 0
  BY DEF RInv, CreateFact, At, IngestOK
<1>1. /\ r.pc = "create" /\ r.left = ing[p].left - 1 /\ r.todo = ing[p].todo
      /\ r.cand = ing[p].cand
  BY <1>0 DEF Ingest
<1>2. r \in Ingest
  <2>1. ing[p].left - 1 \in Nat
    BY <1>0 DEF Ingest
  <2> QED
    BY <1>0, <2>1 DEF Ingest
<1>3. r.todo \subseteq drawn /\ r.cand \subseteq drawn
  BY <1>0, <1>1 DEF IngestOK
<1>4. UNCHANGED <<walk, ingests, deletes>> /\ UNCHANGED <<invalid, edges, clock, replaced, faults>>
  BY DEF CreateFact, Become
<1>5. ingests' \in Nat /\ faults' \in Nat
  BY <1>0, <1>4 DEF TypeOK
<1> HIDE DEF r
<1>6. ASSUME UNCHANGED <<drawn, stored>>, NEW s \in Ingest, s.pc = "create",
             s.todo \subseteq drawn, s.cand \subseteq drawn,
             \/ s.left > 0 /\ ing' = [ing EXCEPT ![p] = s]
             \/ ing' = [ing EXCEPT ![p] = NextFact(s)] \/ ing' = [ing EXCEPT ![p] = IdleIngest]
      PROVE  RInv'
  <2>1. UNCHANGED <<drawn, graph, walk, deletes>>
    BY <1>4, <1>6 DEF graph
  <2>2. CASE s.left > 0 /\ ing' = [ing EXCEPT ![p] = s]
    <3>1. IngestOK(p, s)
      BY <1>6, <2>2 DEF IngestOK
    <3> QED
      BY <1>5, <2>1, <2>2, <3>1, OnlyIngest
  <2>3. CASE ing' = [ing EXCEPT ![p] = NextFact(s)]
    <3>1. IngestOK(p, NextFact(s))
      BY <1>6, NextFactOK
    <3> QED
      BY <1>5, <2>1, <2>3, <3>1, OnlyIngest
  <2>4. CASE ing' = [ing EXCEPT ![p] = IdleIngest]
    BY <1>5, <2>1, <2>4, IdleIngestOK, OnlyIngest
  <2> QED
    BY <1>6, <2>2, <2>3, <2>4
<1>7. ASSUME NEW i \in Facts \ drawn, drawn' = drawn \cup {i}, stored' = stored \cup {i},
             NEW s \in Ingest, s.todo = r.todo \cup {i}, s.cand = r.cand, s.pc = "create",
             \/ s.left > 0 /\ ing' = [ing EXCEPT ![p] = s]
             \/ ing' = [ing EXCEPT ![p] = NextFact(s)] \/ ing' = [ing EXCEPT ![p] = IdleIngest]
      PROVE  RInv'
  <2>1. CASE s.left > 0 /\ ing' = [ing EXCEPT ![p] = s]
    <3>1. s.todo \subseteq drawn \cup {i} /\ s.cand \subseteq drawn
      BY <1>3, <1>7
    <3> QED
      BY <1>4, <1>7, <2>1, <3>1, DrawInv
  <2>2. CASE ing' = [ing EXCEPT ![p] = NextFact(s)]
    <3> DEFINE n == NextFact(s)
    <3>1. /\ n.pc \in {"idle", "get"} /\ n.todo \subseteq s.todo /\ n.cand = {}
      BY DEF NextFact, IdleIngest
    <3>2. n \in Ingest
      BY IdleIngestOK DEF NextFact, IdleIngest, Ingest, Kinds
    <3> HIDE DEF n
    <3>3. n.todo \subseteq drawn \cup {i} /\ n.cand \subseteq drawn
      BY <1>3, <1>7, <3>1
    <3>4. ing' = [ing EXCEPT ![p] = n]
      BY <2>2 DEF n
    <3> QED
      BY <1>4, <1>7, <3>1, <3>2, <3>3, <3>4, DrawInv
  <2>3. CASE ing' = [ing EXCEPT ![p] = IdleIngest]
    <3>1. /\ IdleIngest \in Ingest /\ IdleIngest.pc = "idle" /\ IdleIngest.todo = {}
          /\ IdleIngest.cand = {}
      BY IdleIngestOK DEF IdleIngest
    <3> QED
      BY <1>4, <1>7, <2>3, <3>1, DrawInv
  <2> QED
    BY <1>7, <2>1, <2>2, <2>3
<1>8. CASE /\ UNCHANGED <<drawn, stored>>
           /\ IF r.left > 0 THEN Become(p, r) ELSE Become(p, NextFact(r)) \/ Become(p, IdleIngest)
  BY <1>1, <1>2, <1>3, <1>6, <1>8 DEF Become
<1>9. ASSUME NEW i \in stored, UNCHANGED <<drawn, stored>>,
             LET s == [r EXCEPT !.todo = @ \cup {i}]
             IN IF s.left > 0 THEN Become(p, s) ELSE Become(p, NextFact(s)) \/ Become(p, IdleIngest)
      PROVE  RInv'
  <2> DEFINE s == [r EXCEPT !.todo = @ \cup {i}]
  <2>1. s.pc = "create" /\ s.todo = r.todo \cup {i} /\ s.cand = r.cand
    BY <1>1, <1>2 DEF Ingest
  <2>2. i \in Facts /\ i \in drawn
    BY <1>0, <1>9 DEF TypeOK
  <2>3. s \in Ingest
    BY <1>2, <2>2 DEF Ingest
  <2>4. \/ s.left > 0 /\ ing' = [ing EXCEPT ![p] = s]
        \/ ing' = [ing EXCEPT ![p] = NextFact(s)] \/ ing' = [ing EXCEPT ![p] = IdleIngest]
    BY <1>9 DEF Become
  <2> HIDE DEF s
  <2> QED
    BY <1>3, <1>6, <1>9, <2>1, <2>2, <2>3, <2>4
<1>10. ASSUME NEW i \in Facts \ drawn, drawn' = drawn \cup {i}, stored' = stored \cup {i},
              LET s == [r EXCEPT !.todo = @ \cup {i}]
              IN IF s.left > 0 THEN Become(p, s) ELSE Become(p, NextFact(s)) \/ Become(p, IdleIngest)
       PROVE  RInv'
  <2> DEFINE s == [r EXCEPT !.todo = @ \cup {i}]
  <2>1. s.pc = "create" /\ s.todo = r.todo \cup {i} /\ s.cand = r.cand
    BY <1>1, <1>2 DEF Ingest
  <2>2. s \in Ingest
    BY <1>2 DEF Ingest
  <2>3. \/ s.left > 0 /\ ing' = [ing EXCEPT ![p] = s]
        \/ ing' = [ing EXCEPT ![p] = NextFact(s)] \/ ing' = [ing EXCEPT ![p] = IdleIngest]
    BY <1>10 DEF Become
  <2> HIDE DEF s
  <2> QED
    BY <1>7, <1>10, <2>1, <2>2, <2>3
<1> QED
  BY <1>8, <1>9, <1>10 DEF CreateFact, r

(* The new edge is the youngest, and its pair had none of this ingest.     *)
LEMMA WriteEdgeInv == ASSUME RInv, NEW p \in Procs, WriteEdge(p) PROVE RInv'
<1> DEFINE r == ing[p]
<1> DEFINE n == NewEdge(p)
<1> DEFINE s == ing'[p]
<1>0. /\ TypeOK /\ GraphOK /\ JudgedOnce /\ WalkIsHistory /\ WalkLeavesReplaced /\ WalkOK
      /\ \A q \in Procs : IngestOK(q, ing[q])
  BY DEF RInv
<1>1. /\ drawn \subseteq Facts /\ stored \subseteq drawn /\ invalid \subseteq stored
      /\ edges \subseteq Edge /\ clock \in Nat /\ walk \in Walk
      /\ \A e \in edges : e.at < clock /\ {e.from, e.to} \subseteq drawn
      /\ replaced \subseteq drawn \X drawn /\ ing \in [Procs -> Ingest]
      /\ {ingests, deletes, faults} \subseteq Nat
  BY <1>0 DEF TypeOK
<1>2. /\ UNCHANGED <<drawn, stored, invalid, faults, walk, ingests, deletes>>
      /\ edges' = edges \cup {n} /\ clock' = clock + 1
      /\ r.pc = "edge" /\ IngestOK(p, r) /\ r \in Ingest
  BY <1>0 DEF WriteEdge, Become, At, IngestOK
<1>3. /\ n.from = r.id /\ n.to = r.target /\ n.kind = r.kind /\ n.at = clock /\ n.by = p
      /\ n.since = r.since
  BY DEF NewEdge
<1>4. /\ r.id \in drawn /\ r.target \in drawn /\ r.target \in r.cand /\ r.id \notin r.cand
      /\ r.since \in Nat /\ r.since <= clock /\ r.kind \in Kinds
  BY <1>2 DEF IngestOK, Ingest
<1>5. n \in Edge
  BY <1>1, <1>4 DEF NewEdge, Edge
<1>6. \A e \in edges : SamePair(e, r.id, r.target) => e.by # p /\ r.since <= e.at
  BY <1>2, <1>4 DEF IngestOK
<1> HIDE DEF n
<1>7. /\ replaced \subseteq replaced' /\ replaced' \subseteq replaced \cup {<<r.id, r.target>>}
      /\ r.kind = "supersedes" => <<r.id, r.target>> \in replaced'
      /\ r.kind # "supersedes" => replaced' = replaced
  BY DEF WriteEdge
<1>8. /\ ing' = [ing EXCEPT ![p] = s] /\ s \in Ingest
      /\ s.todo \subseteq drawn /\ s.cand \subseteq r.cand /\ s.id = r.id /\ s.since = r.since
      /\ \/ s.pc = "stamp" /\ s.target = r.target /\ r.kind = "supersedes" /\ s.cand = r.cand
         \/ s.pc = "judge" /\ r.target \notin s.cand
  <2>1. CASE r.kind = "supersedes"
    <3> DEFINE x == [r EXCEPT !.pc = "stamp"]
    <3>1. ing' = [ing EXCEPT ![p] = x]
      BY <2>1 DEF WriteEdge, Become
    <3>2. x \in Ingest
      BY <1>2 DEF Ingest
    <3>3. /\ x.todo = r.todo /\ x.cand = r.cand /\ x.id = r.id /\ x.since = r.since
          /\ x.pc = "stamp" /\ x.target = r.target
      BY <1>2 DEF Ingest
    <3>4. r.todo \subseteq drawn
      BY <1>2 DEF IngestOK
    <3> HIDE DEF x
    <3>5. s = x
      BY <1>1, <3>1
    <3> QED
      BY <2>1, <3>1, <3>2, <3>3, <3>4, <3>5
  <2>2. CASE r.kind # "supersedes"
    <3> DEFINE x == NextCandidate(r)
    <3>1. ing' = [ing EXCEPT ![p] = x]
      BY <2>2 DEF WriteEdge, Become
    <3>2. x \in Ingest
      BY <1>2, NextCandidateOK DEF IngestOK
    <3>3. /\ x.todo = r.todo /\ x.cand = r.cand \ {r.target} /\ x.id = r.id /\ x.since = r.since
          /\ x.pc = "judge"
      BY <1>2 DEF NextCandidate, Ingest
    <3>4. r.todo \subseteq drawn
      BY <1>2 DEF IngestOK
    <3> HIDE DEF x
    <3>5. s = x
      BY <1>1, <3>1
    <3> QED
      BY <3>1, <3>2, <3>3, <3>4, <3>5
  <2> QED
    BY <2>1, <2>2
<1> HIDE DEF s
<1>9. TypeOK'
  <2>1. replaced' \subseteq drawn' \X drawn'
    BY <1>1, <1>2, <1>4, <1>7
  <2>2. edges' \subseteq Edge /\ \A e \in edges' : e.at < clock' /\ {e.from, e.to} \subseteq drawn'
    <3>1. \A e \in edges : e.at \in Nat
      BY <1>1 DEF Edge
    <3> QED
      BY <1>1, <1>2, <1>3, <1>4, <1>5, <3>1
  <2>3. ing' \in [Procs -> Ingest]
    BY <1>1, <1>8
  <2> QED
    BY <1>1, <1>2, <2>1, <2>2, <2>3 DEF TypeOK
<1>10. \A i : Successors(i) \subseteq Successors(i)'
  BY <1>2 DEF Successors
<1>11. GraphOK'
  <2>1. \A e \in edges' : e.from # e.to /\ (e.kind = "supersedes" => <<e.from, e.to>> \in replaced')
    BY <1>0, <1>2, <1>3, <1>4, <1>7 DEF GraphOK
  <2>2. ASSUME NEW i \in stored, NEW j \in stored, <<j, i>> \in replaced'
        PROVE  \E e \in Successors(i)' : e.from = j
    <3>1. CASE <<j, i>> \in replaced
      BY <1>0, <1>10, <3>1 DEF GraphOK
    <3>2. CASE <<j, i>> \notin replaced
      <4>1. i = r.target /\ j = r.id /\ r.kind = "supersedes"
        BY <1>7, <2>2, <3>2
      <4> QED
        BY <1>2, <1>3, <4>1 DEF Successors
    <3> QED
      BY <3>1, <3>2
  <2>3. \A i \in invalid' : \E j \in drawn' : <<j, i>> \in replaced'
    BY <1>0, <1>2, <1>7 DEF GraphOK
  <2> QED
    BY <1>0, <1>2, <2>1, <2>2, <2>3 DEF GraphOK
<1>12. JudgedOnce'
  <2> SUFFICES ASSUME NEW e \in edges', NEW f \in edges', {e.from, e.to} = {f.from, f.to},
                      e.at < f.at
               PROVE  e.by # f.by /\ f.since <= e.at
    BY DEF JudgedOnce
  <2>1. CASE e \in edges /\ f \in edges
    BY <1>0, <2>1 DEF JudgedOnce
  <2>2. CASE e = n
    <3>1. f \notin edges \/ (f.at < clock /\ f.at \in Nat)
      BY <1>1 DEF Edge
    <3> QED
      BY <1>1, <1>2, <1>3, <2>2, <3>1
  <2>3. CASE e \in edges /\ f = n
    BY <1>3, <1>6, <2>3 DEF SamePair
  <2> QED
    BY <1>2, <2>1, <2>2, <2>3
<1>13. (WalkIsHistory /\ WalkLeavesReplaced)'
  BY <1>0, <1>2, <1>7 DEF WalkIsHistory, WalkLeavesReplaced
<1>14. WalkOK'
  <2>1. Tip' = Tip /\ Visited' = Visited /\ walk' = walk
    BY <1>2 DEF Tip, Visited
  <2> QED
    BY <1>0, <1>2, <1>7, <1>10, <2>1 DEF WalkOK
<1>15. \A q \in Procs : IngestOK(q, ing[q])'
  <2> TAKE q \in Procs
  <2>1. CASE q = p
    <3>0. ing'[p] = s
      BY DEF s
    <3>1. \A c \in s.cand, e \in edges' :
            SamePair(e, s.id, c) => (e.by # p /\ s.since <= e.at) \/ (s.pc = "stamp" /\ c = s.target)
      <4> SUFFICES ASSUME NEW c \in s.cand, NEW e \in edges', SamePair(e, s.id, c)
                   PROVE  (e.by # p /\ s.since <= e.at) \/ (s.pc = "stamp" /\ c = s.target)
        OBVIOUS
      <4>1. CASE e = n
        <5>1. c = r.target
          BY <1>3, <1>8, <4>1 DEF SamePair
        <5> QED
          BY <1>8, <5>1
      <4>2. CASE e \in edges
        BY <1>2, <1>8, <4>2 DEF IngestOK
      <4> QED
        BY <1>2, <4>1, <4>2
    <3>2. s.since <= clock'
      BY <1>1, <1>2, <1>4, <1>8
    <3>3. s.cand \subseteq drawn /\ s.id \in drawn /\ s.id \notin s.cand
      BY <1>2, <1>4, <1>8 DEF IngestOK
    <3>4. s.pc \in {"stamp", "judge"}
          /\ (s.pc = "stamp" => s.target \in s.cand /\ <<s.id, s.target>> \in replaced')
      BY <1>4, <1>7, <1>8
    <3> QED
      BY <1>2, <1>8, <2>1, <3>0, <3>1, <3>2, <3>3, <3>4 DEF IngestOK, SamePair
  <2>2. CASE q # p
    <3> DEFINE t == ing[q]
    <3>1. ing'[q] = t /\ IngestOK(q, t)
      BY <1>0, <1>1, <1>8, <2>2
    <3> HIDE DEF t
    <3>2. t.since \in Nat
      BY <3>1 DEF IngestOK, Ingest
    <3>3. t.pc \in {"judge", "edge", "stamp"} =>
            /\ t.since <= clock'
            /\ \A c \in t.cand, e \in edges' :
                 SamePair(e, t.id, c) => (e.by # q /\ t.since <= e.at) \/ (t.pc = "stamp" /\ c = t.target)
      BY <1>1, <1>2, <1>3, <2>2, <3>1, <3>2 DEF IngestOK
    <3> QED
      BY <1>2, <1>7, <3>1, <3>3 DEF IngestOK, SamePair
  <2> QED
    BY <2>1, <2>2
<1> QED
  BY <1>0, <1>9, <1>11, <1>12, <1>13, <1>14, <1>15 DEF RInv

LEMMA StampInv == ASSUME RInv, NEW p \in Procs, Stamp(p) PROVE RInv'
<1> DEFINE r == ing[p]
<1> DEFINE s == NextCandidate(r)
<1>0. /\ TypeOK /\ GraphOK /\ JudgedOnce /\ WalkIsHistory /\ WalkLeavesReplaced /\ WalkOK
      /\ \A q \in Procs : IngestOK(q, ing[q])
  BY DEF RInv
<1>1. /\ UNCHANGED <<drawn, stored, edges, clock, replaced, faults, walk, ingests, deletes>>
      /\ invalid' = invalid \cup ({r.target} \cap stored) /\ r.pc = "stamp"
      /\ ing' = [ing EXCEPT ![p] = s]
  BY DEF Stamp, Become, At
<1>2. IngestOK(p, s)
  BY <1>0, <1>1, NextCandidateOK
<1>3. <<r.id, r.target>> \in replaced /\ r.id \in drawn
  BY <1>0, <1>1 DEF IngestOK
<1> HIDE DEF s
<1>4. ing' \in [Procs -> Ingest] /\ \A q \in Procs : ing'[q] = IF q = p THEN s ELSE ing[q]
  BY <1>0, <1>1, <1>2 DEF TypeOK, IngestOK
<1>5. TypeOK'
  BY <1>0, <1>1, <1>4 DEF TypeOK
<1>6. GraphOK'
  BY <1>0, <1>1, <1>3 DEF GraphOK, Successors
<1>7. (JudgedOnce /\ WalkIsHistory /\ WalkLeavesReplaced)'
  BY <1>0, <1>1 DEF JudgedOnce, WalkIsHistory, WalkLeavesReplaced
<1>8. WalkOK'
  BY <1>0, <1>1 DEF WalkOK, Successors, Visited, Tip
<1>9. \A q \in Procs : IngestOK(q, ing[q])'
  <2> TAKE q \in Procs
  <2>1. IngestOK(q, ing'[q])
    BY <1>0, <1>2, <1>4
  <2> QED
    BY <1>1, <2>1 DEF IngestOK, SamePair
<1> QED
  BY <1>5, <1>6, <1>7, <1>8, <1>9 DEF RInv

LEMMA DeleteInv == ASSUME RInv, NEW i \in stored, Delete(i) PROVE RInv'
<1>0. /\ TypeOK /\ GraphOK /\ JudgedOnce /\ WalkIsHistory /\ WalkLeavesReplaced /\ WalkOK
      /\ \A q \in Procs : IngestOK(q, ing[q])
  BY DEF RInv
<1>1. /\ UNCHANGED <<drawn, clock, replaced, ing, walk, ingests, faults>>
      /\ stored' = stored \ {i} /\ invalid' = invalid \ {i}
      /\ edges' = {e \in edges : i \notin {e.from, e.to}} /\ deletes' = deletes + 1
  BY DEF Delete
<1>2. deletes' \in Nat /\ deletes' # 0
  BY <1>0, <1>1 DEF TypeOK
<1>3. TypeOK'
  BY <1>0, <1>1, <1>2 DEF TypeOK
<1>4. GraphOK'
  <2>1. \A j, k : j # i /\ k # i =>
          \A e \in Successors(k) : e.from = j => e \in Successors(k)'
    BY <1>1 DEF Successors
  <2> QED
    BY <1>0, <1>1, <1>2, <2>1 DEF GraphOK
<1>5. (JudgedOnce /\ WalkIsHistory /\ WalkLeavesReplaced)'
  BY <1>0, <1>1, <1>2 DEF JudgedOnce, WalkIsHistory, WalkLeavesReplaced
<1>6. WalkOK'
  BY <1>0, <1>1, <1>2 DEF WalkOK, Visited, Tip
<1>7. \A q \in Procs : IngestOK(q, ing[q])'
  <2> TAKE q \in Procs
  <2>1. IngestOK(q, ing[q]) /\ edges' \subseteq edges
    BY <1>0, <1>1
  <2> QED
    BY <1>1, <2>1 DEF IngestOK, SamePair
<1> QED
  BY <1>3, <1>4, <1>5, <1>6, <1>7 DEF RInv

-----------------------------------------------------------------------------
(* Steps of the walk.                                                      *)

LEMMA OnlyWalk ==
  ASSUME RInv, UNCHANGED <<drawn, graph, ing, ingests, deletes, faults>>, walk' \in Walk,
         WalkIsHistory', WalkLeavesReplaced', WalkOK'
  PROVE  RInv'
<1>0. TypeOK /\ GraphOK /\ JudgedOnce /\ \A q \in Procs : IngestOK(q, ing[q])
  BY DEF RInv
<1>1. TypeOK'
  BY <1>0 DEF TypeOK, graph
<1>2. (GraphOK /\ JudgedOnce)'
  BY <1>0 DEF GraphOK, JudgedOnce, Successors, graph
<1>3. \A q \in Procs : IngestOK(q, ing[q])'
  BY <1>0 DEF IngestOK, SamePair, graph
<1> QED
  BY <1>1, <1>2, <1>3 DEF RInv

LEMMA StartWalkInv == ASSUME RInv, StartWalk PROVE RInv'
<1> DEFINE w == walk'
<1>0. TypeOK /\ GraphOK /\ WalkIsHistory /\ WalkLeavesReplaced /\ WalkOK
  BY DEF RInv
<1>1. PICK i \in Facts :
        Go(IF i \in stored
             THEN [IdleWalk EXCEPT !.pc = "relations", !.chain = <<i>>, !.old = Successors(i) # {}]
             ELSE walk)
  BY DEF StartWalk
<1>2. UNCHANGED <<drawn, graph, ing, ingests, deletes, faults>>
  BY <1>1 DEF Go
<1>3. CASE i \notin stored
  <2>1. walk' = walk
    BY <1>1, <1>3 DEF Go
  <2> QED
    BY <1>0, <1>2, <2>1, OnlyWalk
    DEF TypeOK, WalkIsHistory, WalkLeavesReplaced, WalkOK, Successors, Visited, Tip, graph
<1>4. CASE i \in stored
  <2>1. w = [pc |-> "relations", chain |-> <<i>>, next |-> None, old |-> (Successors(i) # {})]
    BY <1>1, <1>4 DEF Go, IdleWalk
  <2>2. /\ w.pc = "relations" /\ w.chain = <<i>> /\ w.next = None /\ w.old \in BOOLEAN
        /\ w.old => Successors(i) # {}
    BY <2>1
  <2>3. w \in Walk
    BY <2>1 DEF Walk
  <2> HIDE DEF w
  <2>4. walk' = w /\ Successors(i)' = Successors(i) /\ deletes' = deletes
    BY <1>2 DEF w, Successors, graph
  <2>5. Len(w.chain) = 1 /\ w.chain[1] = i
    BY <2>2
  <2>6. WalkIsHistory'
    <3>1. 2 .. 1 = {} /\ \A k \in 1 .. 1 : k = 1
      OBVIOUS
    <3>2. Len(w.chain) <= MaxHops + 1
      BY <2>5, ResolutionAssumption
    <3> QED
      BY <2>4, <2>5, <3>1, <3>2 DEF WalkIsHistory
  <2>7. WalkLeavesReplaced'
    BY <2>2, <2>4 DEF WalkLeavesReplaced
  <2>8. WalkOK'
    <3>1. Tip' = i
      BY <2>4, <2>5 DEF Tip
    <3>2. Successors(Tip)' = Successors(i)
      BY <2>4, <3>1 DEF Successors
    <3>3. w.chain # <<>>
      BY <2>2
    <3> QED
      BY <2>2, <2>4, <3>2, <3>3 DEF WalkOK
  <2> QED
    BY <1>2, <2>3, <2>4, <2>6, <2>7, <2>8, OnlyWalk
<1> QED
  BY <1>3, <1>4

LEMMA AnswerInv ==
  ASSUME RInv, Answer, walk.old /\ deletes = 0 => Len(walk.chain) > 1
  PROVE  RInv'
<1> DEFINE w == walk'
<1>0. TypeOK /\ WalkIsHistory /\ walk \in Walk
  BY DEF RInv, TypeOK
<1>1. w = [walk EXCEPT !.pc = "answered", !.next = None]
      /\ UNCHANGED <<drawn, graph, ing, ingests, deletes, faults>>
  BY DEF Answer, Go
<1>2. w.pc = "answered" /\ w.chain = walk.chain /\ (w.old <=> walk.old)
  BY <1>0, <1>1 DEF Walk
<1>3. w \in Walk
  BY <1>0, <1>1 DEF Walk
<1> HIDE DEF w
<1>4. walk' = w /\ replaced' = replaced /\ deletes' = deletes
  BY <1>1 DEF w, graph
<1>5. WalkIsHistory'
  BY <1>0, <1>2, <1>4 DEF WalkIsHistory
<1>6. WalkLeavesReplaced'
  BY <1>2, <1>4 DEF WalkLeavesReplaced
<1>7. WalkOK'
  BY <1>2, <1>4 DEF WalkOK
<1> QED
  BY <1>1, <1>3, <1>4, <1>5, <1>6, <1>7, OnlyWalk

LEMMA WalkRelationsInv == ASSUME RInv, WalkRelations PROVE RInv'
<1>0. /\ TypeOK /\ GraphOK /\ WalkIsHistory /\ WalkLeavesReplaced /\ WalkOK
      /\ walk \in Walk /\ walk.pc = "relations"
  BY DEF RInv, TypeOK, WalkRelations
<1>1. walk.chain \in Seq(Facts) /\ walk.chain # <<>> /\ Len(walk.chain) \in Nat \ {0}
  <2>1. walk.chain \in Seq(Facts) /\ walk.chain # <<>>
    BY <1>0 DEF Walk, WalkOK
  <2> QED
    BY <2>1
<1>2. CASE Answer /\ (Successors(Tip) = {} \/ Len(walk.chain) > MaxHops)
  <2>1. walk.old /\ deletes = 0 => Len(walk.chain) > 1
    BY <1>0, <1>1, <1>2, ResolutionAssumption DEF WalkOK
  <2> QED
    BY <1>2, <2>1, AnswerInv
<1>3. ASSUME NEW e \in Successors(Tip), Len(walk.chain) <= MaxHops,
             e.from \in Visited /\ Answer
      PROVE  RInv'
  <2>1. Len(walk.chain) > 1
    <3>1. PICK k \in 1 .. Len(walk.chain) : walk.chain[k] = e.from
      BY <1>3 DEF Visited
    <3>2. e.from # Tip
      <4>1. e \in edges /\ e.to = Tip
        BY <1>3 DEF Successors
      <4>2. e.from # e.to
        BY <1>0, <4>1 DEF GraphOK
      <4> QED
        BY <4>1, <4>2
    <3>3. k # Len(walk.chain)
      BY <3>1, <3>2 DEF Tip
    <3> QED
      BY <1>1, <3>1, <3>3
  <2> QED
    BY <1>3, <2>1, AnswerInv
<1>4. ASSUME NEW e \in Successors(Tip), Len(walk.chain) <= MaxHops, e.from \notin Visited,
             Go([walk EXCEPT !.pc = "find", !.next = e.from])
      PROVE  RInv'
  <2> DEFINE w == walk'
  <2>1. e.from \in drawn /\ <<e.from, Tip>> \in replaced /\ e.from \in Facts
    BY <1>0 DEF Successors, TypeOK, GraphOK
  <2>2. w = [walk EXCEPT !.pc = "find", !.next = e.from]
        /\ UNCHANGED <<drawn, graph, ing, ingests, deletes, faults>>
    BY <1>4 DEF Go
  <2>3. w.pc = "find" /\ w.chain = walk.chain /\ w.next = e.from
    BY <1>0, <2>2 DEF Walk
  <2>4. w \in Walk
    BY <1>0, <2>1, <2>2 DEF Walk
  <2> HIDE DEF w
  <2>5. walk' = w /\ replaced' = replaced /\ deletes' = deletes /\ drawn' = drawn
    BY <2>2 DEF w, graph
  <2>6. Tip' = Tip /\ Visited' = Visited
    BY <2>3, <2>5 DEF Tip, Visited
  <2>7. WalkIsHistory'
    BY <1>0, <2>3, <2>5 DEF WalkIsHistory
  <2>8. WalkLeavesReplaced' /\ WalkOK'
    <3>1. WalkLeavesReplaced'
      BY <2>3, <2>5 DEF WalkLeavesReplaced
    <3>2. WalkOK'
      BY <1>1, <1>4, <2>1, <2>3, <2>5, <2>6 DEF WalkOK
    <3> QED
      BY <3>1, <3>2
  <2> QED
    BY <2>2, <2>4, <2>5, <2>7, <2>8, OnlyWalk
<1> QED
  BY <1>2, <1>3, <1>4 DEF WalkRelations

(* The chain grows by a fact that replaced its end.                        *)
LEMMA WalkFindInv == ASSUME RInv, WalkFind PROVE RInv'
<1>0. /\ TypeOK /\ GraphOK /\ WalkIsHistory /\ WalkLeavesReplaced /\ WalkOK
      /\ walk \in Walk /\ walk.pc = "find"
  BY DEF RInv, TypeOK, WalkFind
<1> DEFINE c == walk.chain
<1> DEFINE x == walk.next
<1>1. /\ c \in Seq(Facts) /\ c # <<>> /\ Len(c) <= MaxHops
      /\ x \in drawn /\ x \in Facts /\ x \notin Visited /\ <<x, Tip>> \in replaced
  <2>1. drawn \subseteq Facts
    BY <1>0 DEF TypeOK
  <2> QED
    BY <1>0, <2>1 DEF Walk, WalkOK
<1>2. CASE x \notin stored /\ Answer
  <2>1. deletes # 0
    BY <1>0, <1>1, <1>2 DEF GraphOK
  <2> QED
    BY <1>2, <2>1, AnswerInv
<1>3. CASE Go([walk EXCEPT !.pc = "relations", !.next = None, !.chain = Append(@, walk.next)])
  <2> DEFINE w == walk'
  <2> DEFINE d == Append(c, x)
  <2>1. w = [walk EXCEPT !.pc = "relations", !.next = None, !.chain = Append(@, x)]
        /\ UNCHANGED <<drawn, graph, ing, ingests, deletes, faults>>
    BY <1>3 DEF Go
  <2>2. w.pc = "relations" /\ w.chain = d
    BY <1>0, <2>1 DEF Walk
  <2>3. d \in Seq(Facts)
    BY <1>1
  <2>4. w \in Walk
    BY <1>0, <2>1, <2>3 DEF Walk
  <2>5. Len(d) = Len(c) + 1 /\ d[Len(c) + 1] = x /\ \A k \in 1 .. Len(c) : d[k] = c[k]
    BY <1>1
  <2>6. Len(c) \in Nat /\ Len(c) > 0
    BY <1>1
  <2> HIDE DEF w, d
  <2>7. walk' = w /\ replaced' = replaced /\ deletes' = deletes
    BY <2>1 DEF w, graph
  <2>8. WalkIsHistory'
    <3>1. \A k \in 2 .. Len(d) : <<d[k], d[k - 1]>> \in replaced
      <4> TAKE k \in 2 .. Len(d)
      <4>1. CASE k = Len(c) + 1
        <5>1. d[k - 1] = c[Len(c)]
          BY <2>5, <2>6, <4>1
        <5> QED
          BY <1>1, <2>5, <4>1, <5>1 DEF Tip
      <4>2. CASE k # Len(c) + 1
        <5>1. k \in 2 .. Len(c) /\ k - 1 \in 1 .. Len(c) /\ k \in 1 .. Len(c)
          BY <2>5, <2>6, <4>2
        <5>2. <<c[k], c[k - 1]>> \in replaced
          BY <1>0, <5>1 DEF WalkIsHistory
        <5> QED
          BY <2>5, <5>1, <5>2
      <4> QED
        BY <4>1, <4>2
    <3>2. \A k, l \in 1 .. Len(d) : d[k] = d[l] => k = l
      <4>1. \A k \in 1 .. Len(d) : k = Len(c) + 1 \/ k \in 1 .. Len(c)
        BY <2>5, <2>6
      <4>2. \A k \in 1 .. Len(c) : c[k] # x
        BY <1>1 DEF Visited
      <4>3. \A k, l \in 1 .. Len(c) : c[k] = c[l] => k = l
        BY <1>0 DEF WalkIsHistory
      <4> QED
        BY <2>5, <4>1, <4>2, <4>3
    <3>3. Len(d) <= MaxHops + 1
      BY <1>1, <2>5, <2>6, ResolutionAssumption
    <3> QED
      BY <2>2, <2>7, <3>1, <3>2, <3>3 DEF WalkIsHistory
  <2>9. WalkLeavesReplaced'
    BY <2>2, <2>7 DEF WalkLeavesReplaced
  <2>10. WalkOK'
    <3>1. d # <<>> /\ Len(d) > 1
      <4>1. Len(d) > 1
        BY <2>5, <2>6
      <4> QED
        BY <4>1
    <3> QED
      BY <2>2, <2>7, <3>1 DEF WalkOK
  <2> QED
    BY <2>1, <2>4, <2>7, <2>8, <2>9, <2>10, OnlyWalk
<1> QED
  BY <1>2, <1>3 DEF WalkFind

LEMMA WalkEndInv == ASSUME RInv, WalkEnd PROVE RInv'
<1>1. walk' = IdleWalk /\ UNCHANGED <<drawn, graph, ing, ingests, deletes, faults>>
  BY DEF WalkEnd, Go
<1>2. IdleWalk \in Walk
  BY DEF IdleWalk, Walk
<1>3. walk'.pc = "idle" /\ walk'.chain = <<>>
  BY <1>1 DEF IdleWalk
<1>4. WalkIsHistory'
  <2>1. Len(<<>>) = 0 /\ 2 .. 0 = {} /\ 1 .. 0 = {} /\ 0 <= MaxHops + 1
    BY ResolutionAssumption
  <2> QED
    BY <1>3, <2>1 DEF WalkIsHistory
<1>5. WalkLeavesReplaced' /\ WalkOK'
  BY <1>3 DEF WalkLeavesReplaced, WalkOK
<1> QED
  BY <1>1, <1>2, <1>4, <1>5, OnlyWalk

-----------------------------------------------------------------------------
LEMMA InitRInv == Init => RInv
<1> SUFFICES ASSUME Init PROVE RInv
  OBVIOUS
<1>1. ing \in [Procs -> Ingest] /\ \A p \in Procs : ing[p] = IdleIngest
  <2>1. \A p \in Procs : IdleIngest \in Ingest
    BY IdleIngestOK
  <2> QED
    BY <2>1 DEF Init
<1>2. IdleWalk \in Walk /\ walk = IdleWalk /\ walk.pc = "idle" /\ walk.chain = <<>>
  BY DEF IdleWalk, Walk, Init
<1>3. TypeOK
  BY <1>1, <1>2 DEF Init, TypeOK
<1>4. GraphOK /\ JudgedOnce
  BY DEF Init, GraphOK, JudgedOnce
<1>5. WalkIsHistory
  <2>1. Len(<<>>) = 0 /\ 2 .. 0 = {} /\ 1 .. 0 = {} /\ 0 <= MaxHops + 1
    BY ResolutionAssumption
  <2> QED
    BY <1>2, <2>1 DEF WalkIsHistory
<1>6. WalkLeavesReplaced /\ WalkOK
  BY <1>2 DEF WalkLeavesReplaced, WalkOK
<1>7. \A p \in Procs : IngestOK(p, ing[p])
  BY <1>1, IdleIngestOK
<1> QED
  BY <1>3, <1>4, <1>5, <1>6, <1>7 DEF RInv

(* Every behaviour keeps the invariant.                                    *)
THEOREM ResolutionInvariance == Spec => []RInv
<1>1. RInv /\ [Next]_vars => RInv'
  <2> SUFFICES ASSUME RInv, [Next]_vars PROVE RInv'
    OBVIOUS
  <2>1. ASSUME NEW p \in Procs, StartIngest(p) \/ IngestStep(p) \/ Fail(p) PROVE RInv'
    BY <2>1, StartInv, CreateInv, ReadInv, WriteEdgeInv, StampInv, FailInv DEF IngestStep
  <2>2. ASSUME NEW i \in stored, Delete(i) PROVE RInv'
    BY <2>2, DeleteInv
  <2>3. CASE StartWalk \/ WalkStep
    BY <2>3, StartWalkInv, WalkRelationsInv, WalkFindInv, WalkEndInv DEF WalkStep
  <2>4. CASE UNCHANGED vars
    <3>1. /\ UNCHANGED <<drawn, graph, ing, ingests, deletes, faults>> /\ walk' = walk
      BY <2>4 DEF vars
    <3>2. walk' \in Walk /\ WalkIsHistory' /\ WalkLeavesReplaced' /\ WalkOK'
      BY <3>1 DEF RInv, TypeOK, WalkIsHistory, WalkLeavesReplaced, WalkOK, Successors, Visited,
                  Tip, graph
    <3> QED
      BY <3>1, <3>2, OnlyWalk
  <2> QED
    BY <2>1, <2>2, <2>3, <2>4 DEF Next
<1> QED
  BY InitRInv, <1>1, PTL DEF Spec

(* Types; only stored facts are stamped, and edges lead between facts.     *)
THEOREM TypeCorrect == Spec => []TypeOK
<1>1. RInv => TypeOK
  BY DEF RInv
<1> QED
  BY <1>1, ResolutionInvariance, PTL

(* A hidden fact has a successor, linked as long as both are there.        *)
THEOREM HiddenHasSuccessor == Spec => []StampedHasSuccessor
<1>1. ASSUME RInv PROVE StampedHasSuccessor
  <2> SUFFICES ASSUME NEW i \in invalid
               PROVE  \E j \in drawn : /\ <<j, i>> \in replaced
                                       /\ j \in stored => \E e \in Successors(i) : e.from = j
    BY DEF StampedHasSuccessor
  <2>1. GraphOK /\ i \in stored
    BY <1>1 DEF RInv, TypeOK
  <2> QED
    BY <2>1 DEF GraphOK
<1> QED
  BY <1>1, ResolutionInvariance, PTL

(* Two judgements of a pair are due to two ingests that overlapped.        *)
THEOREM PairsJudgedOnce == Spec => []JudgedOnce
<1>1. RInv => JudgedOnce
  BY DEF RInv
<1> QED
  BY <1>1, ResolutionInvariance, PTL

(* The walk goes from old to new, never comes back, and ends.              *)
THEOREM WalksHistory == Spec => []WalkIsHistory
<1>1. RInv => WalkIsHistory
  BY DEF RInv
<1> QED
  BY <1>1, ResolutionInvariance, PTL

(* A fact that was replaced before is not answered as the current one.     *)
THEOREM WalksOn == Spec => []WalkLeavesReplaced
<1>1. RInv => WalkLeavesReplaced
  BY DEF RInv
<1> QED
  BY <1>1, ResolutionInvariance, PTL
=============================================================================
