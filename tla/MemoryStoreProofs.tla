-------------------------- MODULE MemoryStoreProofs --------------------------
(***************************************************************************)
(* Theorems about MemoryStore, for every number of ids, texts, requests    *)
(* and failures, and, at the end, about ConnectionManager, through which   *)
(* the store reaches its database.                                         *)
(*                                                                         *)
(* The argument turns on two sets that never lose a member: the Dead ids,  *)
(* whose row is gone, and the Spent ids, which are dead, superseded or     *)
(* were superseded once.  A request or a reconcile pass decides on what it *)
(* read awaits ago; it does no harm because everything it may write on     *)
(* that ground (a hidden flag, the deletion of a point, an answer) is      *)
(* justified by membership in one of these sets.                           *)
(***************************************************************************)
EXTENDS MemoryStore, ConnectionManager, TLAPS

Dead == allocated \ stored
Spent == Dead \cup marked \cup cleared

(* Control states in which a request has no memory in hand.                *)
Unaimed == {"idle", "create_find", "create_insert", "search_index",
            "search_rows", "answered"}

(* The request will tell the index to hide the memory in its hand.         *)
WillHide(r) ==
  \/ r.inv /\ r.pc \in {"create_upsert", "store_upsert", "update_upsert"}
  \/ r.mark = "set" /\ r.pc \in {"update_back", "update_mirror"}

(* What a request has in hand agrees with ids ever drawn (drawn), spent    *)
(* ids (spent) and ids whose mark was ever taken back (back).              *)
Sound(r, drawn, spent, back) ==
  /\ r.pc \notin Unaimed => r.id \in drawn
  /\ WillHide(r) => r.id \in spent
  /\ r.gone \subseteq spent
  /\ r.pc = "answered" /\ r.id = None => r.hits \cap r.gone \subseteq back

(* Types of both stores, and nothing current is hidden.                    *)
StoresOK ==
  /\ allocated \subseteq Ids
  /\ stored \subseteq allocated /\ marked \subseteq stored
  /\ cleared \subseteq allocated
  /\ content \in [Ids -> Texts \cup {None}]
  /\ rowVec \in [Ids -> Texts \cup {None}]
  /\ indexed \subseteq allocated /\ hidden \subseteq indexed
  /\ vec \in [Ids -> Texts \cup {None}]
  /\ hidden \subseteq Spent

RequestsOK ==
  /\ op \in [Procs -> Request]
  /\ \A p \in Procs : Sound(op[p], allocated, Spent, cleared)

PassOK ==
  /\ rec \in Pass
  /\ rec.seen \subseteq allocated /\ rec.todo \subseteq allocated
  /\ rec.orphans \subseteq Dead

(* The inductive invariant.                                                *)
IInv ==
  /\ StoresOK
  /\ RequestsOK
  /\ PassOK
  /\ requests \in Nat /\ faults \in Nat

(* What every step does to the sets the argument turns on.                 *)
Grows ==
  /\ allocated \subseteq allocated'
  /\ Dead \subseteq Dead'
  /\ Spent \subseteq Spent'
  /\ cleared \subseteq cleared'

-----------------------------------------------------------------------------
(* The invariant implies the properties that the runs check.               *)
LEMMA Consequences ==
  IInv => TypeOK /\ HiddenMeansMarked /\ AnswerIsFresh /\ OrphansAreDead
<1> SUFFICES ASSUME IInv
             PROVE  TypeOK /\ HiddenMeansMarked /\ AnswerIsFresh /\ OrphansAreDead
  OBVIOUS
<1>1. TypeOK
  BY DEF IInv, StoresOK, RequestsOK, PassOK, TypeOK
<1>2. HiddenMeansMarked
  BY DEF IInv, StoresOK, HiddenMeansMarked, Spent, Dead
<1>3. AnswerIsFresh
  BY DEF IInv, RequestsOK, Sound, AnswerIsFresh, At
<1>4. OrphansAreDead
  BY DEF IInv, PassOK, OrphansAreDead, Dead
<1> QED
  BY <1>1, <1>2, <1>3, <1>4

(* A request that stays where it is stays sound as the sets grow.          *)
LEMMA SoundGrows ==
  ASSUME NEW r, NEW drawn, NEW spent, NEW back,
         NEW drawn2, NEW spent2, NEW back2,
         Sound(r, drawn, spent, back),
         drawn \subseteq drawn2, spent \subseteq spent2, back \subseteq back2
  PROVE  Sound(r, drawn2, spent2, back2)
  BY DEF Sound

(* A step of one request that leaves both stores sound keeps the invariant *)
(* when what the request takes on is sound.                                *)
LEMMA RequestStep ==
  ASSUME IInv, Grows, StoresOK',
         NEW p \in Procs, NEW r \in Request,
         op' = [op EXCEPT ![p] = r],
         Sound(r, allocated', Spent', cleared'),
         rec' = rec, requests' \in Nat, faults' \in Nat
  PROVE  IInv'
<1>1. op' \in [Procs -> Request]
  BY DEF IInv, RequestsOK
<1>2. ASSUME NEW q \in Procs
      PROVE  Sound(op'[q], allocated', Spent', cleared')
  <2>1. CASE q = p
    BY <2>1 DEF IInv, RequestsOK
  <2>2. CASE q # p
    <3>1. op'[q] = op[q]
      BY <2>2 DEF IInv, RequestsOK
    <3>2. Sound(op[q], allocated, Spent, cleared)
      BY DEF IInv, RequestsOK
    <3> QED
      BY <3>1, <3>2, SoundGrows DEF Grows
  <2> QED
    BY <2>1, <2>2
<1>3. RequestsOK'
  BY <1>1, <1>2 DEF RequestsOK
<1>4. PassOK'
  BY DEF IInv, PassOK, Grows
<1> QED
  BY <1>3, <1>4 DEF IInv

(* A step that touches neither store.                                      *)
LEMMA StoresStay ==
  ASSUME IInv, UNCHANGED <<allocated, rows, points>>
  PROVE  /\ StoresOK' /\ Grows
         /\ allocated' = allocated /\ Spent' = Spent /\ cleared' = cleared
  BY DEF IInv, StoresOK, Grows, rows, points, Spent, Dead

(* An upsert of a point, hidden only when its memory is spent.             *)
LEMMA UpsertStep ==
  ASSUME IInv, NEW i \in allocated, NEW v \in Texts \cup {None}, NEW inv \in BOOLEAN,
         inv => i \in Spent,
         Upsert(i, v, inv)
  PROVE  /\ StoresOK' /\ Grows
         /\ allocated' = allocated /\ Spent' = Spent /\ cleared' = cleared
<1>1. /\ UNCHANGED <<allocated, stored, content, marked, rowVec, cleared>>
      /\ Spent' = Spent /\ Dead' = Dead
  BY DEF Upsert, rows, Spent, Dead
<1>2. /\ indexed' = indexed \cup {i}
      /\ hidden' = IF inv THEN hidden \cup {i} ELSE hidden \ {i}
      /\ vec' = [vec EXCEPT ![i] = v]
  BY DEF Upsert
<1>3. StoresOK'
  BY <1>1, <1>2 DEF IInv, StoresOK
<1> QED
  BY <1>1, <1>3 DEF Grows

(* The idle request is a request, and sound.                               *)
LEMMA IdleSound ==
  /\ IdleRequest \in Request
  /\ \A drawn, spent, back : Sound(IdleRequest, drawn, spent, back)
  BY DEF IdleRequest, Request, Pcs, Marks, Sound, Unaimed, WillHide

-----------------------------------------------------------------------------
(* One lemma per group of actions: the invariant survives the step.        *)

LEMMA InitOK == Init => IInv
<1> SUFFICES ASSUME Init PROVE IInv
  OBVIOUS
<1>1. StoresOK
  BY DEF Init, StoresOK, Spent, Dead
<1>2. RequestsOK
  BY IdleSound DEF Init, RequestsOK
<1>3. PassOK
  BY DEF Init, PassOK, Pass, IdlePass
<1> QED
  BY <1>1, <1>2, <1>3 DEF Init, IInv

(* A request begins: what it takes on must be sound.                       *)
LEMMA BeginStep ==
  ASSUME IInv, NEW p \in Procs, NEW r \in Request,
         Begin(p, r), Sound(r, allocated, Spent, cleared)
  PROVE  IInv' /\ Grows
<1>1. /\ StoresOK' /\ Grows
      /\ allocated' = allocated /\ Spent' = Spent /\ cleared' = cleared
  BY StoresStay DEF Begin
<1>2. requests' \in Nat /\ faults' \in Nat
  BY DEF Begin, IInv
<1> QED
  BY <1>1, <1>2, RequestStep DEF Begin

(* A request goes on without touching a store.                             *)
LEMMA ContinueStep ==
  ASSUME IInv, NEW p \in Procs, NEW r \in Request,
         Continue(p, r), UNCHANGED <<allocated, rows, points>>,
         Sound(r, allocated, Spent, cleared)
  PROVE  IInv' /\ Grows
<1>1. /\ StoresOK' /\ Grows
      /\ allocated' = allocated /\ Spent' = Spent /\ cleared' = cleared
  BY StoresStay
<1>2. requests' \in Nat /\ faults' \in Nat
  BY DEF Continue, IInv
<1> QED
  BY <1>1, <1>2, RequestStep DEF Continue

LEMMA FinishStep ==
  ASSUME IInv, NEW p \in Procs,
         Finish(p), UNCHANGED <<allocated, rows, points>>
  PROVE  IInv' /\ Grows
  BY ContinueStep, IdleSound DEF Finish

LEMMA StartOK ==
  ASSUME IInv, NEW p \in Procs, Start(p)
  PROVE  IInv' /\ Grows
<1>1. CASE StartCreate(p)
  <2>1. PICK c \in Texts : \E v \in {c, None} :
          Begin(p, [IdleRequest EXCEPT !.pc = "create_find", !.text = c, !.vec = v])
    BY <1>1 DEF StartCreate
  <2>2. PICK v \in {c, None} :
          Begin(p, [IdleRequest EXCEPT !.pc = "create_find", !.text = c, !.vec = v])
    BY <2>1
  <2> DEFINE r == [IdleRequest EXCEPT !.pc = "create_find", !.text = c, !.vec = v]
  <2>3. r \in Request
    BY DEF IdleRequest, Request, Pcs, Marks
  <2>4. Sound(r, allocated, Spent, cleared)
    BY DEF IdleRequest, Sound, Unaimed, WillHide
  <2> QED
    BY <2>2, <2>3, <2>4, BeginStep
<1>2. CASE StartEmbed(p)
  <2>1. PICK i \in allocated :
          Begin(p, [IdleRequest EXCEPT !.pc = "embed_get", !.id = i])
    BY <1>2 DEF StartEmbed
  <2> DEFINE r == [IdleRequest EXCEPT !.pc = "embed_get", !.id = i]
  <2>2. r \in Request
    BY DEF IdleRequest, Request, Pcs, Marks, IInv, StoresOK
  <2>3. Sound(r, allocated, Spent, cleared)
    BY DEF IdleRequest, Sound, WillHide
  <2> QED
    BY <2>1, <2>2, <2>3, BeginStep
<1>3. CASE StartUpdate(p)
  <2>1. PICK i \in allocated :
          \/ \E c \in Texts, m \in BOOLEAN :
               Begin(p, [IdleRequest EXCEPT !.pc = "update_read", !.id = i,
                                            !.text = c, !.mcp = m])
          \/ \E k \in {"set", "clear"} :
               Begin(p, [IdleRequest EXCEPT !.pc = "update_read", !.id = i,
                                            !.mark = k])
    BY <1>3 DEF StartUpdate
  <2>2. ASSUME NEW c \in Texts, NEW m \in BOOLEAN,
               Begin(p, [IdleRequest EXCEPT !.pc = "update_read", !.id = i,
                                            !.text = c, !.mcp = m])
        PROVE  IInv' /\ Grows
    <3> DEFINE r == [IdleRequest EXCEPT !.pc = "update_read", !.id = i,
                                        !.text = c, !.mcp = m]
    <3>1. r \in Request
      BY DEF IdleRequest, Request, Pcs, Marks, IInv, StoresOK
    <3>2. Sound(r, allocated, Spent, cleared)
      BY DEF IdleRequest, Sound, WillHide
    <3> QED
      BY <2>2, <3>1, <3>2, BeginStep
  <2>3. ASSUME NEW k \in {"set", "clear"},
               Begin(p, [IdleRequest EXCEPT !.pc = "update_read", !.id = i,
                                            !.mark = k])
        PROVE  IInv' /\ Grows
    <3> DEFINE r == [IdleRequest EXCEPT !.pc = "update_read", !.id = i, !.mark = k]
    <3>1. r \in Request
      BY DEF IdleRequest, Request, Pcs, Marks, IInv, StoresOK
    <3>2. Sound(r, allocated, Spent, cleared)
      BY DEF IdleRequest, Sound, WillHide
    <3> QED
      BY <2>3, <3>1, <3>2, BeginStep
  <2> QED
    BY <2>1, <2>2, <2>3
<1>4. CASE StartDelete(p)
  <2>1. PICK i \in allocated :
          Begin(p, [IdleRequest EXCEPT !.pc = "delete_both", !.id = i])
    BY <1>4 DEF StartDelete
  <2> DEFINE r == [IdleRequest EXCEPT !.pc = "delete_both", !.id = i]
  <2>2. r \in Request
    BY DEF IdleRequest, Request, Pcs, Marks, IInv, StoresOK
  <2>3. Sound(r, allocated, Spent, cleared)
    BY DEF IdleRequest, Sound, WillHide
  <2> QED
    BY <2>1, <2>2, <2>3, BeginStep
<1>5. CASE StartSearch(p)
  <2> DEFINE r == [IdleRequest EXCEPT !.pc = "search_index", !.gone = Gone]
  <2>1. r \in Request
    BY DEF IdleRequest, Request, Pcs, Marks, Gone, IInv, StoresOK
  <2>2. Sound(r, allocated, Spent, cleared)
    BY DEF IdleRequest, Sound, WillHide, Unaimed, Gone, Spent, Dead
  <2> QED
    BY <1>5, <2>1, <2>2, BeginStep DEF StartSearch
<1>6. CASE StartSimilar(p)
  <2>1. PICK i \in indexed :
          Begin(p, [IdleRequest EXCEPT !.pc = "similar_index", !.id = i,
                                       !.gone = Gone])
    BY <1>6 DEF StartSimilar
  <2> DEFINE r == [IdleRequest EXCEPT !.pc = "similar_index", !.id = i, !.gone = Gone]
  <2>2. r \in Request
    BY DEF IdleRequest, Request, Pcs, Marks, Gone, IInv, StoresOK
  <2>3. Sound(r, allocated, Spent, cleared)
    BY DEF IdleRequest, Sound, WillHide, Gone, Spent, Dead, IInv, StoresOK
  <2> QED
    BY <2>1, <2>2, <2>3, BeginStep
<1> QED
  BY <1>1, <1>2, <1>3, <1>4, <1>5, <1>6 DEF Start

(* What the steps below use of the invariant for the request at hand.      *)
LEMMA InHand ==
  ASSUME IInv, NEW p \in Procs
  PROVE  /\ op[p] \in Request
         /\ Sound(op[p], allocated, Spent, cleared)
         /\ allocated \subseteq Ids /\ stored \subseteq allocated
         /\ marked \subseteq stored /\ marked \subseteq Spent
         /\ indexed \subseteq allocated
         /\ content \in [Ids -> Texts \cup {None}]
         /\ rowVec \in [Ids -> Texts \cup {None}]
  BY DEF IInv, StoresOK, RequestsOK, Spent

LEMMA CreateOK ==
  ASSUME IInv, NEW p \in Procs,
         CreateFind(p) \/ CreateInsert(p) \/ CreateUpsert(p)
  PROVE  IInv' /\ Grows
<1> USE InHand
<1>1. CASE CreateFind(p)
  <2>1. CASE \E i \in stored :
               /\ content[i] = op[p].text
               /\ Continue(p, [op[p] EXCEPT !.pc = AfterCreate(op[p]), !.id = i,
                                            !.inv = i \in marked])
    <3>1. PICK i \in stored :
            Continue(p, [op[p] EXCEPT !.pc = AfterCreate(op[p]), !.id = i,
                                      !.inv = i \in marked])
      BY <2>1
    <3> DEFINE r == [op[p] EXCEPT !.pc = AfterCreate(op[p]), !.id = i,
                                  !.inv = i \in marked]
    <3>2. r \in Request
      <4>1. (i \in marked) \in BOOLEAN /\ i \in Ids /\ AfterCreate(op[p]) \in Pcs
        BY DEF AfterCreate, Pcs
      <4> QED
        BY <4>1 DEF Request
    <3>3. r.pc \in {"create_upsert", "embed_get"} /\ r.id = i /\ r.inv = (i \in marked)
      BY DEF Request, AfterCreate
    <3>4. r.gone = op[p].gone
      BY DEF Request
    <3>5. Sound(r, allocated, Spent, cleared)
      BY <3>3, <3>4 DEF Sound, WillHide
    <3> QED
      BY <1>1, <3>1, <3>2, <3>5, ContinueStep DEF CreateFind
  <2>2. CASE Continue(p, [op[p] EXCEPT !.pc = "create_insert"])
    <3> DEFINE r == [op[p] EXCEPT !.pc = "create_insert"]
    <3>1. r \in Request
      BY DEF Request, Pcs
    <3>2. Sound(r, allocated, Spent, cleared)
      BY DEF Request, Sound, WillHide, Unaimed
    <3> QED
      BY <1>1, <2>2, <3>1, <3>2, ContinueStep DEF CreateFind
  <2> QED
    BY <1>1, <2>1, <2>2 DEF CreateFind
<1>2. CASE CreateInsert(p)
  <2>1. PICK i \in FreshIds :
          /\ allocated' = allocated \cup {i}
          /\ stored' = stored \cup {i}
          /\ content' = [content EXCEPT ![i] = op[p].text]
          /\ rowVec' = [rowVec EXCEPT ![i] = op[p].vec]
          /\ Continue(p, [op[p] EXCEPT !.pc = AfterCreate(op[p]), !.id = i,
                                       !.inv = FALSE])
    BY <1>2 DEF CreateInsert
  <2> DEFINE r == [op[p] EXCEPT !.pc = AfterCreate(op[p]), !.id = i, !.inv = FALSE]
  <2>2. i \in Ids /\ i \notin allocated
    BY DEF FreshIds
  <2>3. UNCHANGED <<marked, cleared, indexed, hidden, vec>>
    BY <1>2 DEF CreateInsert, points
  <2>4. Dead' = Dead /\ Spent' = Spent
    BY <2>1, <2>2, <2>3 DEF Dead, Spent
  <2>5. Grows
    BY <2>1, <2>3, <2>4 DEF Grows
  <2>6. op[p].text \in Texts \cup {None} /\ op[p].vec \in Texts \cup {None}
    BY DEF Request
  <2>7. StoresOK'
    BY <2>1, <2>2, <2>3, <2>4, <2>6 DEF IInv, StoresOK
  <2>8. r \in Request
    BY <2>2 DEF Request, Pcs, AfterCreate
  <2>9. r.pc \in {"create_upsert", "embed_get"} /\ r.id = i /\ r.inv = FALSE
        /\ r.gone = op[p].gone
    BY DEF Request, AfterCreate
  <2>10. Sound(r, allocated', Spent', cleared')
    BY <2>1, <2>4, <2>9 DEF Sound, WillHide
  <2>11. op' = [op EXCEPT ![p] = r] /\ rec' = rec
         /\ requests' \in Nat /\ faults' \in Nat
    BY <2>1 DEF Continue, IInv
  <2>12. IInv'
    BY ONLY IInv, p \in Procs, <2>5, <2>7, <2>8, <2>10, <2>11, RequestStep
  <2> QED
    BY <2>5, <2>12
<1>3. CASE CreateUpsert(p)
  <2> DEFINE r == [op[p] EXCEPT !.pc = "embed_get"]
  <2>1. At(p, "create_upsert") /\ Upsert(op[p].id, op[p].vec, op[p].inv)
        /\ Continue(p, r)
    BY <1>3 DEF CreateUpsert
  <2>2. /\ op[p].id \in allocated /\ op[p].vec \in Texts \cup {None}
        /\ op[p].inv \in BOOLEAN /\ (op[p].inv => op[p].id \in Spent)
    BY <2>1 DEF At, Sound, Unaimed, WillHide, Request
  <2>3. /\ StoresOK' /\ Grows
        /\ allocated' = allocated /\ Spent' = Spent /\ cleared' = cleared
    BY <2>1, <2>2, UpsertStep
  <2>4. r \in Request
    BY DEF Request, Pcs
  <2>5. Sound(r, allocated, Spent, cleared)
    BY <2>1, <2>2 DEF Request, Sound, WillHide, Unaimed
  <2> QED
    BY <2>1, <2>3, <2>4, <2>5, RequestStep DEF Continue, IInv
<1> QED
  BY <1>1, <1>2, <1>3

LEMMA EmbedOK ==
  ASSUME IInv, NEW p \in Procs,
         EmbedGet(p) \/ StoreRead(p) \/ StoreUpsert(p)
  PROVE  IInv' /\ Grows
<1> USE InHand
<1>1. CASE EmbedGet(p)
  <2> DEFINE r == [op[p] EXCEPT !.pc = "store_read", !.vec = content[op[p].id]]
  <2>1. CASE Continue(p, r)
    <3>1. op[p].id \in allocated
      BY <1>1 DEF EmbedGet, At, Sound, Unaimed
    <3>2. r \in Request
      BY <3>1 DEF Request, Pcs
    <3>3. Sound(r, allocated, Spent, cleared)
      BY <3>1 DEF Request, Sound, WillHide
    <3> QED
      BY <1>1, <2>1, <3>2, <3>3, ContinueStep DEF EmbedGet
  <2> QED
    BY <1>1, <2>1, FinishStep DEF EmbedGet
<1>2. CASE StoreRead(p)
  <2> DEFINE i == op[p].id
             r == [op[p] EXCEPT !.pc = "store_upsert", !.inv = i \in marked]
  <2>1. CASE Continue(p, r)
    <3>1. i \in allocated
      BY <1>2 DEF StoreRead, At, Sound, Unaimed
    <3>2. r \in Request
      <4>1. (i \in marked) \in BOOLEAN
        OBVIOUS
      <4> QED
        BY <4>1 DEF Request, Pcs
    <3>3. r.pc = "store_upsert" /\ r.id = i /\ r.inv = (i \in marked)
          /\ r.gone = op[p].gone
      BY DEF Request
    <3>4. Sound(r, allocated, Spent, cleared)
      BY <3>1, <3>3 DEF Sound, WillHide
    <3> QED
      BY <1>2, <2>1, <3>2, <3>4, ContinueStep DEF StoreRead
  <2> QED
    BY <1>2, <2>1, FinishStep DEF StoreRead
<1>3. CASE StoreUpsert(p)
  <2>1. /\ op[p].id \in allocated /\ op[p].vec \in Texts \cup {None}
        /\ op[p].inv \in BOOLEAN /\ (op[p].inv => op[p].id \in Spent)
    BY <1>3 DEF StoreUpsert, At, Sound, Unaimed, WillHide, Request
  <2>2. /\ StoresOK' /\ Grows
        /\ allocated' = allocated /\ Spent' = Spent /\ cleared' = cleared
    BY <1>3, <2>1, UpsertStep DEF StoreUpsert
  <2> QED
    BY <1>3, <2>2, IdleSound, RequestStep DEF StoreUpsert, Finish, Continue, IInv
<1> QED
  BY <1>1, <1>2, <1>3

(* A write of a row keeps both stores sound, and a row that the write      *)
(* marks is spent.                                                         *)
LEMMA UpdateRowStep ==
  ASSUME IInv, NEW i \in stored, NEW c \in Texts \cup {None}, NEW k \in Marks,
         UpdateRow(i, c, k), UNCHANGED <<allocated, points>>
  PROVE  StoresOK' /\ Grows /\ (k = "set" => i \in Spent')
<1>1. /\ UNCHANGED <<allocated, stored, rowVec, indexed, hidden, vec>>
      /\ Dead' = Dead
  BY DEF UpdateRow, points, Dead
<1>2. content' \in [Ids -> Texts \cup {None}]
  BY DEF UpdateRow, IInv, StoresOK
<1>3. /\ marked' \subseteq stored /\ cleared' \subseteq allocated
      /\ cleared \subseteq cleared' /\ marked \subseteq marked' \cup cleared'
      /\ k = "set" => i \in marked'
  <2>1. CASE k = "keep"
    BY <2>1 DEF UpdateRow, IInv, StoresOK
  <2>2. CASE k = "set"
    BY <2>2 DEF UpdateRow, IInv, StoresOK
  <2>3. CASE k = "clear"
    BY <2>3 DEF UpdateRow, IInv, StoresOK
  <2> QED
    BY <2>1, <2>2, <2>3 DEF Marks
<1>4. Spent \subseteq Spent' /\ (k = "set" => i \in Spent')
  BY <1>1, <1>3 DEF Spent
<1>5. StoresOK'
  BY <1>1, <1>2, <1>3, <1>4 DEF IInv, StoresOK
<1> QED
  BY <1>1, <1>3, <1>4, <1>5 DEF Grows

LEMMA UpdateOK ==
  ASSUME IInv, NEW p \in Procs,
         \/ UpdateRead(p) \/ UpdateWrite(p) \/ UpdateBack(p)
         \/ UpdateUpsert(p) \/ UpdateMirror(p)
  PROVE  IInv' /\ Grows
<1> USE InHand
<1>1. CASE UpdateRead(p)
  <2> DEFINE r == [op[p] EXCEPT !.pc = "update_write"]
  <2>1. CASE Continue(p, r)
    <3>1. r \in Request
      BY DEF Request, Pcs
    <3>2. Sound(r, allocated, Spent, cleared)
      BY <1>1 DEF UpdateRead, At, Request, Sound, WillHide, Unaimed
    <3> QED
      BY <1>1, <2>1, <3>1, <3>2, ContinueStep DEF UpdateRead
  <2> QED
    BY <1>1, <2>1, FinishStep DEF UpdateRead
<1>2. CASE UpdateWrite(p)
  <2> DEFINE i == op[p].id
             r == [op[p] EXCEPT !.pc = "update_back"]
  <2>1. i \in allocated
    BY <1>2 DEF UpdateWrite, At, Sound, Unaimed
  <2>2. op[p].text \in Texts \cup {None} /\ op[p].mark \in Marks
    BY DEF Request
  <2>3. StoresOK' /\ Grows /\ (op[p].mark = "set" => i \in Spent')
    <3>1. CASE i \in stored
      BY <1>2, <2>2, <3>1, UpdateRowStep DEF UpdateWrite
    <3>2. CASE i \notin stored
      <4>1. StoresOK' /\ Grows /\ Spent' = Spent
        BY <1>2, <3>2, StoresStay DEF UpdateWrite
      <4>2. i \in Spent
        BY <2>1, <3>2 DEF Spent, Dead
      <4> QED
        BY <4>1, <4>2
    <3> QED
      BY <3>1, <3>2
  <2>4. r \in Request
    BY DEF Request, Pcs
  <2>5. r.pc = "update_back" /\ r.id = i /\ r.mark = op[p].mark
        /\ r.gone = op[p].gone
    BY DEF Request
  <2>6. Sound(r, allocated', Spent', cleared')
    BY <2>1, <2>3, <2>5 DEF Sound, WillHide, Grows
  <2>7. op' = [op EXCEPT ![p] = r] /\ rec' = rec
         /\ requests' \in Nat /\ faults' \in Nat
    BY <1>2 DEF UpdateWrite, Continue, IInv
  <2>8. IInv'
    BY ONLY IInv, p \in Procs, <2>3, <2>4, <2>6, <2>7, RequestStep
  <2> QED
    BY <2>3, <2>8
<1>3. CASE UpdateBack(p)
  <2> DEFINE i == op[p].id
             read == [op[p] EXCEPT !.inv = i \in marked]
             r1 == [read EXCEPT !.pc = "update_upsert", !.vec = rowVec[i],
                                !.text = content[i]]
             r2 == [read EXCEPT !.pc = "update_mirror"]
             r3 == [read EXCEPT !.pc = "store_read", !.vec = content[i]]
  <2>1. i \in allocated /\ op[p].pc = "update_back"
    BY <1>3 DEF UpdateBack, At, Sound, Unaimed
  <2>2. read \in Request
    <3>1. (i \in marked) \in BOOLEAN
      OBVIOUS
    <3> QED
      BY <3>1 DEF Request
  <2>3. /\ read.id = i /\ read.inv = (i \in marked) /\ read.mark = op[p].mark
        /\ read.gone = op[p].gone
    BY DEF Request
  <2>4. i \in Ids
    BY <2>1
  <2> HIDE DEF read
  <2>5. CASE Continue(p, r1)
    <3>1. r1 \in Request
      BY <2>2, <2>4 DEF Request, Pcs
    <3>2. r1.pc = "update_upsert" /\ r1.id = i /\ r1.inv = (i \in marked)
          /\ r1.gone = op[p].gone
      BY <2>2, <2>3 DEF Request
    <3>3. Sound(r1, allocated, Spent, cleared)
      BY <2>1, <3>2 DEF Sound, WillHide
    <3> QED
      BY <1>3, <2>5, <3>1, <3>3, ContinueStep DEF UpdateBack
  <2>6. CASE Continue(p, r2)
    <3>1. r2 \in Request
      BY <2>2 DEF Request, Pcs
    <3>2. r2.pc = "update_mirror" /\ r2.id = i /\ r2.mark = op[p].mark
          /\ r2.gone = op[p].gone
      BY <2>2, <2>3 DEF Request
    <3>3. Sound(r2, allocated, Spent, cleared)
      BY <2>1, <3>2 DEF Sound, WillHide
    <3> QED
      BY <1>3, <2>6, <3>1, <3>3, ContinueStep DEF UpdateBack
  <2>7. CASE Continue(p, r3)
    <3>1. r3 \in Request
      BY <2>2, <2>4 DEF Request, Pcs
    <3>2. r3.pc = "store_read" /\ r3.id = i /\ r3.gone = op[p].gone
      BY <2>2, <2>3 DEF Request
    <3>3. Sound(r3, allocated, Spent, cleared)
      BY <2>1, <3>2 DEF Sound, WillHide
    <3> QED
      BY <1>3, <2>7, <3>1, <3>3, ContinueStep DEF UpdateBack
  <2>8. CASE Finish(p)
    BY <1>3, <2>8, FinishStep DEF UpdateBack
  <2> QED
    BY <1>3, <2>5, <2>6, <2>7, <2>8 DEF UpdateBack, read
<1>4. CASE UpdateUpsert(p)
  <2> DEFINE r == [op[p] EXCEPT !.pc = "store_read", !.vec = op[p].text]
  <2>1. /\ op[p].id \in allocated /\ op[p].vec \in Texts \cup {None}
        /\ op[p].inv \in BOOLEAN /\ (op[p].inv => op[p].id \in Spent)
    BY <1>4 DEF UpdateUpsert, At, Sound, Unaimed, WillHide, Request
  <2>2. /\ StoresOK' /\ Grows
        /\ allocated' = allocated /\ Spent' = Spent /\ cleared' = cleared
    BY <1>4, <2>1, UpsertStep DEF UpdateUpsert
  <2>3. CASE Continue(p, r)
    <3>1. r \in Request
      BY DEF Request, Pcs
    <3>2. Sound(r, allocated, Spent, cleared)
      BY <2>1 DEF Request, Sound, WillHide
    <3> QED
      BY <2>2, <2>3, <3>1, <3>2, RequestStep DEF Continue, IInv
  <2>4. CASE Finish(p)
    BY <2>2, <2>4, IdleSound, RequestStep DEF Finish, Continue, IInv
  <2> QED
    BY <1>4, <2>3, <2>4 DEF UpdateUpsert
<1>5. CASE UpdateMirror(p)
  <2> DEFINE i == op[p].id
  <2>1. op[p].mark = "set" => i \in Spent
    BY <1>5 DEF UpdateMirror, At, Sound, WillHide
  <2>2. /\ UNCHANGED <<allocated, stored, content, marked, rowVec, cleared,
                      indexed, vec>>
        /\ Dead' = Dead /\ Spent' = Spent
    BY <1>5 DEF UpdateMirror, rows, Dead, Spent
  <2>3. hidden' \subseteq indexed /\ hidden' \subseteq Spent
    BY <1>5, <2>1 DEF UpdateMirror, IInv, StoresOK
  <2>4. StoresOK' /\ Grows
    BY <2>2, <2>3 DEF IInv, StoresOK, Grows
  <2> QED
    BY <1>5, <2>2, <2>4, IdleSound, RequestStep
       DEF UpdateMirror, Finish, Continue, IInv
<1> QED
  BY <1>1, <1>2, <1>3, <1>4, <1>5

(* One of the two deletes has settled.                                     *)
LEMMA SettledStep ==
  ASSUME IInv, Grows, StoresOK', NEW p \in Procs,
         NEW other \in {"delete_row", "delete_point"},
         op[p].id \in allocated, Settled(p, other),
         rec' = rec, requests' \in Nat, faults' \in Nat
  PROVE  IInv'
<1> USE InHand
<1> DEFINE r == [op[p] EXCEPT !.pc = other]
<1>1. CASE op' = [op EXCEPT ![p] = r]
  <2>1. r \in Request
    BY DEF Request, Pcs
  <2>2. r.pc = other /\ r.id = op[p].id /\ r.gone = op[p].gone
    BY DEF Request
  <2>3. Sound(r, allocated', Spent', cleared')
    BY <2>2 DEF Sound, WillHide, Grows
  <2> HIDE DEF r
  <2> QED
    BY <1>1, <2>1, <2>3, RequestStep
<1>2. CASE op' = [op EXCEPT ![p] = IdleRequest]
  BY <1>2, IdleSound, RequestStep
<1> QED
  BY <1>1, <1>2 DEF Settled

LEMMA DeleteOK ==
  ASSUME IInv, NEW p \in Procs, DeleteRow(p) \/ DeletePoint(p)
  PROVE  IInv' /\ Grows
<1> USE InHand
<1>1. CASE DeleteRow(p)
  <2> DEFINE i == op[p].id
  <2>1. i \in allocated
    BY <1>1 DEF DeleteRow, Sound, Unaimed
  <2>2. /\ UNCHANGED <<allocated, content, rowVec, cleared, indexed, hidden, vec,
                      rec, requests>>
        /\ Settled(p, "delete_point")
    BY <1>1 DEF DeleteRow, points
  <2>3. faults' \in Nat
    BY <1>1 DEF DeleteRow, Outcome, IInv
  <2>4. \/ stored' = stored \ {i} /\ marked' = marked \ {i}
        \/ stored' = stored /\ marked' = marked
    BY <1>1 DEF DeleteRow
  <2>5. Dead \subseteq Dead' /\ Spent \subseteq Spent'
    BY <2>1, <2>2, <2>4 DEF Dead, Spent
  <2>6. StoresOK' /\ Grows
    BY <2>2, <2>4, <2>5 DEF IInv, StoresOK, Grows
  <2>7. requests' \in Nat
    BY <2>2 DEF IInv
  <2> QED
    BY <2>1, <2>2, <2>3, <2>6, <2>7, SettledStep
<1>2. CASE DeletePoint(p)
  <2> DEFINE i == op[p].id
  <2>1. i \in allocated
    BY <1>2 DEF DeletePoint, Sound, Unaimed
  <2>2. /\ UNCHANGED <<allocated, stored, content, marked, rowVec, cleared, vec,
                      rec, requests>>
        /\ Settled(p, "delete_row")
    BY <1>2 DEF DeletePoint, rows
  <2>3. faults' \in Nat
    BY <1>2 DEF DeletePoint, Outcome, IInv
  <2>4. \/ indexed' = indexed \ {i} /\ hidden' = hidden \ {i}
        \/ indexed' = indexed /\ hidden' = hidden
    BY <1>2 DEF DeletePoint
  <2>5. Dead' = Dead /\ Spent' = Spent
    BY <2>2 DEF Dead, Spent
  <2>6. StoresOK' /\ Grows
    BY <2>2, <2>4, <2>5 DEF IInv, StoresOK, Grows
  <2>7. requests' \in Nat
    BY <2>2 DEF IInv
  <2> QED
    BY <2>1, <2>2, <2>3, <2>6, <2>7, SettledStep
<1> QED
  BY <1>1, <1>2

LEMMA SearchOK ==
  ASSUME IInv, NEW p \in Procs,
         \/ SearchIndex(p) \/ SearchRows(p) \/ SimilarIndex(p)
         \/ SimilarRows(p) \/ Answer(p)
  PROVE  IInv' /\ Grows
<1> USE InHand
<1>1. CASE SearchIndex(p)
  <2> DEFINE r == [op[p] EXCEPT !.pc = "search_rows", !.hits = IndexHits]
  <2>1. r \in Request
    BY DEF Request, Pcs, IndexHits
  <2>2. Sound(r, allocated, Spent, cleared)
    BY DEF Request, Sound, WillHide, Unaimed
  <2> QED
    BY <1>1, <2>1, <2>2, ContinueStep DEF SearchIndex
<1>2. CASE SearchRows(p)
  <2> DEFINE r == [op[p] EXCEPT !.pc = "answered", !.hits = Current(op[p].hits)]
  <2>1. r \in Request
    BY DEF Request, Pcs, Current
  <2>2. r.pc = "answered" /\ r.hits = (op[p].hits \cap stored) \ marked
        /\ r.gone = op[p].gone
    BY DEF Request, Current
  <2>3. r.hits \cap r.gone \subseteq cleared
    BY <2>2 DEF Sound, Spent, Dead
  <2>4. Sound(r, allocated, Spent, cleared)
    BY <2>2, <2>3 DEF Sound, WillHide, Unaimed
  <2> HIDE DEF r
  <2> QED
    BY <1>2, <2>1, <2>4, ContinueStep DEF SearchRows, r
<1>3. CASE SimilarIndex(p)
  <2> DEFINE r == [op[p] EXCEPT !.pc = "similar_rows", !.hits = IndexHits \ {op[p].id}]
  <2>1. CASE Continue(p, r)
    <3>1. r \in Request
      BY DEF Request, Pcs, IndexHits
    <3>2. Sound(r, allocated, Spent, cleared)
      BY <1>3 DEF SimilarIndex, At, Request, Sound, WillHide, Unaimed
    <3> QED
      BY <1>3, <2>1, <3>1, <3>2, ContinueStep DEF SimilarIndex
  <2> QED
    BY <1>3, <2>1, FinishStep DEF SimilarIndex
<1>4. CASE SimilarRows(p)
  <2> DEFINE r == [op[p] EXCEPT !.pc = "answered"]
  <2>1. r \in Request
    BY DEF Request, Pcs
  <2>2. r.id # None
    BY <1>4, StoreAssumption DEF SimilarRows, At, Request, Sound, Unaimed
  <2>3. Sound(r, allocated, Spent, cleared)
    BY <2>2 DEF Request, Sound, WillHide, Unaimed
  <2> QED
    BY <1>4, <2>1, <2>3, ContinueStep DEF SimilarRows
<1>5. CASE Answer(p)
  BY <1>5, FinishStep DEF Answer
<1> QED
  BY <1>1, <1>2, <1>3, <1>4, <1>5

LEMMA StepOK ==
  ASSUME IInv, NEW p \in Procs, Step(p)
  PROVE  IInv' /\ Grows
  BY CreateOK, EmbedOK, UpdateOK, DeleteOK, SearchOK DEF Step

LEMMA FailOK ==
  ASSUME IInv, NEW p \in Procs, Fail(p)
  PROVE  IInv' /\ Grows
<1>1. StoresOK' /\ Grows
  BY StoresStay DEF Fail
<1>2. requests' \in Nat /\ faults' \in Nat
  BY DEF Fail, IInv
<1> QED
  BY <1>1, <1>2, IdleSound, RequestStep DEF Fail

-----------------------------------------------------------------------------
(* The reconcile pass.                                                     *)

(* A step that leaves the requests alone.                                  *)
LEMMA PassStep ==
  ASSUME IInv, Grows, StoresOK', PassOK', op' = op,
         requests' = requests, faults' \in Nat
  PROVE  IInv'
<1>1. RequestsOK'
  BY SoundGrows DEF IInv, RequestsOK, Grows
<1> QED
  BY <1>1 DEF IInv

(* A page or a chunk is taken from the set at hand.                        *)
LEMMA FirstSubset == ASSUME NEW S, NEW n PROVE First(S, n) \subseteq S
  BY DEF First

LEMMA ScrollOK ==
  ASSUME IInv, ReconcileScroll
  PROVE  IInv' /\ Grows
<1> DEFINE ahead == {i \in indexed : i >= rec.cursor}
           page == First(ahead, PageSize)
           seen == rec.seen \cup page
<1>1. page \subseteq ahead /\ ahead \subseteq allocated
  BY FirstSubset DEF IInv, StoresOK
<1>2. /\ rec \in Pass /\ rec.seen \subseteq allocated
      /\ rec.todo \subseteq allocated /\ rec.orphans \subseteq Dead
      /\ allocated \subseteq Ids
  BY DEF IInv, PassOK, StoresOK
<1>3. seen \subseteq allocated /\ seen \subseteq Ids
  BY <1>1, <1>2
<1> HIDE DEF page, ahead
<1>4. ScrollFrom(ahead)
  BY DEF ReconcileScroll, ahead
<1>5. /\ StoresOK' /\ Grows /\ allocated' = allocated /\ Dead' = Dead
      /\ op' = op /\ requests' = requests /\ faults' \in Nat
  BY StoresStay DEF ReconcileScroll, Dead, rows, IInv
<1> HIDE DEF seen
<1>6. CASE \E next \in ahead : rec' = [rec EXCEPT !.seen = seen, !.cursor = next]
  <2>1. PICK next \in ahead : rec' = [rec EXCEPT !.seen = seen, !.cursor = next]
    BY <1>6
  <2>2. next \in Nat
    BY <1>1, <1>2, StoreAssumption
  <2>3. PassOK'
    BY <1>2, <1>3, <1>5, <2>1, <2>2 DEF PassOK, Pass
  <2> QED
    BY <1>5, <2>3, PassStep
<1>7. CASE rec' = [rec EXCEPT !.seen = seen, !.todo = seen, !.pc = "lookup"]
  <2>1. PassOK'
    BY <1>2, <1>3, <1>5, <1>7 DEF PassOK, Pass
  <2> QED
    BY <1>5, <2>1, PassStep
<1> QED
  BY <1>4, <1>6, <1>7 DEF ScrollFrom, seen, page

LEMMA LookupOK ==
  ASSUME IInv, ReconcileLookup
  PROVE  IInv' /\ Grows
<1> DEFINE chunk == First(rec.todo, ChunkSize)
<1>1. chunk \subseteq rec.todo
  BY FirstSubset
<1>2. /\ rec \in Pass /\ rec.seen \subseteq allocated
      /\ rec.todo \subseteq allocated /\ rec.orphans \subseteq Dead
      /\ allocated \subseteq Ids
  BY DEF IInv, PassOK, StoresOK
<1>3. /\ StoresOK' /\ Grows /\ allocated' = allocated /\ Dead' = Dead
      /\ op' = op /\ requests' = requests /\ faults' \in Nat
  BY StoresStay DEF ReconcileLookup, Dead, rows, IInv
<1>4. chunk \ stored \subseteq Dead
  BY <1>1, <1>2 DEF Dead
<1> HIDE DEF chunk
<1>5. CASE rec' = [rec EXCEPT !.pc = "delete"]
  <2>1. PassOK'
    BY <1>2, <1>3, <1>5 DEF PassOK, Pass
  <2> QED
    BY <1>3, <2>1, PassStep
<1>6. CASE rec' = [rec EXCEPT !.todo = @ \ chunk,
                              !.orphans = @ \cup (chunk \ stored)]
  <2>1. PassOK'
    BY <1>1, <1>2, <1>3, <1>4, <1>6 DEF PassOK, Pass
  <2> QED
    BY <1>3, <2>1, PassStep
<1> QED
  BY <1>5, <1>6 DEF ReconcileLookup, chunk

LEMMA IdlePassOK ==
  /\ IdlePass \in Pass
  /\ IdlePass.seen = {} /\ IdlePass.todo = {} /\ IdlePass.orphans = {}
  BY DEF IdlePass, Pass

LEMMA ReconcileDeleteOK ==
  ASSUME IInv, ReconcileDelete
  PROVE  IInv' /\ Grows
<1> DEFINE chunk == First(rec.orphans, ChunkSize)
<1>1. /\ rec \in Pass /\ rec.seen \subseteq allocated
      /\ rec.todo \subseteq allocated /\ rec.orphans \subseteq Dead
  BY DEF IInv, PassOK
<1>2. /\ UNCHANGED <<allocated, stored, content, marked, rowVec, cleared, op,
                    requests, faults>>
      /\ Dead' = Dead /\ Spent' = Spent
  BY DEF ReconcileDelete, rows, Dead, Spent
<1>3. \/ rec' = IdlePass /\ UNCHANGED <<indexed, hidden, vec>>
      \/ /\ rec' = [rec EXCEPT !.orphans = @ \ chunk]
         /\ indexed' = indexed \ chunk /\ hidden' = hidden \ chunk
         /\ vec' = vec
  BY DEF ReconcileDelete, points
<1> HIDE DEF chunk
<1>4. StoresOK' /\ Grows
  BY <1>2, <1>3 DEF IInv, StoresOK, Grows
<1>5. PassOK'
  BY <1>1, <1>2, <1>3, IdlePassOK DEF PassOK, Pass
<1> QED
  BY <1>2, <1>4, <1>5, PassStep DEF IInv

LEMMA ReconcileStartFailOK ==
  ASSUME IInv, ReconcileStart \/ ReconcileFail
  PROVE  IInv' /\ Grows
<1>1. StoresOK' /\ Grows
  BY StoresStay DEF ReconcileStart, ReconcileFail
<1>2. op' = op /\ requests' = requests /\ faults' \in Nat
  BY DEF ReconcileStart, ReconcileFail, IInv
<1>3. PassOK'
  BY IdlePassOK DEF ReconcileStart, ReconcileFail, PassOK, Pass
<1> QED
  BY <1>1, <1>2, <1>3, PassStep

-----------------------------------------------------------------------------
(* The theorems.                                                           *)

LEMMA NextOK ==
  IInv /\ [Next]_vars => IInv' /\ Grows
<1> SUFFICES ASSUME IInv, [Next]_vars PROVE IInv' /\ Grows
  OBVIOUS
<1>1. ASSUME NEW p \in Procs, Start(p) \/ Step(p) \/ Fail(p)
      PROVE  IInv' /\ Grows
  BY <1>1, StartOK, StepOK, FailOK
<1>2. CASE ReconcileStart \/ ReconcileFail
  BY <1>2, ReconcileStartFailOK
<1>3. CASE ReconcileStep
  BY <1>3, ScrollOK, LookupOK, ReconcileDeleteOK DEF ReconcileStep
<1>4. CASE UNCHANGED vars
  <2>1. /\ StoresOK' /\ Grows
        /\ UNCHANGED <<allocated, op, rec, requests, faults>> /\ Dead' = Dead
    BY <1>4, StoresStay DEF vars, rows, Dead
  <2>2. PassOK'
    BY <2>1 DEF IInv, PassOK
  <2> QED
    BY <2>1, <2>2, PassStep DEF IInv
<1> QED
  BY <1>1, <1>2, <1>3, <1>4 DEF Next

(* The inductive invariant holds of every behaviour.                       *)
THEOREM Invariance == Spec => []IInv
<1>1. IInv /\ [Next]_vars => IInv'
  BY NextOK
<1> QED
  BY InitOK, <1>1, PTL DEF Spec

(* The types of both stores, the requests and the pass.                    *)
THEOREM TypeCorrect == Spec => []TypeOK
<1>1. IInv => TypeOK
  BY Consequences
<1> QED
  BY Invariance, <1>1, PTL

(* A hidden point belongs to a memory that is or once was superseded       *)
(* (storeEmbedding, updateMemory, setInvalidated).                         *)
THEOREM HiddenIsMarked == Spec => []HiddenMeansMarked
<1>1. IInv => HiddenMeansMarked
  BY Consequences
<1> QED
  BY Invariance, <1>1, PTL

(* No vector search answers with what was deleted or superseded when it    *)
(* began (vectorSearch, finalizeVectorResults).                            *)
THEOREM SearchIsFresh == Spec => []AnswerIsFresh
<1>1. IInv => AnswerIsFresh
  BY Consequences
<1> QED
  BY Invariance, <1>1, PTL

(* No reconcile pass takes the vector of a stored memory for an orphan     *)
(* (reconcileVectors).                                                     *)
THEOREM ReconcileIsSafe == Spec => []OrphansAreDead
<1>1. IInv => OrphansAreDead
  BY Consequences
<1> QED
  BY Invariance, <1>1, PTL

(* No request brings a deleted memory back (deleteMemory, updateMemory).   *)
THEOREM DeletedStaysDeleted == Spec => DeletedForGood
<1> DEFINE Stays == \A i \in allocated : i \notin stored => i \notin stored'
<1>1. IInv /\ [Next]_vars => [Stays]_vars
  <2>1. IInv /\ [Next]_vars => Dead \subseteq Dead'
    BY NextOK DEF Grows
  <2> QED
    BY <2>1 DEF Dead
<1>2. Spec => [][Stays]_vars
  BY Invariance, <1>1, PTL DEF Spec
<1> QED
  BY <1>2 DEF DeletedForGood

-----------------------------------------------------------------------------
(* The refinement: the two stores implement Memories.                      *)
(* Four steps show through the refinement mapping: the insert of a row,    *)
(* its update, its delete, and what puts an answer in the hand of a caller *)
(* or takes it away.  Every other step stutters.                           *)

(* Rows and what is about to become one have a content.                    *)
HasText ==
  /\ \A i \in stored : content[i] \in Texts
  /\ \A p \in Procs : op[p].pc \in {"create_find", "create_insert"} => op[p].text \in Texts

RInv == IInv /\ HasText

(* The hits a request in state r has in hand for its caller.               *)
AnswerIn(r) == IF r.pc = "answered" /\ r.id = None THEN r.hits ELSE {}

Truth == <<allocated, stored, marked, content>>

-----------------------------------------------------------------------------
LEMMA AnswersOf ==
  ASSUME NEW p \in Procs PROVE AnswerOf(p) = AnswerIn(op[p])
  BY DEF AnswerOf, AnswerIn, At

(* A step of one request that touches no row: its caller gets an answer of *)
(* current memories, or none.                                              *)
LEMMA Replies ==
  ASSUME IInv, UNCHANGED Truth,
         NEW p \in Procs, NEW r, op' = [op EXCEPT ![p] = r],
         AnswerIn(r) \subseteq stored \ marked
  PROVE  [Abstract!Next]_Abstract!vars
<1> DEFINE hits == AnswerIn(r)
<1>1. hits \in SUBSET Abstract!CurrentIds
  BY DEF Abstract!CurrentIds, IInv, StoresOK, PhaseOf
<1>2. [q \in Procs |-> AnswerOf(q)]' = [[q \in Procs |-> AnswerOf(q)] EXCEPT ![p] = hits]
  BY DEF AnswerOf, AnswerIn, At, IInv, RequestsOK
<1>3. UNCHANGED <<[i \in Ids |-> PhaseOf(i)],
                  [i \in Ids |-> IF i \in stored THEN content[i] ELSE None]>>
  BY DEF Truth, PhaseOf
<1>4. Abstract!Reply(p, hits)
  BY <1>2, <1>3 DEF Abstract!Reply
<1> QED
  BY <1>1, <1>4 DEF Abstract!Next

(* A step that touches neither rows nor requests.                          *)
LEMMA Stutters ==
  ASSUME HasText, UNCHANGED Truth, UNCHANGED op
  PROVE  [Abstract!Next]_Abstract!vars /\ HasText'
<1>1. UNCHANGED Abstract!vars
  BY DEF Truth, Abstract!vars, PhaseOf, AnswerOf, At
<1>2. HasText'
  BY DEF Truth, HasText
<1> QED
  BY <1>1, <1>2

LEMMA TruthStays ==
  ASSUME RInv, UNCHANGED Truth,
         NEW p \in Procs, NEW r, op' = [op EXCEPT ![p] = r],
         AnswerIn(r) \subseteq stored \ marked,
         r.pc \in {"create_find", "create_insert"} => r.text \in Texts
  PROVE  [Abstract!Next]_Abstract!vars /\ HasText'
<1>1. [Abstract!Next]_Abstract!vars
  BY Replies DEF RInv
<1>2. ASSUME NEW q \in Procs, op'[q].pc \in {"create_find", "create_insert"}
      PROVE  op'[q].text \in Texts
  BY <1>2 DEF RInv, HasText, IInv, RequestsOK
<1>3. HasText'
  BY <1>2 DEF RInv, HasText, Truth
<1> QED
  BY <1>1, <1>3

(* A request goes on, or ends, with neither an answer nor a row to insert. *)
Moves(p) == /\ UNCHANGED Truth
            /\ op' = [op EXCEPT ![p] = op'[p]]

Mute(p) == op'[p].pc \notin {"answered", "create_find", "create_insert"}

(* What the request of p becomes.                                          *)
LEMMA Becomes ==
  ASSUME RInv, NEW p \in Procs, NEW r, op' = [op EXCEPT ![p] = r]
  PROVE  op' = [op EXCEPT ![p] = op'[p]] /\ op'[p] = r
  BY DEF RInv, IInv, RequestsOK

LEMMA IdleIsMute == IdleRequest.pc = "idle"
  BY DEF IdleRequest

LEMMA GoesOn ==
  ASSUME RInv, NEW p \in Procs, Moves(p), Mute(p)
  PROVE  [Abstract!Next]_Abstract!vars /\ HasText'
<1>1. AnswerIn(op'[p]) = {}
  BY DEF AnswerIn, Mute
<1> QED
  BY <1>1, TruthStays DEF Moves, Mute

-----------------------------------------------------------------------------
LEMMA StartRefines ==
  ASSUME RInv, NEW p \in Procs, Start(p)
  PROVE  [Abstract!Next]_Abstract!vars /\ HasText'
<1>1. Moves(p)
  <2>1. op \in [Procs -> Request]
    BY DEF RInv, IInv, RequestsOK
  <2> QED
    BY <2>1 DEF Start, StartCreate, StartEmbed, StartUpdate, StartDelete, StartSearch,
       StartSimilar, Begin, rows, Truth, Moves
<1>2. CASE StartCreate(p)
  <2>1. op'[p].pc = "create_find" /\ op'[p].text \in Texts
    BY <1>2 DEF StartCreate, Begin, IdleRequest, RInv, IInv, RequestsOK
  <2> QED
    BY <1>1, <2>1, TruthStays DEF Moves, AnswerIn
<1>3. CASE ~StartCreate(p)
  <2>1. Mute(p)
    BY <1>3 DEF Start, StartEmbed, StartUpdate, StartDelete, StartSearch, StartSimilar,
       Begin, IdleRequest, Mute, RInv, IInv, RequestsOK
  <2> QED
    BY <1>1, <2>1, GoesOn
<1> QED
  BY <1>2, <1>3

LEMMA CreateRefines ==
  ASSUME RInv, NEW p \in Procs, CreateFind(p) \/ CreateInsert(p) \/ CreateUpsert(p)
  PROVE  [Abstract!Next]_Abstract!vars /\ HasText'
<1> USE InHand DEF RInv
<1>1. CASE CreateFind(p)
  <2>1. Moves(p)
    BY <1>1 DEF CreateFind, Continue, Moves, Truth, rows, IInv, RequestsOK
  <2>2. /\ op'[p].pc \notin {"answered", "create_find"}
        /\ op'[p].text = op[p].text
    <3>1. ASSUME NEW i, NEW b,
                 Continue(p, [op[p] EXCEPT !.pc = AfterCreate(op[p]), !.id = i, !.inv = b])
          PROVE  op'[p].pc = AfterCreate(op[p]) /\ op'[p].text = op[p].text
      <4> DEFINE r == [op[p] EXCEPT !.pc = AfterCreate(op[p]), !.id = i, !.inv = b]
      <4>1. r.pc = AfterCreate(op[p]) /\ r.text = op[p].text
        BY DEF Request
      <4> QED
        BY <3>1, <4>1, Becomes DEF Continue
    <3>2. ASSUME Continue(p, [op[p] EXCEPT !.pc = "create_insert"])
          PROVE  op'[p].pc = "create_insert" /\ op'[p].text = op[p].text
      <4> DEFINE r == [op[p] EXCEPT !.pc = "create_insert"]
      <4>1. r.pc = "create_insert" /\ r.text = op[p].text
        BY DEF Request
      <4> QED
        BY <3>2, <4>1, Becomes DEF Continue
    <3> QED
      BY <1>1, <3>1, <3>2 DEF CreateFind, AfterCreate
  <2>3. op[p].text \in Texts
    BY <1>1 DEF CreateFind, At, HasText
  <2> QED
    BY <2>1, <2>2, <2>3, TruthStays DEF Moves, AnswerIn
<1>2. CASE CreateInsert(p)
  <2>1. PICK i \in FreshIds :
          /\ allocated' = allocated \cup {i}
          /\ stored' = stored \cup {i}
          /\ content' = [content EXCEPT ![i] = op[p].text]
          /\ Continue(p, [op[p] EXCEPT !.pc = AfterCreate(op[p]), !.id = i,
                                       !.inv = FALSE])
    BY <1>2 DEF CreateInsert
  <2>2. i \in Ids /\ i \notin allocated /\ i \notin stored /\ i \notin marked
    BY DEF FreshIds
  <2>3. marked' = marked
    BY <1>2 DEF CreateInsert
  <2>4. PICK c \in Texts : c = op[p].text
    BY <1>2 DEF CreateInsert, At, HasText
  <2>5. /\ op' = [op EXCEPT ![p] = op'[p]]
        /\ op'[p].pc \in {"create_upsert", "embed_get"} /\ op[p].pc = "create_insert"
    <3> DEFINE r == [op[p] EXCEPT !.pc = AfterCreate(op[p]), !.id = i, !.inv = FALSE]
    <3>1. r.pc \in {"create_upsert", "embed_get"}
      BY DEF Request, AfterCreate
    <3>2. op[p].pc = "create_insert"
      BY <1>2 DEF CreateInsert, At
    <3> QED
      BY <2>1, <3>1, <3>2, Becomes DEF Continue
  <2>6. UNCHANGED [q \in Procs |-> AnswerOf(q)]
    BY <2>5 DEF AnswerOf, At, IInv, RequestsOK
  <2>7. PhaseOf(i) = "unborn" /\ PhaseOf(i)' = "current"
    BY <2>1, <2>2, <2>3 DEF PhaseOf
  <2>8. \A j \in Ids \ {i} : PhaseOf(j)' = PhaseOf(j)
    BY <2>1, <2>3 DEF PhaseOf
  <2>9. Abstract!Create(i, c)
    BY <2>1, <2>2, <2>4, <2>6, <2>7, <2>8 DEF Abstract!Create
  <2>10. HasText'
    BY <2>1, <2>2, <2>4, <2>5 DEF HasText, IInv, RequestsOK, StoresOK
  <2>11. Abstract!Next
    BY <2>2, <2>9 DEF Abstract!Next
  <2> QED
    BY <2>10, <2>11
<1>3. CASE CreateUpsert(p)
  <2>1. Moves(p) /\ Mute(p)
    BY <1>3 DEF CreateUpsert, Continue, Upsert, Moves, Mute, Truth, rows, Request, IInv, RequestsOK
  <2> QED
    BY <2>1, GoesOn
<1> QED
  BY <1>1, <1>2, <1>3

LEMMA EmbedRefines ==
  ASSUME RInv, NEW p \in Procs, EmbedGet(p) \/ StoreRead(p) \/ StoreUpsert(p)
  PROVE  [Abstract!Next]_Abstract!vars /\ HasText'
<1> USE InHand DEF RInv
<1>1. CASE EmbedGet(p)
  <2> DEFINE r == [op[p] EXCEPT !.pc = "store_read", !.vec = content[op[p].id]]
  <2>1. r.pc = "store_read"
    BY DEF Request
  <2>2. op' = [op EXCEPT ![p] = r] \/ op' = [op EXCEPT ![p] = IdleRequest]
    BY <1>1 DEF EmbedGet, Finish, Continue
  <2>3. UNCHANGED Truth
    BY <1>1 DEF EmbedGet, Truth, rows
  <2> HIDE DEF r
  <2> QED
    BY <2>1, <2>2, <2>3, Becomes, IdleIsMute, GoesOn DEF Moves, Mute
<1>2. CASE StoreRead(p)
  <2> DEFINE r == [op[p] EXCEPT !.pc = "store_upsert", !.inv = op[p].id \in marked]
  <2>1. r.pc = "store_upsert"
    BY DEF Request
  <2>2. op' = [op EXCEPT ![p] = r] \/ op' = [op EXCEPT ![p] = IdleRequest]
    BY <1>2 DEF StoreRead, Finish, Continue
  <2>3. UNCHANGED Truth
    BY <1>2 DEF StoreRead, Truth, rows
  <2> HIDE DEF r
  <2> QED
    BY <2>1, <2>2, <2>3, Becomes, IdleIsMute, GoesOn DEF Moves, Mute
<1>3. CASE StoreUpsert(p)
  BY <1>3, Becomes, IdleIsMute, GoesOn
     DEF StoreUpsert, Finish, Continue, Upsert, Truth, rows, Moves, Mute
<1> QED
  BY <1>1, <1>2, <1>3

(* A row that is stored is written, by an update or not at all.            *)
LEMMA RowChanges ==
  ASSUME RInv, NEW p \in Procs, At(p, "update_write"), op[p].id \in stored,
         UpdateRow(op[p].id, op[p].text, op[p].mark), allocated' = allocated,
         op' = [op EXCEPT ![p] = op'[p]], Mute(p)
  PROVE  [Abstract!Next]_Abstract!vars /\ HasText'
<1> USE InHand DEF RInv
<1>1. PICK i \in Ids : i = op[p].id /\ i \in stored
  OBVIOUS
<1>2. PICK c \in Texts : content' = [content EXCEPT ![i] = c]
  <2>1. CASE op[p].text = None
    <3>1. content' = [content EXCEPT ![i] = content[i]]
      BY <1>1, <2>1 DEF UpdateRow
    <3>2. content[i] \in Texts
      BY <1>1 DEF HasText
    <3> QED
      BY <3>1, <3>2
  <2>2. CASE op[p].text # None
    <3>1. op[p].text \in Texts
      BY <2>2 DEF Request
    <3> QED
      BY <1>1, <2>2, <3>1 DEF UpdateRow
  <2> QED
    BY <2>1, <2>2
<1>3. \/ marked' = marked
      \/ marked' = marked \cup {i}
      \/ marked' = marked \ {i}
  BY <1>1 DEF UpdateRow, Request, Marks
<1>4. stored' = stored
  BY DEF UpdateRow
<1>5. UNCHANGED [q \in Procs |-> AnswerOf(q)]
  BY DEF AnswerOf, At, Mute, IInv, RequestsOK
<1>6. PICK ph \in {"current", "superseded"} : PhaseOf(i)' = ph
  BY <1>1, <1>4 DEF PhaseOf
<1>7. \A j \in Ids \ {i} : PhaseOf(j)' = PhaseOf(j)
  BY <1>3, <1>4 DEF PhaseOf
<1>8. PhaseOf(i) \in {"current", "superseded"}
  BY <1>1 DEF PhaseOf
<1>9. Abstract!Change(i, c, ph)
  BY <1>1, <1>2, <1>4, <1>5, <1>6, <1>7, <1>8 DEF Abstract!Change, Abstract!Exists
<1>10. HasText'
  <2>1. \A j \in stored' : content'[j] \in Texts
    BY <1>1, <1>2, <1>4 DEF HasText
  <2>2. ASSUME NEW q \in Procs, op'[q].pc \in {"create_find", "create_insert"}
        PROVE  op'[q].text \in Texts
    BY <2>2 DEF HasText, Mute, IInv, RequestsOK
  <2> QED
    BY <2>1, <2>2 DEF HasText
<1>11. Abstract!Next
  BY <1>9 DEF Abstract!Next
<1> QED
  BY <1>10, <1>11

LEMMA UpdateRefines ==
  ASSUME RInv, NEW p \in Procs,
         \/ UpdateRead(p) \/ UpdateWrite(p) \/ UpdateBack(p)
         \/ UpdateUpsert(p) \/ UpdateMirror(p)
  PROVE  [Abstract!Next]_Abstract!vars /\ HasText'
<1> USE InHand DEF RInv
<1>1. CASE UpdateRead(p)
  <2> DEFINE r == [op[p] EXCEPT !.pc = "update_write"]
  <2>1. r.pc = "update_write"
    BY DEF Request
  <2>2. op' = [op EXCEPT ![p] = r] \/ op' = [op EXCEPT ![p] = IdleRequest]
    BY <1>1 DEF UpdateRead, Finish, Continue
  <2>3. UNCHANGED Truth
    BY <1>1 DEF UpdateRead, Truth, rows
  <2> HIDE DEF r
  <2> QED
    BY <2>1, <2>2, <2>3, Becomes, IdleIsMute, GoesOn DEF Moves, Mute
<1>2. CASE UpdateWrite(p)
  <2> DEFINE r == [op[p] EXCEPT !.pc = "update_back"]
  <2>1. r.pc = "update_back"
    BY DEF Request
  <2>2. op' = [op EXCEPT ![p] = r]
    BY <1>2 DEF UpdateWrite, Continue
  <2> HIDE DEF r
  <2>3. Mute(p) /\ op' = [op EXCEPT ![p] = op'[p]]
    BY <2>1, <2>2, Becomes DEF Mute
  <2>4. CASE op[p].id \in stored
    BY <1>2, <2>3, <2>4, RowChanges DEF UpdateWrite
  <2>5. CASE op[p].id \notin stored
    BY <1>2, <2>3, <2>5, GoesOn DEF UpdateWrite, Moves, Truth, rows
  <2> QED
    BY <2>4, <2>5
<1>3. CASE UpdateBack(p)
  <2> DEFINE i == op[p].id
             read == [op[p] EXCEPT !.inv = i \in marked]
             r1 == [read EXCEPT !.pc = "update_upsert", !.vec = rowVec[i], !.text = content[i]]
             r2 == [read EXCEPT !.pc = "update_mirror"]
             r3 == [read EXCEPT !.pc = "store_read", !.vec = content[i]]
  <2>1. r1.pc = "update_upsert" /\ r2.pc = "update_mirror" /\ r3.pc = "store_read"
    BY DEF Request
  <2>2. \E r \in {r1, r2, r3, IdleRequest} : op' = [op EXCEPT ![p] = r]
    BY <1>3 DEF UpdateBack, Finish, Continue
  <2>3. UNCHANGED Truth
    BY <1>3 DEF UpdateBack, Truth, rows
  <2> HIDE DEF r1, r2, r3
  <2> QED
    BY <2>1, <2>2, <2>3, Becomes, IdleIsMute, GoesOn DEF Moves, Mute
<1>4. CASE UpdateUpsert(p)
  <2> DEFINE r == [op[p] EXCEPT !.pc = "store_read", !.vec = op[p].text]
  <2>1. r.pc = "store_read"
    BY DEF Request
  <2>2. op' = [op EXCEPT ![p] = r] \/ op' = [op EXCEPT ![p] = IdleRequest]
    BY <1>4 DEF UpdateUpsert, Finish, Continue
  <2>3. UNCHANGED Truth
    BY <1>4 DEF UpdateUpsert, Upsert, Truth, rows
  <2> HIDE DEF r
  <2> QED
    BY <2>1, <2>2, <2>3, Becomes, IdleIsMute, GoesOn DEF Moves, Mute
<1>5. CASE UpdateMirror(p)
  BY <1>5, Becomes, IdleIsMute, GoesOn
     DEF UpdateMirror, Finish, Continue, Truth, rows, Moves, Mute
<1> QED
  BY <1>1, <1>2, <1>3, <1>4, <1>5

LEMMA SettledMute ==
  ASSUME RInv, NEW p \in Procs, NEW other \in {"delete_row", "delete_point"},
         Settled(p, other)
  PROVE  Mute(p) /\ op' = [op EXCEPT ![p] = op'[p]]
<1> DEFINE r == [op[p] EXCEPT !.pc = other]
<1>1. r.pc = other
  BY InHand DEF RInv, Request
<1>2. op' = [op EXCEPT ![p] = r] \/ op' = [op EXCEPT ![p] = IdleRequest]
  BY DEF Settled, RInv, IInv, RequestsOK
<1> HIDE DEF r
<1> QED
  BY <1>1, <1>2, Becomes, IdleIsMute DEF Mute

LEMMA DeleteRefines ==
  ASSUME RInv, NEW p \in Procs, DeleteRow(p) \/ DeletePoint(p)
  PROVE  [Abstract!Next]_Abstract!vars /\ HasText'
<1> USE InHand DEF RInv
<1>1. CASE DeleteRow(p)
  <2>1. Mute(p) /\ op' = [op EXCEPT ![p] = op'[p]]
    BY <1>1, SettledMute DEF DeleteRow
  <2>2. allocated' = allocated /\ content' = content
    BY <1>1 DEF DeleteRow
  <2>3. CASE stored' = stored /\ marked' = marked
    BY <2>1, <2>2, <2>3, GoesOn DEF Moves, Truth
  <2>4. CASE stored' = stored \ {op[p].id} /\ marked' = marked \ {op[p].id}
    <3>1. CASE op[p].id \notin stored
      <4>1. stored' = stored /\ marked' = marked
        BY <2>4, <3>1
      <4> QED
        BY <2>3, <4>1
    <3>2. CASE op[p].id \in stored
      <4>1. PICK i \in Ids : i = op[p].id /\ i \in stored /\ i \in allocated
        BY <3>2
      <4>2. UNCHANGED [q \in Procs |-> AnswerOf(q)]
        BY <1>1, <2>1 DEF DeleteRow, AnswerOf, At, Mute, IInv, RequestsOK
      <4>3. PhaseOf(i) \in {"current", "superseded"} /\ PhaseOf(i)' = "deleted"
        BY <2>2, <2>4, <4>1 DEF PhaseOf
      <4>4. \A j \in Ids \ {i} : PhaseOf(j)' = PhaseOf(j)
        BY <2>2, <2>4, <4>1 DEF PhaseOf
      <4>5. Abstract!Delete(i)
        BY <2>2, <2>4, <4>1, <4>2, <4>3, <4>4 DEF Abstract!Delete, Abstract!Exists
      <4>6. HasText'
        BY <2>1, <2>2, <2>4 DEF HasText, Mute, IInv, RequestsOK
      <4>7. Abstract!Next
        BY <4>5 DEF Abstract!Next
      <4> QED
        BY <4>6, <4>7
    <3> QED
      BY <3>1, <3>2
  <2> QED
    BY <1>1, <2>3, <2>4 DEF DeleteRow
<1>2. CASE DeletePoint(p)
  BY <1>2, SettledMute, GoesOn DEF DeletePoint, Moves, Truth, rows
<1> QED
  BY <1>1, <1>2

(* finalizeVectorResults keeps what is current at that moment; the hits of *)
(* findSimilar belong to a seed and are no answers.                        *)
LEMMA SearchRefines ==
  ASSUME RInv, NEW p \in Procs,
         \/ SearchIndex(p) \/ SearchRows(p) \/ SimilarIndex(p)
         \/ SimilarRows(p) \/ Answer(p)
  PROVE  [Abstract!Next]_Abstract!vars /\ HasText'
<1> USE InHand DEF RInv
<1>1. CASE SearchIndex(p)
  <2> DEFINE r == [op[p] EXCEPT !.pc = "search_rows", !.hits = IndexHits]
  <2>1. r.pc = "search_rows"
    BY DEF Request
  <2>2. op' = [op EXCEPT ![p] = r] /\ UNCHANGED Truth
    BY <1>1 DEF SearchIndex, Continue, Truth, rows
  <2> HIDE DEF r
  <2> QED
    BY <2>1, <2>2, Becomes, GoesOn DEF Moves, Mute
<1>2. CASE SearchRows(p)
  <2> DEFINE r == [op[p] EXCEPT !.pc = "answered", !.hits = Current(op[p].hits)]
  <2>1. r.pc = "answered" /\ r.hits = (op[p].hits \cap stored) \ marked
    BY DEF Request, Current
  <2>2. op' = [op EXCEPT ![p] = r] /\ UNCHANGED Truth
    BY <1>2 DEF SearchRows, Continue, Truth, rows
  <2> HIDE DEF r
  <2>3. op' = [op EXCEPT ![p] = op'[p]] /\ op'[p] = r
    BY <2>2, Becomes
  <2>4. AnswerIn(op'[p]) \subseteq stored \ marked
    BY <2>1, <2>3 DEF AnswerIn
  <2> QED
    BY <2>1, <2>2, <2>3, <2>4, TruthStays
<1>3. CASE SimilarIndex(p)
  <2> DEFINE r == [op[p] EXCEPT !.pc = "similar_rows", !.hits = IndexHits \ {op[p].id}]
  <2>1. r.pc = "similar_rows"
    BY DEF Request
  <2>2. /\ op' = [op EXCEPT ![p] = r] \/ op' = [op EXCEPT ![p] = IdleRequest]
        /\ UNCHANGED Truth
    BY <1>3 DEF SimilarIndex, Finish, Continue, Truth, rows
  <2> HIDE DEF r
  <2> QED
    BY <2>1, <2>2, Becomes, IdleIsMute, GoesOn DEF Moves, Mute
<1>4. CASE SimilarRows(p)
  <2> DEFINE r == [op[p] EXCEPT !.pc = "answered"]
  <2>1. r.pc = "answered" /\ r.id = op[p].id
    BY DEF Request
  <2>2. op[p].id # None
    BY <1>4, StoreAssumption DEF SimilarRows, At, Sound, Unaimed
  <2>3. op' = [op EXCEPT ![p] = r] /\ UNCHANGED Truth
    BY <1>4 DEF SimilarRows, Continue, Truth, rows
  <2> HIDE DEF r
  <2>4. op' = [op EXCEPT ![p] = op'[p]] /\ op'[p] = r
    BY <2>3, Becomes
  <2>5. AnswerIn(op'[p]) = {}
    BY <2>1, <2>2, <2>4 DEF AnswerIn
  <2> QED
    BY <2>1, <2>3, <2>4, <2>5, TruthStays
<1>5. CASE Answer(p)
  BY <1>5, Becomes, IdleIsMute, GoesOn
     DEF Answer, Finish, Continue, Truth, rows, Moves, Mute
<1> QED
  BY <1>1, <1>2, <1>3, <1>4, <1>5

LEMMA FailRefines ==
  ASSUME RInv, NEW p \in Procs, Fail(p)
  PROVE  [Abstract!Next]_Abstract!vars /\ HasText'
  BY Becomes, IdleIsMute, GoesOn DEF Fail, Truth, rows, Moves, Mute

LEMMA ReconcileRefines ==
  ASSUME RInv, ReconcileStart \/ ReconcileStep \/ ReconcileFail
  PROVE  [Abstract!Next]_Abstract!vars /\ HasText'
<1>1. UNCHANGED Truth /\ UNCHANGED op
  BY DEF ReconcileStart, ReconcileStep, ReconcileScroll, ReconcileLookup, ReconcileDelete,
         ReconcileFail, Truth, rows
<1> QED
  BY <1>1, Stutters DEF RInv

-----------------------------------------------------------------------------
LEMMA StepRefines ==
  RInv /\ [Next]_vars => [Abstract!Next]_Abstract!vars /\ RInv'
<1> SUFFICES ASSUME RInv, [Next]_vars
             PROVE  [Abstract!Next]_Abstract!vars /\ HasText'
  BY NextOK DEF RInv
<1>1. ASSUME NEW p \in Procs, Start(p) \/ Step(p) \/ Fail(p)
      PROVE  [Abstract!Next]_Abstract!vars /\ HasText'
  BY <1>1, StartRefines, CreateRefines, EmbedRefines, UpdateRefines, DeleteRefines,
     SearchRefines, FailRefines DEF Step
<1>2. CASE ReconcileStart \/ ReconcileStep \/ ReconcileFail
  BY <1>2, ReconcileRefines
<1>3. CASE UNCHANGED vars
  BY <1>3, Stutters DEF vars, rows, Truth, RInv
<1> QED
  BY <1>1, <1>2, <1>3 DEF Next

LEMMA InitRefines ==
  Init => Abstract!Init /\ RInv
<1> SUFFICES ASSUME Init PROVE Abstract!Init /\ HasText
  BY InitOK DEF RInv
<1>1. Abstract!Init
  BY IdleIsMute DEF Init, Abstract!Init, PhaseOf, AnswerOf, At
<1>2. HasText
  BY IdleIsMute DEF Init, HasText
<1> QED
  BY <1>1, <1>2

(* The dual store behaves as the one store of Memories: behind every       *)
(* interleaving and failure, memories are created, changed and deleted at  *)
(* one moment each, and a search answers with what is current              *)
(* (createMemory, updateMemory, deleteMemory, vectorSearch).               *)
THEOREM StoreImplementsMemories == Spec => ImplementsMemories
<1>1. Init => Abstract!Init /\ RInv
  BY InitRefines
<1>2. RInv /\ [Next]_vars => RInv' /\ [Abstract!Next]_Abstract!vars
  BY StepRefines
<1> QED
  BY <1>1, <1>2, PTL DEF Spec, ImplementsMemories, Abstract!Spec

-----------------------------------------------------------------------------
(***************************************************************************)
(* The connection below the store: theorems about ConnectionManager, for   *)
(* every number of callers, loops, attempts and health checks under way.   *)
(*                                                                         *)
(* The state names nobody, so the argument is about who will change it: a  *)
(* caller or a loop that stops being responsible for a state changes the   *)
(* state in the same step.  The bound on the attempts needs more than the  *)
(* property says: every attempt beyond the limit uses up one health check  *)
(* that was under way when the connection stopped being watched.           *)
(***************************************************************************)
(* An attempt beyond the limit is paid for with a health check.            *)
Budget ==
  /\ health = "set" => attempts <= MaxAttempts
  /\ attempts + checks <= MaxAttempts + MaxChecks

(* The inductive invariant.                                                *)
ConnInv == CMTypeOK /\ Supervised /\ ProgressOwned /\ Budget

LEMMA BudgetBounds == ConnInv => WatchedHasAttempts
BY DEF ConnInv, Budget, WatchedHasAttempts

LEMMA ConnInit == CMInit => ConnInv
BY ConnectionAssumption DEF CMInit, ConnInv, CMTypeOK, States, Links, Supervised,
   ProgressOwned, Budget

(* A caller's step: the others stay where they are.                        *)
LEMMA ConnectStep ==
  ASSUME ConnInv, NEW p \in Callers, Connect(p)
  PROVE  ConnInv'
<1> USE ConnectionAssumption DEF ConnInv, Connect, Calls, manager, adapter
<1>1. CMTypeOK'
  BY DEF CMTypeOK, States
<1>2. call'[p] \in {"opening", "noop"}
  BY DEF CMTypeOK
<1>3. Supervised' /\ ProgressOwned'
  BY <1>2 DEF Supervised, ProgressOwned
<1>4. Budget'
  BY DEF Budget
<1> QED
  BY <1>1, <1>3, <1>4

(* The state changes in the step in which the caller stops owning it.      *)
LEMMA ConnectEndsStep ==
  ASSUME ConnInv, NEW p \in Callers, ConnectEnds(p)
  PROVE  ConnInv'
<1> USE ConnectionAssumption DEF ConnInv, ConnectEnds, Calls, manager, adapter,
        AttemptSucceeds, AttemptFails, Opens, Connected
<1>1. CMTypeOK'
  BY DEF CMTypeOK, States, Links
<1>2. Supervised' /\ ProgressOwned'
  BY DEF Supervised, ProgressOwned
<1>3. Budget'
  BY DEF Budget, CMTypeOK
<1> QED
  BY <1>1, <1>2, <1>3

(* Disconnecting takes the watch and a timer away; the caller owns what    *)
(* they were responsible for.                                              *)
LEMMA DisconnectStep ==
  ASSUME ConnInv, NEW p \in Callers, Disconnect(p)
  PROVE  ConnInv'
<1> USE ConnectionAssumption DEF ConnInv, Disconnect, Calls, adapter
<1>1. CMTypeOK'
  BY DEF CMTypeOK, StopReconnectTimer
<1>2. Budget'
  BY DEF Budget
<1>3. CASE state = "disconnected"
  <2>1. Supervised' /\ ProgressOwned'
    BY <1>3 DEF Supervised, ProgressOwned
  <2> QED
    BY <1>1, <1>2, <2>1
<1>4. CASE state # "disconnected"
  <2>1. call'[p] \in {"closing", "leaving"}
    BY <1>4 DEF CMTypeOK
  <2>2. Leaving'
    BY <2>1 DEF Leaving
  <2>3. state = "connecting" => \E q \in Callers : call'[q] \in {"opening", "noop"}
    <3> SUFFICES ASSUME state = "connecting"
                 PROVE  \E q \in Callers : call'[q] \in {"opening", "noop"}
      OBVIOUS
    <3>1. PICK q \in Callers : call[q] \in {"opening", "noop"}
      BY DEF ProgressOwned
    <3>2. call'[q] = call[q]
      BY <3>1, <1>4 DEF CMTypeOK
    <3> QED
      BY <3>1, <3>2
  <2>4. Supervised' /\ ProgressOwned'
    BY <2>2, <2>3 DEF Supervised, ProgressOwned
  <2> QED
    BY <1>1, <1>2, <2>4
<1> QED
  BY <1>3, <1>4

LEMMA DisconnectEndsStep ==
  ASSUME ConnInv, NEW p \in Callers, DisconnectEnds(p)
  PROVE  ConnInv'
<1> USE ConnectionAssumption DEF ConnInv, DisconnectEnds, Calls, Closes
<1>1. CMTypeOK'
  BY DEF CMTypeOK, States, Links
<1>2. Supervised' /\ ProgressOwned'
  BY DEF Supervised, ProgressOwned
<1>3. Budget'
  BY DEF Budget
<1> QED
  BY <1>1, <1>2, <1>3

(* A health check that fails either finds a loop at work, or starts one,   *)
(* or gives up.                                                            *)
LEMMA CheckFailsStep ==
  ASSUME ConnInv, CheckFails
  PROVE  ConnInv'
<1> USE ConnectionAssumption DEF ConnInv, CheckFails, manager
<1>1. CASE state = "reconnecting"
  <2> USE <1>1 DEF ScheduleReconnect
  <2>1. CMTypeOK' /\ Budget'
    BY DEF CMTypeOK, Links, Budget
  <2>2. Supervised' /\ ProgressOwned'
    BY DEF Supervised, ProgressOwned, Leaving
  <2> QED
    BY <2>1, <2>2
<1>2. CASE state # "reconnecting" /\ attempts' > MaxAttempts
  <2> USE <1>2 DEF ScheduleReconnect
  <2>1. CMTypeOK' /\ Budget'
    BY DEF CMTypeOK, States, Links, Budget
  <2>2. Supervised' /\ ProgressOwned'
    BY DEF Supervised, ProgressOwned
  <2> QED
    BY <2>1, <2>2
<1>3. CASE state # "reconnecting" /\ ~(attempts' > MaxAttempts)
  <2>1. PICK l \in Slots : SetTimer(l)
    BY <1>3 DEF ScheduleReconnect
  <2>2. /\ health' = "null" /\ attempts' = attempts + 1 /\ state' = "reconnecting"
        /\ checks' = checks - 1 /\ checks > 0
        /\ link' = (IF link = "broken" THEN "found" ELSE link)
        /\ UNCHANGED <<call, strays>>
    BY <1>3 DEF ScheduleReconnect
  <2>3. loop'[l] # "idle"
    BY <2>1 DEF SetTimer, CMTypeOK
  <2>4. CMTypeOK'
    BY <2>1, <2>2, <1>3 DEF SetTimer, CMTypeOK, States, Links
  <2>5. Budget'
    BY <2>2 DEF Budget, CMTypeOK
  <2>6. Supervised' /\ ProgressOwned'
    BY <2>2, <2>3 DEF Supervised, ProgressOwned
  <2> QED
    BY <2>4, <2>5, <2>6
<1> QED
  BY <1>1, <1>2, <1>3

LEMMA TimerFiresStep ==
  ASSUME ConnInv, NEW l \in Slots, TimerFires(l)
  PROVE  ConnInv'
<1> USE ConnectionAssumption DEF ConnInv, TimerFires, Goes, manager, adapter
<1>1. CMTypeOK' /\ Budget'
  BY DEF CMTypeOK, Budget
<1>2. loop'[l] # "idle"
  BY DEF CMTypeOK
<1>3. Supervised' /\ ProgressOwned'
  BY <1>2 DEF Supervised, ProgressOwned, Leaving
<1> QED
  BY <1>1, <1>3

(* A loop ends with the state connected or failed.                         *)
LEMMA LoopClosesStep ==
  ASSUME ConnInv, NEW l \in Slots, LoopCloses(l)
  PROVE  ConnInv'
<1> USE ConnectionAssumption DEF ConnInv, LoopCloses, Goes, manager, Closes,
        Connected
<1>1. CMTypeOK'
  BY DEF CMTypeOK, States, Links
<1>2. Budget'
  BY DEF Budget, CMTypeOK
<1>3. \/ loop'[l] # "idle" /\ UNCHANGED manager
      \/ state' = "connected" /\ health' = "set"
  BY DEF CMTypeOK
<1>4. Supervised' /\ ProgressOwned'
  BY <1>3 DEF Supervised, ProgressOwned, Leaving
<1> QED
  BY <1>1, <1>2, <1>4

LEMMA LoopOpensStep ==
  ASSUME ConnInv, NEW l \in Slots, LoopOpens(l)
  PROVE  ConnInv'
<1> USE ConnectionAssumption DEF ConnInv, LoopOpens, Goes, SetTimer, Opens,
        AttemptSucceeds, AttemptFails, Connected
<1>1. CMTypeOK'
  BY DEF CMTypeOK, States, Links
<1>2. Budget'
  BY DEF Budget, CMTypeOK
<1>3. \/ loop'[l] # "idle" /\ UNCHANGED <<state, health>>
      \/ state' = "connected" /\ health' = "set"
      \/ state' = "failed"
  BY DEF CMTypeOK
<1>4. Supervised' /\ ProgressOwned'
  BY <1>3 DEF Supervised, ProgressOwned, Leaving
<1> QED
  BY <1>1, <1>2, <1>4

(* Steps that leave the state, the callers and the loops alone.            *)
LEMMA OtherStep ==
  ASSUME ConnInv, \/ CheckStarts \/ CheckSucceeds \/ OperationOpens
               \/ StrayEnds \/ LinkChanges \/ UNCHANGED cmVars
  PROVE  ConnInv'
<1> USE ConnectionAssumption DEF ConnInv, CheckStarts, CheckSucceeds, OperationOpens,
        StrayEnds, LinkChanges, cmVars, manager, adapter, Opens
<1>1. CMTypeOK'
  BY DEF CMTypeOK, Links
<1>2. Budget'
  BY DEF Budget, CMTypeOK
<1>3. Supervised' /\ ProgressOwned'
  BY DEF Supervised, ProgressOwned, Leaving
<1> QED
  BY <1>1, <1>2, <1>3

LEMMA ConnNext == ConnInv /\ [CMNext]_cmVars => ConnInv'
<1> SUFFICES ASSUME ConnInv, [CMNext]_cmVars
             PROVE  ConnInv'
  OBVIOUS
<1>1. CASE CallerNext
  BY <1>1, ConnectStep, ConnectEndsStep, DisconnectStep, DisconnectEndsStep
     DEF CallerNext
<1>2. CASE LoopNext
  BY <1>2, TimerFiresStep, LoopClosesStep, LoopOpensStep DEF LoopNext
<1>3. CASE CheckFails
  BY <1>3, CheckFailsStep
<1>4. CASE \/ CheckStarts \/ CheckSucceeds \/ OperationOpens
           \/ StrayEnds \/ LinkChanges \/ UNCHANGED cmVars
  BY <1>4, OtherStep
<1> QED
  BY <1>1, <1>2, <1>3, <1>4 DEF CMNext

-----------------------------------------------------------------------------
LEMMA ConnInvariance == CMSpec => []ConnInv
<1>1. CMInit => ConnInv
  BY ConnInit
<1> QED
  BY <1>1, ConnNext, PTL DEF CMSpec

(* The fields of the manager and the adapter keep their types, and the     *)
(* adapter's flag says whether its socket was opened and not closed since. *)
THEOREM ConnectionTypes == CMSpec => []CMTypeOK
<1>1. ConnInv => CMTypeOK
  BY DEF ConnInv
<1> QED
  BY <1>1, ConnInvariance, PTL

(* A connected connection is watched or being disconnected.                *)
THEOREM AlwaysSupervised == CMSpec => []Supervised
<1>1. ConnInv => Supervised
  BY DEF ConnInv
<1> QED
  BY <1>1, ConnInvariance, PTL

(* A state others wait for always has someone who will change it.          *)
THEOREM AlwaysOwned == CMSpec => []ProgressOwned
<1>1. ConnInv => ProgressOwned
  BY DEF ConnInv
<1> QED
  BY <1>1, ConnInvariance, PTL

(* A watched connection has attempts left for its next failure, or used    *)
(* exactly as many as are allowed.                                         *)
THEOREM WatchedStaysInBudget == CMSpec => []WatchedHasAttempts
BY ConnInvariance, BudgetBounds, PTL
=============================================================================
