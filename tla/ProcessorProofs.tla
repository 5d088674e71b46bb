---------------------------- MODULE ProcessorProofs ----------------------------
(***************************************************************************)
(* Theorems about Processor, for any number of memories, passes, deletions *)
(* and failures, and for any similarity.                                   *)
(***************************************************************************)
EXTENDS Processor, TLAPS

(* What a pass holds at each of its calls.                                 *)
Holds(s) ==
  /\ s.pc \in {"near", "relate", "rows", "relations", "link", "demote"} => s.seed \in Ids
  /\ s.pc \in {"relations", "link", "demote"} => s.primary \in Ids
  /\ s.pc = "demote" => s.dup \in Ids
  /\ s.pc = "decay" => \A i \in s.todo : s.list[i].last < s.now

Typing == TypeOK /\ \A r \in Runs : Holds(run[r])

(* The records that the loops go on with.                                  *)
LEMMA FreshType == Fresh \in Memory
BY DEF Fresh, Memory

LEMMA IdleType == IdleRun \in Run /\ Holds(IdleRun)
<1> USE FreshType
<1>1. [i \in Ids |-> Fresh] \in [Ids -> Memory]
  OBVIOUS
<1>2. <<>> \in Seq(Ids \X Ids)
  OBVIOUS
<1> QED
  BY <1>1, <1>2 DEF IdleRun, Run, Pcs, Holds

LEMMA RowsType ==
  ASSUME NEW rows \in [Ids -> Memory], NEW ids
  PROVE  Rows(rows, ids) \in [Ids -> Memory]
BY FreshType DEF Rows

LEMMA ListedType ==
  ASSUME NEW s \in Run, NEW pc \in {"existing", "similar"}
  PROVE  Listed(s, pc) \in Run /\ Holds(Listed(s, pc))
<1>1. Rows(s.list, s.todo) \in [Ids -> Memory]
  BY RowsType DEF Run
<1> QED
  BY <1>1, IdleType DEF Listed, Run, Pcs, Holds

LEMMA NextMemoryType ==
  ASSUME NEW s \in Run
  PROVE  NextMemory(s) \in Run /\ Holds(NextMemory(s))
BY IdleType, ListedType DEF NextMemory

LEMMA NextPairType ==
  ASSUME NEW s \in Run, s.seed \in Ids
  PROVE  NextPair(s) \in Run /\ Holds(NextPair(s))
<1>1. CASE s.cluster = {}
  BY <1>1, NextMemoryType DEF NextPair
<1>2. CASE s.cluster # {}
  BY <1>2 DEF NextPair, Run, Pcs, Holds
<1> QED
  BY <1>1, <1>2

LEMMA NextPageType ==
  ASSUME NEW s \in Run
  PROVE  NextPage(s) \in Run /\ Holds(NextPage(s))
<1>1. s.offset + Page \in Nat
  BY ProcessorAssumption DEF Run
<1>2. CASE s.full
  BY <1>1, <1>2, IdleType DEF NextPage, Run, Pcs, Holds
<1>3. CASE ~s.full
  BY <1>3, IdleType DEF NextPage, Run, Pcs, Holds
<1> QED
  BY <1>2, <1>3

LEMMA NextDecayType ==
  ASSUME NEW s \in Run, \A i \in s.todo : s.list[i].last < s.now
  PROVE  NextDecay(s) \in Run /\ Holds(NextDecay(s))
<1>1. CASE s.todo = {}
  BY <1>1, NextPageType DEF NextDecay
<1>2. CASE s.todo # {}
  BY <1>2 DEF NextDecay, Run, Pcs, Holds
<1> QED
  BY <1>1, <1>2

LEMMA NextSeedType ==
  ASSUME NEW s \in Run
  PROVE  NextSeed(s) \in Run /\ Holds(NextSeed(s))
<1>1. [s EXCEPT !.todo = @ \ s.done] \in Run
  BY DEF Run
<1> QED
  BY <1>1, IdleType, ListedType DEF NextSeed

LEMMA NextDupType ==
  ASSUME NEW s \in Run, s.seed \in Ids, s.primary \in Ids
  PROVE  NextDup(s) \in Run /\ Holds(NextDup(s))
<1>1. [s EXCEPT !.done = @ \cup {s.seed}] \in Run
  BY DEF Run
<1>2. CASE s.cluster = {}
  BY <1>1, <1>2, NextSeedType DEF NextDup
<1>3. CASE s.cluster # {}
  BY <1>3 DEF NextDup, Run, Pcs, Holds
<1> QED
  BY <1>2, <1>3

-----------------------------------------------------------------------------
(* Type correctness, step by step: the pass that moves, and the store.     *)
LEMMA BecomeType ==
  ASSUME Typing, NEW r \in Runs, NEW s \in Run, Holds(s), Become(r, s)
  PROVE  run' \in [Runs -> Run] /\ \A q \in Runs : Holds(run'[q])
BY DEF Typing, TypeOK, Become

LEMMA SameStore ==
  ASSUME Typing, UNCHANGED <<store, world>>, run' \in [Runs -> Run],
         \A q \in Runs : Holds(run'[q])
  PROVE  Typing'
BY DEF Typing, TypeOK, store, world

(* The steps that read, and change the pass only.                          *)
LEMMA DiscoveryReadsType ==
  ASSUME Typing, NEW r \in Runs, Scan(r) \/ ReadExisting(r) \/ ReadNear(r)
  PROVE  Typing'
<1> DEFINE s == run[r]
<1>0. s \in Run /\ Holds(s)
  BY DEF Typing, TypeOK
<1>1. CASE Scan(r)
  <2>1. [s EXCEPT !.todo = stored, !.list = mem] \in Run
    BY <1>0 DEF Run, Typing, TypeOK
  <2> QED
    BY <1>1, <2>1, NextMemoryType, BecomeType, SameStore DEF Scan
<1>2. CASE ReadExisting(r)
  <2>1. PICK i \in Ids :
          Become(r, IF Cardinality({e \in edges : i \in {e.from, e.to}}) >= MaxRelations
                    THEN NextMemory([s EXCEPT !.todo = @ \ {i}])
                    ELSE [[s EXCEPT !.todo = @ \ {i}]
                            EXCEPT !.pc = "near", !.seed = i, !.known = Neighbours(i)])
    BY <1>2 DEF ReadExisting
  <2>2. [s EXCEPT !.todo = @ \ {i}] \in Run
    BY <1>0 DEF Run
  <2>3. Neighbours(i) \subseteq Ids
    BY DEF Neighbours
  <2>4. LET t == [[s EXCEPT !.todo = @ \ {i}]
                    EXCEPT !.pc = "near", !.seed = i, !.known = Neighbours(i)]
        IN t \in Run /\ Holds(t)
    BY <2>2, <2>3 DEF Run, Pcs, Holds
  <2>5. UNCHANGED <<store, world>>
    BY <1>2 DEF ReadExisting
  <2> QED
    BY <2>1, <2>2, <2>4, <2>5, NextMemoryType, BecomeType, SameStore
<1>3. CASE ReadNear(r)
  <2> DEFINE near == {j \in indexed : {s.seed, j} \in Related /\ j # s.seed}
             t == [s EXCEPT !.cluster = near \ s.known]
  <2>1. t \in Run /\ t.seed \in Ids
    BY <1>0, <1>3 DEF Run, Typing, TypeOK, Holds, ReadNear, At
  <2>2. UNCHANGED <<store, world>>
    BY <1>3 DEF ReadNear
  <2>3. Become(r, NextPair(t)) \/ Become(r, NextMemory(s))
    BY <1>3 DEF ReadNear
  <2> QED
    BY <1>0, <2>1, <2>2, <2>3, NextPairType, NextMemoryType, BecomeType, SameStore
<1> QED
  BY <1>1, <1>2, <1>3

LEMMA RelateType ==
  ASSUME Typing, NEW r \in Runs, Relate(r)
  PROVE  Typing'
<1> DEFINE s(j) == [run[r] EXCEPT !.cluster = @ \ {j}]
           t(j) == [s(j) EXCEPT !.made = Append(@, <<s(j).seed, j>>)]
<1>1. PICK j \in run[r].cluster :
        \/ AddEdge(r, s(j).seed, j, "related_to") /\ Become(r, NextPair(t(j)))
        \/ Become(r, NextPair(s(j))) /\ UNCHANGED edges
  BY DEF Relate
<1>2. j \in Ids /\ s(j) \in Run /\ s(j).seed \in Ids
  <2>1. run[r] \in Run
    BY DEF Typing, TypeOK
  <2>2. run[r].seed \in Ids
    BY DEF Typing, Holds, Relate, At
  <2> QED
    BY <2>1, <2>2 DEF Run
<1>3. t(j) \in Run /\ t(j).seed \in Ids
  <2>1. Append(s(j).made, <<s(j).seed, j>>) \in Seq(Ids \X Ids)
    BY <1>2 DEF Run
  <2> QED
    BY <1>2, <2>1 DEF Run
<1>4. run' \in [Runs -> Run] /\ \A q \in Runs : Holds(run'[q])
  BY <1>1, <1>2, <1>3, NextPairType, BecomeType
<1>5. edges' \subseteq Edge
  BY <1>1, <1>2 DEF AddEdge, Edge, Kinds, Typing, TypeOK
<1> QED
  BY <1>4, <1>5 DEF Relate, Typing, TypeOK, world

(* The pass that has read a page.                                          *)
PageRows(s) == {i \in stored : Position(i) \in s.offset .. s.offset + Page - 1}

PageLate(s) == {i \in PageRows(s) : Decays(i, mem[i], s.now)}

PageRead(s) ==
  [s EXCEPT !.todo = PageLate(s), !.list = Rows(mem, PageLate(s)),
            !.owed = @ \ PageRows(s), !.full = Cardinality(PageRows(s)) = Page]

LEMMA PageReadType ==
  ASSUME Typing, NEW s \in Run
  PROVE  /\ PageRead(s) \in Run
         /\ \A i \in PageRead(s).todo : PageRead(s).list[i].last < PageRead(s).now
<1>1. PageLate(s) \subseteq Ids /\ Rows(mem, PageLate(s)) \in [Ids -> Memory]
  BY RowsType DEF PageLate, PageRows, Typing, TypeOK
<1>2. PageRead(s) \in Run
  <2> DEFINE u(b) == [s EXCEPT !.todo = PageLate(s), !.list = Rows(mem, PageLate(s)),
                               !.owed = @ \ PageRows(s), !.full = b]
  <2>1. u(TRUE) \in Run /\ u(FALSE) \in Run
    BY <1>1 DEF Run
  <2>2. (Cardinality(PageRows(s)) = Page) = TRUE \/ (Cardinality(PageRows(s)) = Page) = FALSE
    OBVIOUS
  <2>3. PageRead(s) = u(TRUE) \/ PageRead(s) = u(FALSE)
    BY <2>2, Zenon DEF PageRead
  <2> QED
    BY <2>1, <2>3, Zenon
<1>3. \A i \in PageLate(s) : Rows(mem, PageLate(s))[i].last < s.now
  <2>1. \A i \in PageLate(s) : mem[i].last < s.now
    BY DEF PageLate, Decays
  <2>2. \A i \in PageLate(s) : Rows(mem, PageLate(s))[i] = mem[i]
    BY <1>1 DEF Rows
  <2> QED
    BY <2>1, <2>2
<1>4. /\ PageRead(s).todo = PageLate(s) /\ PageRead(s).now = s.now
      /\ PageRead(s).list = Rows(mem, PageLate(s))
  BY DEF PageRead, Run
<1> QED
  BY <1>2, <1>3, <1>4

LEMMA ReadPageReads ==
  ASSUME NEW r \in Runs, ReadPage(r)
  PROVE  Become(r, NextDecay(PageRead(run[r]))) /\ UNCHANGED <<store, world>>
BY DEF ReadPage, PageRead, PageLate, PageRows

LEMMA ReadPageType ==
  ASSUME Typing, NEW r \in Runs, ReadPage(r)
  PROVE  Typing'
<1>1. run[r] \in Run
  BY DEF Typing, TypeOK
<1> QED
  BY <1>1, ReadPageReads, PageReadType, NextDecayType, BecomeType, SameStore

LEMMA DecayWriteType ==
  ASSUME Typing, NEW r \in Runs, DecayWrite(r)
  PROVE  Typing'
<1> DEFINE s == run[r]
<1>1. PICK i \in Ids :
        /\ i \in s.todo
        /\ mem' = IF i \notin stored THEN mem
                  ELSE [mem EXCEPT ![i].of = s.list[i].halved, ![i].last = s.now,
                                   ![i].hours = s.now - s.list[i].last]
        /\ Become(r, NextDecay([s EXCEPT !.todo = @ \ {i}]))
  BY DEF DecayWrite, Comes
<1>2. s \in Run /\ (\A k \in s.todo : s.list[k].last < s.now)
  BY DEF Typing, TypeOK, Holds, DecayWrite, At
<1>3. s.list[i] \in Memory /\ s.now \in Nat
  BY <1>2 DEF Run
<1>4. s.list[i].halved \in Nat /\ s.now - s.list[i].last \in Nat
  BY <1>1, <1>2, <1>3 DEF Memory
<1>5. mem' \in [Ids -> Memory]
  BY <1>1, <1>3, <1>4 DEF Typing, TypeOK, Memory
<1>6. [s EXCEPT !.todo = @ \ {i}] \in Run
  BY <1>2 DEF Run
<1>7. run' \in [Runs -> Run] /\ \A q \in Runs : Holds(run'[q])
  <2>1. \A k \in [s EXCEPT !.todo = @ \ {i}].todo :
          [s EXCEPT !.todo = @ \ {i}].list[k].last < [s EXCEPT !.todo = @ \ {i}].now
    BY <1>2 DEF Run
  <2> QED
    BY <1>1, <1>6, <2>1, NextDecayType, BecomeType
<1> QED
  BY <1>5, <1>7 DEF DecayWrite, Typing, TypeOK, world

LEMMA ListType ==
  ASSUME Typing, NEW r \in Runs, List(r)
  PROVE  Typing'
<1>1. [run[r] EXCEPT !.todo = stored, !.list = mem] \in Run
  BY DEF Run, Typing, TypeOK
<1> QED
  BY <1>1, NextSeedType, IdleType, BecomeType, SameStore DEF List

LEMMA SimilarIndexType ==
  ASSUME Typing, NEW r \in Runs, SimilarIndex(r)
  PROVE  Typing'
<1> DEFINE s(i) == [run[r] EXCEPT !.todo = @ \ {i}]
           near(i) == {j \in indexed : {i, j} \in Alike /\ j # i} \ s(i).done
           t(i) == [s(i) EXCEPT !.pc = "rows", !.seed = i, !.cluster = near(i)]
<1>1. PICK i \in Ids :
        \/ Become(r, IdleRun) \/ Become(r, NextSeed(s(i))) \/ Become(r, t(i))
  BY DEF SimilarIndex
<1>2. run[r] \in Run /\ near(i) \subseteq Ids
  BY DEF Typing, TypeOK
<1>3. s(i) \in Run
  BY <1>2 DEF Run
<1>4. t(i) \in Run /\ Holds(t(i))
  <2> HIDE DEF near, s
  <2> QED
    BY <1>2, <1>3 DEF Run, Pcs, Holds
<1>5. UNCHANGED <<store, world>>
  BY DEF SimilarIndex
<1> HIDE DEF s, t
<1> QED
  BY <1>1, <1>3, <1>4, <1>5, IdleType, NextSeedType, BecomeType, SameStore

LEMMA SimilarRowsType ==
  ASSUME Typing, NEW r \in Runs, SimilarRows(r)
  PROVE  Typing'
<1> DEFINE s == [run[r] EXCEPT !.copy = Rows(mem, run[r].cluster)]
           t(p) == [s EXCEPT !.pc = "relations", !.primary = p]
<1>1. PICK p \in s.cluster \cup {s.seed} : Become(r, t(p))
  BY DEF SimilarRows
<1>2. run[r] \in Run /\ run[r].seed \in Ids /\ Rows(mem, run[r].cluster) \in [Ids -> Memory]
  BY RowsType DEF Typing, TypeOK, Holds, SimilarRows, At
<1>3. s \in Run /\ s.seed \in Ids /\ p \in Ids
  BY <1>2 DEF Run
<1>4. t(p) \in Run /\ Holds(t(p))
  <2> HIDE DEF s
  <2> QED
    BY <1>3 DEF Run, Pcs, Holds
<1>5. UNCHANGED <<store, world>>
  BY DEF SimilarRows
<1> HIDE DEF t
<1> QED
  BY <1>1, <1>4, <1>5, BecomeType, SameStore

(* The rest of a cluster, with more memories done with.                    *)
LEMMA RestType ==
  ASSUME Typing, NEW r \in Runs, run[r].pc \in {"relations", "link", "demote"},
         NEW C \in SUBSET run[r].cluster, NEW D \in SUBSET Ids
  PROVE  LET s == [run[r] EXCEPT !.cluster = C, !.done = D]
         IN s \in Run /\ s.seed \in Ids /\ s.primary \in Ids
<1>1. run[r] \in Run /\ run[r].seed \in Ids /\ run[r].primary \in Ids
  BY DEF Typing, TypeOK, Holds
<1> QED
  BY <1>1 DEF Run

LEMMA ReadRelationsType ==
  ASSUME Typing, NEW r \in Runs, ReadRelations(r)
  PROVE  Typing'
<1> DEFINE before == (run[r].cluster \cap Superseded(run[r].primary)) \ {run[r].primary}
           C == run[r].cluster \ (before \cup {run[r].primary})
           D == run[r].done \cup before
           s == [run[r] EXCEPT !.cluster = C, !.done = D]
<1>1. run[r].cluster \subseteq Ids /\ run[r].done \subseteq Ids
  BY DEF Typing, TypeOK, Run
<1>2. Become(r, NextDup(s)) /\ UNCHANGED <<store, world>>
  <2>1. run[r] \in Run
    BY DEF Typing, TypeOK
  <2>2. s = [run[r] EXCEPT !.cluster = @ \ (before \cup {run[r].primary}),
                           !.done = @ \cup before]
    BY <2>1 DEF Run
  <2> HIDE DEF s
  <2> QED
    BY <2>2 DEF ReadRelations
<1>3. s \in Run /\ s.seed \in Ids /\ s.primary \in Ids
  BY <1>1, RestType DEF ReadRelations, At
<1> HIDE DEF s
<1> QED
  BY <1>2, <1>3, NextDupType, BecomeType, SameStore

LEMMA LinkType ==
  ASSUME Typing, NEW r \in Runs, Link(r)
  PROVE  Typing'
<1> DEFINE s(j) == [run[r] EXCEPT !.cluster = @ \ {j}]
           t(j) == [s(j) EXCEPT !.pc = "demote", !.dup = j,
                                !.made = Append(@, <<s(j).primary, j>>)]
           u(j) == [s(j) EXCEPT !.done = @ \cup {j}]
<1>1. PICK j \in run[r].cluster :
        \/ /\ AddEdge(r, s(j).primary, j, "supersedes")
           /\ links' = IF j \notin Superseded(s(j).primary)
                       THEN [links EXCEPT ![j] = @ + 1] ELSE links
           /\ Become(r, t(j))
        \/ Become(r, NextDup(u(j))) /\ UNCHANGED <<edges, links>>
  BY DEF Link
<1>2. run[r] \in Run /\ run[r].seed \in Ids /\ run[r].primary \in Ids
  BY DEF Typing, TypeOK, Holds, Link, At
<1>3. j \in Ids /\ s(j) \in Run /\ s(j).primary \in Ids /\ s(j).seed \in Ids
  BY <1>2 DEF Run
<1>4. t(j) \in Run /\ Holds(t(j))
  <2> HIDE DEF s
  <2>1. Append(s(j).made, <<s(j).primary, j>>) \in Seq(Ids \X Ids)
    BY <1>3 DEF Run
  <2> QED
    BY <1>3, <2>1 DEF Run, Pcs, Holds
<1>5. u(j) \in Run /\ u(j).seed \in Ids /\ u(j).primary \in Ids
  <2> HIDE DEF s
  <2> QED
    BY <1>3 DEF Run
<1>6. run' \in [Runs -> Run] /\ \A q \in Runs : Holds(run'[q])
  <2> HIDE DEF t, u
  <2> QED
    BY <1>1, <1>4, <1>5, NextDupType, BecomeType
<1>7. edges' \subseteq Edge /\ links' \in [Ids -> Nat]
  <2> HIDE DEF s
  <2> QED
    BY <1>1, <1>3 DEF AddEdge, Edge, Kinds, Typing, TypeOK
<1> QED
  BY <1>6, <1>7 DEF Link, Typing, TypeOK, world

LEMMA DemoteType ==
  ASSUME Typing, NEW r \in Runs, Demote(r)
  PROVE  Typing'
<1> DEFINE s == run[r]
           u == [s EXCEPT !.done = @ \cup {s.dup}]
<1>1. s \in Run /\ s.seed \in Ids /\ s.primary \in Ids /\ s.dup \in Ids
  BY DEF Typing, TypeOK, Holds, Demote, At
<1>2. u \in Run /\ u.seed \in Ids /\ u.primary \in Ids
  BY <1>1 DEF Run
<1>3. run' \in [Runs -> Run] /\ \A q \in Runs : Holds(run'[q])
  <2>1. Become(r, NextDup(u))
    BY DEF Demote
  <2> HIDE DEF u
  <2> QED
    BY <1>2, <2>1, NextDupType, BecomeType
<1>4. mem' \in [Ids -> Memory]
  <2>1. s.copy[s.dup] \in Memory
    BY <1>1 DEF Run
  <2>2. Demoted(s.copy[s.dup]) \in Memory
    BY <2>1 DEF Demoted, Memory, Typing, TypeOK
  <2> QED
    BY <2>2 DEF Demote, Typing, TypeOK
<1> QED
  BY <1>3, <1>4 DEF Demote, Typing, TypeOK, world

(* Starts, ends by an error, and what happens around the passes.           *)
LEMMA OtherType ==
  ASSUME Typing, NEW r \in Runs, Abort(r) \/ \E t \in Tasks[r] : Start(r, t)
  PROVE  Typing'
<1>1. CASE Abort(r)
  BY <1>1, IdleType, BecomeType, SameStore DEF Abort
<1>2. CASE \E t \in Tasks[r] : Start(r, t)
  <2>1. PICK t \in {"relations", "decay", "consolidation"} : Start(r, t)
    BY <1>2, ProcessorAssumption
  <2> DEFINE due == {i \in stored : Decays(i, mem[i], hour)}
             d == [IdleRun EXCEPT !.pc = "page", !.now = hour, !.owed = due]
             c == [IdleRun EXCEPT !.pc = "list"]
             n == [IdleRun EXCEPT !.pc = "scan"]
  <2>2. due \subseteq Ids /\ hour \in Nat
    BY DEF Typing, TypeOK
  <2>3. d \in Run /\ Holds(d)
    <3> HIDE DEF due
    <3> QED
      BY <2>2, IdleType DEF Run, Pcs, Holds
  <2>4. c \in Run /\ Holds(c) /\ n \in Run /\ Holds(n)
    BY IdleType DEF Run, Pcs, Holds
  <2>5. UNCHANGED <<store, world>> /\ (Become(r, d) \/ Become(r, c) \/ Become(r, n))
    BY <2>1 DEF Start
  <2> HIDE DEF d, c, n
  <2> QED
    BY <2>3, <2>4, <2>5, BecomeType, SameStore
<1> QED
  BY <1>1, <1>2

LEMMA WorldType ==
  ASSUME Typing, Hour \/ \E i \in Ids : DeleteRow(i) \/ DeletePoint(i)
  PROVE  Typing'
<1>1. CASE Hour
  BY <1>1 DEF Hour, Typing, TypeOK, store
<1>2. CASE \E i \in Ids : DeleteRow(i) \/ DeletePoint(i)
  BY <1>2 DEF DeleteRow, DeletePoint, Typing, TypeOK
<1> QED
  BY <1>1, <1>2

LEMMA TypeStep == Typing /\ [Next]_vars => Typing'
<1> SUFFICES ASSUME Typing, [Next]_vars PROVE Typing'
  OBVIOUS
<1>1. CASE UNCHANGED vars
  BY <1>1 DEF vars, Typing, TypeOK
<1>2. ASSUME NEW r \in Runs, Advance(r) PROVE Typing'
  BY <1>2, DiscoveryReadsType, RelateType, ReadPageType, DecayWriteType, ListType,
     SimilarIndexType, SimilarRowsType, ReadRelationsType, LinkType, DemoteType
     DEF Advance
<1> QED
  BY <1>1, <1>2, OtherType, WorldType DEF Next

LEMMA TypeInit == Init => Typing
<1> SUFFICES ASSUME Init PROVE Typing
  OBVIOUS
<1>1. mem \in [Ids -> Memory] /\ links \in [Ids -> Nat]
  BY FreshType DEF Init
<1>2. run \in [Runs -> Run] /\ \A r \in Runs : Holds(run[r])
  BY IdleType DEF Init
<1> QED
  BY <1>1, <1>2 DEF Init, Typing, TypeOK

(* Rows, edges and passes always have their types, and a decay writes only *)
(* what was calculated an hour before.                                     *)
THEOREM TypeCorrect == Spec => []TypeOK
<1>1. Typing => TypeOK
  BY DEF Typing
<1> QED
  BY <1>1, TypeInit, TypeStep, PTL DEF Spec

-----------------------------------------------------------------------------
(* Where a pass goes on to, after an iteration of one of its loops.        *)
Calm == {"idle", "scan", "existing", "near", "relate", "page", "decay"}

Quiet == Calm \cup {"list", "similar", "rows"}

LEMMA IdlePc == IdleRun.pc = "idle"
BY DEF IdleRun

LEMMA ListedPc == ASSUME NEW s, NEW pc PROVE Listed(s, pc).pc = pc
BY DEF Listed, IdleRun

LEMMA NextMemoryPc == ASSUME NEW s PROVE NextMemory(s).pc \in {"idle", "existing"}
BY IdlePc, ListedPc DEF NextMemory

LEMMA NextPairPc ==
  ASSUME NEW s \in Run PROVE NextPair(s).pc \in {"idle", "existing", "relate"}
BY NextMemoryPc DEF NextPair, Run

LEMMA NextDecayPc ==
  ASSUME NEW s \in Run PROVE NextDecay(s).pc \in {"idle", "page", "decay"}
<1>1. NextPage(s).pc \in {"idle", "page"}
  <2>1. CASE s.full
    BY <2>1 DEF NextPage, IdleRun
  <2>2. CASE ~s.full
    BY <2>2 DEF NextPage, IdleRun
  <2> QED
    BY <2>1, <2>2
<1> QED
  BY <1>1 DEF NextDecay, Run

LEMMA NextSeedPc == ASSUME NEW s PROVE NextSeed(s).pc \in {"idle", "similar"}
BY IdlePc, ListedPc DEF NextSeed

(* A step of discovery or of decay, or one that ends a pass.              *)
LEMMA CalmStep ==
  ASSUME Typing, NEW r \in Runs,
         \/ Scan(r) \/ ReadExisting(r) \/ ReadNear(r) \/ Relate(r) \/ ReadPage(r)
         \/ DecayWrite(r) \/ Abort(r)
  PROVE  run'[r].pc \in Calm
<1> DEFINE s == run[r]
<1>0. s \in Run /\ \A t : Become(r, t) => run'[r] = t
  BY DEF Typing, TypeOK, Become
<1>1. CASE Scan(r)
  BY <1>0, <1>1, NextMemoryPc DEF Scan, Calm
<1>2. CASE ReadExisting(r)
  <2>1. PICK i \in Ids :
          \/ Become(r, NextMemory([s EXCEPT !.todo = @ \ {i}]))
          \/ Become(r, [[s EXCEPT !.todo = @ \ {i}]
                          EXCEPT !.pc = "near", !.seed = i, !.known = Neighbours(i)])
    BY <1>2 DEF ReadExisting
  <2>2. [[s EXCEPT !.todo = @ \ {i}]
          EXCEPT !.pc = "near", !.seed = i, !.known = Neighbours(i)].pc = "near"
    BY <1>0 DEF Run
  <2> QED
    BY <1>0, <2>1, <2>2, NextMemoryPc DEF Calm
<1>3. CASE ReadNear(r)
  <2> DEFINE t == [s EXCEPT !.cluster = {j \in indexed : {s.seed, j} \in Related /\ j # s.seed}
                                        \ s.known]
  <2>1. t \in Run
    BY <1>0 DEF Run, Typing, TypeOK
  <2>2. Become(r, NextPair(t)) \/ Become(r, NextMemory(s))
    BY <1>3 DEF ReadNear
  <2> HIDE DEF t
  <2> QED
    BY <1>0, <2>1, <2>2, NextPairPc, NextMemoryPc DEF Calm
<1>4. CASE Relate(r)
  <2> DEFINE u(j) == [s EXCEPT !.cluster = @ \ {j}]
             t(j) == [u(j) EXCEPT !.made = Append(@, <<u(j).seed, j>>)]
  <2>1. PICK j \in s.cluster : Become(r, NextPair(t(j))) \/ Become(r, NextPair(u(j)))
    BY <1>4 DEF Relate
  <2>2. \A v : NextPair(v).pc \in {"idle", "existing"} \/ NextPair(v) = [v EXCEPT !.pc = "relate"]
    BY NextMemoryPc DEF NextPair
  <2>3. [t(j) EXCEPT !.pc = "relate"].pc = "relate" /\ [u(j) EXCEPT !.pc = "relate"].pc = "relate"
    BY <1>0 DEF Run
  <2> HIDE DEF t, u
  <2> QED
    BY <1>0, <2>1, <2>2, <2>3 DEF Calm
<1>5. CASE ReadPage(r)
  BY <1>0, <1>5, ReadPageReads, PageReadType, NextDecayPc DEF Calm
<1>6. CASE DecayWrite(r)
  <2>1. PICK i \in Ids : Become(r, NextDecay([s EXCEPT !.todo = @ \ {i}]))
    BY <1>6 DEF DecayWrite
  <2>2. [s EXCEPT !.todo = @ \ {i}] \in Run
    BY <1>0 DEF Run
  <2> QED
    BY <1>0, <2>1, <2>2, NextDecayPc DEF Calm
<1>7. CASE Abort(r)
  BY <1>0, <1>7, IdlePc DEF Abort, Calm
<1> QED
  BY <1>1, <1>2, <1>3, <1>4, <1>5, <1>6, <1>7

(* A step of a pass leaves it quiet, or is one of four.                    *)
LEMMA QuietStep ==
  ASSUME Typing, NEW r \in Runs,
         \/ Scan(r) \/ ReadExisting(r) \/ ReadNear(r) \/ Relate(r) \/ ReadPage(r)
         \/ DecayWrite(r) \/ List(r) \/ SimilarIndex(r) \/ Abort(r)
         \/ \E t \in Tasks[r] : Start(r, t)
  PROVE  run'[r].pc \in Quiet
<1> DEFINE s == run[r]
<1>0. s \in Run /\ \A t : Become(r, t) => run'[r] = t
  BY DEF Typing, TypeOK, Become
<1>1. CASE List(r)
  BY <1>0, <1>1, IdlePc, NextSeedPc DEF List, Calm, Quiet
<1>2. CASE SimilarIndex(r)
  <2>1. PICK i, near :
          \/ Become(r, IdleRun) \/ Become(r, NextSeed([s EXCEPT !.todo = @ \ {i}]))
          \/ Become(r, [[s EXCEPT !.todo = @ \ {i}]
                          EXCEPT !.pc = "rows", !.seed = i, !.cluster = near])
    BY <1>2 DEF SimilarIndex
  <2>2. [[s EXCEPT !.todo = @ \ {i}]
          EXCEPT !.pc = "rows", !.seed = i, !.cluster = near].pc = "rows"
    BY <1>0 DEF Run
  <2> QED
    BY <1>0, <2>1, <2>2, IdlePc, NextSeedPc DEF Calm, Quiet
<1>3. CASE \E t \in Tasks[r] : Start(r, t)
  <2>1. PICK t \in {"relations", "decay", "consolidation"} : Start(r, t)
    BY <1>3, ProcessorAssumption
  <2>2. run'[r].pc \in {"scan", "list", "page"}
    BY <1>0, <2>1 DEF Start, IdleRun
  <2> QED
    BY <2>2 DEF Calm, Quiet
<1>4. Calm \subseteq Quiet
  BY DEF Calm, Quiet
<1> QED
  BY <1>1, <1>2, <1>3, <1>4, CalmStep

(* A step moves one pass at most.                                          *)
LEMMA OneMoves ==
  ASSUME Typing, [Next]_vars, NEW q \in Runs
  PROVE  run'[q] = run[q] \/ Advance(q) \/ Abort(q) \/ \E t \in Tasks[q] : Start(q, t)
<1>1. ASSUME NEW r \in Runs, r # q,
             Advance(r) \/ Abort(r) \/ \E t \in Tasks[r] : Start(r, t)
      PROVE  run'[q] = run[q]
  BY <1>1 DEF Typing, TypeOK, Advance, Abort, Start, Become, Scan, ReadExisting, ReadNear,
     Relate, ReadPage, DecayWrite, List, SimilarIndex, SimilarRows, ReadRelations, Link, Demote
<1>2. CASE UNCHANGED vars \/ Hour \/ \E i \in Ids : DeleteRow(i) \/ DeletePoint(i)
  BY <1>2 DEF vars, Hour, DeleteRow, DeletePoint
<1> QED
  BY <1>1, <1>2 DEF Next

-----------------------------------------------------------------------------
(* Halvings are paid for by links.  A pass that is about to demote has     *)
(* read the row before the relations, and found no edge there: whoever     *)
(* created that edge since, the pass itself or another one, did so after   *)
(* the row was read.                                                       *)
Linked(E, p, j) == \E e \in E : e.from = p /\ e.to = j /\ e.kind = "supersedes"

Paid(s, L, E) ==
  /\ s.pc \in {"relations", "link", "demote"} =>
       \A j \in s.cluster : s.copy[j].halved <= L[j]
  /\ s.pc \in {"link", "demote"} =>
       \A j \in s.cluster : Linked(E, s.primary, j) => s.copy[j].halved < L[j]
  /\ s.pc = "demote" => s.copy[s.dup].halved < L[s.dup]

HalvingInv == HalvedOncePerLink /\ \A r \in Runs : Paid(run[r], links, edges)

LEMMA QuietIsPaid ==
  ASSUME NEW s, s.pc \in Quiet, NEW L, NEW E
  PROVE  Paid(s, L, E)
BY DEF Calm, Quiet, Paid

LEMMA NextDupPaid ==
  ASSUME NEW s \in Run, NEW L, NEW E,
         \A j \in s.cluster : s.copy[j].halved <= L[j],
         \A j \in s.cluster : Linked(E, s.primary, j) => s.copy[j].halved < L[j]
  PROVE  Paid(NextDup(s), L, E)
<1>1. CASE s.cluster = {}
  <2>1. NextDup(s).pc \in Quiet
    BY <1>1, NextSeedPc DEF NextDup, Calm, Quiet
  <2> QED
    BY <2>1, QuietIsPaid
<1>2. CASE s.cluster # {}
  BY <1>2 DEF NextDup, Paid, Run
<1> QED
  BY <1>1, <1>2

(* What the others do to a pass: links never become fewer, and a new edge  *)
(* counts as one.                                                          *)
LEMMA PaidGrows ==
  ASSUME NEW s \in Run, Holds(s), NEW L \in [Ids -> Nat], NEW M \in [Ids -> Nat],
         NEW E, NEW F, Paid(s, L, E), \A j \in Ids : L[j] <= M[j],
         \A p, j \in Ids : Linked(F, p, j) => Linked(E, p, j) \/ L[j] < M[j]
  PROVE  Paid(s, M, F)
<1>1. s.cluster \subseteq Ids /\ \A j \in Ids : s.copy[j].halved \in Nat
  BY DEF Run, Memory
<1>2. CASE s.pc = "relations"
  BY <1>1, <1>2 DEF Paid
<1>3. CASE s.pc = "link" \/ s.pc = "demote"
  <2>1. s.primary \in Ids
    BY <1>3 DEF Holds
  <2>2. \A j \in s.cluster : s.copy[j].halved <= M[j]
    BY <1>1, <1>3 DEF Paid
  <2>3. \A j \in s.cluster : Linked(F, s.primary, j) => s.copy[j].halved < M[j]
    BY <1>1, <1>3, <2>1 DEF Paid
  <2>4. s.pc = "demote" => s.copy[s.dup].halved < M[s.dup]
    BY <1>1 DEF Paid, Holds
  <2> QED
    BY <2>2, <2>3, <2>4 DEF Paid
<1> QED
  BY <1>2, <1>3 DEF Paid

LEMMA LinksGrow ==
  ASSUME Typing, [Next]_vars
  PROVE  /\ \A j \in Ids : links[j] <= links'[j]
         /\ \A p, j \in Ids : Linked(edges', p, j) => Linked(edges, p, j) \/ links[j] < links'[j]
<1> USE DEF Typing, TypeOK
<1>1. CASE UNCHANGED <<edges, links>>
  BY <1>1
<1>2. ASSUME NEW r \in Runs, Relate(r), ~UNCHANGED edges
      PROVE  UNCHANGED links /\ \A p, j \in Ids : Linked(edges', p, j) => Linked(edges, p, j)
  BY <1>2 DEF Relate, AddEdge, Linked
<1>3. ASSUME NEW r \in Runs, Link(r)
      PROVE  /\ \A j \in Ids : links[j] <= links'[j]
             /\ \A p, j \in Ids : Linked(edges', p, j) => Linked(edges, p, j) \/ links[j] < links'[j]
  <2>1. CASE UNCHANGED <<edges, links>>
    BY <2>1
  <2>2. CASE ~UNCHANGED <<edges, links>>
    <3>1. PICK i \in run[r].cluster :
            /\ AddEdge(r, run[r].primary, i, "supersedes")
            /\ links' = IF i \notin Superseded(run[r].primary)
                        THEN [links EXCEPT ![i] = @ + 1] ELSE links
      <4>1. run[r] \in Run
        OBVIOUS
      <4>2. \A i : [run[r] EXCEPT !.cluster = @ \ {i}].primary = run[r].primary
        BY <4>1 DEF Run
      <4> QED
        BY <1>3, <2>2, <4>2 DEF Link
    <3>2. i \in Ids
      BY DEF Run
    <3>3. i \notin Superseded(run[r].primary) <=> ~Linked(edges, run[r].primary, i)
      BY <3>2 DEF Superseded, Linked
    <3> QED
      BY <3>1, <3>2, <3>3 DEF AddEdge, Linked
  <2> QED
    BY <2>1, <2>2
<1>4. ASSUME NEW i \in Ids, DeleteRow(i)
      PROVE  UNCHANGED links /\ \A p, j \in Ids : Linked(edges', p, j) => Linked(edges, p, j)
  BY <1>4 DEF DeleteRow, Linked
<1>5. ASSUME NEW r \in Runs, Advance(r), ~Relate(r), ~Link(r)
      PROVE  UNCHANGED <<edges, links>>
  BY <1>5 DEF Advance, Scan, ReadExisting, ReadNear, ReadPage, DecayWrite, List,
     SimilarIndex, SimilarRows, ReadRelations, Demote, store
<1>6. ASSUME NEW r \in Runs, Abort(r) \/ \E t \in Tasks[r] : Start(r, t)
      PROVE  UNCHANGED <<edges, links>>
  BY <1>6 DEF Abort, Start, store
<1>7. CASE Hour \/ \E i \in Ids : DeletePoint(i)
  BY <1>1, <1>7 DEF Hour, DeletePoint, store
<1> DEFINE Goal == /\ \A j \in Ids : links[j] <= links'[j]
                   /\ \A p, j \in Ids : Linked(edges', p, j)
                                        => Linked(edges, p, j) \/ links[j] < links'[j]
<1>8. UNCHANGED links /\ (\A p, j \in Ids : Linked(edges', p, j) => Linked(edges, p, j)) => Goal
  OBVIOUS
<1>9. ASSUME NEW r \in Runs, Advance(r) PROVE Goal
  <2>1. Relate(r) => UNCHANGED links
    BY DEF Relate
  <2> QED
    BY <1>1, <1>2, <1>3, <1>5, <1>8, <1>9, <2>1
<1>10. UNCHANGED vars => Goal
  BY <1>1 DEF vars
<1> HIDE DEF Goal
<1>11. Goal
  BY <1>1, <1>4, <1>6, <1>7, <1>8, <1>9, <1>10 DEF Next, Goal
<1> QED
  BY <1>11 DEF Goal

(* The four steps in which a pass comes to hold a copy, or acts on it.     *)
LEMMA SimilarRowsPaid ==
  ASSUME Typing, HalvingInv, NEW r \in Runs, SimilarRows(r)
  PROVE  Paid(run'[r], links, edges)
<1> DEFINE s == [run[r] EXCEPT !.copy = Rows(mem, run[r].cluster)]
           t(p) == [s EXCEPT !.pc = "relations", !.primary = p]
<1>1. PICK p : Become(r, t(p))
  BY DEF SimilarRows
<1>2. run'[r] = t(p) /\ run[r] \in Run
  BY <1>1 DEF Become, Typing, TypeOK
<1>3. t(p).pc = "relations" /\ t(p).cluster = run[r].cluster
      /\ t(p).copy = Rows(mem, run[r].cluster)
  BY <1>2 DEF Run
<1>4. \A j \in run[r].cluster : Rows(mem, run[r].cluster)[j].halved <= links[j]
  BY <1>2 DEF Rows, Run, HalvingInv, HalvedOncePerLink
<1> HIDE DEF t
<1> QED
  BY <1>2, <1>3, <1>4 DEF Paid

LEMMA ReadRelationsPaid ==
  ASSUME Typing, HalvingInv, NEW r \in Runs, ReadRelations(r)
  PROVE  Paid(run'[r], links, edges)
<1> DEFINE before == (run[r].cluster \cap Superseded(run[r].primary)) \ {run[r].primary}
           s == [run[r] EXCEPT !.cluster = @ \ (before \cup {run[r].primary}),
                               !.done = @ \cup before]
<1>1. run'[r] = NextDup(s) /\ run[r] \in Run /\ run[r].pc = "relations"
  BY DEF ReadRelations, Become, Typing, TypeOK, At
<1>2. before \subseteq Ids /\ run[r].cluster \subseteq Ids
  BY <1>1 DEF Run
<1>3. /\ s \in Run /\ s.copy = run[r].copy /\ s.primary = run[r].primary
      /\ s.cluster = run[r].cluster \ (before \cup {run[r].primary})
  <2> HIDE DEF before
  <2> QED
    BY <1>1, <1>2 DEF Run
<1>4. \A j \in s.cluster : s.copy[j].halved <= links[j]
  BY <1>1, <1>3 DEF HalvingInv, Paid
<1>5. \A j \in s.cluster : ~Linked(edges, s.primary, j)
  <2>1. \A j \in s.cluster : j \in Ids /\ j \notin Superseded(s.primary)
    BY <1>2, <1>3
  <2> QED
    BY <2>1 DEF Superseded, Linked
<1> HIDE DEF s
<1> QED
  BY <1>1, <1>3, <1>4, <1>5, NextDupPaid

LEMMA LinkPaid ==
  ASSUME Typing, Typing', HalvingInv, NEW r \in Runs, Link(r)
  PROVE  Paid(run'[r], links', edges')
<1> DEFINE s(j) == [run[r] EXCEPT !.cluster = @ \ {j}]
           t(j) == [s(j) EXCEPT !.pc = "demote", !.dup = j,
                                !.made = Append(@, <<s(j).primary, j>>)]
           u(j) == [s(j) EXCEPT !.done = @ \cup {j}]
<1>0. run[r] \in Run /\ run[r].pc = "link" /\ run[r].primary \in Ids
  BY DEF Typing, TypeOK, Holds, Link, At
<1>1. PICK j \in run[r].cluster :
        \/ /\ AddEdge(r, s(j).primary, j, "supersedes")
           /\ links' = IF j \notin Superseded(s(j).primary)
                       THEN [links EXCEPT ![j] = @ + 1] ELSE links
           /\ run'[r] = t(j)
        \/ run'[r] = NextDup(u(j)) /\ UNCHANGED <<edges, links>>
  BY DEF Link, Become, Typing, TypeOK
<1>2. /\ j \in Ids /\ s(j).primary = run[r].primary
      /\ t(j).pc = "demote" /\ t(j).dup = j /\ t(j).copy = run[r].copy
      /\ t(j).cluster = run[r].cluster \ {j} /\ t(j).primary = run[r].primary
  BY <1>0 DEF Run
<1>3. /\ \A i \in run[r].cluster : run[r].copy[i].halved <= links[i]
      /\ \A i \in run[r].cluster : Linked(edges, run[r].primary, i)
                                   => run[r].copy[i].halved < links[i]
  BY <1>0 DEF HalvingInv, Paid
<1>4. \A i \in Ids : links[i] \in Nat /\ run[r].copy[i].halved \in Nat
  BY <1>0 DEF Typing, TypeOK, Run, Memory
<1>5. CASE run'[r] = NextDup(u(j)) /\ UNCHANGED <<edges, links>>
  <2>1. u(j) \in Run /\ u(j).cluster = run[r].cluster \ {j} /\ u(j).copy = run[r].copy
        /\ u(j).primary = run[r].primary
    BY <1>0, <1>2 DEF Run
  <2> HIDE DEF u
  <2> QED
    BY <1>3, <1>5, <2>1, NextDupPaid
<1>6. CASE /\ AddEdge(r, s(j).primary, j, "supersedes")
           /\ links' = IF j \notin Superseded(s(j).primary)
                       THEN [links EXCEPT ![j] = @ + 1] ELSE links
           /\ run'[r] = t(j)
  <2>1. j \in Superseded(run[r].primary) <=> Linked(edges, run[r].primary, j)
    BY <1>2 DEF Superseded, Linked
  <2>2. run[r].copy[j].halved < links'[j]
    BY <1>2, <1>3, <1>4, <1>6, <2>1 DEF Typing, TypeOK
  <2>3. \A i \in run[r].cluster \ {j} : links'[i] = links[i]
    BY <1>2, <1>6 DEF Typing, TypeOK
  <2>4. \A i \in run[r].cluster \ {j} :
          Linked(edges', run[r].primary, i) => Linked(edges, run[r].primary, i)
    BY <1>6 DEF AddEdge, Linked
  <2> HIDE DEF t
  <2> QED
    BY <1>2, <1>3, <1>6, <2>2, <2>3, <2>4 DEF Paid
<1> QED
  BY <1>1, <1>5, <1>6

LEMMA DemotePaid ==
  ASSUME Typing, HalvingInv, NEW r \in Runs, Demote(r)
  PROVE  Paid(run'[r], links, edges) /\ HalvedOncePerLink'
<1> DEFINE s == run[r]
           u == [s EXCEPT !.done = @ \cup {s.dup}]
<1>1. s \in Run /\ s.pc = "demote" /\ s.dup \in Ids /\ run'[r] = NextDup(u)
  BY DEF Typing, TypeOK, Holds, Demote, At, Become
<1>2. u \in Run /\ u.cluster = s.cluster /\ u.copy = s.copy /\ u.primary = s.primary
  BY <1>1 DEF Run
<1>3. Paid(s, links, edges)
  BY DEF HalvingInv
<1>4. Paid(run'[r], links, edges)
  <2> HIDE DEF u
  <2> QED
    BY <1>1, <1>2, <1>3, NextDupPaid DEF Paid
<1>5. Demoted(s.copy[s.dup]).halved <= links[s.dup]
  <2>1. s.copy[s.dup].halved \in Nat /\ links[s.dup] \in Nat
    BY <1>1 DEF Run, Memory, Typing, TypeOK
  <2>2. s.copy[s.dup].halved < links[s.dup]
    BY <1>1, <1>3 DEF Paid
  <2> QED
    BY <2>1, <2>2 DEF Demoted
<1>6. HalvedOncePerLink'
  BY <1>1, <1>5 DEF Demote, HalvingInv, HalvedOncePerLink, Typing, TypeOK
<1> QED
  BY <1>4, <1>6

(* A decay leaves the salience alone, and so does every other step.        *)
LEMMA HalvedStep ==
  ASSUME Typing, Typing', HalvingInv, [Next]_vars
  PROVE  HalvedOncePerLink'
<1>1. \A j \in Ids : links[j] <= links'[j] /\ links[j] \in Nat /\ links'[j] \in Nat
                     /\ mem[j].halved \in Nat
  BY LinksGrow DEF Typing, TypeOK, Memory
<1>2. ASSUME \A j \in Ids : mem'[j].halved = mem[j].halved
      PROVE  HalvedOncePerLink'
  BY <1>1, <1>2 DEF HalvingInv, HalvedOncePerLink
<1>3. ASSUME NEW r \in Runs, DecayWrite(r)
      PROVE  \A j \in Ids : mem'[j].halved = mem[j].halved
  BY <1>3 DEF DecayWrite, Typing, TypeOK, Memory
<1>4. ASSUME NEW r \in Runs, Advance(r), ~DecayWrite(r), ~Demote(r)
      PROVE  UNCHANGED mem
  BY <1>4 DEF Advance, Scan, ReadExisting, ReadNear, Relate, ReadPage, List,
     SimilarIndex, SimilarRows, ReadRelations, Link, store
<1>5. ASSUME NEW r \in Runs, Abort(r) \/ \E t \in Tasks[r] : Start(r, t)
      PROVE  UNCHANGED mem
  BY <1>5 DEF Abort, Start, store
<1>6. CASE UNCHANGED vars \/ Hour \/ \E i \in Ids : DeleteRow(i) \/ DeletePoint(i)
  BY <1>2, <1>6 DEF vars, Hour, DeleteRow, DeletePoint, store
<1>7. CASE \E r \in Runs : Demote(r)
  BY <1>7, DemotePaid
<1>8. ASSUME NEW r \in Runs, Advance(r) PROVE HalvedOncePerLink'
  BY <1>2, <1>3, <1>4, <1>7, <1>8
<1> QED
  BY <1>2, <1>5, <1>6, <1>8 DEF Next

LEMMA PaidStep ==
  ASSUME Typing, Typing', HalvingInv, [Next]_vars
  PROVE  \A q \in Runs : Paid(run'[q], links', edges')
<1> SUFFICES ASSUME NEW q \in Runs PROVE Paid(run'[q], links', edges')
  OBVIOUS
<1>1. run[q] \in Run /\ Holds(run[q]) /\ Paid(run[q], links, edges)
  BY DEF Typing, TypeOK, HalvingInv
<1>2. CASE run'[q] = run[q]
  <2>1. links \in [Ids -> Nat] /\ links' \in [Ids -> Nat]
    BY DEF Typing, TypeOK
  <2> QED
    BY <1>1, <1>2, <2>1, LinksGrow, PaidGrows
<1>3. CASE Advance(q)
  <2>1. CASE SimilarRows(q)
    BY <2>1, SimilarRowsPaid DEF SimilarRows, store
  <2>2. CASE ReadRelations(q)
    BY <2>2, ReadRelationsPaid DEF ReadRelations, store
  <2>3. CASE Link(q)
    BY <2>3, LinkPaid
  <2>4. CASE Demote(q)
    BY <2>4, DemotePaid DEF Demote
  <2> QED
    BY <1>3, <2>1, <2>2, <2>3, <2>4, QuietStep, QuietIsPaid DEF Advance
<1>4. CASE Abort(q) \/ \E t \in Tasks[q] : Start(q, t)
  BY <1>4, QuietStep, QuietIsPaid
<1> QED
  BY <1>2, <1>3, <1>4, OneMoves

LEMMA HalvingInit == Init => HalvingInv
<1> SUFFICES ASSUME Init PROVE HalvingInv
  OBVIOUS
<1>1. \A r \in Runs : run[r].pc \in Quiet
  BY IdlePc DEF Init, Calm, Quiet
<1>2. HalvedOncePerLink
  BY DEF Init, HalvedOncePerLink, Fresh
<1> QED
  BY <1>1, <1>2, QuietIsPaid DEF HalvingInv

(* However many runs consolidate the same memories at once, while others   *)
(* are deleted and calls fail, every halving of a salience has a link of   *)
(* its own.                                                                *)
THEOREM HalvedOnce == Spec => []HalvedOncePerLink
<1>1. Typing /\ HalvingInv /\ [Next]_vars => (Typing /\ HalvingInv)'
  <2>1. ASSUME Typing, HalvingInv, [Next]_vars PROVE (Typing /\ HalvingInv)'
    <3>1. Typing'
      BY <2>1, TypeStep
    <3> QED
      BY <2>1, <3>1, HalvedStep, PaidStep DEF HalvingInv
  <2> QED
    BY <2>1
<1>2. HalvingInv => HalvedOncePerLink
  BY DEF HalvingInv
<1> QED
  BY <1>1, <1>2, TypeInit, HalvingInit, PTL DEF Spec

-----------------------------------------------------------------------------
(* What a pass has superseded is processed by the time it looks further,   *)
(* and neither the primary nor a candidate is processed.                   *)
Ordered(made) ==
  \A m, n \in DOMAIN made : m < n => made[m][2] \notin {made[n][1], made[n][2]}

Beaten(made, ids) == \A m \in DOMAIN made : made[m][2] \in ids

Tree(s) ==
  /\ s.pc = "list" => s.made = <<>>
  /\ s.pc \in {"similar", "rows", "relations", "link", "demote"} => Ordered(s.made)
  /\ s.pc \in {"similar", "rows", "relations", "link"} => Beaten(s.made, s.done)
  /\ s.pc = "demote" => Beaten(s.made, s.done \cup {s.dup})
  /\ s.pc = "similar" => s.todo \cap s.done = {}
  /\ s.pc \in {"rows", "relations", "link", "demote"} => s.cluster \cap s.done = {}
  /\ s.pc \in {"rows", "relations"} => s.seed \notin s.done
  /\ s.pc = "relations" => s.primary \in s.cluster \cup {s.seed}
  /\ s.pc \in {"link", "demote"} => s.primary \notin s.done \cup s.cluster
  /\ s.pc = "demote" => s.dup \notin s.cluster \cup {s.primary}

TreeInv == \A r \in Runs : Tree(run[r])

LEMMA CalmIsTree == ASSUME NEW s, s.pc \in Calm PROVE Tree(s)
BY DEF Calm, Tree

LEMMA NextSeedTree ==
  ASSUME NEW s \in Run, Ordered(s.made), Beaten(s.made, s.done)
  PROVE  Tree(NextSeed(s))
<1> DEFINE rest == [s EXCEPT !.todo = @ \ s.done]
           t == Listed(rest, "similar")
<1>1. rest.todo = s.todo \ s.done /\ rest.done = s.done /\ rest.made = s.made
  BY DEF Run
<1>2. t.pc = "similar" /\ t.todo = rest.todo /\ t.done = rest.done /\ t.made = rest.made
  BY DEF Listed, IdleRun
<1>3. Tree(t)
  <2> HIDE DEF t, rest
  <2> QED
    BY <1>1, <1>2 DEF Tree
<1> QED
  BY <1>3, CalmIsTree, IdlePc DEF NextSeed, Calm

LEMMA NextDupTree ==
  ASSUME NEW s \in Run, Ordered(s.made), Beaten(s.made, s.done),
         s.cluster \cap s.done = {}, s.primary \notin s.done \cup s.cluster, s.seed \in Ids
  PROVE  Tree(NextDup(s))
<1>1. CASE s.cluster = {}
  <2> DEFINE t == [s EXCEPT !.done = @ \cup {s.seed}]
  <2>1. t \in Run /\ t.made = s.made /\ t.done = s.done \cup {s.seed}
    BY DEF Run
  <2>2. Beaten(t.made, t.done)
    BY <2>1 DEF Beaten
  <2>3. NextDup(s) = NextSeed(t)
    BY <1>1 DEF NextDup
  <2> HIDE DEF t
  <2> QED
    BY <2>1, <2>2, <2>3, NextSeedTree
<1>2. CASE s.cluster # {}
  <2> DEFINE t == [s EXCEPT !.pc = "link", !.dup = None]
  <2>1. /\ t.pc = "link" /\ t.made = s.made /\ t.done = s.done
        /\ t.cluster = s.cluster /\ t.primary = s.primary
    BY DEF Run
  <2>2. NextDup(s) = t
    BY <1>2 DEF NextDup
  <2> HIDE DEF t
  <2> QED
    BY <2>1, <2>2 DEF Tree
<1> QED
  BY <1>1, <1>2

(* A new link is the last one, and supersedes neither an earlier primary   *)
(* nor a memory that is superseded already.                                *)
LEMMA OrderedAppend ==
  ASSUME NEW made \in Seq(Ids \X Ids), NEW ids, Ordered(made), Beaten(made, ids),
         NEW p \in Ids \ ids, NEW j \in Ids \ ids
  PROVE  /\ Ordered(Append(made, <<p, j>>))
         /\ Beaten(Append(made, <<p, j>>), ids \cup {j})
<1> DEFINE next == Append(made, <<p, j>>)
<1>1. /\ DOMAIN made = 1 .. Len(made) /\ Len(made) \in Nat
      /\ DOMAIN next = 1 .. Len(made) + 1
      /\ next[Len(made) + 1] = <<p, j>>
      /\ \A m \in DOMAIN made : next[m] = made[m]
  OBVIOUS
<1> HIDE DEF next
<1>2. Ordered(next)
  <2> SUFFICES ASSUME NEW m \in DOMAIN next, NEW n \in DOMAIN next, m < n
               PROVE  next[m][2] \notin {next[n][1], next[n][2]}
    BY DEF Ordered
  <2>1. m \in DOMAIN made
    BY <1>1
  <2>2. CASE n = Len(made) + 1
    BY <1>1, <2>1, <2>2 DEF Beaten
  <2>3. CASE n # Len(made) + 1
    <3>1. n \in DOMAIN made
      BY <1>1, <2>3
    <3> QED
      BY <1>1, <2>1, <3>1 DEF Ordered
  <2> QED
    BY <2>2, <2>3
<1>3. Beaten(next, ids \cup {j})
  <2> SUFFICES ASSUME NEW m \in DOMAIN next PROVE next[m][2] \in ids \cup {j}
    BY DEF Beaten
  <2>1. CASE m = Len(made) + 1
    BY <1>1, <2>1
  <2>2. CASE m # Len(made) + 1
    <3>1. m \in DOMAIN made
      BY <1>1, <2>2
    <3> QED
      BY <1>1, <3>1 DEF Beaten
  <2> QED
    BY <2>1, <2>2
<1> QED
  BY <1>2, <1>3 DEF next

LEMMA ListTree ==
  ASSUME Typing, TreeInv, NEW r \in Runs, List(r) PROVE Tree(run'[r])
<1> DEFINE t == [run[r] EXCEPT !.todo = stored, !.list = mem]
<1>1. run[r] \in Run /\ run[r].made = <<>> /\ stored \subseteq Ids /\ mem \in [Ids -> Memory]
  BY DEF Typing, TypeOK, TreeInv, Tree, List, At
<1>2. t \in Run /\ t.made = <<>>
  BY <1>1 DEF Run
<1>3. run'[r] = IdleRun \/ run'[r] = NextSeed(t)
  BY DEF List, Become, Typing, TypeOK
<1> HIDE DEF t
<1>4. Ordered(t.made) /\ Beaten(t.made, t.done)
  BY <1>2 DEF Ordered, Beaten
<1> QED
  BY <1>2, <1>3, <1>4, NextSeedTree, CalmIsTree, IdlePc DEF Calm

LEMMA SimilarIndexTree ==
  ASSUME Typing, TreeInv, NEW r \in Runs, SimilarIndex(r) PROVE Tree(run'[r])
<1> DEFINE s == run[r]
           u(i) == [s EXCEPT !.todo = @ \ {i}]
           near(i) == {j \in indexed : {i, j} \in Alike /\ j # i} \ u(i).done
           t(i) == [u(i) EXCEPT !.pc = "rows", !.seed = i, !.cluster = near(i)]
<1>1. /\ s \in Run /\ s.pc = "similar" /\ Ordered(s.made) /\ Beaten(s.made, s.done)
      /\ s.todo \cap s.done = {}
  BY DEF Typing, TypeOK, TreeInv, Tree, SimilarIndex, At
<1>2. PICK i \in s.todo : run'[r] = IdleRun \/ run'[r] = NextSeed(u(i)) \/ run'[r] = t(i)
  BY DEF SimilarIndex, Become, Comes, Typing, TypeOK
<1>3. u(i) \in Run /\ u(i).made = s.made /\ u(i).done = s.done
  BY <1>1 DEF Run
<1>4. /\ t(i).pc = "rows" /\ t(i).seed = i /\ t(i).made = s.made /\ t(i).done = s.done
      /\ t(i).cluster \cap s.done = {}
  BY <1>1, <1>3 DEF Run
<1> HIDE DEF u, t, s
<1>5. Tree(t(i))
  BY <1>1, <1>2, <1>4 DEF Tree
<1> QED
  BY <1>1, <1>2, <1>3, <1>5, NextSeedTree, CalmIsTree, IdlePc DEF Calm

LEMMA SimilarRowsTree ==
  ASSUME Typing, TreeInv, NEW r \in Runs, SimilarRows(r) PROVE Tree(run'[r])
<1> DEFINE s == run[r]
           u == [s EXCEPT !.copy = Rows(mem, s.cluster)]
           t(p) == [u EXCEPT !.pc = "relations", !.primary = p]
<1>1. /\ s \in Run /\ s.pc = "rows" /\ Ordered(s.made) /\ Beaten(s.made, s.done)
      /\ s.cluster \cap s.done = {} /\ s.seed \notin s.done
  BY DEF Typing, TypeOK, TreeInv, Tree, SimilarRows, At
<1>2. u.cluster = s.cluster /\ u.seed = s.seed
  BY <1>1 DEF Run
<1>3. PICK p \in s.cluster \cup {s.seed} : run'[r] = t(p)
  BY <1>2 DEF SimilarRows, Become, Typing, TypeOK
<1>4. /\ t(p).pc = "relations" /\ t(p).primary = p /\ t(p).made = s.made
      /\ t(p).done = s.done /\ t(p).seed = s.seed /\ t(p).cluster = s.cluster
  BY <1>1 DEF Run
<1> HIDE DEF t, s
<1> QED
  BY <1>1, <1>3, <1>4 DEF Tree

LEMMA ReadRelationsTree ==
  ASSUME Typing, TreeInv, NEW r \in Runs, ReadRelations(r) PROVE Tree(run'[r])
<1> DEFINE s == run[r]
           before == (s.cluster \cap Superseded(s.primary)) \ {s.primary}
           t == [s EXCEPT !.cluster = @ \ (before \cup {s.primary}), !.done = @ \cup before]
<1>1. /\ s \in Run /\ s.pc = "relations" /\ s.seed \in Ids /\ run'[r] = NextDup(t)
      /\ Ordered(s.made) /\ Beaten(s.made, s.done) /\ s.cluster \cap s.done = {}
      /\ s.seed \notin s.done /\ s.primary \in s.cluster \cup {s.seed}
  BY DEF Typing, TypeOK, Holds, TreeInv, Tree, ReadRelations, At, Become
<1>2. before \subseteq s.cluster \ {s.primary}
  OBVIOUS
<1> HIDE DEF before
<1>3. /\ t \in Run /\ t.made = s.made /\ t.primary = s.primary /\ t.seed = s.seed
      /\ t.done = s.done \cup before /\ t.cluster = s.cluster \ (before \cup {s.primary})
  BY <1>1, <1>2 DEF Run
<1> HIDE DEF t, s
<1>4. Beaten(t.made, t.done)
  BY <1>1, <1>3 DEF Beaten
<1>5. t.cluster \cap t.done = {} /\ t.primary \notin t.done \cup t.cluster
  BY <1>1, <1>2, <1>3
<1> QED
  BY <1>1, <1>3, <1>4, <1>5, NextDupTree

LEMMA LinkTree ==
  ASSUME Typing, TreeInv, NEW r \in Runs, Link(r) PROVE Tree(run'[r])
<1> DEFINE s == run[r]
           u(j) == [s EXCEPT !.cluster = @ \ {j}]
           t(j) == [u(j) EXCEPT !.pc = "demote", !.dup = j,
                                !.made = Append(@, <<u(j).primary, j>>)]
           v(j) == [u(j) EXCEPT !.done = @ \cup {j}]
<1>1. /\ s \in Run /\ s.pc = "link" /\ s.seed \in Ids /\ s.primary \in Ids
      /\ Ordered(s.made) /\ Beaten(s.made, s.done) /\ s.cluster \cap s.done = {}
      /\ s.primary \notin s.done \cup s.cluster
  BY DEF Typing, TypeOK, Holds, TreeInv, Tree, Link, At
<1>2. PICK j \in s.cluster : run'[r] = t(j) \/ run'[r] = NextDup(v(j))
  BY DEF Link, Become, Typing, TypeOK
<1>3. j \in Ids /\ s.made \in Seq(Ids \X Ids) /\ j \notin s.done
  BY <1>1, <1>2 DEF Run
<1>4. /\ t(j).pc = "demote" /\ t(j).dup = j /\ t(j).primary = s.primary
      /\ t(j).made = Append(s.made, <<s.primary, j>>) /\ t(j).done = s.done
      /\ t(j).cluster = s.cluster \ {j}
  BY <1>1 DEF Run
<1>5. /\ v(j) \in Run /\ v(j).made = s.made /\ v(j).done = s.done \cup {j}
      /\ v(j).cluster = s.cluster \ {j} /\ v(j).primary = s.primary /\ v(j).seed = s.seed
  BY <1>1, <1>3 DEF Run
<1> HIDE DEF t, v, s
<1>6. CASE run'[r] = t(j)
  <2>1. /\ Ordered(Append(s.made, <<s.primary, j>>))
        /\ Beaten(Append(s.made, <<s.primary, j>>), s.done \cup {j})
    BY <1>1, <1>3, OrderedAppend
  <2> QED
    BY <1>1, <1>2, <1>4, <1>6, <2>1 DEF Tree
<1>7. CASE run'[r] = NextDup(v(j))
  <2>1. Beaten(v(j).made, v(j).done)
    BY <1>1, <1>5 DEF Beaten
  <2>2. v(j).cluster \cap v(j).done = {} /\ v(j).primary \notin v(j).done \cup v(j).cluster
    BY <1>1, <1>2, <1>5
  <2> QED
    BY <1>1, <1>5, <1>7, <2>1, <2>2, NextDupTree
<1> QED
  BY <1>2, <1>6, <1>7

LEMMA DemoteTree ==
  ASSUME Typing, TreeInv, NEW r \in Runs, Demote(r) PROVE Tree(run'[r])
<1> DEFINE s == run[r]
           t == [s EXCEPT !.done = @ \cup {s.dup}]
<1>1. /\ s \in Run /\ s.pc = "demote" /\ s.seed \in Ids /\ s.dup \in Ids
      /\ run'[r] = NextDup(t)
      /\ Ordered(s.made) /\ Beaten(s.made, s.done \cup {s.dup})
      /\ s.cluster \cap s.done = {} /\ s.primary \notin s.done \cup s.cluster
      /\ s.dup \notin s.cluster \cup {s.primary}
  BY DEF Typing, TypeOK, Holds, TreeInv, Tree, Demote, At, Become
<1>2. /\ t \in Run /\ t.made = s.made /\ t.done = s.done \cup {s.dup}
      /\ t.cluster = s.cluster /\ t.primary = s.primary /\ t.seed = s.seed
  BY <1>1 DEF Run
<1> HIDE DEF t, s
<1>3. t.cluster \cap t.done = {} /\ t.primary \notin t.done \cup t.cluster
  BY <1>1, <1>2
<1> QED
  BY <1>1, <1>2, <1>3, NextDupTree

LEMMA TreeStep == Typing /\ TreeInv /\ [Next]_vars => TreeInv'
<1> SUFFICES ASSUME Typing, TreeInv, [Next]_vars, NEW q \in Runs PROVE Tree(run'[q])
  BY DEF TreeInv
<1>1. CASE run'[q] = run[q]
  BY <1>1 DEF TreeInv
<1>2. CASE Advance(q) \/ Abort(q)
  BY <1>2, CalmStep, CalmIsTree, ListTree, SimilarIndexTree, SimilarRowsTree,
     ReadRelationsTree, LinkTree, DemoteTree DEF Advance
<1>3. CASE \E t \in Tasks[q] : Start(q, t)
  <2>1. PICK t \in {"relations", "decay", "consolidation"} : Start(q, t)
    BY <1>3, ProcessorAssumption
  <2>2. run'[q].pc \in {"scan", "page"}
        \/ (run'[q].pc = "list" /\ run'[q].made = <<>>)
    BY <2>1 DEF Start, Become, Typing, TypeOK, IdleRun
  <2> QED
    BY <2>2, CalmIsTree DEF Calm, Tree
<1> QED
  BY <1>1, <1>2, <1>3, OneMoves

(* Whatever else happens meanwhile, one pass of consolidation never turns  *)
(* round: no memory that it has superseded supersedes another, or is       *)
(* superseded once more.                                                   *)
THEOREM TreesMade == Spec => []PassMakesTrees
<1>1. Init => TreeInv
  BY IdlePc, CalmIsTree DEF Init, TreeInv, Calm
<1>2. Typing /\ TreeInv /\ [Next]_vars => (Typing /\ TreeInv)'
  BY TypeStep, TreeStep
<1>3. TreeInv => PassMakesTrees
  BY DEF TreeInv, Tree, Ordered, PassMakesTrees, Supersedes
<1> QED
  BY <1>1, <1>2, <1>3, TypeInit, PTL DEF Spec

-----------------------------------------------------------------------------
(* A pair that discovery has linked is joined by that edge, until one of   *)
(* the two is deleted: so it is known when the pass meets it again from    *)
(* the other side, or one of the two was asked to be deleted.              *)
Discovery == {"scan", "existing", "near", "relate"}

Pair(a) == {a[1], a[2]}

Joined(made, E, A) ==
  \A m \in DOMAIN made :
    (\E e \in E : {e.from, e.to} = Pair(made[m])) \/ Pair(made[m]) \cap A # {}

MadeOnce(made, A) ==
  \A m, n \in DOMAIN made :
    m < n /\ Pair(made[m]) = Pair(made[n]) => Pair(made[m]) \cap A # {}

(* Of these memories, none was linked with the seed.                       *)
Unmet(made, seed, ids, A) ==
  \A m \in DOMAIN made : \A j \in ids : Pair(made[m]) = {seed, j} => {seed, j} \cap A # {}

Once(s, E, A) ==
  /\ s.pc = "scan" => s.made = <<>>
  /\ s.pc \in {"existing", "near", "relate"} => Joined(s.made, E, A) /\ MadeOnce(s.made, A)
  /\ s.pc = "near" => Unmet(s.made, s.seed, Ids \ s.known, A)
  /\ s.pc = "relate" => Unmet(s.made, s.seed, s.cluster, A)

OnceInv == \A r \in Runs : Once(run[r], edges, asked)

LEMMA OnceElsewhere ==
  ASSUME NEW s, s.pc \notin Discovery, NEW E, NEW A PROVE Once(s, E, A)
BY DEF Once, Discovery

LEMMA NextMemoryOnce ==
  ASSUME NEW s, NEW E, NEW A, Joined(s.made, E, A), MadeOnce(s.made, A)
  PROVE  Once(NextMemory(s), E, A)
<1>1. Listed(s, "existing").pc = "existing" /\ Listed(s, "existing").made = s.made
  BY DEF Listed, IdleRun
<1>2. Once(Listed(s, "existing"), E, A)
  BY <1>1 DEF Once
<1> QED
  BY <1>2, OnceElsewhere, IdlePc DEF NextMemory, Discovery

LEMMA NextPairOnce ==
  ASSUME NEW s \in Run, NEW E, NEW A, Joined(s.made, E, A), MadeOnce(s.made, A),
         Unmet(s.made, s.seed, s.cluster, A)
  PROVE  Once(NextPair(s), E, A)
<1> DEFINE t == [s EXCEPT !.pc = "relate"]
<1>1. t.pc = "relate" /\ t.made = s.made /\ t.seed = s.seed /\ t.cluster = s.cluster
  BY DEF Run
<1> HIDE DEF t
<1>2. Once(t, E, A)
  BY <1>1 DEF Once
<1> QED
  BY <1>2, NextMemoryOnce DEF NextPair, t

(* What the others do: edges go with one of their ends.                    *)
LEMMA OnceGrows ==
  ASSUME NEW s, NEW E, NEW F, NEW A, NEW B, Once(s, E, A), A \subseteq B,
         \A e \in E : e \in F \/ {e.from, e.to} \cap B # {}
  PROVE  Once(s, F, B)
<1>1. Joined(s.made, E, A) => Joined(s.made, F, B)
  <2> SUFFICES ASSUME Joined(s.made, E, A), NEW m \in DOMAIN s.made
               PROVE  (\E e \in F : {e.from, e.to} = Pair(s.made[m]))
                      \/ Pair(s.made[m]) \cap B # {}
    BY DEF Joined
  <2>1. CASE \E e \in E : {e.from, e.to} = Pair(s.made[m])
    <3>1. PICK e \in E : {e.from, e.to} = Pair(s.made[m])
      BY <2>1
    <3>2. e \in F \/ Pair(s.made[m]) \cap B # {}
      BY <3>1
    <3> QED
      BY <3>1, <3>2
  <2>2. CASE Pair(s.made[m]) \cap A # {}
    BY <2>2
  <2> QED
    BY <2>1, <2>2 DEF Joined
<1>2. MadeOnce(s.made, A) => MadeOnce(s.made, B)
  BY DEF MadeOnce
<1>3. \A ids : Unmet(s.made, s.seed, ids, A) => Unmet(s.made, s.seed, ids, B)
  BY DEF Unmet
<1> QED
  BY <1>1, <1>2, <1>3 DEF Once

LEMMA EdgesStay ==
  ASSUME Typing, [Next]_vars
  PROVE  asked \subseteq asked' /\ \A e \in edges : e \in edges' \/ {e.from, e.to} \cap asked' # {}
<1>1. CASE edges \subseteq edges' /\ asked \subseteq asked'
  BY <1>1
<1>2. ASSUME NEW i \in Ids, DeleteRow(i)
      PROVE  asked \subseteq asked' /\ \A e \in edges : e \in edges' \/ {e.from, e.to} \cap asked' # {}
  BY <1>2 DEF DeleteRow
<1>3. ASSUME NEW r \in Runs, Advance(r)
      PROVE  edges \subseteq edges' /\ asked \subseteq asked'
  BY <1>3 DEF Advance, Scan, ReadExisting, ReadNear, Relate, ReadPage, DecayWrite, List,
     SimilarIndex, SimilarRows, ReadRelations, Link, Demote, AddEdge, store, world
<1>4. ASSUME NEW r \in Runs, Abort(r) \/ \E t \in Tasks[r] : Start(r, t)
      PROVE  edges \subseteq edges' /\ asked \subseteq asked'
  BY <1>4 DEF Abort, Start, store, world
<1>5. CASE UNCHANGED vars \/ Hour \/ \E i \in Ids : DeletePoint(i)
  BY <1>1, <1>5 DEF vars, Hour, DeletePoint, store
<1> QED
  BY <1>1, <1>2, <1>3, <1>4, <1>5 DEF Next

(* A step of decay or of consolidation.                                    *)
LEMMA ElsewhereStep ==
  ASSUME Typing, NEW r \in Runs,
         \/ ReadPage(r) \/ DecayWrite(r) \/ List(r) \/ SimilarIndex(r) \/ SimilarRows(r)
         \/ ReadRelations(r) \/ Link(r) \/ Demote(r) \/ Abort(r)
  PROVE  run'[r].pc \notin Discovery
<1> DEFINE s == run[r]
<1> USE DEF Discovery
<1>0. s \in Run /\ \A t : Become(r, t) => run'[r] = t
  BY DEF Typing, TypeOK, Become
<1>d. ASSUME NEW t, DOMAIN t = DOMAIN s
      PROVE  NextDup(t).pc \in {"idle", "similar", "link"}
  BY <1>0, <1>d, NextSeedPc DEF NextDup, Run
<1>1. CASE ReadPage(r)
  BY <1>0, <1>1, ReadPageReads, PageReadType, NextDecayPc
<1>2. CASE DecayWrite(r)
  <2>1. PICK i \in Ids : Become(r, NextDecay([s EXCEPT !.todo = @ \ {i}]))
    BY <1>2 DEF DecayWrite
  <2>2. [s EXCEPT !.todo = @ \ {i}] \in Run
    BY <1>0 DEF Run
  <2> QED
    BY <1>0, <2>1, <2>2, NextDecayPc
<1>3. CASE List(r) \/ Abort(r)
  BY <1>0, <1>3, IdlePc, NextSeedPc DEF List, Abort
<1>4. CASE SimilarIndex(r)
  <2>1. PICK i, near :
          \/ Become(r, IdleRun) \/ Become(r, NextSeed([s EXCEPT !.todo = @ \ {i}]))
          \/ Become(r, [[s EXCEPT !.todo = @ \ {i}]
                          EXCEPT !.pc = "rows", !.seed = i, !.cluster = near])
    BY <1>4 DEF SimilarIndex
  <2>2. [[s EXCEPT !.todo = @ \ {i}]
          EXCEPT !.pc = "rows", !.seed = i, !.cluster = near].pc = "rows"
    BY <1>0 DEF Run
  <2> QED
    BY <1>0, <2>1, <2>2, IdlePc, NextSeedPc
<1>5. CASE SimilarRows(r)
  <2>1. PICK p : Become(r, [[s EXCEPT !.copy = Rows(mem, s.cluster)]
                              EXCEPT !.pc = "relations", !.primary = p])
    BY <1>5 DEF SimilarRows
  <2>2. [[s EXCEPT !.copy = Rows(mem, s.cluster)]
           EXCEPT !.pc = "relations", !.primary = p].pc = "relations"
    BY <1>0 DEF Run
  <2> QED
    BY <1>0, <2>1, <2>2
<1>6. CASE ReadRelations(r)
  <2>1. PICK before : Become(r, NextDup([s EXCEPT !.cluster = @ \ (before \cup {s.primary}),
                                                  !.done = @ \cup before]))
    BY <1>6 DEF ReadRelations
  <2> QED
    BY <1>0, <1>d, <2>1
<1>7. CASE Link(r)
  <2> DEFINE u(j) == [s EXCEPT !.cluster = @ \ {j}]
             t(j) == [u(j) EXCEPT !.pc = "demote", !.dup = j,
                                  !.made = Append(@, <<u(j).primary, j>>)]
             v(j) == [u(j) EXCEPT !.done = @ \cup {j}]
  <2>1. PICK j \in s.cluster : Become(r, t(j)) \/ Become(r, NextDup(v(j)))
    BY <1>7 DEF Link
  <2>2. t(j).pc = "demote" /\ DOMAIN v(j) = DOMAIN s
    BY <1>0 DEF Run
  <2> HIDE DEF t, v
  <2> QED
    BY <1>0, <1>d, <2>1, <2>2
<1>8. CASE Demote(r)
  <2>1. Become(r, NextDup([s EXCEPT !.done = @ \cup {s.dup}]))
    BY <1>8 DEF Demote
  <2> QED
    BY <1>0, <1>d, <2>1
<1> QED
  BY <1>1, <1>2, <1>3, <1>4, <1>5, <1>6, <1>7, <1>8

(* The four steps of discovery.                                            *)
LEMMA ScanOnce ==
  ASSUME Typing, OnceInv, NEW r \in Runs, Scan(r) PROVE Once(run'[r], edges, asked)
<1> DEFINE t == [run[r] EXCEPT !.todo = stored, !.list = mem]
<1>1. run[r] \in Run /\ run[r].made = <<>>
  BY DEF Typing, TypeOK, OnceInv, Once, Scan, At
<1>2. t.made = <<>>
  BY <1>1 DEF Run
<1>3. run'[r] = NextMemory(t)
  BY DEF Scan, Become, Typing, TypeOK
<1> HIDE DEF t
<1>4. Joined(t.made, edges, asked) /\ MadeOnce(t.made, asked)
  BY <1>2 DEF Joined, MadeOnce
<1> QED
  BY <1>3, <1>4, NextMemoryOnce

LEMMA ReadExistingOnce ==
  ASSUME Typing, OnceInv, NEW r \in Runs, ReadExisting(r)
  PROVE  Once(run'[r], edges, asked)
<1> DEFINE s == run[r]
           u(i) == [s EXCEPT !.todo = @ \ {i}]
           t(i) == [u(i) EXCEPT !.pc = "near", !.seed = i, !.known = Neighbours(i)]
<1>1. s \in Run /\ Joined(s.made, edges, asked) /\ MadeOnce(s.made, asked)
  BY DEF Typing, TypeOK, OnceInv, Once, ReadExisting, At
<1>2. PICK i \in Ids : run'[r] = NextMemory(u(i)) \/ run'[r] = t(i)
  BY DEF ReadExisting, Become, Typing, TypeOK
<1>3. /\ u(i).made = s.made /\ t(i).pc = "near" /\ t(i).made = s.made
      /\ t(i).seed = i /\ t(i).known = Neighbours(i)
  BY <1>1 DEF Run
<1>4. Unmet(s.made, i, Ids \ Neighbours(i), asked)
  BY <1>1 DEF Unmet, Joined, Neighbours
<1> HIDE DEF s, t, u
<1>5. Once(t(i), edges, asked)
  BY <1>1, <1>3, <1>4 DEF Once
<1> QED
  BY <1>1, <1>2, <1>3, <1>5, NextMemoryOnce

LEMMA ReadNearOnce ==
  ASSUME Typing, OnceInv, NEW r \in Runs, ReadNear(r)
  PROVE  Once(run'[r], edges, asked)
<1> DEFINE s == run[r]
           near == {j \in indexed : {s.seed, j} \in Related /\ j # s.seed}
           t == [s EXCEPT !.cluster = near \ s.known]
<1>1. /\ s \in Run /\ Joined(s.made, edges, asked) /\ MadeOnce(s.made, asked)
      /\ Unmet(s.made, s.seed, Ids \ s.known, asked)
  BY DEF Typing, TypeOK, OnceInv, Once, ReadNear, At
<1>2. run'[r] = NextPair(t) \/ run'[r] = NextMemory(s)
  BY DEF ReadNear, Become, Typing, TypeOK
<1>3. near \subseteq Ids
  BY DEF Typing, TypeOK
<1> HIDE DEF near
<1>4. t \in Run /\ t.made = s.made /\ t.seed = s.seed /\ t.cluster = near \ s.known
  BY <1>1, <1>3 DEF Run
<1>5. Unmet(s.made, s.seed, near \ s.known, asked)
  BY <1>1, <1>3 DEF Unmet
<1> HIDE DEF s, t
<1> QED
  BY <1>1, <1>2, <1>4, <1>5, NextPairOnce, NextMemoryOnce

LEMMA RelateOnce ==
  ASSUME Typing, OnceInv, NEW r \in Runs, Relate(r)
  PROVE  Once(run'[r], edges', asked')
<1> DEFINE s == run[r]
           u(j) == [s EXCEPT !.cluster = @ \ {j}]
           t(j) == [u(j) EXCEPT !.made = Append(@, <<u(j).seed, j>>)]
<1>1. /\ s \in Run /\ s.seed \in Ids /\ Joined(s.made, edges, asked)
      /\ MadeOnce(s.made, asked) /\ Unmet(s.made, s.seed, s.cluster, asked)
  BY DEF Typing, TypeOK, Holds, OnceInv, Once, Relate, At
<1>2. asked' = asked
  BY DEF Relate, world
<1>3. PICK j \in s.cluster :
        \/ AddEdge(r, s.seed, j, "related_to") /\ run'[r] = NextPair(t(j))
        \/ run'[r] = NextPair(u(j)) /\ UNCHANGED edges
  <2>1. \A j : u(j).seed = s.seed
    BY <1>1 DEF Run
  <2> QED
    BY <2>1 DEF Relate, Become, Typing, TypeOK
<1>4. j \in Ids /\ s.made \in Seq(Ids \X Ids)
  BY <1>1 DEF Run
<1>5. u(j) \in Run /\ u(j).made = s.made /\ u(j).seed = s.seed /\ u(j).cluster = s.cluster \ {j}
  BY <1>1 DEF Run
<1>6. /\ t(j) \in Run /\ t(j).made = Append(s.made, <<s.seed, j>>)
      /\ t(j).seed = s.seed /\ t(j).cluster = s.cluster \ {j}
  <2> HIDE DEF s, u
  <2>1. Append(s.made, <<s.seed, j>>) \in Seq(Ids \X Ids)
    BY <1>1, <1>4
  <2> QED
    BY <1>5, <2>1 DEF Run
<1> HIDE DEF s, t, u
<1>7. CASE run'[r] = NextPair(u(j)) /\ UNCHANGED edges
  <2>1. Unmet(s.made, s.seed, s.cluster \ {j}, asked)
    BY <1>1 DEF Unmet
  <2> QED
    BY <1>1, <1>2, <1>5, <1>7, <2>1, NextPairOnce
<1>8. CASE AddEdge(r, s.seed, j, "related_to") /\ run'[r] = NextPair(t(j))
  <2> DEFINE next == Append(s.made, <<s.seed, j>>)
  <2>1. /\ DOMAIN s.made = 1 .. Len(s.made) /\ Len(s.made) \in Nat
        /\ DOMAIN next = 1 .. Len(s.made) + 1
        /\ next[Len(s.made) + 1] = <<s.seed, j>>
        /\ \A m \in DOMAIN s.made : next[m] = s.made[m]
    BY <1>4
  <2>2. Pair(next[Len(s.made) + 1]) = {s.seed, j}
    BY <2>1 DEF Pair
  <2> HIDE DEF next
  <2>3. \A m \in DOMAIN next : m \in DOMAIN s.made \/ m = Len(s.made) + 1
    BY <2>1
  <2>4. Joined(next, edges', asked)
    <3>1. \E e \in edges' : {e.from, e.to} = {s.seed, j}
      <4> DEFINE e == [from |-> s.seed, to |-> j, kind |-> "related_to", by |-> r]
      <4>1. e \in edges' /\ {e.from, e.to} = {s.seed, j}
        BY <1>8 DEF AddEdge
      <4> QED
        BY <4>1
    <3>2. edges \subseteq edges'
      BY <1>8 DEF AddEdge
    <3> QED
      BY <1>1, <2>1, <2>2, <2>3, <3>1, <3>2 DEF Joined
  <2>5. MadeOnce(next, asked)
    <3> SUFFICES ASSUME NEW m \in DOMAIN next, NEW n \in DOMAIN next, m < n,
                        Pair(next[m]) = Pair(next[n])
                 PROVE  Pair(next[m]) \cap asked # {}
      BY DEF MadeOnce
    <3>1. m \in DOMAIN s.made
      BY <2>1
    <3>2. CASE n \in DOMAIN s.made
      BY <1>1, <2>1, <3>1, <3>2 DEF MadeOnce
    <3>3. CASE n = Len(s.made) + 1
      BY <1>1, <2>1, <2>2, <3>1, <3>3 DEF Unmet
    <3> QED
      BY <2>3, <3>2, <3>3
  <2>6. Unmet(next, s.seed, s.cluster \ {j}, asked)
    <3> SUFFICES ASSUME NEW m \in DOMAIN next, NEW i \in s.cluster \ {j},
                        Pair(next[m]) = {s.seed, i}
                 PROVE  {s.seed, i} \cap asked # {}
      BY DEF Unmet
    <3>1. CASE m \in DOMAIN s.made
      BY <1>1, <2>1, <3>1 DEF Unmet
    <3>2. m # Len(s.made) + 1
      BY <2>2
    <3> QED
      BY <2>3, <3>1, <3>2
  <2> QED
    BY <1>2, <1>6, <1>8, <2>4, <2>5, <2>6, NextPairOnce DEF next
<1> QED
  BY <1>3, <1>7, <1>8

LEMMA OnceStep == Typing /\ OnceInv /\ [Next]_vars => OnceInv'
<1> SUFFICES ASSUME Typing, OnceInv, [Next]_vars, NEW q \in Runs
             PROVE  Once(run'[q], edges', asked')
  BY DEF OnceInv
<1>1. CASE run'[q] = run[q]
  <2>1. Once(run[q], edges, asked)
    BY DEF OnceInv
  <2> QED
    BY <1>1, <2>1, EdgesStay, OnceGrows
<1>2. CASE Advance(q) \/ Abort(q)
  <2>1. CASE Scan(q) \/ ReadExisting(q) \/ ReadNear(q)
    <3>1. UNCHANGED <<edges, asked>>
      BY <2>1 DEF Scan, ReadExisting, ReadNear, store, world
    <3> QED
      BY <2>1, <3>1, ScanOnce, ReadExistingOnce, ReadNearOnce
  <2>2. CASE Relate(q)
    BY <2>2, RelateOnce
  <2> QED
    BY <1>2, <2>1, <2>2, ElsewhereStep, OnceElsewhere DEF Advance
<1>3. CASE \E t \in Tasks[q] : Start(q, t)
  <2>1. PICK t \in {"relations", "decay", "consolidation"} : Start(q, t)
    BY <1>3, ProcessorAssumption
  <2>2. run'[q].pc \in {"list", "page"} \/ (run'[q].pc = "scan" /\ run'[q].made = <<>>)
    BY <2>1 DEF Start, Become, Typing, TypeOK, IdleRun
  <2> QED
    BY <2>2, OnceElsewhere DEF Discovery, Once
<1> QED
  BY <1>1, <1>2, <1>3, OneMoves

(* Similar memories are met from both sides, and one pass of discovery     *)
(* nevertheless links each pair of those that are not deleted once.        *)
THEOREM LinkedOnce == Spec => []PassLinksOnce
<1>1. Init => OnceInv
  BY IdlePc, OnceElsewhere DEF Init, OnceInv, Discovery
<1>2. Typing /\ OnceInv /\ [Next]_vars => (Typing /\ OnceInv)'
  BY TypeStep, OnceStep
<1>3. OnceInv => PassLinksOnce
  BY DEF OnceInv, Once, MadeOnce, Pair, PassLinksOnce, Relates
<1> QED
  BY <1>1, <1>2, <1>3, TypeInit, PTL DEF Spec
=============================================================================
