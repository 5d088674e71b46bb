------------------------------ MODULE Resolution ------------------------------
(***************************************************************************)
(* The supersedes graph.  Ingests (IntelligenceService.ingest) store facts *)
(* and have an LLM judge each new fact against its neighbours; what it     *)
(* decides becomes a typed edge and, for "supersedes", an invalidatedAt    *)
(* stamp on the outdated fact.  A reader (getCurrentFact) walks the edges  *)
(* meanwhile, and a user may delete facts.  One step per awaited call.     *)
(***************************************************************************)
EXTENDS Naturals, Sequences

CONSTANTS
  Facts,        \* memory ids of facts, in the order ulid() draws them
  Procs,        \* ingests the server runs at one time
  None,         \* no fact
  MaxHops,      \* edges a walk follows at most (50 in the code)
  MaxFacts,     \* bound: facts extracted by one ingest
  MaxIngests,   \* bound: ingests started in a behaviour
  MaxDeletes,   \* bound: facts deleted in a behaviour
  MaxFaults     \* bound: calls that fail in a behaviour

ASSUME ResolutionAssumption ==
  /\ Facts \subseteq Nat /\ None \notin Facts
  /\ MaxHops \in Nat \ {0}
  /\ {MaxFacts, MaxIngests, MaxDeletes, MaxFaults} \subseteq Nat

VARIABLES
  drawn,        \* ids given to facts so far
  stored,       \* facts with a row
  invalid,      \* facts whose invalidatedAt is set
  edges,        \* memory_relations between facts
  clock,        \* edges created so far: createdAt of the next one
  ing,          \* the ingest each process runs
  walk,         \* the getCurrentFact call
  replaced,     \* history: pairs <<new, old>> a supersedes edge ever linked
  ingests, deletes, faults

graph == <<stored, invalid, edges, clock, replaced>>
vars == <<drawn, graph, ing, walk, ingests, deletes, faults>>

-----------------------------------------------------------------------------
Kinds == {"supersedes", "other"}   \* other: contradicts, same_as, related_to

Edge == [from : Facts, to : Facts, kind : Kinds, at : Nat,
         by : Procs, since : Nat]  \* by, since: history, see JudgedOnce

Ingest == [pc     : {"idle", "create", "get", "index", "rows", "relations",
                     "judge", "edge", "stamp"},
           left   : Nat,                 \* extracted facts not yet stored
           todo   : SUBSET Facts,        \* created, not yet resolved
           id     : Facts \cup {None},   \* the fact being resolved
           cand   : SUBSET Facts,        \* candidates not yet judged
           target : Facts \cup {None},   \* the candidate judged
           kind   : Kinds,               \* the LLM's decision
           since  : Nat]                 \* history: when its relations were read

IdleIngest == [pc |-> "idle", left |-> 0, todo |-> {}, id |-> None, cand |-> {},
               target |-> None, kind |-> "other", since |-> 0]

Walk == [pc : {"idle", "relations", "find", "answered"},
         chain : Seq(Facts), next : Facts \cup {None},
         old : BOOLEAN]  \* history: the fact was replaced when the walk began

IdleWalk == [pc |-> "idle", chain |-> <<>>, next |-> None, old |-> FALSE]

Init ==
  /\ drawn = {} /\ stored = {} /\ invalid = {} /\ edges = {} /\ replaced = {}
  /\ clock = 0
  /\ ing = [p \in Procs |-> IdleIngest]
  /\ walk = IdleWalk
  /\ ingests = 0 /\ deletes = 0 /\ faults = 0

-----------------------------------------------------------------------------
(* Control of an ingest.                                                   *)

At(p, pc) == ing[p].pc = pc

Become(p, r) == /\ ing' = [ing EXCEPT ![p] = r]
                /\ UNCHANGED <<walk, ingests, deletes>>

(* The loop of ingest() goes on with the next created fact, if any.        *)
NextFact(r) == IF r.todo = {} THEN IdleIngest
               ELSE [IdleIngest EXCEPT !.pc = "get", !.todo = r.todo]

(* The loop of resolveMemory() goes on with the next candidate.            *)
NextCandidate(r) == [r EXCEPT !.pc = "judge", !.cand = @ \ {r.target},
                              !.target = None, !.kind = "other"]

StartIngest(p) ==
  /\ At(p, "idle") /\ ingests < MaxIngests
  /\ \E n \in 1 .. MaxFacts :
       ing' = [ing EXCEPT ![p] = [IdleIngest EXCEPT !.pc = "create", !.left = n]]
  /\ ingests' = ingests + 1
  /\ UNCHANGED <<drawn, graph, walk, deletes, faults>>

(* One extracted fact: a content that is stored already is a duplicate,    *)
(* unless another request stored it after findByContent looked for it:     *)
(* then createMemory answers with that fact, which is resolved once more.  *)
(* After the last one, resolution starts unless the caller turned it off.  *)
CreateFact(p) ==
  LET r == [ing[p] EXCEPT !.left = @ - 1]
      Proceed(s) == IF s.left > 0 THEN Become(p, s)
                    ELSE Become(p, NextFact(s)) \/ Become(p, IdleIngest)
  IN /\ At(p, "create")
     /\ \/ /\ stored # {}
           /\ Proceed(r)
           /\ UNCHANGED <<drawn, stored>>
        \/ \E i \in stored :
             /\ Proceed([r EXCEPT !.todo = @ \cup {i}])
             /\ UNCHANGED <<drawn, stored>>
        \/ \E i \in Facts \ drawn :
             /\ \A j \in Facts \ drawn : i <= j
             /\ drawn' = drawn \cup {i}
             /\ stored' = stored \cup {i}
             /\ Proceed([r EXCEPT !.todo = @ \cup {i}])
     /\ UNCHANGED <<invalid, edges, clock, replaced, faults>>

-----------------------------------------------------------------------------
(* resolveMemory: the fact, its neighbours in the index, their rows, and   *)
(* the edges it has already; then one LLM decision per candidate.          *)

(* The fact itself may be superseded by now: the code does not look.       *)
(* Which of several comes first makes no difference to the rest.           *)
GetFact(p) ==
  /\ At(p, "get")
  /\ \E i \in ing[p].todo :
       LET r == [ing[p] EXCEPT !.todo = @ \ {i}, !.id = i]
       IN Become(p, IF i \in stored THEN [r EXCEPT !.pc = "index"] ELSE NextFact(r))
  /\ UNCHANGED <<drawn, graph, faults>>

(* The index answers with every other fact that has a point; without a     *)
(* point of its own, or when the call fails, nothing is resolved.          *)
SimilarIndex(p) ==
  /\ At(p, "index")
  /\ \/ /\ ing[p].id \in stored
        /\ Become(p, [ing[p] EXCEPT !.pc = "rows", !.cand = stored \ {ing[p].id}])
        /\ UNCHANGED faults
     \/ /\ ing[p].id \notin stored
        /\ Become(p, NextFact(ing[p]))
        /\ UNCHANGED faults
     \/ /\ faults < MaxFaults
        /\ Become(p, NextFact(ing[p]))
        /\ faults' = faults + 1
  /\ UNCHANGED <<drawn, graph>>

(* Candidates whose row says invalidatedAt are never re-judged; one whose  *)
(* row is gone stays, as the index described it.                           *)
SimilarRows(p) ==
  /\ At(p, "rows")
  /\ Become(p, [ing[p] EXCEPT !.pc = "relations", !.cand = @ \ invalid])
  /\ UNCHANGED <<drawn, graph, faults>>

(* Mutant: only edges out of the fact count.                               *)
LinkedFrom(i) == {j \in Facts : \E e \in edges : e.from = i /\ e.to = j}

Linked(i) == {j \in Facts : \E e \in edges : {e.from, e.to} = {i, j}}

ReadRelations(p) ==
  /\ At(p, "relations")
  /\ Become(p, [ing[p] EXCEPT !.pc = "judge", !.cand = @ \ Linked(ing[p].id),
                              !.since = clock])
  /\ UNCHANGED <<drawn, graph, faults>>

(* No answer, an invalid answer and "none" leave the pair alone.           *)
Judge(p) ==
  LET r == ing[p]
  IN /\ At(p, "judge")
     /\ \/ r.cand = {} /\ Become(p, NextFact(r))
        \/ \E c \in r.cand :
             \/ Become(p, [r EXCEPT !.cand = @ \ {c}])
             \/ \E k \in Kinds :
                  Become(p, [r EXCEPT !.pc = "edge", !.target = c, !.kind = k])
     /\ UNCHANGED <<drawn, graph, faults>>

(* createRelation: neither end is looked up.                               *)
NewEdge(p) == [from |-> ing[p].id, to |-> ing[p].target, kind |-> ing[p].kind,
               at |-> clock, by |-> p, since |-> ing[p].since]

(* Mutant: the edge is not awaited, so the stamp follows even when it fails. *)
WriteEdgeUnawaited(p) ==
  /\ At(p, "edge")
  /\ UNCHANGED <<drawn, graph, faults>>
  /\ Become(p, [ing[p] EXCEPT !.pc = "stamp"])

WriteEdge(p) ==
  /\ At(p, "edge")
  /\ edges' = edges \cup {NewEdge(p)}
  /\ clock' = clock + 1
  /\ IF ing[p].kind = "supersedes"
       THEN /\ replaced' = replaced \cup {<<ing[p].id, ing[p].target>>}
            /\ Become(p, [ing[p] EXCEPT !.pc = "stamp"])
       ELSE /\ UNCHANGED replaced
            /\ Become(p, NextCandidate(ing[p]))
  /\ UNCHANGED <<drawn, stored, invalid, faults>>

(* Mutant: the stamp is left to a later pass.                              *)
StampLater(p) ==
  /\ At(p, "stamp")
  /\ Become(p, NextCandidate(ing[p]))
  /\ UNCHANGED <<drawn, graph, faults>>

(* Mutant: the stamp is written even when the row is gone.                 *)
StampBlind(p) ==
  /\ At(p, "stamp")
  /\ invalid' = invalid \cup {ing[p].target}
  /\ Become(p, NextCandidate(ing[p]))
  /\ UNCHANGED <<drawn, stored, edges, clock, replaced, faults>>

(* updateMemory(candidate, invalidatedAt): no row, no effect.              *)
Stamp(p) ==
  /\ At(p, "stamp")
  /\ invalid' = invalid \cup ({ing[p].target} \cap stored)
  /\ Become(p, NextCandidate(ing[p]))
  /\ UNCHANGED <<drawn, stored, edges, clock, replaced, faults>>

(* A failure while a decision is applied is logged and the next candidate  *)
(* judged; any other one, and the end of the process, ends the ingest.     *)
Fail(p) ==
  /\ ~At(p, "idle") /\ faults < MaxFaults
  /\ \/ ing[p].pc \in {"edge", "stamp"} /\ Become(p, NextCandidate(ing[p]))
     \/ Become(p, IdleIngest)
  /\ faults' = faults + 1
  /\ UNCHANGED <<drawn, graph>>

(* SurrealDBAdapter.delete: the row and its edges go in one transaction.   *)
Delete(i) ==
  /\ deletes < MaxDeletes
  /\ stored' = stored \ {i}
  /\ invalid' = invalid \ {i}
  /\ edges' = {e \in edges : i \notin {e.from, e.to}}
  /\ deletes' = deletes + 1
  /\ UNCHANGED <<drawn, clock, replaced, ing, walk, ingests, faults>>

-----------------------------------------------------------------------------
(* getCurrentFact: one row, then edges and a row per hop.                  *)

Tip == walk.chain[Len(walk.chain)]

(* Mutant: only the fact at hand counts as visited.                        *)
VisitedTip == {walk.chain[Len(walk.chain)]}

Visited == {walk.chain[k] : k \in 1 .. Len(walk.chain)}

Go(w) == /\ walk' = w
         /\ UNCHANGED <<drawn, graph, ing, ingests, deletes, faults>>

Answer == Go([walk EXCEPT !.pc = "answered", !.next = None])

Successors(i) == {e \in edges : e.kind = "supersedes" /\ e.to = i}

(* An id without a row is answered with null at once.                      *)
StartWalk ==
  /\ walk.pc = "idle"
  /\ \E i \in Facts :
       Go(IF i \in stored
              THEN [IdleWalk EXCEPT !.pc = "relations", !.chain = <<i>>,
                                    !.old = Successors(i) # {}]
              ELSE walk)

(* The newest edge leads on, unless it leads back or far enough was gone.  *)
WalkRelations ==
  /\ walk.pc = "relations"
  /\ \/ /\ Successors(Tip) = {} \/ Len(walk.chain) > MaxHops
        /\ Answer
     \/ /\ Len(walk.chain) <= MaxHops
        /\ \E e \in Successors(Tip) :
             /\ \A f \in Successors(Tip) : f.at <= e.at
             /\ IF e.from \in Visited
                  THEN Answer
                  ELSE Go([walk EXCEPT !.pc = "find", !.next = e.from])

(* Mutant: a successor that is outdated itself does not count.             *)
WalkFindCurrent ==
  /\ walk.pc = "find"
  /\ IF walk.next \in stored \ invalid
       THEN Go([walk EXCEPT !.pc = "relations", !.next = None,
                            !.chain = Append(@, walk.next)])
       ELSE Answer

WalkFind ==
  /\ walk.pc = "find"
  /\ IF walk.next \in stored
       THEN Go([walk EXCEPT !.pc = "relations", !.next = None,
                            !.chain = Append(@, walk.next)])
       ELSE Answer

WalkEnd == walk.pc = "answered" /\ Go(IdleWalk)

-----------------------------------------------------------------------------
IngestStep(p) ==
  \/ CreateFact(p) \/ GetFact(p) \/ SimilarIndex(p) \/ SimilarRows(p)
  \/ ReadRelations(p) \/ Judge(p) \/ WriteEdge(p) \/ Stamp(p)

WalkStep == WalkRelations \/ WalkFind \/ WalkEnd

Next ==
  \/ \E p \in Procs : StartIngest(p) \/ IngestStep(p) \/ Fail(p)
  \/ \E i \in stored : Delete(i)
  \/ StartWalk \/ WalkStep

Spec == Init /\ [][Next]_vars

(* The event loop resumes every await that has settled.                    *)
Fairness == /\ \A p \in Procs : WF_vars(IngestStep(p))
            /\ WF_vars(WalkStep)

FairSpec == Spec /\ Fairness

-----------------------------------------------------------------------------
(* Types; only stored facts are stamped, and edges lead between facts.     *)
TypeOK ==
  /\ drawn \subseteq Facts /\ stored \subseteq drawn /\ invalid \subseteq stored
  /\ edges \subseteq Edge /\ clock \in Nat
  /\ \A e \in edges : e.at < clock /\ {e.from, e.to} \subseteq drawn
  /\ ing \in [Procs -> Ingest]
  /\ walk \in Walk
  /\ replaced \subseteq drawn \X drawn
  /\ {ingests, deletes, faults} \subseteq Nat

(* Whatever fails in between, a fact is hidden only when an edge names its *)
(* successor; the edge goes away only with that successor (judgePair links *)
(* before it stamps, delete takes the edges along).                        *)
StampedHasSuccessor ==
  \A i \in invalid : \E j \in drawn :
    /\ <<j, i>> \in replaced
    /\ j \in stored => \E e \in Successors(i) : e.from = j

(* A pair of facts is judged once, whichever of the two is resolved: two   *)
(* edges on a pair come from two ingests, the later of which read its      *)
(* relations before the earlier wrote its edge.                            *)
JudgedOnce ==
  \A e, f \in edges :
    {e.from, e.to} = {f.from, f.to} /\ e.at < f.at => e.by # f.by /\ f.since <= e.at

(* A walk follows supersedes edges from old to new and ends whatever the   *)
(* graph looks like, cycles and edges written meanwhile included.          *)
WalkIsHistory ==
  /\ \A k \in 2 .. Len(walk.chain) :
       <<walk.chain[k], walk.chain[k - 1]>> \in replaced
  /\ \A k, l \in 1 .. Len(walk.chain) : walk.chain[k] = walk.chain[l] => k = l
  /\ Len(walk.chain) <= MaxHops + 1

(* A fact that was replaced when the walk began is not answered as the     *)
(* current one, as long as nothing is deleted.                             *)
WalkLeavesReplaced ==
  walk.pc = "answered" /\ walk.old /\ deletes = 0 => Len(walk.chain) > 1

(* Without failures, a fact that a supersedes edge leads to gets its stamp *)
(* (or is deleted): search stops answering with it.                        *)
ReplacedGetsHidden ==
  \A i \in Facts : (Successors(i) # {}) ~> (i \in invalid \/ i \notin stored \/ faults > 0)

Quiet == \A p \in Procs : At(p, "idle")

(* memory-service.ts: a superseded fact has "its CURRENT tip": when no     *)
(* ingest runs, the supersedes edges out of any set of stamped facts lead  *)
(* somewhere else, so that no group of facts hides itself completely.      *)
CurrentTipExists ==
  Quiet => \A S \in SUBSET invalid :
             S # {} => \E i \in S : \E e \in Successors(i) : e.from \notin S
=============================================================================
