------------------------------- MODULE Processor -------------------------------
(***************************************************************************)
(* MemoryProcessor: passes over the store that relate similar memories,    *)
(* let their salience decay, and consolidate near-duplicates.  Intervals,  *)
(* the timer of start() and POST /processor/run start passes without       *)
(* looking for one under way; users delete memories meanwhile.  A step is  *)
(* what the code does between two awaits of a store.                       *)
(***************************************************************************)
EXTENDS Integers, FiniteSets, Sequences

CONSTANTS
  Ids,            \* memories, in the order of their ids
  Runs,           \* passes under way at one time
  None,           \* no memory
  Tasks,          \* the passes that each run is started for
  Salience,       \* what each memory was created with
  DecayRate,      \* hundredths of its salience it loses per hour, see Worth
  Related,        \* pairs with at least relationDiscovery.similarityThreshold
  Alike,          \* pairs with at least consolidation.similarityThreshold
  MaxRelations,   \* maxRelationsPerMemory
  MinMembers,     \* minMemoriesForConsolidation
  Page,           \* memories the decay reads at once (1000 in the code)
  MaxEvents       \* bound: hours that pass and memories that are deleted

ASSUME ProcessorAssumption ==
  /\ Ids \subseteq Nat /\ IsFiniteSet(Ids) /\ None \notin Ids
  /\ Tasks \in [Runs -> SUBSET {"relations", "decay", "consolidation"}]
  /\ Page \in Nat \ {0}

VARIABLES
  stored,   \* memories with a row
  indexed,  \* memories with a point
  mem,      \* metadata of each row: salience, effectiveSalience, last decay
  edges,    \* memory_relations the passes created
  hour,     \* the time
  run,      \* the pass each run is in
  links,    \* history: how often each memory became superseded by another
  asked     \* memories whose deletion was asked for

vars == <<stored, indexed, mem, edges, hour, run, links, asked>>

-----------------------------------------------------------------------------
Kinds == {"related_to", "supersedes"}

(* Two passes of one run never create the same row again, so the run tells *)
(* rows apart as relationId does.                                          *)
Edge == [from : Ids, to : Ids, kind : Kinds, by : Runs]

(* salience is the one given, halved so many times; effectiveSalience that *)
(* of halvings "of", decayed for some hours.                               *)
Memory == [halved : Nat, of : Nat, hours : Nat, last : Nat]

Fresh == [halved |-> 0, of |-> 0, hours |-> 0, last |-> 0]

(* Salience * e^(-rate * hours) as far as comparisons can tell: a straight *)
(* line instead of the exponential.                                        *)
Worth(i, halvings, hours) ==
  LET left == 100 - DecayRate[i] * hours
  IN (Salience[i] * (IF left > 0 THEN left ELSE 0)) \div 2 ^ halvings

Effective(i, m) == Worth(i, m.of, m.hours)

Pcs == {"idle", "scan", "existing", "near", "relate",
        "page", "decay", "list", "similar", "rows", "relations", "link", "demote"}

Run == [pc      : Pcs,
        todo    : SUBSET Ids,           \* memories of the list still to come
        list    : [Ids -> Memory],      \* its rows, as they were read
        copy    : [Ids -> Memory],      \* the rows of the cluster
        done    : SUBSET Ids,           \* "processed" of runConsolidation
        seed    : Ids \cup {None},      \* the memory of the outer loop
        cluster : SUBSET Ids,           \* its candidates still to come
        primary : Ids \cup {None},
        dup     : Ids \cup {None},      \* linked, to be demoted
        known   : SUBSET Ids,           \* already related to the seed
        now     : Nat, offset : Nat,    \* of the decay
        full    : BOOLEAN,              \* the page had Page rows
        owed    : SUBSET Ids,           \* history: due at the start, not seen
        made    : Seq(Ids \X Ids)]      \* history: pairs linked by this pass

IdleRun == [pc |-> "idle", todo |-> {}, list |-> [i \in Ids |-> Fresh],
            copy |-> [i \in Ids |-> Fresh], done |-> {}, seed |-> None,
            cluster |-> {}, primary |-> None, dup |-> None, known |-> {},
            now |-> 0, offset |-> 0, full |-> FALSE, owed |-> {}, made |-> <<>>]

Init ==
  /\ stored = Ids /\ indexed = Ids /\ edges = {} /\ hour = 0
  /\ mem = [i \in Ids |-> Fresh]
  /\ run = [r \in Runs |-> IdleRun]
  /\ links = [i \in Ids |-> 0]
  /\ asked = {}

store == <<stored, indexed, mem, edges, links>>
world == <<hour, asked>>

At(r, pc) == run[r].pc = pc

Become(r, s) == run' = [run EXCEPT ![r] = s]

-----------------------------------------------------------------------------
(* searchMemories: by effectiveSalience, then by id.                       *)

Ahead(rows, i, j) ==
  LET w(k) == Effective(k, rows[k]) IN w(i) > w(j) \/ (w(i) = w(j) /\ i < j)

Position(i) == Cardinality({j \in stored : Ahead(mem, j, i)})

(* The next memory of a list that was read.                                *)
Comes(i, s) == i \in s.todo /\ \A j \in s.todo \ {i} : Ahead(s.list, i, j)

Rows(rows, ids) == [i \in Ids |-> IF i \in ids THEN rows[i] ELSE Fresh]

(* The fields that outlive an iteration of the loop over the list.         *)
Listed(s, pc) ==
  [IdleRun EXCEPT !.pc = pc, !.todo = s.todo, !.list = Rows(s.list, s.todo),
                  !.done = s.done, !.made = s.made]

AddEdge(r, i, j, kind) ==
  edges' = edges \cup {[from |-> i, to |-> j, kind |-> kind, by |-> r]}

-----------------------------------------------------------------------------
(* runRelationDiscovery.  findSimilar and getRelations of one memory are   *)
(* separate calls: what is known of it may be outdated when it is linked.  *)

NextMemory(s) == IF s.todo = {} THEN IdleRun ELSE Listed(s, "existing")

NextPair(s) == IF s.cluster = {} THEN NextMemory(s) ELSE [s EXCEPT !.pc = "relate"]

Scan(r) ==
  /\ At(r, "scan")
  /\ Become(r, NextMemory([run[r] EXCEPT !.todo = stored, !.list = mem]))
  /\ UNCHANGED <<store, world>>

(* Mutant: only edges out of the memory count.                             *)
NeighboursOf(i) == {j \in Ids : \E e \in edges : e.from = i /\ e.to = j}

Neighbours(i) == {j \in Ids : \E e \in edges : {e.from, e.to} = {i, j}}

ReadExisting(r) ==
  /\ At(r, "existing")
  /\ \E i \in Ids :
       LET s == [run[r] EXCEPT !.todo = @ \ {i}]
       IN /\ Comes(i, run[r])
          /\ Become(r, IF Cardinality({e \in edges : i \in {e.from, e.to}}) >= MaxRelations
                       THEN NextMemory(s)
                       ELSE [s EXCEPT !.pc = "near", !.seed = i, !.known = Neighbours(i)])
  /\ UNCHANGED <<store, world>>

(* Without a point of its own, or when the call fails, a memory is passed. *)
ReadNear(r) ==
  LET s == run[r]
      near == {j \in indexed : {s.seed, j} \in Related /\ j # s.seed}
  IN /\ At(r, "near")
     /\ \/ s.seed \in indexed /\ Become(r, NextPair([s EXCEPT !.cluster = near \ s.known]))
        \/ Become(r, NextMemory(s))
     /\ UNCHANGED <<store, world>>

Relate(r) ==
  /\ At(r, "relate")
  /\ \E j \in run[r].cluster :
       LET s == [run[r] EXCEPT !.cluster = @ \ {j}]
       IN \/ /\ AddEdge(r, s.seed, j, "related_to")
             /\ Become(r, NextPair([s EXCEPT !.made = Append(@, <<s.seed, j>>)]))
          \/ Become(r, NextPair(s)) /\ UNCHANGED edges
  /\ UNCHANGED <<stored, indexed, mem, links, world>>

-----------------------------------------------------------------------------
(* runDecayProcessing.                                                     *)

NextPage(s) ==
  [IdleRun EXCEPT !.now = s.now, !.owed = s.owed,
                  !.pc = IF s.full THEN "page" ELSE "idle",
                  !.offset = IF s.full THEN s.offset + Page ELSE 0]

NextDecay(s) == IF s.todo = {} THEN NextPage(s) ELSE [s EXCEPT !.pc = "decay"]

(* Mutant: a row is decayed whenever its value would change.               *)
DecaysAnyTime(i, m, now) == Worth(i, m.halved, now - m.last) # Effective(i, m)

(* At least an hour since the last calculation, and another value.         *)
Decays(i, m, now) == /\ m.last < now
                     /\ Worth(i, m.halved, now - m.last) # Effective(i, m)

ReadPage(r) ==
  LET s == run[r]
      rows == {i \in stored : Position(i) \in s.offset .. s.offset + Page - 1}
      late == {i \in rows : Decays(i, mem[i], s.now)}
  IN /\ At(r, "page")
     /\ Become(r, NextDecay([s EXCEPT
          !.todo = late, !.list = Rows(mem, late), !.owed = @ \ rows,
          !.full = Cardinality(rows) = Page]))
     /\ UNCHANGED <<store, world>>

(* The salience and the time come from the row as the page showed it.      *)
DecayWrite(r) ==
  LET s == run[r]
  IN /\ At(r, "decay")
     /\ \E i \in Ids :
          /\ Comes(i, s)
          /\ mem' = IF i \notin stored THEN mem
                    ELSE [mem EXCEPT ![i].of = s.list[i].halved, ![i].last = s.now,
                                     ![i].hours = s.now - s.list[i].last]
          /\ Become(r, NextDecay([s EXCEPT !.todo = @ \ {i}]))
     /\ UNCHANGED <<stored, indexed, edges, links, world>>

-----------------------------------------------------------------------------
(* runConsolidation, over the memories of one namespace.                   *)

NextSeed(s) == LET rest == [s EXCEPT !.todo = @ \ s.done]
               IN IF rest.todo = {} THEN IdleRun ELSE Listed(rest, "similar")

NextDup(s) == IF s.cluster = {} THEN NextSeed([s EXCEPT !.done = @ \cup {s.seed}])
              ELSE [s EXCEPT !.pc = "link", !.dup = None]

List(r) ==
  /\ At(r, "list")
  /\ Become(r, IF Cardinality(stored) < MinMembers THEN IdleRun
               ELSE NextSeed([run[r] EXCEPT !.todo = stored, !.list = mem]))
  /\ UNCHANGED <<store, world>>

(* recommend throws for a memory without a point: that ends the pass.      *)
SimilarIndex(r) ==
  /\ At(r, "similar")
  /\ \E i \in Ids :
       LET s == [run[r] EXCEPT !.todo = @ \ {i}]
           near == {j \in indexed : {i, j} \in Alike /\ j # i} \ s.done
       IN /\ Comes(i, run[r])
          /\ Become(r, IF i \notin indexed THEN IdleRun
                       ELSE IF Cardinality(near) < MinMembers - 1 THEN NextSeed(s)
                       ELSE [s EXCEPT !.pc = "rows", !.seed = i, !.cluster = near])
  /\ UNCHANGED <<store, world>>

(* The seed competes with what the list said of it, the others with their  *)
(* rows (or, if gone, with their payloads); at a draw the first one wins.  *)
SimilarRows(r) ==
  LET s == [run[r] EXCEPT !.copy = Rows(mem, run[r].cluster)]
      worth(i) == Effective(i, IF i = s.seed THEN s.list[i] ELSE s.copy[i])
  IN /\ At(r, "rows")
     /\ \E p \in s.cluster \cup {s.seed} :
          /\ \A i \in s.cluster \cup {s.seed} : worth(i) <= worth(p)
          /\ worth(s.seed) = worth(p) => p = s.seed
          /\ Become(r, [s EXCEPT !.pc = "relations", !.primary = p])
     /\ UNCHANGED <<store, world>>

Superseded(p) == {j \in Ids : \E e \in edges :
                    e.from = p /\ e.to = j /\ e.kind = "supersedes"}

(* Mutant: the edges are not looked at.                                    *)
ReadRelationsBlindly(r) ==
  LET s == run[r]
  IN /\ At(r, "relations")
     /\ Become(r, NextDup([s EXCEPT !.cluster = @ \ {s.primary}]))
     /\ UNCHANGED <<store, world>>

ReadRelations(r) ==
  LET s == run[r]
      before == (s.cluster \cap Superseded(s.primary)) \ {s.primary}
  IN /\ At(r, "relations")
     /\ Become(r, NextDup([s EXCEPT !.cluster = @ \ (before \cup {s.primary}),
                                    !.done = @ \cup before]))
     /\ UNCHANGED <<store, world>>

(* A failing link or demotion is logged, and the duplicate is passed.      *)
Link(r) ==
  /\ At(r, "link")
  /\ \E j \in run[r].cluster :
       LET s == [run[r] EXCEPT !.cluster = @ \ {j}]
           new == j \notin Superseded(s.primary)
       IN \/ /\ AddEdge(r, s.primary, j, "supersedes")
             /\ links' = IF new THEN [links EXCEPT ![j] = @ + 1] ELSE links
             /\ Become(r, [s EXCEPT !.pc = "demote", !.dup = j,
                                    !.made = Append(@, <<s.primary, j>>)])
          \/ /\ Become(r, NextDup([s EXCEPT !.done = @ \cup {j}]))
             /\ UNCHANGED <<edges, links>>
  /\ UNCHANGED <<stored, indexed, mem, world>>

(* The salience to be halved is that of the copy.                          *)
Demoted(m) == [halved |-> m.halved + 1, of |-> m.halved + 1, hours |-> 0, last |-> hour]

(* Mutant: a demoted duplicate stays a candidate of the pass.              *)
DemoteAgain(r) ==
  LET s == run[r]
  IN /\ At(r, "demote")
     /\ \/ s.dup \in stored /\ mem' = [mem EXCEPT ![s.dup] = Demoted(s.copy[s.dup])]
        \/ UNCHANGED mem
     /\ Become(r, NextDup(s))
     /\ UNCHANGED <<stored, indexed, edges, links, world>>

Demote(r) ==
  LET s == run[r]
  IN /\ At(r, "demote")
     /\ \/ s.dup \in stored /\ mem' = [mem EXCEPT ![s.dup] = Demoted(s.copy[s.dup])]
        \/ UNCHANGED mem
     /\ Become(r, NextDup([s EXCEPT !.done = @ \cup {s.dup}]))
     /\ UNCHANGED <<stored, indexed, edges, links, world>>

-----------------------------------------------------------------------------
(* Every pass catches what its other calls throw, and ends.                *)
Abort(r) ==
  /\ run[r].pc \in {"scan", "existing", "page", "decay", "list", "similar", "rows",
                    "relations"}
  /\ Become(r, IdleRun)
  /\ UNCHANGED <<store, world>>

(* runAll is its passes one after another: the same run, started again.    *)
Start(r, task) ==
  /\ At(r, "idle")
  /\ Become(r, CASE task = "relations" -> [IdleRun EXCEPT !.pc = "scan"]
                 [] task = "consolidation" -> [IdleRun EXCEPT !.pc = "list"]
                 [] task = "decay" ->
                      [IdleRun EXCEPT !.pc = "page", !.now = hour,
                         !.owed = {i \in stored : Decays(i, mem[i], hour)}])
  /\ UNCHANGED <<store, world>>

Advance(r) ==
  \/ Scan(r) \/ ReadExisting(r) \/ ReadNear(r) \/ Relate(r)
  \/ ReadPage(r) \/ DecayWrite(r)
  \/ List(r) \/ SimilarIndex(r) \/ SimilarRows(r) \/ ReadRelations(r)
  \/ Link(r) \/ Demote(r)

Hour == /\ hour + Cardinality(asked) < MaxEvents
        /\ hour' = hour + 1
        /\ UNCHANGED <<store, run, asked>>

(* deleteMemory: the row with its relations in one transaction, the point  *)
(* before, after, or, when Qdrant fails, never.                            *)
DeleteRow(i) ==
  /\ i \in stored /\ hour + Cardinality(asked \cup {i}) <= MaxEvents
  /\ stored' = stored \ {i} /\ asked' = asked \cup {i}
  /\ edges' = {e \in edges : i \notin {e.from, e.to}}
  /\ UNCHANGED <<indexed, mem, links, hour, run>>

DeletePoint(i) ==
  /\ i \in indexed /\ hour + Cardinality(asked \cup {i}) <= MaxEvents
  /\ indexed' = indexed \ {i} /\ asked' = asked \cup {i}
  /\ UNCHANGED <<stored, mem, edges, links, hour, run>>

Next ==
  \/ \E r \in Runs : Advance(r) \/ Abort(r) \/ \E t \in Tasks[r] : Start(r, t)
  \/ \E i \in Ids : DeleteRow(i) \/ DeletePoint(i)
  \/ Hour

Spec == Init /\ [][Next]_vars

-----------------------------------------------------------------------------
(* The types of rows, edges and of what a pass holds.                      *)
TypeOK ==
  /\ stored \subseteq Ids /\ indexed \subseteq Ids /\ asked \subseteq Ids
  /\ mem \in [Ids -> Memory] /\ links \in [Ids -> Nat]
  /\ edges \subseteq Edge /\ run \in [Runs -> Run]
  /\ hour \in Nat

(* Salience is halved once for every link, and not again by a re-run, an   *)
(* overlapping run that saw the same missing edge, or a stale copy.        *)
HalvedOncePerLink == \A i \in Ids : mem[i].halved <= links[i]

Supersedes(r) == run[r].pc \in {"similar", "rows", "relations", "link", "demote"}

(* One pass of consolidation supersedes a memory at most once, and never   *)
(* lets a memory it has superseded supersede another: its edges form trees *)
(* whose roots are the primaries, so that no walk along them is a cycle.   *)
PassMakesTrees ==
  \A r \in Runs : Supersedes(r) =>
    \A m, n \in DOMAIN run[r].made :
      m < n => run[r].made[m][2] \notin {run[r].made[n][1], run[r].made[n][2]}

Relates(r) == run[r].pc \in {"existing", "near", "relate"}

(* One pass of discovery links two memories once, from whichever side it   *)
(* meets them first, unless one of them was deleted in between.            *)
PassLinksOnce ==
  \A r \in Runs : Relates(r) =>
    \A m, n \in DOMAIN run[r].made :
      LET a == run[r].made[m]
          b == run[r].made[n]
      IN m < n /\ {a[1], a[2]} = {b[1], b[2]} => {a[1], a[2]} \cap asked # {}

(* processor.ts:431-433, "so the long tail also decays [...] so paging is  *)
(* safe": a pass of decay that ends has looked at every stored memory that *)
(* was due when it began.                                                  *)
DecayVisitsAll == \A r \in Runs : At(r, "idle") => run[r].owed \cap stored = {}
=============================================================================
