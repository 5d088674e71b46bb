---------------------------- MODULE SparseMigration ----------------------------
(***************************************************************************)
(* QdrantAdapter.migrateToSparse: the collection is copied to a temporary  *)
(* one, dropped, created again and copied back, page by page.  Nothing     *)
(* keeps other requests out meanwhile, a second migration neither (the     *)
(* first one goes on when its client has got a timeout); each request      *)
(* initializes the adapter first.  Any call can fail, its answer can get   *)
(* lost, and the process can stop.                                         *)
(***************************************************************************)
EXTENDS Naturals, FiniteSets

CONSTANTS
  Calls,     \* requests under way at a time
  Points,    \* point ids, in the order of a scroll
  None,      \* no collection
  PageSize,  \* points per page of a scroll (128)
  MaxUser,   \* bound: requests of users
  MaxFaults  \* bound: calls that fail and stops of the process

ASSUME SparseAssumption ==
  /\ Points \subseteq Nat /\ IsFiniteSet(Points)
  /\ None \notin [sparse : BOOLEAN, points : SUBSET Points]
  /\ PageSize \in Nat \ {0} /\ MaxUser \in Nat /\ MaxFaults \in Nat

VARIABLES
  main, tmp,      \* the two collections
  initialized,    \* the adapter's flags
  sparseEnabled,
  call,           \* what each request is at
  kept,           \* history: the points that the last migration to clear the
                  \* copy found, less those that users deleted since
  overlap,        \* history: it was not the only one to copy
  users, faults

flags == <<initialized, sparseEnabled>>
history == <<kept, overlap>>
counters == <<users, faults>>
vars == <<main, tmp, flags, call, history, counters>>

Collection == [sparse : BOOLEAN, points : SUBSET Points] \cup {None}
Empty == [sparse |-> TRUE, points |-> {}]
PointsOf(c) == IF c = None THEN {} ELSE c.points

(* Where initialize() returns to.                                          *)
Returns == {"check", "scrollBack", "write"}

Call == [pc   : {"idle", "look", "create", "index", "config", "ready", "write",
                 "check", "clear", "make", "scrollOut", "writeOut", "drop", "reset",
                 "scrollBack", "writeBack", "tidy", "end"},
         then : Returns \cup {"none"},
         seen : BOOLEAN,         \* the collection was read to be sparse
         next : Nat,             \* offset: points from here on are still to come
         page : SUBSET Points,   \* read, to be written
         more : BOOLEAN]         \* next_page_offset is set

Idle == [pc |-> "idle", then |-> "none", seen |-> FALSE, next |-> 0, page |-> {},
         more |-> FALSE]

(* A collection from before hybrid search, or one that has it, or none.    *)
Init ==
  /\ main \in Collection /\ tmp = None
  /\ initialized = FALSE /\ sparseEnabled = FALSE
  /\ call = [c \in Calls |-> Idle]
  /\ kept = {} /\ overlap = FALSE
  /\ users = 0 /\ faults = 0

At(c, pc) == call[c].pc = pc
Becomes(c, r) == call' = [call EXCEPT ![c] = r]
Go(c, pc) == Becomes(c, [Idle EXCEPT !.pc = pc])
Goes(c, pc) == Becomes(c, [call[c] EXCEPT !.pc = pc])

(* Nothing but the call changes, or nothing but the call and a collection. *)
Steps == UNCHANGED <<flags, history, counters>>

-----------------------------------------------------------------------------
(* initialize, one awaited call after another; once done it returns.       *)

Enter(c, then) ==
  Becomes(c, IF initialized THEN [Idle EXCEPT !.pc = then]
             ELSE [Idle EXCEPT !.pc = "look", !.then = then])

(* getCollections                                                          *)
Look(c) ==
  /\ At(c, "look")
  /\ Goes(c, IF main = None THEN "create" ELSE "config")
  /\ Steps /\ UNCHANGED <<main, tmp>>

(* createCollection, an error when another request has created it.         *)
Create(c) ==
  /\ At(c, "create")
  /\ IF main = None THEN main' = Empty /\ Goes(c, "index")
     ELSE UNCHANGED main /\ Becomes(c, Idle)
  /\ Steps /\ UNCHANGED tmp

(* createPayloadIndex on the new collection.                               *)
Index(c) ==
  /\ At(c, "index")
  /\ IF main = None THEN Becomes(c, Idle) ELSE Goes(c, "config")
  /\ Steps /\ UNCHANGED <<main, tmp>>

Reads(c, seen) == Becomes(c, [call[c] EXCEPT !.pc = "ready", !.seen = seen])

(* Mutant: any collection counts as one with the sparse vector.            *)
ConfigTrusting(c) ==
  /\ At(c, "config")
  /\ Reads(c, main # None)
  /\ UNCHANGED <<main, tmp, flags, history, counters>>

(* getCollection: has the collection the sparse vector?  When that cannot  *)
(* be read it counts as without.                                           *)
Config(c) ==
  /\ At(c, "config")
  /\ \/ Reads(c, main # None /\ main.sparse) /\ UNCHANGED faults
     \/ Reads(c, FALSE) /\ faults < MaxFaults /\ faults' = faults + 1
  /\ UNCHANGED <<main, tmp, flags, history, users>>

Ready(c) ==
  /\ At(c, "ready")
  /\ initialized' = TRUE /\ sparseEnabled' = call[c].seen
  /\ Go(c, call[c].then)
  /\ UNCHANGED <<main, tmp, history, counters>>

Initializing(c) == Look(c) \/ Create(c) \/ Index(c) \/ Config(c) \/ Ready(c)

-----------------------------------------------------------------------------
(* Requests of users: upsert, delete, or one that only reads.              *)

Requests(c) ==
  /\ At(c, "idle")
  /\ users < MaxUser /\ users' = users + 1
  /\ Enter(c, "write")
  /\ UNCHANGED <<main, tmp, flags, history, faults>>

Upsert(p) == main' = [main EXCEPT !.points = @ \cup {p}] /\ UNCHANGED kept

Delete(p) == main' = [main EXCEPT !.points = @ \ {p}] /\ kept' = kept \ {p}

Write(c) ==
  /\ At(c, "write")
  /\ Go(c, "idle")
  /\ \/ main # None /\ \E p \in Points : Upsert(p) \/ Delete(p)
     \/ UNCHANGED <<main, kept>>
  /\ UNCHANGED <<tmp, flags, overlap, counters>>

-----------------------------------------------------------------------------
(* migrateToSparse.                                                        *)

(* The migration has cleared the copy, and has not answered.               *)
Copying(c) ==
  \/ call[c].pc \in {"make", "scrollOut", "writeOut", "drop", "reset",
                     "scrollBack", "writeBack", "tidy", "end"}
  \/ call[c].then = "scrollBack"

(* POST /memories/vectors/migrate-hybrid, whatever else is under way.      *)
Starts(c) ==
  /\ At(c, "idle")
  /\ Enter(c, "check")
  /\ Steps /\ UNCHANGED <<main, tmp>>

(* A collection that counts as sparse is left alone: the answer is         *)
(* alreadyHybrid, whatever is in it.                                       *)
Checks(c) ==
  /\ At(c, "check")
  /\ Go(c, IF sparseEnabled THEN "idle" ELSE "clear")
  /\ Steps /\ UNCHANGED <<main, tmp>>

(* deleteCollection(tmp), whose failure is ignored.                        *)
Removes(c, then) ==
  /\ Go(c, then)
  /\ \/ tmp' = None /\ UNCHANGED faults
     \/ faults < MaxFaults /\ faults' = faults + 1 /\ UNCHANGED tmp
  /\ UNCHANGED <<main, flags, users>>

Clears(c) ==
  /\ At(c, "clear") /\ Removes(c, "make")
  /\ kept' = PointsOf(main)
  /\ overlap' = \E d \in Calls \ {c} : Copying(d)

(* createCollection(tmp), an error when it is there.                       *)
Makes(c) ==
  /\ At(c, "make")
  /\ IF tmp = None THEN tmp' = Empty /\ Go(c, "scrollOut")
     ELSE UNCHANGED tmp /\ Go(c, "idle")
  /\ Steps /\ UNCHANGED main

Left(c, from) == {p \in PointsOf(from) : p >= call[c].next}

(* Mutant: the offset is taken for the last point read.                    *)
PageOfPast(c, from) ==
  LET left == {p \in Left(c, from) : p > call[c].next}
  IN {p \in left : Cardinality({q \in left : q < p}) < PageSize}

PageOf(c, from) ==
  {p \in Left(c, from) : Cardinality({q \in Left(c, from) : q < p}) < PageSize}

(* Mutant: the first page is taken for all.                                *)
TurnTo(c, from, then) == Go(c, then)

(* On to the next page, or behind the last one.                            *)
Turn(c, from, then) ==
  IF call[c].more THEN Becomes(c, [call[c] EXCEPT !.pc = from, !.page = {}]) ELSE Go(c, then)

(* scroll, an error when the collection is missing; an empty page, which   *)
(* is the last one, is not written.                                        *)
Scroll(c, from, pc, write, then) ==
  LET page == PageOf(c, from)
      rest == Left(c, from) \ page
  IN /\ At(c, pc)
     /\ IF from = None THEN Go(c, "idle")
        ELSE IF page = {} THEN Go(c, then)
        ELSE Becomes(c, [Idle EXCEPT
               !.pc = write, !.page = page, !.more = rest # {},
               !.next = IF rest = {} THEN 0
                        ELSE CHOOSE p \in rest : \A q \in rest : p <= q])
     /\ Steps /\ UNCHANGED <<main, tmp>>

Filled(to, c) == [to EXCEPT !.points = @ \cup call[c].page]

WritesOut(c) ==
  /\ At(c, "writeOut")
  /\ IF tmp = None THEN UNCHANGED tmp /\ Go(c, "idle")
     ELSE tmp' = Filled(tmp, c) /\ Turn(c, "scrollOut", "drop")
  /\ Steps /\ UNCHANGED main

Drops(c) ==
  /\ At(c, "drop")
  /\ main' = None
  /\ Go(c, "reset")
  /\ Steps /\ UNCHANGED tmp

(* The collection is gone: initialize again.                               *)
Resets(c) ==
  /\ At(c, "reset")
  /\ initialized' = FALSE /\ sparseEnabled' = FALSE
  /\ Becomes(c, [Idle EXCEPT !.pc = "look", !.then = "scrollBack"])
  /\ UNCHANGED <<main, tmp, history, counters>>

WritesBack(c) ==
  /\ At(c, "writeBack")
  /\ IF main = None THEN UNCHANGED main /\ Go(c, "idle")
     ELSE main' = Filled(main, c) /\ Turn(c, "scrollBack", "tidy")
  /\ Steps /\ UNCHANGED tmp

Tidies(c) == At(c, "tidy") /\ Removes(c, "end") /\ UNCHANGED history

(* The answer that the collection has been migrated.                       *)
Answers(c) ==
  /\ At(c, "end")
  /\ sparseEnabled' = TRUE
  /\ Go(c, "idle")
  /\ UNCHANGED <<main, tmp, initialized, history, counters>>

(* A call fails, or the answer of the one before it was lost: the request  *)
(* answers with an error.                                                  *)
Fails(c) ==
  /\ call[c].pc \notin {"idle", "ready", "check", "end"}
  /\ faults < MaxFaults /\ faults' = faults + 1
  /\ Go(c, "idle")
  /\ UNCHANGED <<main, tmp, flags, history, users>>

(* The process stops and starts again.                                     *)
Restart ==
  /\ faults < MaxFaults /\ faults' = faults + 1
  /\ initialized' = FALSE /\ sparseEnabled' = FALSE
  /\ call' = [c \in Calls |-> Idle]
  /\ UNCHANGED <<main, tmp, history, users>>

-----------------------------------------------------------------------------
Migrates(c) ==
  \/ Starts(c) \/ Checks(c) \/ Clears(c) \/ Makes(c)
  \/ Scroll(c, main, "scrollOut", "writeOut", "drop") \/ WritesOut(c)
  \/ Drops(c) \/ Resets(c)
  \/ Scroll(c, tmp, "scrollBack", "writeBack", "tidy") \/ WritesBack(c)
  \/ Tidies(c) \/ Answers(c)

Next ==
  \/ \E c \in Calls : Initializing(c) \/ Requests(c) \/ Write(c) \/ Migrates(c) \/ Fails(c)
  \/ Restart

Spec == Init /\ [][Next]_vars

-----------------------------------------------------------------------------
(* Types; the adapter counts the collection as sparse only when it is.     *)
TypeOK ==
  /\ main \in Collection /\ tmp \in Collection
  /\ flags \in BOOLEAN \X BOOLEAN
  /\ call \in [Calls -> Call]
  /\ kept \subseteq Points /\ overlap \in BOOLEAN
  /\ sparseEnabled /\ main # None => main.sparse

(* From the moment a migration clears the copy until one clears it again,  *)
(* every point that it found and that users have not deleted is in the     *)
(* collection or in the copy: whatever fails or stops, however requests    *)
(* initialize, create the collection and write to it in between, and       *)
(* however often a migration is answered by alreadyHybrid.  Two that copy  *)
(* at a time are excused; they can lose points, as the code lets them.     *)
PointsSurvive == ~overlap => kept \subseteq PointsOf(main) \cup PointsOf(tmp)

(* A migration that is about to answer that it has migrated the collection *)
(* and that was the only one to copy leaves a sparse collection with every *)
(* point that it found and that users have not deleted since.  (The answer *)
(* alreadyHybrid says nothing of the points: after a migration that was    *)
(* cut short they can all be in the copy.)                                 *)
MigratedIsWhole ==
  \A c \in Calls : At(c, "end") /\ ~overlap
    => main # None /\ main.sparse /\ kept \subseteq main.points
=============================================================================
