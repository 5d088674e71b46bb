----------------------------- MODULE MemoryStore -----------------------------
(***************************************************************************)
(* The dual store of MemoryService: SurrealDB rows are the truth, Qdrant   *)
(* points are an index that mirrors part of them.  Every request is a      *)
(* process that takes one step per awaited store call, so the steps of     *)
(* concurrent requests interleave exactly where the code awaits.  A        *)
(* reconcile pass (reconcileVectors) runs beside the requests.             *)
(***************************************************************************)
EXTENDS Naturals, FiniteSets

CONSTANTS
  Ids,          \* memory ids (ulids); their order is Qdrant's order of point ids
  Texts,        \* contents of memories; equal contents have equal hashes
  Procs,        \* the requests the server handles at one time
  None,         \* an absent id, content or embedding
  PageSize,     \* points in one scroll page (256 in the code)
  MaxPoints,    \* points after which a pass stops scrolling (5000)
  ChunkSize,    \* ids in one findByIds or deletePoints call (200)
  MaxRequests,  \* bound: requests started in a behaviour
  MaxFaults     \* bound: store calls that fail in a behaviour

ASSUME StoreAssumption ==
  /\ Ids \subseteq Nat
  /\ None \notin Ids /\ None \notin Texts
  /\ {PageSize, MaxPoints, ChunkSize} \subseteq Nat \ {0}
  /\ {MaxRequests, MaxFaults} \subseteq Nat

VARIABLES
  allocated,    \* ids ulid() has drawn so far; no id is drawn twice
  stored,       \* ids with a row in SurrealDB
  content,      \* the content of each row
  marked,       \* rows whose invalidatedAt is set (superseded facts)
  rowVec,       \* embedding kept in the row: the text it was computed from
  indexed,      \* ids with a point in Qdrant
  hidden,       \* points whose payload says invalidated: true
  vec,          \* the vector of each point: the text it was computed from
  op,           \* the request each process is handling
  rec,          \* the reconcile pass
  cleared,      \* history: ids whose invalidatedAt was ever set back to null
  requests,     \* requests started
  faults        \* store calls that failed

rows == <<stored, content, marked, rowVec, cleared>>
points == <<indexed, hidden, vec>>
vars == <<allocated, rows, points, op, rec, requests, faults>>

-----------------------------------------------------------------------------
(* What a request knows between two awaits.                                *)

Pcs == {"idle", "create_find", "create_insert", "create_upsert",
        "embed_get", "store_read", "store_upsert",
        "update_read", "update_write", "update_back", "update_upsert",
        "update_mirror", "delete_both", "delete_row", "delete_point",
        "search_index", "search_rows", "similar_index", "similar_rows",
        "answered"}

Marks == {"keep", "set", "clear"}    \* UpdateMemoryInput.invalidatedAt

Request == [pc   : Pcs,
            id   : Ids \cup {None},
            text : Texts \cup {None},  \* content given by the caller or read
            vec  : Texts \cup {None},  \* embedding in hand
            inv  : BOOLEAN,            \* invalidatedAt of the memory in hand
            mark : Marks,              \* the update's invalidatedAt
            mcp  : BOOLEAN,            \* the update re-embeds (memory_update)
            hits : SUBSET Ids,         \* search results in hand
            gone : SUBSET Ids]         \* history: deleted or superseded when
                                       \* the search began

IdleRequest == [pc |-> "idle", id |-> None, text |-> None, vec |-> None,
                inv |-> FALSE, mark |-> "keep", mcp |-> FALSE,
                hits |-> {}, gone |-> {}]

IdlePass == [pc |-> "idle", cursor |-> 0, seen |-> {}, todo |-> {}, orphans |-> {}]

Pass == [pc : {"idle", "scroll", "lookup", "delete"},
         cursor : Nat, seen : SUBSET Ids, todo : SUBSET Ids, orphans : SUBSET Ids]

Init ==
  /\ allocated = {}
  /\ stored = {} /\ marked = {} /\ cleared = {}
  /\ content = [i \in Ids |-> None]
  /\ rowVec = [i \in Ids |-> None]
  /\ indexed = {} /\ hidden = {}
  /\ vec = [i \in Ids |-> None]
  /\ op = [p \in Procs |-> IdleRequest]
  /\ rec = IdlePass
  /\ requests = 0 /\ faults = 0

-----------------------------------------------------------------------------
(* Control of a request.                                                   *)

At(p, pc) == op[p].pc = pc

Continue(p, r) == /\ op' = [op EXCEPT ![p] = r]
                  /\ UNCHANGED <<rec, requests, faults>>

Finish(p) == Continue(p, IdleRequest)

Begin(p, r) ==
  /\ At(p, "idle") /\ requests < MaxRequests
  /\ op' = [op EXCEPT ![p] = r]
  /\ requests' = requests + 1
  /\ UNCHANGED <<allocated, rows, points, rec, faults>>

(* A store call, the embedder or the process fails: the request ends where *)
(* it is and nothing done so far is undone.                                *)
Fail(p) ==
  /\ ~At(p, "idle") /\ faults < MaxFaults
  /\ op' = [op EXCEPT ![p] = IdleRequest]
  /\ faults' = faults + 1
  /\ UNCHANGED <<allocated, rows, points, rec, requests>>

(* QdrantAdapter.upsert of the memory in hand, with the payload flag taken *)
(* from that copy of the memory.                                           *)
Upsert(i, v, inv) ==
  /\ indexed' = indexed \cup {i}
  /\ hidden' = IF inv THEN hidden \cup {i} ELSE hidden \ {i}
  /\ vec' = [vec EXCEPT ![i] = v]
  /\ UNCHANGED <<allocated, rows>>

-----------------------------------------------------------------------------
(* createMemory, and the auto-embedding of POST /memories after it.        *)

StartCreate(p) ==
  \E c \in Texts : \E v \in {c, None} :
    Begin(p, [IdleRequest EXCEPT !.pc = "create_find", !.text = c, !.vec = v])

AfterCreate(r) == IF r.vec # None THEN "create_upsert" ELSE "embed_get"

(* findByHash: a row with this content is returned as it is, superseded or *)
(* not, and the caller's embedding is written to its point.                *)
CreateFind(p) ==
  /\ At(p, "create_find")
  /\ \/ \E i \in stored :
          /\ content[i] = op[p].text
          /\ Continue(p, [op[p] EXCEPT !.pc = AfterCreate(op[p]), !.id = i,
                                       !.inv = i \in marked])
     \/ /\ \A i \in stored : content[i] # op[p].text
        /\ Continue(p, [op[p] EXCEPT !.pc = "create_insert"])
  /\ UNCHANGED <<allocated, rows, points>>

(* Mutant: ids of deleted memories are used again.                         *)
ReusedIds == Ids \ stored

(* ulid() never draws an id again.                                         *)
FreshIds == Ids \ allocated

CreateInsert(p) ==
  /\ At(p, "create_insert")
  /\ \E i \in FreshIds :
       /\ allocated' = allocated \cup {i}
       /\ stored' = stored \cup {i}
       /\ content' = [content EXCEPT ![i] = op[p].text]
       /\ rowVec' = [rowVec EXCEPT ![i] = op[p].vec]
       /\ Continue(p, [op[p] EXCEPT !.pc = AfterCreate(op[p]), !.id = i,
                                    !.inv = FALSE])
  /\ UNCHANGED <<marked, cleared, points>>

CreateUpsert(p) ==
  /\ At(p, "create_upsert")
  /\ Upsert(op[p].id, op[p].vec, op[p].inv)
  /\ Continue(p, [op[p] EXCEPT !.pc = "embed_get"])

-----------------------------------------------------------------------------
(* embedSingleMemory: read the content, embed it, then storeEmbedding,     *)
(* which reads the row again and upserts that second copy.                 *)

StartEmbed(p) ==
  \E i \in allocated :
    Begin(p, [IdleRequest EXCEPT !.pc = "embed_get", !.id = i])

EmbedGet(p) ==
  /\ At(p, "embed_get")
  /\ IF op[p].id \in stored
       THEN Continue(p, [op[p] EXCEPT !.pc = "store_read",
                                      !.vec = content[op[p].id]])
       ELSE Finish(p)
  /\ UNCHANGED <<allocated, rows, points>>

StoreRead(p) ==
  /\ At(p, "store_read")
  /\ IF op[p].id \in stored
       THEN Continue(p, [op[p] EXCEPT !.pc = "store_upsert",
                                      !.inv = op[p].id \in marked])
       ELSE Finish(p)
  /\ UNCHANGED <<allocated, rows, points>>

StoreUpsert(p) ==
  /\ At(p, "store_upsert")
  /\ Upsert(op[p].id, op[p].vec, op[p].inv)
  /\ Finish(p)

-----------------------------------------------------------------------------
(* updateMemory: PATCH changes the content or the mark and stops there;    *)
(* memory_update changes the content and re-embeds it.                     *)

StartUpdate(p) ==
  \E i \in allocated :
    \/ \E c \in Texts, m \in BOOLEAN :
         Begin(p, [IdleRequest EXCEPT !.pc = "update_read", !.id = i,
                                      !.text = c, !.mcp = m])
    \/ \E k \in {"set", "clear"} :
         Begin(p, [IdleRequest EXCEPT !.pc = "update_read", !.id = i, !.mark = k])

(* Mutant: the mark is mirrored to the index before the row is written.    *)
UpdateReadMirrorsFirst(p) ==
  /\ At(p, "update_read")
  /\ IF op[p].id \in stored
       THEN Continue(p, [op[p] EXCEPT !.pc = "update_write"])
       ELSE Finish(p)
  /\ hidden' = IF op[p].mark = "set" THEN hidden \cup ({op[p].id} \cap indexed)
                                     ELSE hidden
  /\ UNCHANGED <<allocated, rows, indexed, vec>>

UpdateRead(p) ==
  /\ At(p, "update_read")
  /\ IF op[p].id \in stored
       THEN Continue(p, [op[p] EXCEPT !.pc = "update_write"])
       ELSE Finish(p)
  /\ UNCHANGED <<allocated, rows, points>>

(* UPDATE ... WHERE memoryId = id: no row, no effect.                      *)
UpdateRow(i, c, k) ==
  /\ content' = IF c = None THEN content ELSE [content EXCEPT ![i] = c]
  /\ marked' = CASE k = "keep" -> marked
                 [] k = "set" -> marked \cup {i}
                 [] k = "clear" -> marked \ {i}
  /\ cleared' = IF k = "clear" THEN cleared \cup {i} ELSE cleared
  /\ UNCHANGED <<stored, rowVec>>

(* Mutant: the mark is written even when the row is gone.                  *)
UpdateWriteBlind(p) ==
  /\ At(p, "update_write")
  /\ UpdateRow(op[p].id, op[p].text, op[p].mark)
  /\ Continue(p, [op[p] EXCEPT !.pc = "update_back"])
  /\ UNCHANGED <<allocated, points>>

UpdateWrite(p) ==
  /\ At(p, "update_write")
  /\ IF op[p].id \in stored
       THEN UpdateRow(op[p].id, op[p].text, op[p].mark)
       ELSE UNCHANGED rows
  /\ Continue(p, [op[p] EXCEPT !.pc = "update_back"])
  /\ UNCHANGED <<allocated, points>>

(* The row is read back; what the index gets depends on what that copy     *)
(* holds.                                                                  *)
UpdateBack(p) ==
  /\ At(p, "update_back")
  /\ LET r == op[p]
         i == r.id
         read == [r EXCEPT !.inv = i \in marked]
     IN IF i \notin stored THEN Finish(p)
        ELSE IF rowVec[i] # None
          THEN Continue(p, [read EXCEPT !.pc = "update_upsert",
                                        !.vec = rowVec[i], !.text = content[i]])
        ELSE IF r.mark # "keep"
          THEN Continue(p, [read EXCEPT !.pc = "update_mirror"])
        ELSE IF r.mcp
          THEN Continue(p, [read EXCEPT !.pc = "store_read", !.vec = content[i]])
        ELSE Finish(p)
  /\ UNCHANGED <<allocated, rows, points>>

UpdateUpsert(p) ==
  /\ At(p, "update_upsert")
  /\ Upsert(op[p].id, op[p].vec, op[p].inv)
  /\ IF op[p].mcp
       THEN Continue(p, [op[p] EXCEPT !.pc = "store_read", !.vec = op[p].text])
       ELSE Finish(p)

(* setInvalidated writes the flag the caller gave; it does nothing when    *)
(* there is no point, and its failure is swallowed (Fail).                 *)
UpdateMirror(p) ==
  /\ At(p, "update_mirror")
  /\ hidden' = IF op[p].mark = "set" THEN hidden \cup ({op[p].id} \cap indexed)
                                     ELSE hidden \ {op[p].id}
  /\ Finish(p)
  /\ UNCHANGED <<allocated, rows, indexed, vec>>

-----------------------------------------------------------------------------
(* deleteMemory: both deletes are in flight at once and each may fail.     *)

StartDelete(p) ==
  \E i \in allocated :
    Begin(p, [IdleRequest EXCEPT !.pc = "delete_both", !.id = i])

(* One of the two deletes has settled: wait for the other or answer.       *)
Settled(p, other) ==
  op' = [op EXCEPT ![p] = IF At(p, "delete_both") THEN [@ EXCEPT !.pc = other]
                                                  ELSE IdleRequest]

Outcome(ok) == /\ ok \/ faults < MaxFaults
               /\ faults' = IF ok THEN faults ELSE faults + 1

DeleteRow(p) ==
  /\ op[p].pc \in {"delete_both", "delete_row"}
  /\ \E ok \in BOOLEAN :
       /\ Outcome(ok)
       /\ stored' = IF ok THEN stored \ {op[p].id} ELSE stored
       /\ marked' = IF ok THEN marked \ {op[p].id} ELSE marked
  /\ Settled(p, "delete_point")
  /\ UNCHANGED <<allocated, content, rowVec, cleared, points, rec, requests>>

DeletePoint(p) ==
  /\ op[p].pc \in {"delete_both", "delete_point"}
  /\ \E ok \in BOOLEAN :
       /\ Outcome(ok)
       /\ indexed' = IF ok THEN indexed \ {op[p].id} ELSE indexed
       /\ hidden' = IF ok THEN hidden \ {op[p].id} ELSE hidden
  /\ Settled(p, "delete_row")
  /\ UNCHANGED <<allocated, rows, vec, rec, requests>>

-----------------------------------------------------------------------------
(* Vector search (vectorSearch and the hybrid path) and findSimilar.  The  *)
(* similarity ranking is left out: the page is large enough for every hit. *)

Gone == (allocated \ stored) \cup marked

StartSearch(p) ==
  Begin(p, [IdleRequest EXCEPT !.pc = "search_index", !.gone = Gone])

StartSimilar(p) ==
  \E i \in indexed :
    Begin(p, [IdleRequest EXCEPT !.pc = "similar_index", !.id = i, !.gone = Gone])

(* buildFilter: must_not invalidated.                                      *)
IndexHits == indexed \ hidden

SearchIndex(p) ==
  /\ At(p, "search_index")
  /\ Continue(p, [op[p] EXCEPT !.pc = "search_rows", !.hits = IndexHits])
  /\ UNCHANGED <<allocated, rows, points>>

(* Mutant: the payload flag of the index is believed.                      *)
CurrentInIndex(hits) == hits \cap stored

(* finalizeVectorResults: enrich from the rows, drop hits without a row    *)
(* and rows that are superseded.                                           *)
Current(hits) == (hits \cap stored) \ marked

SearchRows(p) ==
  /\ At(p, "search_rows")
  /\ Continue(p, [op[p] EXCEPT !.pc = "answered", !.hits = Current(op[p].hits)])
  /\ UNCHANGED <<allocated, rows, points>>

(* recommend() on the seed's point fails when there is none.               *)
SimilarIndex(p) ==
  /\ At(p, "similar_index")
  /\ IF op[p].id \in indexed
       THEN Continue(p, [op[p] EXCEPT !.pc = "similar_rows",
                                      !.hits = IndexHits \ {op[p].id}])
       ELSE Finish(p)
  /\ UNCHANGED <<allocated, rows, points>>

(* findSimilar keeps every hit: the row when there is one, else the stub.  *)
SimilarRows(p) ==
  /\ At(p, "similar_rows")
  /\ Continue(p, [op[p] EXCEPT !.pc = "answered"])
  /\ UNCHANGED <<allocated, rows, points>>

Answer(p) ==
  /\ At(p, "answered")
  /\ Finish(p)
  /\ UNCHANGED <<allocated, rows, points>>

-----------------------------------------------------------------------------
(* reconcileVectors: scroll the points page by page, look their rows up in *)
(* chunks, delete the points without a row in chunks.                      *)

First(S, n) == {i \in S : Cardinality({j \in S : j < i}) < n}

ReconcileStart ==
  /\ rec.pc = "idle"
  /\ rec' = [IdlePass EXCEPT !.pc = "scroll"]
  /\ UNCHANGED <<allocated, rows, points, op, requests, faults>>

(* One page from the cursor on; the next page starts at the point that     *)
(* next_page_offset names, unless enough points have been seen.            *)
ScrollFrom(ahead) ==
  LET page == First(ahead, PageSize)
      seen == rec.seen \cup page
      more == ahead \ page
      go == more # {} /\ Cardinality(seen) < MaxPoints
  IN \/ /\ go
        /\ \E next \in more :
             /\ \A j \in more : next <= j
             /\ rec' = [rec EXCEPT !.seen = seen, !.cursor = next]
     \/ /\ ~go
        /\ rec' = [rec EXCEPT !.seen = seen, !.todo = seen, !.pc = "lookup"]

(* Mutant: the next page starts behind the point next_page_offset names.   *)
ReconcileScrollSkips ==
  /\ rec.pc = "scroll"
  /\ ScrollFrom({i \in indexed : i > rec.cursor})
  /\ UNCHANGED <<allocated, rows, points, op, requests, faults>>

ReconcileScroll ==
  /\ rec.pc = "scroll"
  /\ ScrollFrom({i \in indexed : i >= rec.cursor})
  /\ UNCHANGED <<allocated, rows, points, op, requests, faults>>

ReconcileLookup ==
  /\ rec.pc = "lookup"
  /\ IF rec.todo = {}
       THEN rec' = [rec EXCEPT !.pc = "delete"]
       ELSE LET chunk == First(rec.todo, ChunkSize)
            IN rec' = [rec EXCEPT !.todo = @ \ chunk,
                                  !.orphans = @ \cup (chunk \ stored)]
  /\ UNCHANGED <<allocated, rows, points, op, requests, faults>>

ReconcileDelete ==
  /\ rec.pc = "delete"
  /\ LET chunk == First(rec.orphans, ChunkSize)
     IN IF rec.orphans = {}
          THEN /\ rec' = IdlePass
               /\ UNCHANGED points
          ELSE /\ rec' = [rec EXCEPT !.orphans = @ \ chunk]
               /\ indexed' = indexed \ chunk
               /\ hidden' = hidden \ chunk
               /\ UNCHANGED vec
  /\ UNCHANGED <<allocated, rows, op, requests, faults>>

ReconcileFail ==
  /\ rec.pc # "idle" /\ faults < MaxFaults
  /\ rec' = IdlePass
  /\ faults' = faults + 1
  /\ UNCHANGED <<allocated, rows, points, op, requests>>

-----------------------------------------------------------------------------
Start(p) ==
  \/ StartCreate(p) \/ StartEmbed(p) \/ StartUpdate(p) \/ StartDelete(p)
  \/ StartSearch(p) \/ StartSimilar(p)

Step(p) ==
  \/ CreateFind(p) \/ CreateInsert(p) \/ CreateUpsert(p)
  \/ EmbedGet(p) \/ StoreRead(p) \/ StoreUpsert(p)
  \/ UpdateRead(p) \/ UpdateWrite(p) \/ UpdateBack(p)
  \/ UpdateUpsert(p) \/ UpdateMirror(p)
  \/ DeleteRow(p) \/ DeletePoint(p)
  \/ SearchIndex(p) \/ SearchRows(p) \/ SimilarIndex(p) \/ SimilarRows(p)
  \/ Answer(p)

ReconcileStep == ReconcileScroll \/ ReconcileLookup \/ ReconcileDelete

Next ==
  \/ \E p \in Procs : Start(p) \/ Step(p) \/ Fail(p)
  \/ ReconcileStart \/ ReconcileStep \/ ReconcileFail

Spec == Init /\ [][Next]_vars

(* The event loop resumes every await that has settled, and an operator    *)
(* keeps asking for reconcile passes.                                      *)
Fairness ==
  /\ \A p \in Procs : WF_vars(Step(p))
  /\ WF_vars(ReconcileStart)
  /\ WF_vars(ReconcileStep)

FairSpec == Spec /\ Fairness

-----------------------------------------------------------------------------
(* Types; marks belong to rows and payload flags to points.                *)
TypeOK ==
  /\ allocated \subseteq Ids
  /\ stored \subseteq allocated /\ marked \subseteq stored
  /\ cleared \subseteq allocated
  /\ content \in [Ids -> Texts \cup {None}]
  /\ rowVec \in [Ids -> Texts \cup {None}]
  /\ indexed \subseteq allocated /\ hidden \subseteq indexed
  /\ vec \in [Ids -> Texts \cup {None}]
  /\ op \in [Procs -> Request]
  /\ rec \in Pass
  /\ requests \in Nat /\ faults \in Nat

(* The index may lag behind the truth in one direction only: a point whose *)
(* payload hides it belongs to a memory that is deleted, superseded, or    *)
(* was un-superseded at some time.  updateMemory and storeEmbedding keep   *)
(* this although both write the index from an older copy of the row.       *)
HiddenMeansMarked == \A i \in hidden \cap stored : i \in marked \cup cleared

(* A vector search never answers with a memory that was deleted or         *)
(* superseded when the search began, however stale the index is            *)
(* (finalizeVectorResults filters on SurrealDB truth).                     *)
AnswerIsFresh ==
  \A p \in Procs :
    At(p, "answered") /\ op[p].id = None => op[p].hits \cap op[p].gone \subseteq cleared

(* reconcileVectors never deletes the vector of a stored memory, although  *)
(* it deletes long after it looked: what it takes for an orphan has no row *)
(* and never gets one.                                                     *)
OrphansAreDead == rec.orphans \cap stored = {}

(* A deleted memory never comes back, whatever request read it before.     *)
DeletedForGood ==
  [][\A i \in allocated : i \notin stored => i \notin stored']_vars

(* However deletes fail or race with embeddings, the passes reclaim every  *)
(* vector without a memory in the end.                                     *)
OrphansReclaimed == <>[](indexed \subseteq stored)

(* The two stores together behave as the one store of Memories: no caller  *)
(* can tell that there is an index, that it lags, or that calls fail       *)
(* half-way.  Hits of findSimilar are not answers: it keeps what the index *)
(* said.                                                                   *)
PhaseOf(i) == IF i \notin allocated THEN "unborn"
              ELSE IF i \notin stored THEN "deleted"
              ELSE IF i \in marked THEN "superseded" ELSE "current"

AnswerOf(p) == IF At(p, "answered") /\ op[p].id = None THEN op[p].hits ELSE {}

Abstract == INSTANCE Memories WITH
  phase <- [i \in Ids |-> PhaseOf(i)],
  text <- [i \in Ids |-> IF i \in stored THEN content[i] ELSE None],
  answer <- [p \in Procs |-> AnswerOf(p)]

ImplementsMemories == Abstract!Spec
=============================================================================
