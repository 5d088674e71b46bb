# NovaCortex in TLA+

NovaCortex is a memory store for AI agents: a REST API and an MCP server over
one `MemoryService`, which keeps every memory as a row in SurrealDB and as a
point in a Qdrant collection. Everything runs in Node.js processes: handlers,
timers and background passes interleave at every `await`, both databases can
fail in the middle of an operation, and nothing spans the two of them. This
directory models that part of the system, checks it with TLC and proves its
main invariants with TLAPS.

Paths below are relative to `src/packages/` unless they say otherwise.

## 1. What there is: inventory

| component | state | operations | how it meets the others |
|---|---|---|---|
| **MemoryService** with **SurrealDBAdapter**, **QdrantAdapter** (`core/src/services/memory-service.ts`, `core/src/adapters/`) | rows and `memory_relations` in SurrealDB; points (vector, payload with a mirrored `invalidated` flag) in Qdrant | createMemory, storeEmbedding, updateMemory, deleteMemory, vectorSearch / hybridSearch, findSimilar, createRelation, getRelations, getCurrentFact, reconcileVectors, exports and imports | called by every other component; each operation is a chain of awaited calls to two stores |
| **IntelligenceService** (`core/src/services/intelligence-service.ts`) | none of its own: typed edges and `invalidatedAt` stamps | extractFacts, ingest, resolveMemory, judgePair | called by `POST /memories/ingest`, the MCP tool and the end of a session; awaits an LLM between what it reads and what it writes |
| **ConnectionManager**, **ConnectionPool** (`core/src/lib/connection-manager.ts`) | connection state, attempt counter, health interval, reconnect timer; the adapter's `connected` flag | connect, disconnect, reconnect, health check, scheduled reconnect | every service call goes through `ensureConnected` |
| **MemoryProcessor** (`api/src/services/processor.ts`) | intervals, schedule, statistics, the `embeddingRunning` guard | embedding generation, relation discovery, decay, consolidation, start/stop/updateConfig | timers, start-up and `POST /processor/*` start passes without knowing of each other |
| **SessionManager** and its write log (`mcp-server/src/session-manager.ts`, `wal.ts`) | sessions with their turns in memory, at most 100 with 200 turns | startSession, addTurn, getContext, endSession, eviction, sweep | archives a session by several createMemory / ingest / createRelation calls |
| **Portability** (`memory-service.ts` 867-1392, `qdrant.ts` 355-416) | none: files in, rows out; a temporary collection during the sparse migration | exportNamespace, importMemories, exportNamespacePMF, importFromPMF, exportNamespaceDiff, migrateToSparse | long loops of calls without a transaction |
| **Deduplication** (`api/src/routes/memories.ts` 505-592) | none | one request that compares up to 5000 memories and deletes | deleteMemory in a loop |
| **Ingest jobs** (`api/src/routes/ingest.ts`) | a map of jobs | submit, run, sweep, look up | runs `ingest` in the background |
| **API server and web client**: timeout, webhooks, shutdown, retries (`api/src/index.ts`, `api/src/middleware/error-handler.ts`, `api/src/services/webhooks.ts`, `web/src/lib/fetch-with-retry.ts`) | requests under way, webhook rows, deliveries in flight | arrive, answer, time out; register, remove, emit, deliver with retries, drain; shutdown; fetchWithRetry | a handler answers a client that may have given up and tries again; events go out behind the answer |
| **Retry, CircuitBreaker** (`api/src/lib/retry.ts`) | breaker state and counters | execute, reset; withRetry | no caller |
| **Knowledge documents, buckets** (`api/src/services/knowledge.ts`, `buckets.ts`) | documents with access lists; buckets with agents, counters, upload history | store, grant, revoke, delete; create, add/remove agent, uploads, counts | read, change in memory, write back |
| **Licence, tokens, middleware, routes** (`api/src`) | licence tier, token rows, rate counters | admission of requests | in front of the services |
| **Embedding, LLM and rerank clients, ranking, time parsing, codecs** (`core/src`) | none | HTTP calls; numeric and text functions | called by MemoryService |
| **MCP tools, chat importer, CLI, SDKs, agent adapters, web UI** | none that matters here | callers of the API | |

What makes each of them correct, and what is hard about it:

* **MemoryService.** SurrealDB is the truth and Qdrant may lag, so: search never
  answers with what was deleted or superseded before it began; what the index
  hides is really outdated, so that a current memory is not lost; a deleted
  memory stays deleted although requests in flight hold copies of it; a vector
  whose memory is gone is reclaimed, and no other. Hard: copies of a row that
  outlive awaits, two stores written one after the other, either of them failing.
* **IntelligenceService.** The supersedes edges are the history of a fact: a
  fact is hidden only behind a successor, a pair is judged once, the walk along
  the edges ends at the newest version. Hard: an LLM call of seconds between the
  reads and the writes, concurrent ingests, an edge and a stamp that are two
  calls, deletes that take edges away.
* **ConnectionManager.** A connection that is reported as connected is being
  watched, nobody waits for a state that nobody will change, retries end.
  Hard: timers and answers that outlive the call that started them.
* **MemoryProcessor.** Every memory gets its vector and its decay in the end,
  and a pass that runs twice, or twice at one time, changes nothing twice.
* **SessionManager.** What is archived at the end is complete and linked,
  the sessions and their turns stay within their limits and drop the oldest.
  Hard: an end awaits a dozen calls while turns are said, sessions are dropped,
  and the same session is ended twice or started again.
* **Portability.** An export holds every row that was there, an import that
  stops anywhere can be repeated and ends in the exported graph, a migration
  loses no point. Hard: pages over an order that changes, long loops of calls
  that stop anywhere, a collection that is dropped before it is filled again.
* **API server and web client.** What a client or a webhook is told is true, a
  call is followed through, a shutdown ends. Hard: tries of one call that
  overlap, answers that are late or lost, services that hang.
* **Knowledge, buckets.** A right that was taken away stays away, an upload is
  in the history, a listed document is complete. Hard: lists that are read,
  changed in memory and written back.
* **Deduplication, ingest jobs, breaker.** See *What is left out*.

`PROJECT.json` lists every place in the code where one of these can go wrong
in a way a test would hardly show (`hazards`), with the properties that cover it.

## 2. Modules

| module | models | composed of |
|---|---|---|
| `MemoryStore` | MemoryService over both adapters, with reconcileVectors and the embedding of one memory | |
| `MCMemoryStore` | instances of it for TLC | MemoryStore |
| `MemoryStoreProofs` | its theorems, that it implements Memories, and the theorems of the connection below it | MemoryStore, Memories, ConnectionManager |
| `Memories` | what MemoryService promises: one store of memories with searches that are right (abstract) | |
| `Resolution` | IntelligenceService.ingest, the supersedes edges, deletes, getCurrentFact | |
| `MCResolution` | instances of it | Resolution |
| `ResolutionProofs` | its theorems | Resolution |
| `ConnectionManager` | ConnectionManager over SurrealDBAdapter.connect/disconnect | |
| `MCConnectionManager` | an instance of it | ConnectionManager |
| `Processor` | relation discovery, decay and consolidation of MemoryProcessor, over rows, points and relations | |
| `MCProcessor` | instances of it | Processor |
| `ProcessorProofs` | its theorems | Processor |
| `Session`, `MCSession` | SessionManager; an instance of it | |
| `SessionProofs` | its theorems | Session |
| `Portability`, `MCPortability` | exports and imports of a namespace; instances for PMF and JSON | |
| `PortabilityProofs` | its theorems | Portability |
| `SparseMigration`, `MCSparseMigration` | migrateToSparse; an instance of it | |
| `SparseMigrationProofs` | its theorems | SparseMigration |
| `Server`, `MCServer` | requests, timeout, webhooks and shutdown, with the clients that retry; an instance of it | |
| `ServerProofs` | its theorems | Server |
| `Knowledge`, `MCKnowledge` | documents with access lists, buckets with agents and uploads, chunking; an instance of it | |
| `KnowledgeProofs` | its theorems | Knowledge |

All modules follow one convention. A step is what the code does between two
awaits of a database, the LLM or a timer: it takes the answer of one call, changes
the local state and issues the next call. A request, ingest or reconcile pass is
a record whose `pc` names the call it waits for. Definitions commented with
*Mutant* are variants of the operator after them, each with one plausible bug;
the specification does not use them. They show that the property the comment of
`PROJECT.json` pairs them with can be broken by the code.

### MemoryStore

SurrealDB is `stored` (ids with a row), `content`, `rowVec` (the row's copy of
the embedding) and `marked` (rows with `invalidatedAt`). Qdrant is `indexed` (ids
with a point), `hidden` (payload says `invalidated: true`) and `vec`. `allocated`
holds the ids that were drawn. `op[p]` is the request process `p` handles, `rec`
the reconcile pass. Contents are members of a set, and a vector is the text it was
computed from, which is all the properties can tell apart. `cleared` (a mark was
taken back) and the field `gone` (what a search must not answer with, fixed when
it begins) are history: the code has neither.

| actions | code |
|---|---|
| StartCreate, CreateFind, CreateInsert, CreateUpsert | `POST /memories`, `SurrealDBAdapter.create` with its hash lookup, `QdrantAdapter.upsert` |
| StartEmbed, EmbedGet, StoreRead, StoreUpsert | `embedByIds`, `embedSingleMemory`, `storeEmbedding` |
| StartUpdate, UpdateRead, UpdateWrite, UpdateBack, UpdateUpsert, UpdateMirror | `PATCH`, `SurrealDBAdapter.update` (read, UPDATE, read back), then the vector or the mirrored flag |
| StartDelete, DeleteRow, DeletePoint | `deleteMemory`: both deletions at once, in any order, each may fail |
| StartSearch, SearchIndex, SearchRows | `vectorSearch`, `finalizeVectorResults` |
| StartSimilar, SimilarIndex, SimilarRows | `findSimilar`, `searchSimilar` |
| ReconcileStart, ReconcileScroll, ReconcileLookup, ReconcileDelete, ReconcileFail | `reconcileVectors`: pages of points, lookups of rows, deletion of orphans |
| Fail | a call to a store fails: the request ends as the code's error path says |

### Memories

The abstract specification has one variable per idea: `phase` of a memory
(unborn, current, superseded, deleted), its `text`, and the `answer` each caller of
a search holds. MemoryStore implements it (`ImplementsMemories`) under the mapping
at its end: a memory is deleted once it was drawn and has no row, superseded
when its row is marked; the text is that of the row; an answer is the hits of a
vector search that was answered. So the row is the truth and everything of Qdrant,
of requests in flight and of failures maps to stuttering. An answer is
given at the moment the rows are read: its hits are current in that state, and a
step of MemoryStore that answers with a deleted or superseded memory, or that
writes a row that is gone, is no step of Memories. That answers are fresh and deletions final is
part of it; both are also theorems of their own (`SearchIsFresh`, `DeletedStaysDeleted`).

### Resolution

`stored` and `invalid` are the facts and their stamps, `edges` the
`memory_relations` between them, of kind `supersedes` or any other. Ids are
numbers, in the order in which they were drawn. `ing[p]` is an ingest: it stores
its facts (CreateFact: `findByContent` and `createMemory` in one step, with the outcome of a
fact that another request stores between the two), then resolves each: GetFact, SimilarIndex, SimilarRows,
ReadRelations, one Judge per candidate, WriteEdge, Stamp. What the LLM answers is
a nondeterministic choice; an unusable answer leaves the pair alone, as in the
code. `walk` is a getCurrentFact call, with the bound on hops of the code as a
constant. `replaced`, the fields `by`, `since` and `old` are history.

### ConnectionManager

`state`, `attempts`, `health`, `handle` are the fields `state`,
`reconnectAttempts`, `healthCheckTimer`, `reconnectTimer`. `call[p]` is a
connect() or disconnect() under way, `loop[l]` a chain of reconnect timers,
`checks` the health checks that have been sent, `strays` the adapter connects
that outlived their timeout or were issued by an operation. Its specification is
`CMSpec`, with the prefix on `CMInit`, `CMNext` and `CMTypeOK` too, so that it can stand
beside that of the store. `link` is the
adapter's socket; the adapter's own flag `connected` is set in every state of it
but `closed`. A socket that breaks (`broken`), and that a health check saw failing
(`found`), is the environment's doing, as is the client library opening it again.

### Processor

`stored`, `indexed` and `edges` are rows, points and relations; `mem` is what a
row's metadata says of salience. The base salience is the one a memory was
created with, halved `halved` times; the effective salience is what the base was
after `of` halvings, decayed for `hours` hours; `last` is
`lastDecayCalculation`. `Worth` turns that into a number: a straight line stands
for the exponential, since the code compares values only. `run[r]` is a pass
under way; its fields are the local variables of the pass, among them `list`
(the rows that searchMemories returned), `copy` (the rows of a cluster) and
`known` (existing relations): all of them grow old while others write. `links`
(how often a memory became superseded by another), `made` (the pairs a pass has
linked), `owed` (memories due for decay when the pass began) and `asked` (deletions)
are history.

| actions | code |
|---|---|
| Scan, ReadExisting, ReadNear, Relate | `runRelationDiscovery`: the list, then per memory its relations, its neighbours, an edge per pair |
| ReadPage, DecayWrite | `runDecayProcessing`: pages by offset, an update per row that is due |
| List, SimilarIndex, SimilarRows, ReadRelations, Link, Demote | `runConsolidation`: the list, then per cluster the hits, their rows and the primary, its relations, an edge and a demotion per duplicate |
| Abort | what a pass does not catch per memory ends it |
| Start | an interval, the timer of start() or `POST /processor/run`: none looks for a pass under way |
| DeleteRow, DeletePoint, Hour | users that delete memories, and time |

### Session

`sessions` is the map, as a sequence from the least to the most recently active;
`object` the session objects, as a call keeps the one it found although the id
may lead to another by now. `call[c]` is a tool call: endSession archives
(EndArchive), gives the turns to the LLM (EndIngest, EndLink) or falls back on the
heuristic (EndExtract, EndPart), then removes the id. The turns that a call has still to
extract and the facts it has still to link are sets (`batch`, `facts`), taken in the
order in which they were said. A memory is named by what it
says, since createMemory finds before it creates. `owner`, `taken` and `due` are
history.

### Portability and SparseMigration

`rows` and `edges` are a namespace and the one it is imported into. An export reads
pages by offset in the order of rank while users create, delete and update rows; the place of a
row (`Place`) is the number of rows before it. `Update` is the whole of
`SurrealDBAdapter.update` that matters here: the content, the marker (set and taken back) and the
salience, in one statement. `edited`, history, names the rows that a user has changed since
the export read them in what a file says of them. An
import walks through the file: find, create, mark per entry, then the
relations; in the middle of it a call may fail (the entry is skipped or the import ends, as in the
code), the process may stop, and a later import meets what is left. `Modes`, a constant, are
importMemories (JSON) and importFromPMF without and with a target namespace.

SparseMigration has the two collections `main` and `tmp`, the adapter's flags, and one record
per request under way (`call[c]`), which is at one awaited call: of `initialize`
(Look at the collections, Create with its 409, Index, Config, Ready), of a user's
Write, or of `migrateToSparse` (Checks, Clears, Makes, Scroll, WritesOut, Drops, Resets, Scroll,
WritesBack, Tidies, Answers). Nothing keeps requests apart: any number of them may initialize, write
or migrate at a time, as the handler of `POST /memories/vectors/migrate-hybrid` looks for no
other and goes on after its client was told of a timeout. `kept` and `overlap` are history: the points
that the last migration to clear the copy found, and whether another was copying then.
One API process is modelled.

### Server

A `Call` is a call of fetchApi that changes a memory of its own; its tries are
requests `<<c, k>>` whose handlers may all be under way. `answer` says what the
connection of a try was answered with, or that it is gone; the handler does not
notice that. `Changes` is the return of the service call: it answers, unless the
timeout has, in which case answering throws and no event is emitted. `Throws` may leave
the change made. `delivery` is one per try and webhook. `changed`, `received`
and `known` are history.

### Knowledge

`docs`, `access`, `linked` are the rows of documents, `live`, `members`, `history`, `count` those
of buckets, `op[p]` a request. Every change of a list is a read, a change in
memory and a write, so `AccessRead`/`AccessWrite`, `LinkRead`/`LinkWrite`,
`ListRead`/`ListWrite`, `AgentsRead`/`AgentsWrite` are separate steps. The field `alone` of a
request and `kept` are history: whether anybody else was between the read
and the write of the same list, and what must therefore last. `Chunks` is
chunkContent as an operator on texts, which are sequences of letters, full stops, newlines
and spaces, that being all it looks at; a chunk is given by where it starts and ends
after `trim`, and is left out when only blanks are in it.

## 3. What TLC checks

| run | instance | properties |
|---|---|---|
| `store` | 2 processes, 2 ids, 1 text, 3 requests, 1 failing call, pages of one point | TypeOK; **HiddenMeansMarked**: the index hides only what is or was outdated; **OrphansAreDead**: reconcile never deletes the vector of a stored memory; **OrphansReclaimed**: every orphaned vector goes in the end; **ImplementsMemories**: the two stores are a refinement of the one store of Memories |
| `resolution` | 2 ingests of up to 2 facts, 1 delete, 1 failing call, walks of up to 2 hops | TypeOK; **StampedHasSuccessor**; **JudgedOnce**; **WalkIsHistory**: the walk follows edges, does not repeat a fact and ends; **WalkLeavesReplaced**: it leaves a fact that was replaced when it began; **ReplacedGetsHidden**: an edge is followed by its stamp unless a call fails |
| `connection` | 2 callers, 2 loops, 2 attempts, 2 checks under way, 1 stray | CMTypeOK; **Supervised**; **ProgressOwned**; **RetryEnds** |
| `processor` | 2 overlapping runs, 3 memories of which the middle one resembles both others (for discovery only the first two resemble each other), two of them decaying, 1 deletion or hour; one run decays and consolidates, the other relates and consolidates | TypeOK, with a decay never calculated from a later time than its own; **HalvedOncePerLink**: a salience is halved only for a link of its own; **PassMakesTrees**: one consolidation never supersedes with what it has superseded; **PassLinksOnce**: one discovery links a pair once |
| `session` | 2 calls, 2 ids, 1 open session, 2 turns kept of 3 said, 1 extracted, 1 failing call or restart | TypeOK; **SessionsBounded**; **WindowIsRecent**: a session is an unbroken run of its newest turns; **EndedIsComplete**: when an end answers, archive, extractions and relations are stored |
| `portability` | 3 contents, pages of 1 row, 6 ids, 2 imports, 2 user actions, 1 failing call or stop, PMF | TypeOK; **EdgesJoinRows**; **ExportIsWhole**; **ImportRestores**: an import without errors has restored the file, whatever one before it left, but for what users have updated since the export |
| `sparse` | 3 requests at a time (migrations or users' writes), 2 points, pages of 1, 2 users' requests, 2 failing calls or stops | TypeOK; **PointsSurvive**: every point that a migration found is in the collection or in its copy; **MigratedIsWhole**: a migration that answers that it has migrated leaves them all in the collection |
| `server` | 1 call with 2 tries (the web client's `maxRetries` is 1), 1 webhook that is registered and removed twice, 3 attempts per delivery | TypeOK; **HeardIsTrue**, **ToldIsTrue**: what webhooks and clients are told is true; **ShutdownEnds**; **FollowedThrough**: a call begun is told its end, and a successful one is announced |
| `knowledge` | 2 requests at one time, 3 in all, 1 bucket, 2 agents, uploads of one and two chunks, 1 failing call | TypeOK; **LoneRevokeSticks**; **LoneUploadIsListed**; **ListedIsWhole**; **ChunksKeepPassages**: no passage of up to the overlap's length, from one character that is not blank to another, is torn |
| `tip`, `paging`, `reimport` | as small as the scenario allows | the disagreements below |

*Bounds.* Two processes are enough for every pair of steps to meet, and three
requests let a third one observe what two have done to each other (a create, an
update and a search of the same memory). Two ids make a page border and
an order of points; with pages and chunks of one point and `MaxPoints` 2 the pass
scrolls, looks up and deletes in several steps. One text is enough for the `store`
run, because no property of it compares contents with each other. Three
facts are the fewest with a chain of two edges and a cycle beside it. Two
reconnect loops are the fewest that can overwrite each other's timer. Three
memories in a chain of similarities are the fewest for which clusters depend on the
order, and two runs the fewest that see each other's missing edge; passes start
without a bound, so that a re-run meets what earlier ones left, and every call
of a pass may fail. `MaxEvents` bounds hours and deletions together; the disagreement
about pages needs pages of one row, the others one run. Counters
of started requests, failures and deletes appear only in the guards that bound
them.

Limits of the code are scaled down so that they are reached: one open session of
two turns, pages of one row or point, chunks of seven characters with an overlap of
three (1500 and 200 in the code), over all texts of up to twelve characters
of which at most three are full stops or newlines, or two full stops, newlines or spaces, which is up to four chunks with every
place of a cut. Three contents and two imports are the fewest in which an
import repeats half of another one beside a superseded pair, and an update can say a third thing;
six ids let both create everything
anew; the contents are interchangeable, hence the symmetry. In `sparse`, three requests let two
migrations meet a user's write, or a third migration ask again while the first goes on after
its timeout; two faults stop a migration half way and fail a later one or its
initialize. Two points on pages of one give a first and a last page.
Two tries are the fewest that overlap, and two requests the fewest that a
shutdown has to wait for. `MaxRequests` 3 in `knowledge` is an upload, a
revocation and a third that meets either.

CHECK_DEADLOCK stays on wherever no bound stops the system, because reconcile passes,
walks, passes, the link, sessions and migrations go on. It is off in
`portability`, `reimport` and `knowledge`, whose imports and requests are bounded.

*Fairness.* The event loop resumes every await that has settled, and the clients
and drivers settle every call (answer, error or timeout): the steps of requests,
ingests, walks, calls and loops are weakly fair, as long as they stay enabled.
Starting a request or an ingest, an LLM decision, a failure and a delete are never
assumed. OrphansReclaimed needs more: somebody keeps asking for reconcile passes
(`POST /processor/reconcile`; the code has no schedule for it), so ReconcileStart is
weakly fair; the bound on failures says that passes do not fail for ever.
RetryEnds assumes that closing a socket ends, for which the code has no timeout.
In `server` the timers are fair (the timeout of a request, the pause of a
client, the abort and backoff of a delivery, the five seconds of the shutdown) and the
read of emit settles; handlers are not, as a service may hang, and no client gives
up by itself. ShutdownEnds also assumes that disconnecting from the databases and the telemetry
flush settle (`Exit`), which the code awaits without a timeout. The other runs check safety only.

*Disagreements found.* Statements of comments and documents that do not hold of
the code. Three have a run with a counterexample and an entry in `findings`:

1. `tip`: two ingests can judge a pair from both ends, and each fact supersedes
   the other; no current fact is left.
2. `paging`: decay pages through all memories "so the long tail also decays", by
   offset over the order of effective salience. A row that decays moves behind
   later ones, which move forward over a page border and are not looked at.
3. `reimport`: importMemories gives the memories of a JSON file fresh ids and
   creates the relations between the old ones, without the look at both ends that
   the reference describes.

Others were met while modelling and have no run of their own:

* findSimilar, documented to exclude superseded facts (`qdrant.ts:427`), trusts the
  mirrored flag alone; an embedding written from a copy read before the stamp
  clears that flag.
* The mirrored flag is called best effort (`memory-service.ts:266`), but two updates that reach
  Qdrant in the other order than SurrealDB leave a current memory hidden from every search.
* A call made while the manager reconnects sets it to connected over the
  socket it found broken (`surrealdb.ts:87`, `memory-service.ts:184`).
* Consolidation chooses the primary by effective salience but demotes a duplicate
  to half of its *base* salience (`processor.ts:517`), which may be above the primary.
* The guide says that decay compounds from pass to pass (`processor.md:43`); the code
  decays from the base salience over the time since the last pass. It also says that
  consolidation deletes memories (`processor.md:64`); the code links and demotes.
* "The history is append-only" (`user-guide/knowledge-base.md:135`), but of two uploads
  that add to it at one time one is lost. A bucket "must be empty" to be
  deleted (`knowledge-base.md:143`, `api-reference/knowledge.md:121`); deleteBucket does not look.
* `deleteMemories` of the document reference (`knowledge.md:359`) is not implemented, and
  getAllAgents selects `access` but reads `agentAccess`.

## 4. What is proved

`MemoryStoreProofs`, from `StoreAssumption` only (ids are numbers, None is not
one, page sizes are positive), for any number of ids, texts, processes, requests
and failures:

| theorem | property |
|---|---|
| TypeCorrect | TypeOK |
| HiddenIsMarked | HiddenMeansMarked |
| SearchIsFresh | AnswerIsFresh: a search never answers with what was deleted or superseded when it began |
| ReconcileIsSafe | OrphansAreDead |
| DeletedStaysDeleted | DeletedForGood: no step brings a deleted memory back |
| StoreImplementsMemories | ImplementsMemories |

None of these is inductive: a request acts on what it read several steps ago. The
invariant `IInv` says why that is harmless. Two sets never lose a member: `Dead`,
the ids that were drawn and have no row (an id is never drawn twice, and no step
writes a row that is not there), and `Spent`, the ids that are dead, marked, or
whose mark was once taken back. Everything that a request or a pass carries
across an await and may act on is a member of one of them: a request that will
hide a point has a spent id in its hand, the ids a search must not answer with
are spent, the orphans of a pass are dead. `Sound` states this per request and
lemma `SoundGrows` shows that it survives every step of the others, so that the
proof of each action looks at the acting request alone. `IInv` was checked with
TLC before it was proved.

The refinement is proved from the same invariant. Initial states map to
`Abstract!Init`; of the actions, CreateInsert maps to Create, UpdateWrite to
Change or, if the row is gone, to nothing, DeleteRow to Delete or nothing, SearchRows
and the end of an answered search to Reply, and every other to a stutter, since neither
rows nor answers change. The invariant is needed to see that an id that is drawn
was unborn, that a row that is written exists, and that the process that answers was searching.

The last part of `MemoryStoreProofs` is about ConnectionManager, through which every
call of the store goes, from `ConnectionAssumption`, for any number of
callers, loops, attempts and checks: ConnectionTypes (CMTypeOK, with the bound on the
attempts), AlwaysSupervised (Supervised), AlwaysOwned (ProgressOwned) and
WatchedStaysInBudget (WatchedHasAttempts, a property without a run: a watched connection has
not used more than its attempts). Supervised and ProgressOwned are
inductive together, since whoever stops being responsible for a state changes it
in the same step. The bound is not: `Budget` adds that every attempt beyond the
limit has used up one of the health checks under way.

`ProcessorProofs`, from `ProcessorAssumption`, for any number of memories, runs,
deletions and failures, and any similarity:

| theorem | property | invariant |
|---|---|---|
| TypeCorrect | TypeOK | `Typing`: which fields a pass has at which call, and that a row it will decay is older than the pass |
| HalvedOnce | HalvedOncePerLink | `HalvingInv` |
| TreesMade | PassMakesTrees | `TreeInv` |
| LinkedOnce | PassLinksOnce | `OnceInv` |

Halving is guarded by an edge that was looked for earlier, over a copy of the
salience read earlier still, so neither guard is up to date when the row is
written. `Paid` gives the reason why that is enough: the copy of a candidate was
halved no more often than it is linked now, and strictly less often if the
primary's edge to it exists now, because that edge is younger than the
copy. The rows are read before the relations; the other order would not do. Then a
demotion follows a link in any case, its own or one of another run.
`Tree` says that what a pass has superseded is in `processed` by
the time it looks further, and that neither a primary nor a candidate is;
`Once` that a pair linked by discovery stays joined by that edge unless one of
the two is deleted, so that it is known when the pass meets it from the other
side. Each is a statement about one pass, the stores and the history, given as
arguments, with a lemma that says what the steps of all others do to it (`PaidGrows`,
`OnceGrows`; `Tree` speaks of the pass alone).

`ResolutionProofs`, from `ResolutionAssumption`, for any number of ingests,
facts and deletes, and any number of hops above zero:

| theorem | property | part of `RInv` |
|---|---|---|
| TypeCorrect | TypeOK | TypeOK |
| HiddenHasSuccessor | StampedHasSuccessor | `GraphOK`: what was replaced keeps its edge until one of the two facts is deleted |
| PairsJudgedOnce | JudgedOnce | `IngestOK`: no edge on a pair that an ingest has still to judge is its own or older than the relations it read |
| WalksHistory, WalksOn | WalkIsHistory, WalkLeavesReplaced | `WalkOK`: the next fact replaced the last one, and is not in the chain |

The parts are inductive only together: that an edge is younger than what an
ingest read is a statement about `IngestOK` and the graph, and that a walk moves on
rests on the edges of `GraphOK` being there as long as nothing is deleted.

`SessionProofs`, from `SessionAssumption`, for any number of sessions, turns, finitely
many calls, and any limits that let a turn in once others have made room:

| theorem | property | part of `SInv` |
|---|---|---|
| TypeCorrect | TypeOK | `Opened`, `StoreOK`: the open ids are apart; what a relation joins is stored. `RoomOK`: a start that waits for its search has an object left to draw |
| SessionsStayBounded | SessionsBounded | `Opened`: room is made in the step that enters the session, so what the call saw before its search does not matter |
| WindowsAreRecent | WindowIsRecent | `Windows` |
| EndsComplete | EndedIsComplete | `EndOK` |

`EndOK` says what an endSession knows at each of its awaits while other calls
add turns to its session, replace or drop it, or end it too. Two sets carry the argument: the
turns that were due when it began, and the ones it has taken. Until the
heuristic reads the session, every due turn is still among the first long ones (`LongTurns`); from
then on it is in the batch or taken. The first half needs `Whole`, that no turn
of the session has made room for another, and `Windows`: new turns go behind
all others, so they push none of the first ones out (lemma `AddTurnKeeps`). Without `Whole` it is false, which is why the
property has that condition. Facts of the LLM that were linked before it gave up stay linked;
the heuristic's memories are stored one await before their relation, so `EndOK` names
the one that waits.

`PortabilityProofs`, from `PortabilityAssumption` and `NoneAssumption`, for any contents, ids,
page size, users, imports and failures:

| theorem | property | part of `PInv` |
|---|---|---|
| TypeCorrect | TypeOK | `RowsOK`, and the types in `ExportOK` and `ImportOK` |
| ExportsAreWhole | ExportIsWhole (of steps) | `ExportOK`: a row that was there when the export began is in the file, or its place is at or behind the offset of the next page |
| ImportsRestore | ImportRestores (of steps) | `ImportOK`: `Progress` of the import under way |
| EdgesJoin | EdgesJoinRows, where every import is of PMF | EdgesJoinRows |

The export turns on what pages by offset can lose. A row created between two pages
moves others to a later place, never to an earlier one (lemma `PlaceGrows`), so a row whose place is not
behind the offset has been read; a row deleted or ranked anew moves them forward, and then the
property promises nothing. That the file then is faithful (`Faithful`) holds whatever
users do: the row of an id in the file, as long as it exists and no user has updated it since (`edited`),
says what one of the entries of that id says, and is marked if that one is. Pages may give a row twice,
before and after an update; either counts.
`Progress` has one statement per pass of an import over the file. The entries behind it are restored
(`Restored`: under its new id a memory says what the entry says, in the namespace asked for, and
carries the marker; one found under its old id is left as it stands, with what users have made of it since); of the relations, those not left
exist between the new ids. Both passes speak of the file, not of an earlier
import, so whatever one has left half done is found or created again. It is kept under `Safe`, that
nothing was deleted meanwhile and the format is PMF; the hypothesis of EdgesJoin and
the format in ImportRestores exclude importMemories, of which the run `reimport`
shows that its relations keep the old ids.

`SparseMigrationProofs`, from `SparseAssumption`, for any number of requests and migrations at
a time, any finite set of points, page size, and number of failures and stops:

| theorem | property | part of `SInv` |
|---|---|---|
| TypeCorrect | TypeOK | that the flag is only set over a sparse collection: `NotDense`, which also holds while a request has seen one (`seen`), or has dropped the dense one (`Behind`) |
| PointsSurvival | PointsSurvive | itself, with `Holds` |
| MigrationWhole | MigratedIsWhole | `Holds`, `NotDense` |

`Holds` says where the points are at each await of the migration that copies: on the way out the
collection is whole and everything before the next page is copied (`Upto`, `WithPage`), from the drop
on the copy is whole, and from the first page back the collection exists. It
is required only while no other copies (`overlap`), and then at most one call does (`Copies`);
the lemma `Alone` uses that for the steps that take something away (Drops, Tidies), and
`Moves` covers all others, which take no point from anywhere (`Grows`). A page that is not the last is never
empty, which needs the least element of what is left (`Least`).

Both properties speak of the points from one clearing of the copy to the next, and excuse two
migrations that copy at a time. This is as far as the code goes:

* A second migration started after the timeout of the first can delete the temporary
  collection the first one copies to; the first then drops the collection.
* A migration cut short between the drop and the copy back leaves the points in the temporary
  collection. The next call finds the sparse collection, answers `alreadyHybrid` and
  reports no error; nothing copies them back.
* If that next call's look at the collection fails, or an initialize that began earlier has set
  the flag back, it migrates the empty collection and clears the only copy.
* Points that users write during the migration are not counted: one written behind the
  page that is read is dropped with the collection.

`ServerProofs`, from `ServerAssumption`, for any number of calls, tries,
webhooks and attempts: TypeCorrect (TypeOK), HeardTrue (HeardIsTrue) and ToldTrue
(ToldIsTrue). Tries of one call overlap, and an answer may be overtaken by a
timeout, so what a client is told hangs on tries it has given up. `Inv` relates each
answer to its try's effect (`TriesOK`), all tries of one call to its memory
(`EffectOK`: an update that finds it and one that misses it do not both happen), what a
client is told to its last try (`CallersOK`), and a delivery to the change it
announces (`DeliveriesOK`).

`KnowledgeProofs`, from `KnowledgeAssumption` (of it mainly that the requests handled at one time
are finitely many, so that they can be counted), for any number of buckets, agents, requests, texts,
uploads and failures:

| theorem | property | invariant |
|---|---|---|
| TypeCorrect | TypeOK | `Typing`: what a request knows at each step, and that there is room for every upload that was let in |
| RevocationsStick | LoneRevokeSticks | `RightsInv` |
| UploadsListed | LoneUploadIsListed | `ListInv` |
| ListedComplete | ListedIsWhole | `WholeInv` |
| PassagesKept | ChunksKeepPassages | none: a fact about texts |

A list that is written back was read earlier, so a statement about the lists has
to hold of the copies too: what was revoked is in no copy that a request will
write (`RevokeOK`, `RemoveOK`), and a copy of a history has every entry it must keep
(`ListedBy`). A write spoils a copy only if somebody is between his read and
his write of the same list, and then neither is alone (`AloneOK`). `Unlisted` adds
that an upload under way is in no history and no copy of one, and that no two
uploads have the same document. An upload that fails before it is listed is never
in the history: LoneUploadIsListed speaks of those that were entered.

LoneRevokeSticks has two exceptions, which are what the code does: a request that had read the
list before the revocation writes it back, and an upload into a bucket, which stores the document with
its agents and then grants each of them again in a loop, gives access back to an agent that the loop
is still to come to (`Gives`). What is checked and proved is that
nothing else does: not an agent the loop is done with, not the loop of another upload.
 `WholeOK` says of an upload that it reaches
the history with a memory for every chunk; the steps of others leave a document
as it is, delete it, or name all its memories (`Grown`).

PassagesKept says that a passage no longer than the overlap (or of one character) that starts and ends with a
character that is not blank is whole in a chunk; blanks at the ends of a chunk are
trimmed away, so that a passage of blanks at a cut may be in none. It assumes
`2 * Overlap <= ChunkSize`. It is about the recursion in `Chunks`. The prover has no rule for it, so the induction
is made by hand: of the positions for which a statement would fail there is a
last one (`LastFailure`, from the well-foundedness of the numbers), and at that one it is shown to
hold. In this way `CutsExist` shows that the recursion defines a function, which rests on the next
chunk starting behind this one (`ChunkEnds`), that is, on cutting getting on; `CutsTyped` what
it returns; and `PassagesCovered` the property: a passage that starts in or behind a chunk ends
in it, or starts in or behind the next one. That a chunk cut at a stop is longer than the overlap is
where `2 * Overlap <= ChunkSize` is needed (200 and 1500 in the code).

Only model-checked: everything temporal under fairness (OrphansReclaimed,
ReplacedGetsHidden, RetryEnds, ShutdownEnds, FollowedThrough), which the prover does not
handle. Every invariant and action property of a passing run is a theorem, EdgesJoinRows under the
hypothesis named above.

## 5. What is left out

* Of `MemoryService`: filters, scores, limits, fusion, reranking and the
  expansion of a hit to the turns of its session (what they keep is a
  subset or a neighbourhood of the hits; freshness is decided by the row filter,
  which is modelled); `resolveToCurrent`, which replaces a hit by the end of its
  chain; versions and the other metadata of a row. PATCH with null to take a mark
  back is modelled, PATCH of other fields only as far as it rewrites the row.
* `MaxPoints`: a pass looks at the first 5000 points only, and always starts at the
  first. With more live points than that in front, orphans behind them are never
  reclaimed; OrphansReclaimed is about stores below the cap.
* Of `MemoryProcessor`: the pass that embeds what has no point, with its
  guard against a second one, and the intervals and timers that start passes (a
  pass may start at any time instead). Limits of 200, 500 and 10 memories, which
  only leave some out; relations that users create or delete; memories created or
  patched during a pass; the namespaces, as passes treat each by itself;
  the `invalidatedAt` stamps, which no pass sets.
* SurrealDB's retried transactions (`withConflictRetry`) end in the row's
  change or in an error: one step.
* Crashes of the process lose all requests in flight and nothing else: the
  stores are in the state that a behaviour without further steps of those
  requests reaches, so the safety properties cover them.
* Of `Session`: getContext's search and the working memory that startSession and
  addTurn store, which no other call reads.
* Of `Resolution`: relations that users create or delete, and users' PATCH of `invalidatedAt`
  (which is in `MemoryStore`).
* Of `Portability`: checksums, hashes, encodings and encryption, the
  differential export and the streamed one; relations that users create, which may join
  namespaces.
* Of `SparseMigration`: a second API process, whose flags would be its own.
* Of `Server`: signatures, validation rules, the admission of requests by tokens, scopes,
  rate and licence, which refuses before the handler and changes no memory, and waiting
  for the browser to be online. SDKs and the CLI do not retry: they are calls with one try.
* Of `Knowledge`: memories of a document that users delete later; parsing of file formats, creating and naming buckets, the
  routes that only read. `incrementDocCount` and `decrementDocCount` have no caller.
* **Deduplication** (`memories.ts` 504-592): computes a list from one search and
  deletes by id. What it chooses among similar texts is arithmetic on words, and no
  document says what it may remove; one hazard is listed without a property.
* **Ingest jobs**: a job wraps one ingest, and its table is read by nobody else. The
  sweep compares with the creation of a job, not its end, so that a job that
  ran for most of an hour can vanish soon after it ended.
* **ConnectionPool**, **CircuitBreaker**, `withRetry`: no caller in the repository.
* **Write log of the MCP server**: lines are appended and never read back.
* **Ranking, fusion, reranking, time parsing, sparse vectors, codecs, LLM and embedding
  clients**: numeric, textual or stateless. **Chat importer, MCP tools, CLI, SDKs, agent adapters,
  screens**: formatting around calls that are modelled where they arrive.

## 6. Plan

What is left:

1. **Server with MemoryStore**: what a handler does to its memory is one step in
   Server and many in MemoryStore; Memories, which MemoryStore implements, is the
   interface at which the two could be put together.
