------------------------------- MODULE Knowledge -------------------------------
(***************************************************************************)
(* The knowledge base of the API server: documents with the agents that    *)
(* may read them (KnowledgeService), buckets with their agents and their   *)
(* upload history (BucketService), and the requests over both.  Access     *)
(* lists, agents and histories are read, changed in the process and        *)
(* written back whole: a request is a process with one step per awaited    *)
(* call.  Names, formats and files are left out; a text matters through    *)
(* its length and the places where it may be cut.                          *)
(***************************************************************************)
EXTENDS Naturals, FiniteSetsExt, SequencesExt

CONSTANTS
  Buckets,      \* ids of the buckets of a behaviour
  Agents,       \* ids of agents
  Requests,     \* requests the server handles at one time
  Texts,        \* texts to cut into chunks
  Uploads,      \* the texts that are uploaded
  None,         \* no document, bucket, agent
  ChunkSize,    \* characters per chunk at most (1500)
  Overlap,      \* characters that neighbouring chunks share (200)
  MaxDocs,      \* bound: documents uploaded in a behaviour
  MaxRequests,  \* bound: requests started in a behaviour
  MaxFaults     \* bound: calls that fail in a behaviour

Characters == {"letter", "stop", "newline", "space"}

ASSUME KnowledgeAssumption ==
  /\ {ChunkSize, Overlap, MaxDocs, MaxRequests, MaxFaults} \subseteq Nat
  /\ ChunkSize > 0 /\ 2 * Overlap <= ChunkSize
  /\ Texts \subseteq Seq(Characters) /\ Uploads \subseteq Texts
  /\ None \notin Buckets \cup Agents
  /\ IsFiniteSet(Requests)

Docs == 1 .. MaxDocs

VARIABLES
  uploaded,  \* history: the documents stored so far, deleted ones too
  docs,      \* documents with a row
  access,    \* agentAccess of each document
  linked,    \* memoryIds of each document, by the chunk they were made from
  live,      \* buckets with a row
  members,   \* agents of each bucket
  history,   \* uploadHistory of each bucket, the newest first
  count,     \* documentCount of each bucket
  op,        \* what each request is doing
  kept,      \* history: writes that overlapped no other, see below
  requests, faults

documents == <<uploaded, docs, access, linked>>
buckets == <<live, members, history, count>>
vars == <<documents, buckets, op, kept, requests, faults>>

-----------------------------------------------------------------------------
(* chunkContent.  A chunk of t from position s (counted from 0) ends at    *)
(* the size, or behind the last stop or newline of its second half.        *)

Limit(t, s) == Min({s + ChunkSize, Len(t)})

Cuts(t, s) == {k \in s + 1 .. Limit(t, s) :
                 t[k] \in {"stop", "newline"} /\ 2 * (k - s - 1) > ChunkSize}

ChunkEnd(t, s) == IF Limit(t, s) < Len(t) /\ Cuts(t, s) # {}
                    THEN Max(Cuts(t, s)) ELSE Limit(t, s)

(* Mutant: the next chunk is counted from where this one could have ended. *)
NextStartUncut(t, s) == IF Limit(t, s) - s <= Overlap
                          THEN Limit(t, s) ELSE Limit(t, s) - Overlap

NextStart(t, s) == IF ChunkEnd(t, s) - s <= Overlap
                     THEN Limit(t, s) ELSE ChunkEnd(t, s) - Overlap

Blank(c) == c \in {"newline", "space"}

(* A chunk is trimmed of the blanks at its ends, and left out when nothing *)
(* remains; the next one is counted from where it ended before that.       *)
Trim(t, s, e) ==
  LET written == {k \in s + 1 .. e : ~Blank(t[k])}
  IN IF written = {} THEN <<>> ELSE <<<<Min(written) - 1, Max(written)>>>>

Chunks(t) ==
  LET from[s \in 0 .. Len(t)] ==
        IF s = Len(t) THEN <<>>
        ELSE Trim(t, s, ChunkEnd(t, s)) \o from[NextStart(t, s)]
  IN from[0]

-----------------------------------------------------------------------------
Op == [pc     : {"idle", "store", "access_read", "access_write", "chunk",
                 "link_read", "link_write", "list_read", "list_write",
                 "agents_read", "agents_write"},
       doc    : Docs \cup {None},
       bucket : Buckets \cup {None},
       change : {"add", "remove", "set"},
       agent  : Agents \cup {None},
       todo   : SUBSET Agents,      \* agents yet to be granted or revoked
       keep   : BOOLEAN,            \* an upload makes memories of the chunks
       text   : Uploads \cup {<<>>},
       made   : SUBSET (Nat \ {0}), \* chunks that have a memory
       agents : SUBSET Agents,      \* the list of agents as it was read
       past   : Seq(Docs),          \* the history as it was read
       number : Nat,                \* the count as it was read
       alone  : BOOLEAN]            \* history: nobody else changes that list

IdleOp == [pc |-> "idle", doc |-> None, bucket |-> None, change |-> "add",
           agent |-> None, todo |-> {}, keep |-> FALSE, text |-> <<>>,
           made |-> {}, agents |-> {}, past |-> <<>>, number |-> 0,
           alone |-> TRUE]

(* Buckets are there from the start, with some agents: creating one and    *)
(* what it is called concern no other row.                                 *)
Init ==
  /\ uploaded = <<>> /\ docs = {}
  /\ access = [d \in Docs |-> {}] /\ linked = [d \in Docs |-> {}]
  /\ live = Buckets
  /\ members \in [Buckets -> SUBSET Agents]
  /\ history = [b \in Buckets |-> <<>>] /\ count = [b \in Buckets |-> 0]
  /\ op = [p \in Requests |-> IdleOp]
  /\ kept = [revoked |-> {}, removed |-> {}, listed |-> {}]
  /\ requests = 0 /\ faults = 0

At(p, pc) == op[p].pc = pc

Become(p, r) == /\ op' = [op EXCEPT ![p] = r]
                /\ UNCHANGED <<requests, faults>>

Finish(p) == Become(p, IdleOp)

(* A request reads a list it will write back: from here to its write,      *)
(* whoever is between the read and the write of the same list is not alone.*)
ReadList(p, r, Same(_)) ==
  LET others == {q \in Requests \ {p} : op[q].pc = r.pc /\ Same(op[q])}
  IN /\ op' = [q \in Requests |->
                 IF q = p THEN [r EXCEPT !.alone = others = {}]
                 ELSE IF q \in others THEN [op[q] EXCEPT !.alone = FALSE]
                 ELSE op[q]]
     /\ UNCHANGED <<requests, faults>>

Begin(p, r) ==
  /\ At(p, "idle") /\ requests < MaxRequests
  /\ op' = [op EXCEPT ![p] = r]
  /\ requests' = requests + 1
  /\ UNCHANGED <<documents, buckets, faults>>

(* A call fails: the request answers with an error and leaves what it did. *)
Fail(p) ==
  /\ ~At(p, "idle") /\ faults < MaxFaults
  /\ op' = [op EXCEPT ![p] = IdleOp]
  /\ faults' = faults + 1
  /\ UNCHANGED <<documents, buckets, kept, requests>>

-----------------------------------------------------------------------------
(* Uploads.  POST /buckets/:id/upload reads the bucket before it reads the *)
(* file; the other two routes have no bucket and name the agents.          *)

Room == Len(uploaded) + Cardinality({p \in Requests : At(p, "store")}) < MaxDocs

StartUpload(p) ==
  /\ Room /\ UNCHANGED kept
  /\ \E t \in Uploads, keep \in BOOLEAN :
       LET r == [IdleOp EXCEPT !.pc = "store", !.text = t, !.keep = keep]
       IN \/ \E b \in live : Begin(p, [r EXCEPT !.bucket = b, !.todo = members[b]])
          \/ \E S \in SUBSET Agents : Begin(p, [r EXCEPT !.todo = S])

(* What an upload goes on with when r says what is left: the agents of the *)
(* bucket, the memories, the history of the bucket.                        *)
Chunk(r) == IF r.keep THEN [r EXCEPT !.pc = "chunk"]
            ELSE IF r.bucket # None THEN [r EXCEPT !.pc = "list_read"]
            ELSE IdleOp

Grant(r) == IF r.todo # {} THEN [r EXCEPT !.pc = "access_read"] ELSE Chunk(r)

(* CREATE with the agents as its access list; a bucket grants them again.  *)
StoreDocument(p) ==
  /\ At(p, "store")
  /\ LET d == Len(uploaded) + 1
         r == [op[p] EXCEPT !.doc = d]
     IN /\ uploaded' = Append(uploaded, [text |-> r.text, keep |-> r.keep])
        /\ docs' = docs \cup {d}
        /\ access' = [access EXCEPT ![d] = r.todo]
        /\ Become(p, IF r.bucket # None THEN Grant(r) ELSE Chunk([r EXCEPT !.todo = {}]))
  /\ UNCHANGED <<linked, buckets, kept>>

(* Mutant: a chunk whose memory cannot be created is passed over.          *)
CreateMemorySkips(p) ==
  /\ At(p, "chunk")
  /\ LET todo == (1 .. Len(Chunks(op[p].text))) \ op[p].made
     IN IF Cardinality(todo) <= 1
          THEN Become(p, [op[p] EXCEPT !.pc = "link_read"])
          ELSE Become(p, [op[p] EXCEPT !.made = @ \cup {Min(todo)}])
  /\ UNCHANGED <<documents, buckets, kept>>

(* One createMemory per chunk, in order; a memory that says the same in    *)
(* the namespace is answered instead of a new one.  Its embedding is       *)
(* started and not awaited.                                                *)
CreateMemory(p) ==
  /\ At(p, "chunk")
  /\ LET todo == (1 .. Len(Chunks(op[p].text))) \ op[p].made
     IN IF todo = {}
          THEN Become(p, [op[p] EXCEPT !.pc = "link_read"])
          ELSE Become(p, [op[p] EXCEPT !.made = @ \cup {Min(todo)}])
  /\ UNCHANGED <<documents, buckets, kept>>

Listing(r) == IF r.bucket # None THEN [r EXCEPT !.pc = "list_read"] ELSE IdleOp

(* linkMemories: no other request writes memoryIds of this document.       *)
LinkRead(p) ==
  /\ At(p, "link_read")
  /\ Become(p, IF op[p].doc \in docs
                 THEN [op[p] EXCEPT !.pc = "link_write", !.made = @ \cup linked[op[p].doc]]
                 ELSE Listing(op[p]))
  /\ UNCHANGED <<documents, buckets, kept>>

LinkWrite(p) ==
  /\ At(p, "link_write")
  /\ linked' = IF op[p].doc \in docs THEN [linked EXCEPT ![op[p].doc] = op[p].made]
                                     ELSE linked
  /\ Become(p, Listing(op[p]))
  /\ UNCHANGED <<uploaded, docs, access, buckets, kept>>

(* addUpload: a bucket that is gone gets no entry.                         *)
ListRead(p) ==
  /\ At(p, "list_read")
  /\ LET b == op[p].bucket
     IN IF b \in live
          THEN ReadList(p, [op[p] EXCEPT !.pc = "list_write",
                                         !.past = history[b], !.number = count[b]],
                        LAMBDA r : r.bucket = b)
          ELSE Finish(p)
  /\ UNCHANGED <<documents, buckets, kept>>

(* Mutant: the count is increased in place.                                *)
ListWriteAdds(p) ==
  /\ At(p, "list_write")
  /\ LET b == op[p].bucket
     IN IF b \in live
          THEN /\ history' = [history EXCEPT ![b] = <<op[p].doc>> \o op[p].past]
               /\ count' = [count EXCEPT ![b] = @ + 1]
          ELSE UNCHANGED <<history, count>>
  /\ Finish(p)
  /\ UNCHANGED <<documents, live, members, kept>>

(* The history and the count are written in one statement.                 *)
ListWrite(p) ==
  /\ At(p, "list_write")
  /\ LET b == op[p].bucket
         d == op[p].doc
     IN IF b \in live
          THEN /\ history' = [history EXCEPT ![b] = <<d>> \o op[p].past]
               /\ count' = [count EXCEPT ![b] = op[p].number + 1]
               /\ kept' = IF op[p].alone
                            THEN [kept EXCEPT !.listed = @ \cup {<<b, d>>}] ELSE kept
          ELSE UNCHANGED <<history, count, kept>>
  /\ Finish(p)
  /\ UNCHANGED <<documents, live, members>>

-----------------------------------------------------------------------------
(* grantAccess and revokeAccess, of a request or of the upload of a bucket: *)
(* they read the document, change its list and write the list back.        *)

StartAccess(p) ==
  \E d \in docs, a \in Agents, k \in {"add", "remove"} :
    /\ Begin(p, [IdleOp EXCEPT !.pc = "access_read", !.doc = d, !.todo = {a}, !.change = k])
    /\ kept' = [kept EXCEPT !.revoked = IF k = "add" THEN @ \ {<<d, a>>} ELSE @]

(* Mutant: an upload goes on from the list it read for its first agent.    *)
AccessReadOnce(p) ==
  /\ At(p, "access_read")
  /\ \E a \in op[p].todo :
       LET d == op[p].doc
           r == [op[p] EXCEPT !.todo = @ \ {a}, !.agent = a]
       IN IF d \in docs /\ (r.change = "remove" => a \in access[d])
            THEN ReadList(p, [r EXCEPT !.pc = "access_write",
                                       !.agents = IF @ = {} THEN access[d] ELSE @],
                          LAMBDA s : s.doc = d)
            ELSE Become(p, Grant(r))
  /\ UNCHANGED <<documents, buckets, kept>>

AccessRead(p) ==
  /\ At(p, "access_read")
  /\ \E a \in op[p].todo :
       LET d == op[p].doc
           r == [op[p] EXCEPT !.todo = @ \ {a}, !.agent = a]
       IN IF d \in docs /\ (r.change = "remove" => a \in access[d])
            THEN ReadList(p, [r EXCEPT !.pc = "access_write", !.agents = access[d]],
                          LAMBDA s : s.doc = d)
            ELSE Become(p, Grant(r))
  /\ UNCHANGED <<documents, buckets, kept>>

Changed(r) == IF r.change = "add" THEN r.agents \cup {r.agent}
              ELSE r.agents \ {r.agent}

(* Mutant: the write brings a deleted document back.                       *)
AccessWriteUpserts(p) ==
  /\ At(p, "access_write")
  /\ access' = [access EXCEPT ![op[p].doc] = Changed(op[p])]
  /\ Become(p, Grant(op[p]))
  /\ UNCHANGED <<uploaded, docs, linked, buckets, kept>>

(* Request r is still to give agent a access to document d, as the loop    *)
(* over the agents of a bucket does with an agent it has not come to.      *)
Gives(r, d, a) ==
  /\ r.pc \in {"access_read", "access_write"} /\ r.change = "add" /\ r.doc = d
  /\ a \in r.todo \/ (r.pc = "access_write" /\ r.agent = a)

(* UPDATE ... WHERE docId = id: no row, no effect.                         *)
AccessWrite(p) ==
  /\ At(p, "access_write")
  /\ LET r == op[p]
         d == r.doc
     IN /\ IF d \in docs
             THEN /\ access' = [access EXCEPT ![d] = Changed(r)]
                  /\ kept' = [kept EXCEPT !.revoked =
                       IF /\ r.change = "remove" /\ r.alone
                          /\ \A q \in Requests : ~Gives(op[q], d, r.agent)
                       THEN @ \cup {<<d, r.agent>>} ELSE @]
             ELSE UNCHANGED <<access, kept>>
        /\ Become(p, Grant(r))
  /\ UNCHANGED <<uploaded, docs, linked, buckets>>

DeleteDocument(d) ==
  /\ requests < MaxRequests
  /\ docs' = docs \ {d}
  /\ access' = [access EXCEPT ![d] = {}] /\ linked' = [linked EXCEPT ![d] = {}]
  /\ requests' = requests + 1
  /\ UNCHANGED <<uploaded, buckets, op, kept, faults>>

-----------------------------------------------------------------------------
(* addAgent, removeAgent, and updateBucket with a list of agents, which    *)
(* reads the bucket to see that it is there.                               *)

StartAgents(p) ==
  /\ UNCHANGED kept
  /\ \E b \in live :
       \/ \E a \in Agents, k \in {"add", "remove"} :
            Begin(p, [IdleOp EXCEPT !.pc = "agents_read", !.bucket = b, !.agent = a, !.change = k])
       \/ \E S \in SUBSET Agents :
            Begin(p, [IdleOp EXCEPT !.pc = "agents_read", !.bucket = b, !.todo = S, !.change = "set"])

AgentsRead(p) ==
  /\ At(p, "agents_read")
  /\ LET r == op[p]
         b == r.bucket
     IN IF b \notin live \/ (r.change = "add" /\ r.agent \in members[b])
          THEN Finish(p)
          ELSE ReadList(p, [r EXCEPT !.pc = "agents_write", !.agents = members[b]],
                        LAMBDA s : s.bucket = b)
  /\ UNCHANGED <<documents, buckets, kept>>

AgentsWrite(p) ==
  /\ At(p, "agents_write")
  /\ LET r == op[p]
         b == r.bucket
         new == IF r.change = "set" THEN r.todo ELSE Changed(r)
     IN IF b \in live
          THEN /\ members' = [members EXCEPT ![b] = new]
               /\ kept' = [kept EXCEPT !.removed =
                    IF r.change = "remove" /\ r.alone THEN @ \cup {<<b, r.agent>>}
                    ELSE IF r.change = "set" THEN @ \ ({b} \X new)
                    ELSE IF r.change = "add" THEN @ \ {<<b, r.agent>>}
                    ELSE @]
          ELSE UNCHANGED <<members, kept>>
  /\ Finish(p)
  /\ UNCHANGED <<documents, live, history, count>>

(* The documents of a bucket stay when it is deleted.                      *)
DeleteBucket(b) ==
  /\ requests < MaxRequests
  /\ live' = live \ {b}
  /\ members' = [members EXCEPT ![b] = {}]
  /\ history' = [history EXCEPT ![b] = <<>>] /\ count' = [count EXCEPT ![b] = 0]
  /\ requests' = requests + 1
  /\ UNCHANGED <<documents, op, kept, faults>>

-----------------------------------------------------------------------------
Next ==
  \/ \E p \in Requests :
       \/ StartUpload(p) \/ StoreDocument(p) \/ CreateMemory(p)
       \/ LinkRead(p) \/ LinkWrite(p) \/ ListRead(p) \/ ListWrite(p)
       \/ StartAccess(p) \/ AccessRead(p) \/ AccessWrite(p)
       \/ StartAgents(p) \/ AgentsRead(p) \/ AgentsWrite(p)
       \/ Fail(p)
  \/ \E d \in docs : DeleteDocument(d)
  \/ \E b \in live : DeleteBucket(b)

Spec == Init /\ [][Next]_vars

-----------------------------------------------------------------------------
(* Types; access lists, links, agents and histories belong to rows.        *)
TypeOK ==
  /\ uploaded \in Seq([text : Uploads, keep : BOOLEAN])
  /\ docs \subseteq 1 .. Len(uploaded)
  /\ access \in [Docs -> SUBSET Agents]
  /\ linked \in [Docs -> SUBSET (Nat \ {0})]
  /\ \A d \in Docs \ docs : access[d] = {} /\ linked[d] = {}
  /\ live \subseteq Buckets
  /\ members \in [Buckets -> SUBSET Agents]
  /\ history \in [Buckets -> Seq(Docs)] /\ count \in [Buckets -> Nat]
  /\ \A b \in Buckets \ live : members[b] = {} /\ history[b] = <<>>
  /\ op \in [Requests -> Op]
  /\ requests \in Nat /\ faults \in Nat

(* Access to a document that was taken from an agent comes back only when  *)
(* a grant asked for later gives it again.  Two things that were there     *)
(* before the revocation can undo it and are excepted: an overlapping      *)
(* request that writes back the list as it was, and an upload whose loop   *)
(* is still to come to that very agent, which it then grants anew.  The    *)
(* loop never brings back an agent it is done with, nor one of another     *)
(* request.  An agent taken from a bucket comes back only when a write of  *)
(* the bucket's agents names it.                                           *)
LoneRevokeSticks ==
  /\ \A x \in kept.revoked : x[1] \in docs => x[2] \notin access[x[1]]
  /\ \A x \in kept.removed : x[1] \in live => x[2] \notin members[x[1]]

(* An upload that was entered in the history of its bucket, with no other  *)
(* one between the read and the write of that history, stays there: a      *)
(* failed, a deleted or a later upload never takes an entry away, and none *)
(* is listed twice.  (One that fails before is never entered.)  The count  *)
(* never leaves the history.                                               *)
LoneUploadIsListed ==
  /\ \A x \in kept.listed : x[1] \in live => x[2] \in ToSet(history[x[1]])
  /\ \A b \in live : count[b] = Len(history[b]) /\ IsInjective(history[b])

(* A document that a bucket lists is complete: when memories were asked    *)
(* for, every chunk has one and the document names them all, however the   *)
(* upload was interleaved and whatever failed.                             *)
ListedIsWhole ==
  \A b \in live : \A d \in ToSet(history[b]) \cap docs :
    uploaded[d].keep => linked[d] = 1 .. Len(Chunks(uploaded[d].text))

(* Chunks overlap so that no passage is torn: any passage of at most the   *)
(* overlap's length, from a character that is not blank to another, is     *)
(* found whole in one of the chunks, the blanks inside it too.  Blanks at  *)
(* the ends of a passage may be trimmed away.  In particular no character  *)
(* other than blanks is lost, even with no overlap, and cutting ends.      *)
Passages(t) == {w \in (0 .. Len(t)) \X (0 .. Len(t)) :
                  /\ w[1] < w[2] /\ w[2] - w[1] <= Max({Overlap, 1})
                  /\ ~Blank(t[w[1] + 1]) /\ ~Blank(t[w[2]])}

KeepsPassages(t) ==
  \A w \in Passages(t) : \E c \in ToSet(Chunks(t)) : c[1] <= w[1] /\ w[2] <= c[2]

(* It is about texts and not about states: looking once, before the first  *)
(* request, is enough.                                                     *)
ChunksKeepPassages == requests = 0 => \A t \in Texts : KeepsPassages(t)
=============================================================================
