------------------------------- MODULE Session -------------------------------
(***************************************************************************)
(* SessionManager of the MCP server: conversations kept in the memory of   *)
(* the process, while every tool call on them awaits the memory service.   *)
(* A call is a process with one step per await; a call keeps the session   *)
(* object it found, even when the session is dropped or started again      *)
(* under its id meanwhile.  createMemory finds or creates by content, as   *)
(* MemoryStore models it, so a memory is named here by what it says.       *)
(***************************************************************************)
EXTENDS Naturals, FiniteSetsExt, SequencesExt

CONSTANTS
  Names,        \* session ids
  Calls,        \* tool calls the server handles at one time
  Long,         \* turns of a user that are long enough to be extracted
  Summaries,    \* summaries an agent gives to session_end
  None,         \* nothing
  MaxSessions,  \* open sessions at most (100)
  DropSessions, \* sessions dropped at the limit (10)
  MaxTurns,     \* turns kept per session (200)
  DropTurns,    \* turns dropped at the limit (40)
  MaxExtracts,  \* turns the heuristic extracts at most (5)
  MaxStarts,    \* bound: sessions started in a behaviour
  MaxSaid,      \* bound: turns said in a behaviour
  MaxFaults     \* bound: calls of the memory service that fail

ASSUME SessionAssumption ==
  /\ {MaxSessions, DropSessions, MaxTurns, DropTurns} \subseteq Nat \ {0}
  /\ DropTurns <= MaxTurns
  /\ {MaxExtracts, MaxStarts, MaxSaid, MaxFaults} \subseteq Nat
  /\ None \notin Names /\ None \notin Summaries
  /\ IsFiniteSet(Calls)

VARIABLES
  sessions,   \* the sessions map, from the least to the most recently active
  object,     \* the session objects, by the order of their start
  started,    \* objects created
  owner,      \* the object each turn was said to
  call,       \* the tool call each process handles
  memories,   \* the archives and extracted memories that are stored
  parts,      \* PART_OF relations: what was extracted, and its archive
  faults

store == <<memories, parts>>
vars == <<sessions, object, started, owner, call, store, faults>>

-----------------------------------------------------------------------------
Objects == 1 .. MaxStarts
Turns == 1 .. MaxSaid

Archive == [kind : {"archive"}, name : Names, turns : 0 .. MaxSaid]
           \cup [kind : {"summary"}, text : Summaries]

Extract == [kind : {"fact", "verbatim"}, turn : Turns]  \* from the LLM; as said

Memory == Archive \cup Extract

Call == [pc      : {"idle", "search", "archive", "ingest", "link", "extract",
                    "part", "ended"},
         name    : Names \cup {None},
         obj     : Objects \cup {0},
         archive : Archive \cup {None},
         batch   : SUBSET Turns,             \* turns still to extract
         facts   : SUBSET Turns,             \* facts of the LLM still to link
         taken   : SUBSET Extract,           \* history: linked by this call
         due     : SUBSET Turns]             \* history: LongTurns when it began

IdleCall == [pc |-> "idle", name |-> None, obj |-> 0,
             archive |-> None, batch |-> {}, facts |-> {},
             taken |-> {}, due |-> {}]

Object == [name : Names \cup {None}, turns : Seq(Turns)]

Init ==
  /\ sessions = <<>>
  /\ object = [o \in Objects |-> [name |-> None, turns |-> <<>>]]
  /\ started = 0 /\ faults = 0
  /\ owner = <<>>
  /\ call = [c \in Calls |-> IdleCall]
  /\ memories = {} /\ parts = {}

At(c, pc) == call[c].pc = pc
Become(c, r) == call' = [call EXCEPT ![c] = r]
Finish(c) == Become(c, IdleCall)

Store(m) == /\ memories' = memories \cup {m}
            /\ UNCHANGED <<parts, faults>>

(* A call of the memory service is rejected: the tool call answers with an *)
(* error and the session stays as it is.                                   *)
Fail(c) ==
  /\ ~At(c, "idle") /\ faults < MaxFaults
  /\ faults' = faults + 1
  /\ Finish(c)
  /\ UNCHANGED <<sessions, object, started, owner, store>>

-----------------------------------------------------------------------------
(* startSession: search when a context is asked for, then make room and    *)
(* enter the session.  The working memory it stores last, as addTurn does, *)
(* is not kept: no other call reads it, and if it fails only it is missing. *)

OpenNames == {object[o].name : o \in ToSet(sessions)}
Under(n) == CHOOSE o \in ToSet(sessions) : object[o].name = n
Without(s, n) == RemoveFirstMatch(s, LAMBDA o : object[o].name = n)
Touched(n) == Append(Without(sessions, n), Under(n))

Room == started + Cardinality({c \in Calls : At(c, "search")}) < MaxStarts

StartSearch(c) ==
  /\ At(c, "idle") /\ Room
  /\ \E n \in Names : Become(c, [IdleCall EXCEPT !.pc = "search", !.name = n])
  /\ UNCHANGED <<sessions, object, started, owner, store, faults>>

(* Mutant: one session more than the limit is let in.                      *)
MakeRoomLate ==
  IF Len(sessions) > MaxSessions THEN SubSeq(sessions, DropSessions + 1, Len(sessions))
  ELSE sessions

(* enforceSessionLimits: the sessions idle for longest go, unarchived.     *)
MakeRoom ==
  IF Len(sessions) >= MaxSessions THEN SubSeq(sessions, DropSessions + 1, Len(sessions))
  ELSE sessions

(* An open session under the same id is replaced.                          *)
StartEnter(c, n) ==
  /\ started' = started + 1
  /\ object' = [object EXCEPT ![started + 1] = [name |-> n, turns |-> <<>>]]
  /\ sessions' = Append(Without(MakeRoom, n), started + 1)
  /\ Finish(c)
  /\ UNCHANGED <<owner, store, faults>>

StartNow(c) == At(c, "idle") /\ Room /\ \E n \in Names : StartEnter(c, n)

StartFound(c) == At(c, "search") /\ StartEnter(c, call[c].name)

-----------------------------------------------------------------------------
(* addTurn: the turn enters the session before the call awaits anything.   *)

(* Mutant: the newest turns make room.                                     *)
WithTurnForgetsNewest(turns, t) ==
  Append(IF Len(turns) >= MaxTurns THEN SubSeq(turns, 1, Len(turns) - DropTurns) ELSE turns, t)

WithTurn(turns, t) ==
  Append(IF Len(turns) >= MaxTurns THEN SubSeq(turns, DropTurns + 1, Len(turns)) ELSE turns, t)

AddTurn(c) ==
  /\ At(c, "idle") /\ Len(owner) < MaxSaid
  /\ \E n \in OpenNames :
       LET t == Len(owner) + 1
       IN /\ owner' = Append(owner, Under(n))
          /\ object' = [object EXCEPT ![Under(n)].turns = WithTurn(@, t)]
          /\ sessions' = Touched(n)
  /\ UNCHANGED <<started, call, store, faults>>

(* getContext keeps a session alive and reads memories and its last turns. *)
GetContext(c) ==
  /\ At(c, "idle")
  /\ \E n \in OpenNames : sessions' = Touched(n)
  /\ UNCHANGED <<object, started, owner, call, store, faults>>

-----------------------------------------------------------------------------
(* endSession.                                                             *)

(* Turns are numbered as they are said, which is their order in a session. *)
LongOf(o) == ToSet(object[o].turns) \cap Long

(* Mutant: the newest long turns are taken.                                *)
LastLongTurns(o) ==
  {t \in LongOf(o) : Cardinality({u \in LongOf(o) : u > t}) < MaxExtracts}

(* The heuristic: the first long turns of users, as the session is now.    *)
LongTurns(o) ==
  {t \in LongOf(o) : Cardinality({u \in LongOf(o) : u < t}) < MaxExtracts}

EndOf(c, n) ==
  /\ At(c, "idle") /\ n \in OpenNames
  /\ \E a \in {[kind |-> "archive", name |-> n, turns |-> Len(object[Under(n)].turns)]}
              \cup [kind : {"summary"}, text : Summaries] :
       Become(c, [IdleCall EXCEPT !.pc = "archive", !.name = n, !.obj = Under(n),
                                  !.archive = a,
                                  !.due = LongTurns(Under(n))])
  /\ UNCHANGED <<sessions, object, started, owner, store, faults>>

(* The id is removed, whichever session is open under it by now.           *)
Close(c, r) ==
  /\ sessions' = Without(sessions, r.name)
  /\ Become(c, [r EXCEPT !.pc = "ended"])

Heuristic(c, r) ==
  IF LongTurns(r.obj) = {} THEN Close(c, r)
  ELSE /\ Become(c, [r EXCEPT !.pc = "extract", !.batch = LongTurns(r.obj), !.facts = {}])
       /\ UNCHANGED sessions

(* Then nothing is extracted, or by the heuristic, or by the LLM.          *)
EndArchive(c) ==
  /\ At(c, "archive")
  /\ Store(call[c].archive)
  /\ \/ Close(c, call[c])
     \/ Heuristic(c, call[c])
     \/ /\ Become(c, [call[c] EXCEPT !.pc = "ingest", !.batch = ToSet(object[call[c].obj].turns)])
        /\ UNCHANGED sessions
  /\ UNCHANGED <<object, started, owner>>

Facts(turns) == [kind : {"fact"}, turn : turns]

(* The LLM finds facts in the turns it was given, those of some are        *)
(* stored; or it gives up after some, and the heuristic takes over.        *)
EndIngest(c) ==
  LET r == call[c]
  IN /\ At(c, "ingest")
     /\ \E found \in SUBSET r.batch :
          /\ memories' = memories \cup Facts(found)
          /\ \/ Heuristic(c, r)
             \/ found = {} /\ Close(c, r)
             \/ /\ found # {}
                /\ Become(c, [r EXCEPT !.pc = "link", !.facts = found, !.batch = {}])
                /\ UNCHANGED sessions
     /\ UNCHANGED <<object, started, owner, parts, faults>>

Part(x, a) == [what |-> x, archive |-> a]

EndLink(c) ==
  LET r == call[c]
      x == [kind |-> "fact", turn |-> Min(r.facts)]
      s == [r EXCEPT !.facts = @ \ {x.turn}, !.taken = @ \cup {x}]
  IN /\ At(c, "link")
     /\ \/ /\ parts' = parts \cup {Part(x, r.archive)}
           /\ IF s.facts = {} THEN Close(c, s) ELSE Become(c, s) /\ UNCHANGED sessions
        \/ Heuristic(c, r) /\ UNCHANGED parts
     /\ UNCHANGED <<object, started, owner, memories, faults>>

(* Mutant: the memory is not awaited.                                      *)
EndExtractUnawaited(c) ==
  /\ At(c, "extract")
  /\ Become(c, [call[c] EXCEPT !.pc = "part"])
  /\ UNCHANGED <<sessions, object, started, owner, store, faults>>

EndExtract(c) ==
  /\ At(c, "extract")
  /\ Store([kind |-> "verbatim", turn |-> Min(call[c].batch)])
  /\ Become(c, [call[c] EXCEPT !.pc = "part"])
  /\ UNCHANGED <<sessions, object, started, owner>>

EndPart(c) ==
  LET x == [kind |-> "verbatim", turn |-> Min(call[c].batch)]
      r == [call[c] EXCEPT !.batch = @ \ {x.turn}, !.pc = "extract", !.taken = @ \cup {x}]
  IN /\ At(c, "part")
     /\ parts' = parts \cup {Part(x, r.archive)}
     /\ IF r.batch = {} THEN Close(c, r) ELSE Become(c, r) /\ UNCHANGED sessions
     /\ UNCHANGED <<object, started, owner, memories, faults>>

(* "Session not found": the first thing every call but startSession checks. *)
Unknown == OpenNames # Names /\ UNCHANGED vars

(* The agent has the answer.                                               *)
Answered(c) ==
  /\ At(c, "ended")
  /\ Finish(c)
  /\ UNCHANGED <<sessions, object, started, owner, store, faults>>

-----------------------------------------------------------------------------
(* cleanupStaleSessions: the sessions idle for long enough go.             *)
Cleanup ==
  /\ \E k \in 1 .. Len(sessions) : sessions' = SubSeq(sessions, k + 1, Len(sessions))
  /\ UNCHANGED <<object, started, owner, call, store, faults>>

(* destroy and the end of the process: sessions and calls are gone.        *)
Restart ==
  /\ faults < MaxFaults
  /\ faults' = faults + 1
  /\ sessions' = <<>>
  /\ call' = [c \in Calls |-> IdleCall]
  /\ UNCHANGED <<object, started, owner, store>>

-----------------------------------------------------------------------------
EndStep(c) ==
  EndArchive(c) \/ EndIngest(c) \/ EndLink(c) \/ EndExtract(c) \/ EndPart(c)

Next ==
  \/ \E c \in Calls :
       \/ StartSearch(c) \/ StartNow(c) \/ AddTurn(c) \/ GetContext(c)
       \/ \E n \in Names : EndOf(c, n)
       \/ StartFound(c) \/ EndStep(c) \/ Answered(c) \/ Fail(c)
  \/ Unknown \/ Cleanup \/ Restart

Spec == Init /\ [][Next]_vars

-----------------------------------------------------------------------------
(* Types; an id leads to one object, started under it; relations lead      *)
(* between memories that are stored.                                       *)
TypeOK ==
  /\ sessions \in Seq(1 .. started) /\ OpenNames \subseteq Names
  /\ \A j, k \in DOMAIN sessions :
       object[sessions[j]].name = object[sessions[k]].name => j = k
  /\ object \in [Objects -> Object] /\ started \in 0 .. MaxStarts
  /\ owner \in Seq(1 .. started)
  /\ faults \in Nat
  /\ call \in [Calls -> Call]
  /\ memories \subseteq Memory
  /\ \A p \in parts : p.what \in memories \cap Extract /\ p.archive \in memories \cap Archive

(* However starts interleave with the searches they wait for, there are    *)
(* never more sessions than the limit (enforceSessionLimits runs with the  *)
(* entry, after the await).                                                *)
SessionsBounded == Len(sessions) <= MaxSessions

SaidTo(o) == {t \in DOMAIN owner : owner[t] = o}

(* A session keeps an unbroken run of its newest turns in their order,     *)
(* bounded, and drops no more than DropTurns below the limit (addTurn).    *)
WindowIsRecent ==
  \A o \in 1 .. started :
    LET turns == object[o].turns
        kept  == ToSet(turns)
    IN /\ kept \subseteq SaidTo(o)
       /\ \A j, k \in DOMAIN turns : j < k => turns[j] < turns[k]
       /\ \A t \in SaidTo(o) \ kept, u \in kept : t < u
       /\ Len(turns) <= MaxTurns
       /\ kept # SaidTo(o) => Len(turns) > MaxTurns - DropTurns

(* When endSession answers, the archive is stored and everything extracted *)
(* is related to it, whatever failed and was tried again; and turns said   *)
(* while it ran push no earlier long turn out of the extraction, unless    *)
(* the session was so long that turns have made room for others.           *)
EndedIsComplete ==
  \A c \in Calls :
    LET r == call[c]
        verbatim == {x.turn : x \in {y \in r.taken : y.kind = "verbatim"}}
    IN At(c, "ended") =>
         /\ r.archive \in memories
         /\ \A x \in r.taken : Part(x, r.archive) \in parts
         /\ verbatim # {} /\ SaidTo(r.obj) \subseteq ToSet(object[r.obj].turns)
              => r.due \subseteq verbatim
=============================================================================
