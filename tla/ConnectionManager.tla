--------------------------- MODULE ConnectionManager ---------------------------
(***************************************************************************)
(* The connection to SurrealDB: ConnectionManager over the connect and     *)
(* disconnect of SurrealDBAdapter.  Callers connect (every service call    *)
(* does, through ensureConnected) and disconnect; a health check runs on   *)
(* an interval and hands a failing connection to a reconnect loop, a chain *)
(* of timers.  Steps end where the code awaits a socket or a timer.        *)
(***************************************************************************)
EXTENDS Naturals

CONSTANTS
  Callers,      \* calls of connect() or disconnect() under way at one time
  Slots,        \* bound: reconnect loops alive at one time
  NoTimer,         \* no timer
  MaxAttempts,  \* maxReconnectAttempts
  MaxChecks,    \* bound: health checks under way at one time
  MaxStrays     \* bound: adapter connects that no manager call awaits

ASSUME ConnectionAssumption ==
  /\ MaxAttempts \in Nat /\ MaxChecks \in Nat /\ MaxStrays \in Nat
  /\ NoTimer \notin Slots

VARIABLES
  state,      \* ConnectionState
  attempts,   \* reconnectAttempts
  health,     \* healthCheckTimer: set or null
  checks,     \* health checks under way; clearInterval does not stop them
  loop,       \* each reconnect loop: waiting for its timer, closing, opening
  handle,     \* the loop whose timer reconnectTimer holds
  call,       \* what each caller awaits
  link,       \* the adapter's socket: see Links
  strays      \* adapter connects whose manager call is gone, or never was

manager == <<state, attempts, health>>
adapter == <<link, strays>>
cmVars == <<manager, checks, loop, handle, call, adapter>>

States == {"disconnected", "connecting", "connected", "reconnecting", "failed"}

(* The adapter's flag "connected" is set in all but closed: it is set by a *)
(* successful open and cleared by a successful close, and by nothing else. *)
(* broken: lost without a close; found: and a health check failed on it.   *)
Links == {"closed", "open", "broken", "found"}

flag == link # "closed"

CMInit ==
  /\ state = "disconnected" /\ attempts = 0 /\ health = "null" /\ checks = 0
  /\ loop = [l \in Slots |-> "idle"] /\ handle = NoTimer
  /\ call = [p \in Callers |-> "idle"]
  /\ link = "closed" /\ strays = 0

-----------------------------------------------------------------------------
(* The adapter.  With its flag set, connect returns at once; disconnect    *)
(* with the flag clear does nothing.                                       *)

Opens == link' = "open"

Closes == link' = "closed"

(* attemptConnection races the adapter with a timeout: after the timeout,  *)
(* the adapter goes on opening.                                            *)
AttemptSucceeds == Opens /\ UNCHANGED strays

AttemptFails ==
  /\ UNCHANGED link
  /\ \/ UNCHANGED strays
     \/ strays < MaxStrays /\ strays' = strays + 1

(* Every operation of the adapter, the health check's count included,      *)
(* opens the connection when the flag is clear.                            *)
OperationOpens ==
  /\ ~flag /\ strays < MaxStrays
  /\ strays' = strays + 1
  /\ UNCHANGED <<manager, checks, loop, handle, call, link>>

StrayEnds ==
  /\ strays > 0
  /\ strays' = strays - 1
  /\ Opens \/ UNCHANGED link
  /\ UNCHANGED <<manager, checks, loop, handle, call>>

(* The client library opens a lost socket again by itself.                 *)
LinkChanges ==
  /\ \/ link = "open" /\ link' = "broken"
     \/ link \in {"broken", "found"} /\ link' = "open"
  /\ UNCHANGED <<manager, checks, loop, handle, call, strays>>

-----------------------------------------------------------------------------
(* connect() and disconnect()                                              *)

(* Mutant: the health check is not started.                                *)
ConnectedUnwatched ==
  state' = "connected" /\ attempts' = 0 /\ UNCHANGED health

Connected == state' = "connected" /\ attempts' = 0 /\ health' = "set"

Calls(p, pc) == call' = [call EXCEPT ![p] = pc]

(* In state connected the call returns, in connecting it polls the state   *)
(* until another call changed it: neither changes anything.                *)
Connect(p) ==
  /\ call[p] = "idle" /\ state \notin {"connected", "connecting"}
  /\ state' = "connecting"
  /\ Calls(p, IF flag THEN "noop" ELSE "opening")
  /\ UNCHANGED <<attempts, health, checks, loop, handle, adapter>>

(* Mutant: a failed attempt leaves the state alone.                        *)
ConnectEndsSilently(p) ==
  /\ Calls(p, "idle")
  /\ \/ call[p] = "noop" /\ Connected /\ UNCHANGED adapter
     \/ call[p] = "opening" /\ AttemptSucceeds /\ Connected
     \/ call[p] = "opening" /\ AttemptFails /\ UNCHANGED manager
  /\ UNCHANGED <<checks, loop, handle>>

ConnectEnds(p) ==
  /\ Calls(p, "idle")
  /\ \/ call[p] = "noop" /\ Connected /\ UNCHANGED adapter
     \/ call[p] = "opening" /\ AttemptSucceeds /\ Connected
     \/ /\ call[p] = "opening" /\ AttemptFails
        /\ state' = "failed" /\ UNCHANGED <<attempts, health>>
  /\ UNCHANGED <<checks, loop, handle>>

(* clearTimeout reaches the timer that reconnectTimer holds, and only      *)
(* while it is pending.                                                    *)
StopReconnectTimer ==
  /\ loop' = [l \in Slots |-> IF l = handle /\ loop[l] = "timer" THEN "idle" ELSE loop[l]]
  /\ handle' = NoTimer

Disconnect(p) ==
  /\ call[p] = "idle"
  /\ health' = "null"
  /\ StopReconnectTimer
  /\ IF state = "disconnected" THEN UNCHANGED call
     ELSE Calls(p, IF flag THEN "closing" ELSE "leaving")
  /\ UNCHANGED <<state, attempts, checks, adapter>>

(* "finally": the state changes even when closing the socket fails.        *)
DisconnectEnds(p) ==
  /\ Calls(p, "idle")
  /\ \/ call[p] = "closing" /\ Closes
     \/ call[p] \in {"closing", "leaving"} /\ UNCHANGED link
  /\ state' = "disconnected"
  /\ UNCHANGED <<attempts, health, checks, loop, handle, strays>>

-----------------------------------------------------------------------------
(* Health checks and reconnect loops                                       *)

CheckStarts ==
  /\ health = "set" /\ checks < MaxChecks
  /\ checks' = checks + 1
  /\ UNCHANGED <<manager, loop, handle, call, adapter>>

CheckSucceeds ==
  /\ checks > 0 /\ link = "open"
  /\ checks' = checks - 1
  /\ UNCHANGED <<manager, loop, handle, call, adapter>>

SetTimer(l) == loop' = [loop EXCEPT ![l] = "timer"] /\ handle' = l

(* scheduleReconnect with the first attemptReconnect, in one turn: a loop  *)
(* that still waits for its timer stays alive, but its timer is forgotten. *)
ScheduleReconnect ==
  IF state = "reconnecting" THEN UNCHANGED <<manager, loop, handle>>
  ELSE /\ health' = "null"
       /\ attempts' = attempts + 1
       /\ IF attempts' > MaxAttempts
            THEN state' = "failed" /\ UNCHANGED <<loop, handle>>
            ELSE /\ state' = "reconnecting"
                 /\ \E l \in Slots : loop[l] = "idle" /\ SetTimer(l)

CheckFails ==
  /\ checks > 0
  /\ checks' = checks - 1
  /\ ScheduleReconnect
  /\ link' = IF link = "broken" THEN "found" ELSE link
  /\ UNCHANGED <<call, strays>>

Goes(l, pc) == loop' = [loop EXCEPT ![l] = pc] /\ UNCHANGED handle

TimerFires(l) ==
  /\ loop[l] = "timer"
  /\ Goes(l, IF flag THEN "closing" ELSE "opening")
  /\ UNCHANGED <<manager, checks, call, adapter>>

(* A failing close is swallowed; with the flag still set, the connect that *)
(* follows returns at once.                                                *)
LoopCloses(l) ==
  /\ loop[l] = "closing"
  /\ \/ Closes /\ Goes(l, "opening") /\ UNCHANGED manager
     \/ ~flag /\ Goes(l, "opening") /\ UNCHANGED <<manager, link>>
     \/ flag /\ Goes(l, "idle") /\ Connected /\ UNCHANGED link
  /\ UNCHANGED <<checks, call, strays>>

(* Mutant: after the last attempt the state is left alone.                 *)
LoopEndsSilently(l) ==
  /\ loop[l] = "opening"
  /\ \/ AttemptSucceeds /\ Connected /\ Goes(l, "idle")
     \/ /\ AttemptFails
        /\ IF attempts < MaxAttempts
             THEN attempts' = attempts + 1 /\ SetTimer(l) /\ UNCHANGED state
             ELSE Goes(l, "idle") /\ UNCHANGED <<state, attempts>>
        /\ UNCHANGED health
  /\ UNCHANGED <<checks, call>>

(* Mutant: the attempts of this loop only are compared.                    *)
LoopOpensForever(l) ==
  /\ loop[l] = "opening"
  /\ \/ AttemptSucceeds /\ Connected /\ Goes(l, "idle")
     \/ /\ AttemptFails
        /\ IF handle = l
             THEN attempts' = attempts + 1 /\ SetTimer(l) /\ UNCHANGED state
             ELSE state' = "failed" /\ Goes(l, "idle") /\ UNCHANGED attempts
        /\ UNCHANGED health
  /\ UNCHANGED <<checks, call>>

LoopOpens(l) ==
  /\ loop[l] = "opening"
  /\ \/ AttemptSucceeds /\ Connected /\ Goes(l, "idle")
     \/ /\ AttemptFails
        /\ IF attempts < MaxAttempts
             THEN attempts' = attempts + 1 /\ SetTimer(l) /\ UNCHANGED state
             ELSE state' = "failed" /\ Goes(l, "idle") /\ UNCHANGED attempts
        /\ UNCHANGED health
  /\ UNCHANGED <<checks, call>>

-----------------------------------------------------------------------------
CallerNext == \E p \in Callers :
  Connect(p) \/ ConnectEnds(p) \/ Disconnect(p) \/ DisconnectEnds(p)

LoopNext == \E l \in Slots : TimerFires(l) \/ LoopCloses(l) \/ LoopOpens(l)

CMNext == CallerNext \/ LoopNext \/ CheckStarts \/ CheckSucceeds \/ CheckFails
        \/ OperationOpens \/ StrayEnds \/ LinkChanges

CMSpec == CMInit /\ [][CMNext]_cmVars

(* The event loop fires due timers, and closing and opening a socket end:  *)
(* attemptConnection has a timeout, and a close waits for no answer.       *)
CMFairness ==
  /\ \A p \in Callers : WF_cmVars(ConnectEnds(p)) /\ WF_cmVars(DisconnectEnds(p))
  /\ \A l \in Slots : WF_cmVars(TimerFires(l)) /\ WF_cmVars(LoopCloses(l))
                      /\ WF_cmVars(LoopOpens(l))

CMFairSpec == CMSpec /\ CMFairness

-----------------------------------------------------------------------------
(* The types of the manager's and the adapter's fields.  However many      *)
(* loops are alive, maxReconnectAttempts is exceeded only by health checks *)
(* that were under way when they were stopped.                             *)
CMTypeOK ==
  /\ state \in States /\ link \in Links /\ health \in {"null", "set"}
  /\ attempts \in 0 .. MaxAttempts + MaxChecks
  /\ checks \in 0 .. MaxChecks /\ strays \in 0 .. MaxStrays
  /\ loop \in [Slots -> {"idle", "timer", "closing", "opening"}]
  /\ handle \in Slots \cup {NoTimer}
  /\ call \in [Callers -> {"idle", "opening", "noop", "closing", "leaving"}]

Leaving == \E p \in Callers : call[p] \in {"closing", "leaving"}

(* A connection reported as connected is watched by a health check, unless *)
(* a caller is disconnecting: whatever timers, late answers and callers do *)
(* to the state, the next failure of the link will be noticed.             *)
Supervised == state = "connected" => health = "set" \/ Leaving

(* connecting and reconnecting are never left to nobody.  A caller that    *)
(* finds connecting waits, and a failing check that finds reconnecting     *)
(* does nothing: each relies on someone else who will change the state.    *)
ProgressOwned ==
  /\ state = "connecting" => \E p \in Callers : call[p] \in {"opening", "noop"}
  /\ state = "reconnecting" => Leaving \/ \E l \in Slots : loop[l] # "idle"

(* A connection that is being watched has used no more than its attempts:  *)
(* its next failure is answered with a retry unless they are all used up.  *)
WatchedHasAttempts == health = "set" => attempts <= MaxAttempts

(* Reconnecting ends: connected again, given up, or disconnected.          *)
RetryEnds == state = "reconnecting" ~> state # "reconnecting"
=============================================================================
