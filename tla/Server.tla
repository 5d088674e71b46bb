-------------------------------- MODULE Server --------------------------------
(***************************************************************************)
(* The API server and the clients that call it.  A call that changes a     *)
(* memory is tried again when its answer is an error of the server, comes  *)
(* too late or is lost, while the handler of the earlier try goes on: each *)
(* try is a request, answered by its handler or by the timeout.  A change  *)
(* is announced to webhooks in the background with retries, and a shutdown *)
(* closes the HTTP server, drains deliveries and leaves the process.  How  *)
(* the change is made, and calls on one memory meet, is in MemoryStore.    *)
(***************************************************************************)
EXTENDS Naturals, FiniteSets

CONSTANTS
  Calls,       \* calls of clients, each of which changes a memory of its own
  MaxTries,    \* requests a client makes for a call (maxRetries + 1)
  Hooks,       \* webhooks that may be registered
  MaxAttempts, \* attempts of a delivery (3)
  MaxAdmin     \* bound: webhooks registered or removed in a behaviour

ASSUME ServerAssumption ==
  /\ IsFiniteSet(Calls) /\ IsFiniteSet(Hooks)
  /\ MaxTries \in Nat \ {0} /\ MaxAttempts \in Nat \ {0} /\ MaxAdmin \in Nat

VARIABLES
  kind,      \* what each call asks for
  there,     \* calls whose memory is stored
  caller,    \* where the client of each call is
  phase,     \* of the process
  request,   \* where the handler of each try is
  answer,    \* what the connection of each try was answered with
  changed,   \* history: tries whose change was made
  hooks,     \* webhooks that are registered and active
  delivery,  \* of each try to each webhook
  received,  \* history: deliveries that reached their webhook
  known,     \* history: webhooks that were registered when a try was announced
  awaited,   \* deliveries that drain awaits
  admins

requestVars == <<request, answer, changed>>
clientVars == <<kind, caller>>
deliveryVars == <<delivery, received, known>>
processVars == <<phase, awaited>>
adminVars == <<hooks, admins>>
vars == <<clientVars, there, requestVars, deliveryVars, processVars, adminVars>>

-----------------------------------------------------------------------------
Requests == Calls \X (1 .. MaxTries)

Deliveries == Requests \X Hooks

(* A delivery that was not dispatched has attempt 0.                       *)
Delivery == [state : {"none", "sending", "waiting", "done", "failed"},
             attempt : 0 .. MaxAttempts]

NoDelivery == [state |-> "none", attempt |-> 0]

(* In inflight until deliver returns.                                      *)
InFlight == {d \in Deliveries : delivery[d].state \in {"sending", "waiting"}}

Caller == [state : {"new", "asking", "pausing", "told"}, try : 0 .. MaxTries,
           told : {"nothing", "success", "refused", "failed"}]

NewCaller == [state |-> "new", try |-> 0, told |-> "nothing"]

Up == phase # "exited"

Init ==
  /\ kind \in [Calls -> {"create", "update", "delete", "invalid"}]
  /\ there \in SUBSET Calls
  /\ caller = [c \in Calls |-> NewCaller]
  /\ phase = "up" /\ awaited = {}
  /\ request = [r \in Requests |-> "none"]
  /\ answer = [r \in Requests |-> "none"]
  /\ changed = {}
  /\ hooks \in SUBSET Hooks /\ admins = 0
  /\ delivery = [d \in Deliveries |-> NoDelivery]
  /\ received = {} /\ known = [r \in Requests |-> {}]

-----------------------------------------------------------------------------
(* The client: fetchWithRetry.                                             *)

This(c) == <<c, caller[c].try>>

Told(c, what) ==
  caller' = [caller EXCEPT ![c].state = "told", ![c].told = what]

(* An error that may pass: pause and try again, or give up.                *)
FailedTry(c, k) ==
  caller' = [caller EXCEPT ![c] =
    IF k < MaxTries THEN [state |-> "pausing", try |-> k, told |-> "nothing"]
    ELSE [state |-> "told", try |-> k, told |-> "failed"]]

(* A server that is closing refuses the connection.                        *)
Ask(c) ==
  LET k == caller[c].try + 1
  IN /\ caller[c].state \in {"new", "pausing"}
     /\ IF phase = "up"
          THEN /\ request' = [request EXCEPT ![<<c, k>>] = "handling"]
               /\ caller' = [caller EXCEPT ![c].state = "asking", ![c].try = k]
          ELSE FailedTry(c, k) /\ UNCHANGED request
     /\ UNCHANGED <<kind, there, answer, changed, deliveryVars, processVars, adminVars>>

Hear(c) ==
  /\ caller[c].state = "asking"
  /\ \/ answer[This(c)] \in {"success", "refused"} /\ Told(c, answer[This(c)])
     \/ answer[This(c)] \in {"error", "timeout"} /\ FailedTry(c, caller[c].try)
  /\ UNCHANGED <<kind, there, requestVars, deliveryVars, processVars, adminVars>>

(* The client's own timeout, or the network: the connection ends, with or  *)
(* without an answer on its way.  The handler does not notice.             *)
Lost(c) ==
  /\ caller[c].state = "asking"
  /\ answer' = [answer EXCEPT ![This(c)] = IF @ = "none" THEN "gone" ELSE @]
  /\ FailedTry(c, caller[c].try)
  /\ UNCHANGED <<kind, there, request, changed, deliveryVars, processVars, adminVars>>

-----------------------------------------------------------------------------
(* The handlers.                                                           *)

(* A create finds or makes its memory.                                     *)
Possible(c) == \/ kind[c] = "create"
               \/ kind[c] \in {"update", "delete"} /\ c \in there

Make(r) ==
  /\ there' = IF kind[r[1]] = "delete" THEN there \ {r[1]} ELSE there \cup {r[1]}
  /\ changed' = changed \cup {r}

(* Mutant: the event is emitted although the timeout has answered.         *)
ChangesAnyway(r) ==
  /\ Up /\ request[r] = "handling" /\ Possible(r[1])
  /\ Make(r)
  /\ request' = [request EXCEPT ![r] = "announcing"]
  /\ answer' = [answer EXCEPT ![r] = IF @ = "none" THEN "success" ELSE @]
  /\ UNCHANGED <<clientVars, deliveryVars, processVars, adminVars>>

(* Mutant: the answer does not wait for the change.                        *)
ChangesUnawaited(r) ==
  /\ Up /\ request[r] = "handling" /\ Possible(r[1])
  /\ request' = [request EXCEPT ![r] = "announcing"]
  /\ answer' = [answer EXCEPT ![r] = IF @ = "none" THEN "success" ELSE @]
  /\ UNCHANGED <<clientVars, there, changed, deliveryVars, processVars, adminVars>>

(* The service call returns.  An answer to a connection that is gone goes  *)
(* nowhere; after the timeout has answered, answering throws, and what     *)
(* follows in the handler is not reached.                                  *)
Changes(r) ==
  /\ Up /\ request[r] = "handling" /\ Possible(r[1])
  /\ Make(r)
  /\ request' = [request EXCEPT ![r] = IF answer[r] = "timeout" THEN "over" ELSE "announcing"]
  /\ answer' = [answer EXCEPT ![r] = IF @ = "none" THEN "success" ELSE @]
  /\ UNCHANGED <<clientVars, deliveryVars, processVars, adminVars>>

Ends(r, what) ==
  /\ request' = [request EXCEPT ![r] = "over"]
  /\ answer' = [answer EXCEPT ![r] = IF @ = "none" THEN what ELSE @]
  /\ UNCHANGED <<clientVars, deliveryVars, processVars, adminVars>>

(* Not valid, or not found.                                                *)
Refuses(r) ==
  /\ Up /\ request[r] = "handling" /\ ~Possible(r[1])
  /\ Ends(r, "refused")
  /\ UNCHANGED <<there, changed>>

(* The service call throws, before or after a store was changed.           *)
Throws(r) ==
  /\ Up /\ request[r] = "handling" /\ kind[r[1]] # "invalid"
  /\ Ends(r, "error")
  /\ \/ UNCHANGED <<there, changed>>
     \/ Possible(r[1]) /\ Make(r)

(* Mutant: a timeout that only looks at requests which no handler has.     *)
TimesOutIdle(r) ==
  /\ Up /\ request[r] = "over" /\ answer[r] = "none"
  /\ answer' = [answer EXCEPT ![r] = "timeout"]
  /\ UNCHANGED <<clientVars, there, request, changed, deliveryVars, processVars, adminVars>>

(* timeoutMiddleware: the client is answered, the handler goes on.         *)
TimesOut(r) ==
  /\ Up /\ request[r] = "handling" /\ answer[r] = "none"
  /\ answer' = [answer EXCEPT ![r] = "timeout"]
  /\ UNCHANGED <<clientVars, there, request, changed, deliveryVars, processVars, adminVars>>

-----------------------------------------------------------------------------
(* WebhookService.                                                         *)

Register(h) ==
  /\ Up /\ admins < MaxAdmin /\ admins' = admins + 1
  /\ hooks' = hooks \cup {h}
  /\ UNCHANGED <<clientVars, there, requestVars, deliveryVars, processVars>>

Remove(h) ==
  /\ Up /\ admins < MaxAdmin /\ admins' = admins + 1
  /\ h \in hooks /\ hooks' = hooks \ {h}
  /\ UNCHANGED <<clientVars, there, requestVars, deliveryVars, processVars>>

(* emit has read the webhooks: one delivery to each, in the background.    *)
Emit(r) ==
  /\ Up /\ request[r] = "announcing"
  /\ request' = [request EXCEPT ![r] = "over"]
  /\ known' = [known EXCEPT ![r] = hooks]
  /\ delivery' = [d \in Deliveries |->
                   IF d[1] = r /\ d[2] \in hooks THEN [state |-> "sending", attempt |-> 1]
                   ELSE delivery[d]]
  /\ UNCHANGED <<clientVars, there, answer, changed, received, processVars, adminVars>>

(* The read fails: nothing is announced.                                   *)
EmitFails(r) ==
  /\ Up /\ request[r] = "announcing"
  /\ request' = [request EXCEPT ![r] = "over"]
  /\ UNCHANGED <<clientVars, there, answer, changed, deliveryVars, processVars, adminVars>>

Deliver(d, state) == delivery' = [delivery EXCEPT ![d].state = state]

Accepted(d) ==
  /\ Up /\ delivery[d].state = "sending"
  /\ received' = received \cup {d}
  /\ Deliver(d, "done")
  /\ UNCHANGED <<clientVars, there, requestVars, known, processVars, adminVars>>

(* Mutant: gives up one attempt early.                                     *)
FailedEarly(d) ==
  /\ Up /\ delivery[d].state = "sending"
  /\ received' \in {received, received \cup {d}}
  /\ Deliver(d, IF delivery[d].attempt + 1 < MaxAttempts THEN "waiting" ELSE "failed")
  /\ UNCHANGED <<clientVars, there, requestVars, known, processVars, adminVars>>

(* No answer in time, or not a good one; the webhook may have got it.      *)
Failed(d) ==
  /\ Up /\ delivery[d].state = "sending"
  /\ received' \in {received, received \cup {d}}
  /\ Deliver(d, IF delivery[d].attempt < MaxAttempts THEN "waiting" ELSE "failed")
  /\ UNCHANGED <<clientVars, there, requestVars, known, processVars, adminVars>>

(* Mutant: the backoff before the last attempt never ends.                 *)
RetryShort(d) ==
  /\ Up /\ delivery[d].state = "waiting" /\ delivery[d].attempt + 1 < MaxAttempts
  /\ delivery' = [delivery EXCEPT ![d] = [state |-> "sending", attempt |-> @.attempt + 1]]
  /\ UNCHANGED <<clientVars, there, requestVars, received, known, processVars, adminVars>>

(* The backoff is over; that the webhook was removed is not looked up.     *)
Retry(d) ==
  /\ Up /\ delivery[d].state = "waiting"
  /\ delivery' = [delivery EXCEPT ![d] = [state |-> "sending", attempt |-> @.attempt + 1]]
  /\ UNCHANGED <<clientVars, there, requestVars, received, known, processVars, adminVars>>

-----------------------------------------------------------------------------
(* shutdown, on a signal; a second signal changes nothing.                 *)
Shutdown ==
  /\ phase = "up" /\ phase' = "closing"
  /\ UNCHANGED <<clientVars, there, requestVars, deliveryVars, awaited, adminVars>>

(* httpServer.close ends when every request under way has its answer; then *)
(* drain takes the deliveries in flight.                                   *)
Closed ==
  /\ phase = "closing"
  /\ \A r \in Requests : request[r] # "none" => answer[r] # "none"
  /\ phase' = "draining"
  /\ awaited' = InFlight
  /\ UNCHANGED <<clientVars, there, requestVars, deliveryVars, adminVars>>

Drained ==
  /\ phase = "draining" /\ awaited \cap InFlight = {}
  /\ phase' = "disconnecting"
  /\ UNCHANGED <<clientVars, there, requestVars, deliveryVars, awaited, adminVars>>

(* The other side of the race: five seconds are over.                      *)
Hurry ==
  /\ phase = "draining"
  /\ phase' = "disconnecting"
  /\ UNCHANGED <<clientVars, there, requestVars, deliveryVars, awaited, adminVars>>

(* memoryService.disconnect has ended or failed: process.exit.             *)
Exit ==
  /\ phase = "disconnecting" /\ phase' = "exited"
  /\ UNCHANGED <<clientVars, there, requestVars, deliveryVars, awaited, adminVars>>

-----------------------------------------------------------------------------
Client(c) == Ask(c) \/ Hear(c) \/ Lost(c)

Handle(r) == \/ Changes(r) \/ Refuses(r) \/ Throws(r) \/ TimesOut(r)
             \/ Emit(r) \/ EmitFails(r)

Attempt(d) == Accepted(d) \/ Failed(d) \/ Retry(d)

Leave == Closed \/ Drained \/ Hurry \/ Exit

(* A process that has left stays so.                                       *)
Gone == phase = "exited" /\ UNCHANGED vars

Next ==
  \/ \E c \in Calls : Client(c)
  \/ \E r \in Requests : Handle(r)
  \/ \E h \in Hooks : Register(h) \/ Remove(h)
  \/ \E d \in Deliveries : Attempt(d)
  \/ Shutdown \/ Leave \/ Gone

Spec == Init /\ [][Next]_vars

(* Timers fire: the timeout of a request, the pause before the next try,   *)
(* the abort and the backoff of a delivery, the timer of the shutdown.     *)
(* The read of emit settles.  Calls of handlers need not, as a service may *)
(* hang, nor does a client give up by itself.                              *)
Fairness ==
  /\ \A c \in Calls : WF_vars(Ask(c) /\ caller[c].state = "pausing") /\ WF_vars(Hear(c))
  /\ \A r \in Requests : WF_vars(TimesOut(r)) /\ WF_vars(Emit(r) \/ EmitFails(r))
  /\ \A d \in Deliveries : WF_vars(Attempt(d))
  /\ WF_vars(Leave)

FairSpec == Spec /\ Fairness

-----------------------------------------------------------------------------
(* Types; what was dispatched has used its attempts one after another, and *)
(* gives up only after the last.                                           *)
TypeOK ==
  /\ kind \in [Calls -> {"create", "update", "delete", "invalid"}]
  /\ there \subseteq Calls
  /\ caller \in [Calls -> Caller]
  /\ phase \in {"up", "closing", "draining", "disconnecting", "exited"}
  /\ request \in [Requests -> {"none", "handling", "announcing", "over"}]
  /\ answer \in [Requests -> {"none", "success", "refused", "error", "timeout", "gone"}]
  /\ changed \subseteq Requests /\ hooks \subseteq Hooks
  /\ delivery \in [Deliveries -> Delivery]
  /\ received \subseteq Deliveries /\ awaited \subseteq Deliveries
  /\ known \in [Requests -> SUBSET Hooks]
  /\ admins \in 0 .. MaxAdmin
  /\ \A d \in Deliveries : /\ delivery[d].state = "none" <=> delivery[d].attempt = 0
                           /\ delivery[d].state = "failed" => delivery[d].attempt = MaxAttempts

(* A webhook hears only of changes that were made, and never of one whose  *)
(* client was answered with an error or the timeout, only when registered  *)
(* as the change was announced, whatever is removed and retried later.     *)
HeardIsTrue ==
  \A d \in received : /\ d[1] \in changed /\ answer[d[1]] \in {"success", "gone"}
                      /\ d[2] \in known[d[1]]

(* What a client is told in the end is true, however its tries overlap and *)
(* whichever of them were lost: success, the memory is as it was asked     *)
(* for; refused, no try has changed anything, unless an earlier try of a   *)
(* delete did and the client did not hear of it.                           *)
ToldIsTrue ==
  \A c \in Calls :
    LET made == {k \in 1 .. MaxTries : <<c, k>> \in changed}
    IN /\ caller[c].told = "success" =>
            caller[c].try \in made /\ (c \in there <=> kind[c] # "delete")
       /\ caller[c].told = "refused" =>
            \/ made = {}
            \/ kind[c] = "delete" /\ \E k \in made : k < caller[c].try

(* A shutdown ends, although handlers hang and webhooks do not answer: the *)
(* timeout answers every request, deliveries abort, the timer fires.  That *)
(* the telemetry flush and the disconnects from the databases settle is    *)
(* assumed (Leave is fair): the code awaits them without a timeout.        *)
ShutdownEnds == phase = "closing" ~> phase = "exited"

Settled(r) == request[r] = "over" /\ \A h \in known[r] : <<r, h>> \notin InFlight

(* A call that was begun is followed through: its client is told what came *)
(* of it, and if that is success, every webhook that is known gets the     *)
(* event or all its attempts fail, unless the process leaves first.        *)
FollowedThrough ==
  \A c \in Calls :
    caller[c].state = "asking" ~>
      \/ caller[c].state = "told" /\ (caller[c].told = "success" => Settled(This(c)))
      \/ phase = "exited"
=============================================================================
