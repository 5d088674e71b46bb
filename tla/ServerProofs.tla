------------------------------ MODULE ServerProofs ------------------------------
(***************************************************************************)
(* Theorems about Server, for any number of calls, tries, webhooks and     *)
(* attempts.                                                               *)
(***************************************************************************)
EXTENDS Server, TLAPS

(* A try exists once its client has made it; what became of it, its answer *)
(* and its change hang together.                                           *)
Made(c) == \E k \in 1 .. MaxTries : <<c, k>> \in changed

TriesOK ==
  \A c \in Calls, k \in 1 .. MaxTries :
    LET r == <<c, k>>
    IN /\ k > caller[c].try => request[r] = "none"
       /\ request[r] = "none" => answer[r] = "none" /\ r \notin changed
       /\ request[r] = "handling" => answer[r] \in {"none", "timeout", "gone"} /\ r \notin changed
       /\ request[r] = "announcing" => r \in changed /\ answer[r] \in {"success", "gone"}
       /\ answer[r] = "success" => r \in changed
       /\ answer[r] = "refused" => r \notin changed

(* Tries of one call agree on its memory: an update never finds it and     *)
(* misses it, a delete leaves it gone.                                     *)
EffectOK ==
  \A c \in Calls :
    /\ Made(c) => kind[c] # "invalid" /\ (c \in there <=> kind[c] # "delete")
    /\ \A k \in 1 .. MaxTries :
         answer[<<c, k>>] = "refused" =>
           kind[c] = "invalid" \/ (kind[c] \in {"update", "delete"} /\ c \notin there)

CallersOK ==
  \A c \in Calls :
    /\ caller[c].state # "new" => caller[c].try \in 1 .. MaxTries
    /\ caller[c].state = "new" => caller[c].try = 0
    /\ caller[c].state = "pausing" => caller[c].try < MaxTries
    /\ caller[c].state = "asking" => request[This(c)] # "none"
    /\ caller[c].told = "success" => answer[This(c)] = "success" /\ caller[c].state = "told"
    /\ caller[c].told = "refused" => answer[This(c)] = "refused" /\ caller[c].state = "told"

(* A delivery belongs to a change that was announced.                      *)
DeliveriesOK ==
  \A d \in Deliveries :
    /\ delivery[d].state # "none" \/ d \in received =>
         /\ request[d[1]] = "over" /\ d[1] \in changed
         /\ answer[d[1]] \in {"success", "gone"} /\ d[2] \in known[d[1]]
    /\ delivery[d].state = "waiting" => delivery[d].attempt < MaxAttempts

Inv == TypeOK /\ TriesOK /\ EffectOK /\ CallersOK /\ DeliveriesOK

-----------------------------------------------------------------------------
(* The initial states, and the steps that leave calls and deliveries alone. *)

LEMMA InitInv == Init => Inv
<1> SUFFICES ASSUME Init PROVE Inv
  OBVIOUS
<1> USE ServerAssumption DEF Init
<1>1. NewCaller \in Caller
  BY DEF NewCaller, Caller
<1>2. NoDelivery \in Delivery
  BY DEF NoDelivery, Delivery
<1>3. TypeOK
  <2>1. /\ kind \in [Calls -> {"create", "update", "delete", "invalid"}]
        /\ there \subseteq Calls
        /\ caller \in [Calls -> Caller]
        /\ request \in [Requests -> {"none", "handling", "announcing", "over"}]
        /\ answer \in [Requests -> {"none", "success", "refused", "error", "timeout", "gone"}]
    BY <1>1
  <2>2. /\ phase \in {"up", "closing", "draining", "disconnecting", "exited"}
        /\ changed \subseteq Requests /\ hooks \subseteq Hooks
        /\ received \subseteq Deliveries /\ awaited \subseteq Deliveries
        /\ known \in [Requests -> SUBSET Hooks]
        /\ admins \in 0 .. MaxAdmin
    OBVIOUS
  <2>3. delivery \in [Deliveries -> Delivery]
    BY <1>2
  <2>4. \A d \in Deliveries : delivery[d].state = "none" /\ delivery[d].attempt = 0
    BY DEF NoDelivery
  <2>5. "none" # "failed"
    OBVIOUS
  <2> HIDE DEF Init
  <2> QED
    BY <2>1, <2>2, <2>3, <2>4, <2>5 DEF TypeOK
<1>4. TriesOK
  BY DEF TriesOK, Requests
<1>5. EffectOK
  BY DEF EffectOK, Made, Requests
<1>6. CallersOK
  BY DEF CallersOK, NewCaller
<1>7. DeliveriesOK
  BY DEF DeliveriesOK, NoDelivery
<1> QED
  BY <1>3, <1>4, <1>5, <1>6, <1>7 DEF Inv

LEMMA FrameInv ==
  ASSUME Inv, UNCHANGED <<clientVars, there, requestVars, deliveryVars>>,
         phase' \in {"up", "closing", "draining", "disconnecting", "exited"},
         awaited' \subseteq Deliveries, hooks' \subseteq Hooks, admins' \in 0 .. MaxAdmin
  PROVE  Inv'
<1> USE DEF Inv, clientVars, requestVars, deliveryVars
<1>1. TypeOK'
  BY DEF TypeOK
<1>2. TriesOK'
  BY DEF TriesOK
<1>3. EffectOK'
  BY DEF EffectOK, Made
<1>4. CallersOK'
  BY DEF CallersOK, This
<1>5. DeliveriesOK'
  BY DEF DeliveriesOK
<1> QED
  BY <1>1, <1>2, <1>3, <1>4, <1>5

LEMMA ProcessInv ==
  ASSUME Inv, Shutdown \/ Leave \/ \E h \in Hooks : Register(h) \/ Remove(h)
  PROVE  Inv'
<1> USE ServerAssumption
<1>0. TypeOK
  BY DEF Inv
<1>1. CASE Shutdown
  BY <1>0, <1>1, FrameInv DEF Shutdown, adminVars, TypeOK
<1>2. CASE Closed
  <2>1. InFlight \subseteq Deliveries
    BY DEF InFlight
  <2> QED
    BY <1>0, <1>2, <2>1, FrameInv DEF Closed, adminVars, TypeOK
<1>3. CASE Drained \/ Hurry \/ Exit
  BY <1>0, <1>3, FrameInv DEF Drained, Hurry, Exit, adminVars, TypeOK
<1>4. ASSUME NEW h \in Hooks, Register(h) \/ Remove(h)
      PROVE  Inv'
  <2>1. /\ admins < MaxAdmin /\ admins' = admins + 1
        /\ hooks' = hooks \cup {h} \/ hooks' = hooks \ {h}
    BY <1>4 DEF Register, Remove
  <2>2. admins' \in 0 .. MaxAdmin /\ hooks' \subseteq Hooks
    <3>1. admins \in 0 .. MaxAdmin /\ hooks \subseteq Hooks /\ MaxAdmin \in Nat
      BY <1>0 DEF TypeOK
    <3>2. admins' \in 0 .. MaxAdmin
      BY <2>1, <3>1
    <3>3. hooks' \subseteq Hooks
      BY <2>1, <3>1
    <3> QED
      BY <3>2, <3>3
  <2> QED
    BY <1>0, <1>4, <2>2, FrameInv DEF Register, Remove, processVars, TypeOK
<1> QED
  BY <1>1, <1>2, <1>3, <1>4 DEF Leave

-----------------------------------------------------------------------------
(* The deliveries.                                                         *)

LEMMA AttemptInv ==
  ASSUME Inv, NEW d \in Deliveries, Attempt(d)
  PROVE  Inv'
<1> DEFINE e == delivery'[d]
<1> USE ServerAssumption
<1>0. TypeOK /\ TriesOK /\ EffectOK /\ CallersOK /\ DeliveriesOK
  BY DEF Inv
<1>1. UNCHANGED <<clientVars, there, requestVars, known, processVars, adminVars>>
  BY DEF Attempt, Accepted, Failed, Retry
<1>2. /\ delivery[d] \in Delivery /\ delivery[d].state # "none"
      /\ delivery[d].attempt # 0
  BY <1>0 DEF Attempt, Accepted, Failed, Retry, TypeOK
<1>3. /\ e \in Delivery /\ e.state # "none" /\ e.attempt # 0
      /\ e.state = "failed" => e.attempt = MaxAttempts
      /\ e.state = "waiting" => e.attempt < MaxAttempts
      /\ delivery' = [delivery EXCEPT ![d] = e]
  <2> DEFINE n == delivery[d].attempt
  <2>0. delivery \in [Deliveries -> Delivery] /\ n \in 0 .. MaxAttempts /\ MaxAttempts \in Nat
    BY <1>0, <1>2 DEF TypeOK, Delivery
  <2>1. CASE Accepted(d)
    <3>1. delivery' = [delivery EXCEPT ![d] = e] /\ e = [delivery[d] EXCEPT !.state = "done"]
      BY <2>0, <2>1 DEF Accepted, Deliver
    <3>2. e = [state |-> "done", attempt |-> n]
      BY <1>2, <3>1 DEF Delivery
    <3> QED
      BY <1>2, <2>0, <3>1, <3>2 DEF Delivery
  <2>2. CASE Failed(d)
    <3> DEFINE after == IF n < MaxAttempts THEN "waiting" ELSE "failed"
    <3>1. delivery' = [delivery EXCEPT ![d] = e] /\ e = [delivery[d] EXCEPT !.state = after]
      BY <2>0, <2>2 DEF Failed, Deliver
    <3>2. e = [state |-> after, attempt |-> n]
      BY <1>2, <3>1 DEF Delivery
    <3>3. n < MaxAttempts \/ n = MaxAttempts
      BY <2>0
    <3> QED
      BY <1>2, <2>0, <3>1, <3>2, <3>3 DEF Delivery
  <2>3. CASE Retry(d)
    <3>1. n < MaxAttempts
      BY <1>0, <2>3 DEF Retry, DeliveriesOK
    <3>2. delivery' = [delivery EXCEPT ![d] = e] /\ e = [state |-> "sending", attempt |-> n + 1]
      BY <2>0, <2>3 DEF Retry
    <3>3. n + 1 \in 0 .. MaxAttempts /\ n + 1 # 0
      BY <2>0, <3>1
    <3> QED
      BY <3>2, <3>3 DEF Delivery
  <2> QED
    BY <2>1, <2>2, <2>3 DEF Attempt
<1>4. received' \in {received, received \cup {d}}
  BY DEF Attempt, Accepted, Failed, Retry
<1> HIDE DEF e
<1>5. TypeOK'
  BY <1>0, <1>1, <1>3, <1>4
  DEF TypeOK, clientVars, requestVars, processVars, adminVars
<1>6. TriesOK'
  BY <1>0, <1>1 DEF TriesOK, clientVars, requestVars
<1>7. EffectOK'
  BY <1>0, <1>1 DEF EffectOK, Made, clientVars, requestVars
<1>8. CallersOK'
  BY <1>0, <1>1 DEF CallersOK, This, clientVars, requestVars
<1>9. DeliveriesOK'
  BY <1>0, <1>1, <1>2, <1>3, <1>4 DEF DeliveriesOK, TypeOK, requestVars
<1> QED
  BY <1>5, <1>6, <1>7, <1>8, <1>9 DEF Inv

-----------------------------------------------------------------------------
(* A handler's step: one try goes on, and may change the memory.           *)
HandlerStep(c, k, step, what) ==
  LET r == <<c, k>>
  IN /\ request[r] = "handling"
     /\ request' = [request EXCEPT ![r] = step]
     /\ answer' = [answer EXCEPT ![r] = IF @ = "none" THEN what ELSE @]
     /\ \/ UNCHANGED <<there, changed>> /\ what \in {"refused", "error", "timeout"}
        \/ Possible(c) /\ Make(r) /\ what \in {"success", "error"}
     /\ \/ step = "over"
        \/ step = "handling" /\ what = "timeout"
        \/ step = "announcing" /\ what = "success" /\ Make(r) /\ answer[r] # "timeout"
     /\ what = "refused" => ~Possible(c)
     /\ UNCHANGED <<clientVars, deliveryVars, processVars, adminVars>>

LEMMA HandlerInv ==
  ASSUME Inv, NEW c \in Calls, NEW k \in 1 .. MaxTries,
         NEW step, NEW what, HandlerStep(c, k, step, what)
  PROVE  Inv'
<1> DEFINE r == <<c, k>>
<1> USE ServerAssumption DEF HandlerStep
<1>0. TypeOK /\ TriesOK /\ EffectOK /\ CallersOK /\ DeliveriesOK
  BY DEF Inv
<1>1. r \in Requests /\ r[1] = c
  BY DEF Requests
<1>2. changed' \in {changed, changed \cup {r}} /\ there' \subseteq Calls
  BY <1>0, <1>1 DEF Make, TypeOK
<1>3. answer[r] \in {"none", "timeout", "gone"} /\ r \notin changed /\ ~(k > caller[c].try)
  BY <1>0 DEF TriesOK
<1>4. TypeOK'
  BY <1>0, <1>1, <1>2, <1>3
  DEF TypeOK, clientVars, deliveryVars, processVars, adminVars
<1>5. \A q \in Requests : q # r =>
        request'[q] = request[q] /\ answer'[q] = answer[q] /\ (q \in changed' <=> q \in changed)
  BY <1>0, <1>1, <1>2 DEF TypeOK
<1>6. /\ request'[r] = step
      /\ answer'[r] = IF answer[r] = "none" THEN what ELSE answer[r]
  BY <1>0, <1>1 DEF TypeOK
<1>7. what = "success" \/ step = "announcing" => r \in changed'
  BY DEF Make
<1>8. what = "refused" \/ step = "handling" => r \notin changed'
  BY <1>3
<1>9. TriesOK'
  <2> SUFFICES ASSUME NEW b \in Calls, NEW j \in 1 .. MaxTries
               PROVE  LET q == <<b, j>> IN
         /\ j > caller'[b].try => request'[q] = "none"
         /\ request'[q] = "none" => answer'[q] = "none" /\ q \notin changed'
         /\ request'[q] = "handling" => answer'[q] \in {"none", "timeout", "gone"} /\ q \notin changed'
         /\ request'[q] = "announcing" => q \in changed' /\ answer'[q] \in {"success", "gone"}
         /\ answer'[q] = "success" => q \in changed'
         /\ answer'[q] = "refused" => q \notin changed'
    BY DEF TriesOK
  <2>0. caller' = caller
    BY DEF clientVars
  <2>1. CASE <<b, j>> = r
    BY <1>3, <1>6, <1>7, <1>8, <2>0, <2>1
  <2>2. CASE <<b, j>> # r
    <3>1. <<b, j>> \in Requests
      BY DEF Requests
    <3> QED
      BY <1>0, <1>5, <2>0, <2>2, <3>1 DEF TriesOK
  <2> QED
    BY <2>1, <2>2
<1>10. EffectOK'
  <2>0. kind' = kind /\ kind \in [Calls -> {"create", "update", "delete", "invalid"}]
    BY <1>0 DEF clientVars, TypeOK
  <2>1. ASSUME NEW b \in Calls, Made(b)'
        PROVE  kind'[b] # "invalid" /\ (b \in there' <=> kind'[b] # "delete")
    <3>1. CASE UNCHANGED <<there, changed>>
      BY <1>0, <2>0, <2>1, <3>1 DEF EffectOK, Made
    <3>2. CASE Possible(c) /\ Make(r)
      <4>1. CASE b = c
        BY <1>1, <2>0, <3>2, <4>1 DEF Possible, Make
      <4>2. CASE b # c
        <5>1. Made(b)
          BY <1>2, <2>1, <4>2 DEF Made
        <5>2. b \in there' <=> b \in there
          BY <1>1, <3>2, <4>2 DEF Make
        <5> QED
          BY <1>0, <2>0, <5>1, <5>2 DEF EffectOK
      <4> QED
        BY <4>1, <4>2
    <3> QED
      BY <3>1, <3>2
  <2>2. ASSUME NEW b \in Calls, NEW j \in 1 .. MaxTries, answer'[<<b, j>>] = "refused"
        PROVE  kind'[b] = "invalid" \/ (kind'[b] \in {"update", "delete"} /\ b \notin there')
    <3>0. <<b, j>> \in Requests
      BY DEF Requests
    <3>1. kind[b] = "invalid" \/ (kind[b] \in {"update", "delete"} /\ b \notin there)
      <4>1. CASE <<b, j>> = r
        <5>1. what = "refused" /\ b = c
          BY <1>3, <1>6, <2>2, <4>1
        <5> QED
          BY <2>0, <5>1 DEF Possible
      <4>2. CASE <<b, j>> # r
        BY <1>0, <1>5, <2>2, <3>0, <4>2 DEF EffectOK
      <4> QED
        BY <4>1, <4>2
    <3>2. b \notin there => b \notin there' \/ (b = c /\ Possible(c))
      BY <1>1 DEF Make
    <3> QED
      BY <2>0, <3>1, <3>2 DEF Possible
  <2> QED
    BY <2>1, <2>2 DEF EffectOK
<1>11. \A q \in Requests : answer[q] \in {"success", "refused"} => answer'[q] = answer[q]
  BY <1>3, <1>5
<1>12. CallersOK'
  <2>1. caller' = caller
    BY DEF clientVars
  <2>2. \A b \in Calls : caller[b].told # "nothing" /\ caller[b].state # "new" => This(b) \in Requests
    BY <1>0 DEF CallersOK, This, Requests
  <2>3. \A b \in Calls : This(b)' = This(b)
    BY <2>1 DEF This
  <2>4. \A b \in Calls : caller[b].state = "asking" => request'[This(b)] # "none"
    <3>1. \A q \in Requests : request[q] # "none" => request'[q] # "none"
      BY <1>5, <1>6
    <3>2. \A b \in Calls : caller[b].state = "asking" => This(b) \in Requests
      BY <1>0 DEF CallersOK, This, Requests
    <3> QED
      BY <1>0, <3>1, <3>2 DEF CallersOK
  <2> QED
    BY <1>0, <1>11, <2>1, <2>2, <2>3, <2>4 DEF CallersOK
<1>13. DeliveriesOK'
  <2>1. UNCHANGED <<delivery, received, known>>
    BY DEF deliveryVars
  <2>2. \A d \in Deliveries : d[1] \in Requests
    BY DEF Deliveries
  <2>3. \A d \in Deliveries : delivery[d].state # "none" \/ d \in received => d[1] # r
    BY <1>0 DEF DeliveriesOK
  <2> QED
    BY <1>0, <1>5, <2>1, <2>2, <2>3 DEF DeliveriesOK
<1> QED
  BY <1>4, <1>9, <1>10, <1>12, <1>13 DEF Inv

LEMMA HandleInv ==
  ASSUME Inv, NEW r \in Requests, Changes(r) \/ Refuses(r) \/ Throws(r) \/ TimesOut(r)
  PROVE  Inv'
<1> PICK c \in Calls, k \in 1 .. MaxTries : r = <<c, k>>
  BY DEF Requests
<1>0. TypeOK /\ r[1] = c
  BY DEF Inv
<1>1. CASE Changes(r)
  <2>1. CASE answer[r] = "timeout"
    <3>1. HandlerStep(c, k, "over", "success")
      BY <1>0, <1>1, <2>1 DEF Changes, HandlerStep
    <3> QED
      BY <3>1, HandlerInv
  <2>2. CASE answer[r] # "timeout"
    <3>1. HandlerStep(c, k, "announcing", "success")
      BY <1>0, <1>1, <2>2 DEF Changes, HandlerStep
    <3> QED
      BY <3>1, HandlerInv
  <2> QED
    BY <2>1, <2>2
<1>2. CASE Refuses(r)
  <2>1. HandlerStep(c, k, "over", "refused")
    BY <1>0, <1>2 DEF Refuses, Ends, HandlerStep
  <2> QED
    BY <2>1, HandlerInv
<1>3. CASE Throws(r)
  <2>1. HandlerStep(c, k, "over", "error")
    BY <1>0, <1>3 DEF Throws, Ends, HandlerStep
  <2> QED
    BY <2>1, HandlerInv
<1>4. CASE TimesOut(r)
  <2>1. /\ request' = [request EXCEPT ![r] = "handling"]
        /\ answer' = [answer EXCEPT ![r] = IF @ = "none" THEN "timeout" ELSE @]
    BY <1>0, <1>4 DEF TimesOut, TypeOK
  <2>2. HandlerStep(c, k, "handling", "timeout")
    BY <1>0, <1>4, <2>1 DEF TimesOut, HandlerStep
  <2> QED
    BY <2>2, HandlerInv
<1> QED
  BY <1>1, <1>2, <1>3, <1>4

(* The announcement of a change, to the webhooks that are registered.      *)
LEMMA EmitInv ==
  ASSUME Inv, NEW r \in Requests, Emit(r) \/ EmitFails(r)
  PROVE  Inv'
<1> USE ServerAssumption
<1>0. TypeOK /\ TriesOK /\ EffectOK /\ CallersOK /\ DeliveriesOK
  BY DEF Inv
<1>1. /\ request[r] = "announcing" /\ request' = [request EXCEPT ![r] = "over"]
      /\ UNCHANGED <<clientVars, there, answer, changed, received, processVars, adminVars>>
  BY DEF Emit, EmitFails, deliveryVars
<1>2. r \in changed /\ answer[r] \in {"success", "gone"}
  BY <1>0, <1>1 DEF TriesOK, Requests
<1>3. /\ known' \in [Requests -> SUBSET Hooks]
      /\ \A q \in Requests : q # r => known'[q] = known[q]
  BY <1>0 DEF Emit, EmitFails, deliveryVars, TypeOK
<1>4. \A d \in Deliveries :
        \/ delivery'[d] = delivery[d] /\ (d[1] = r => delivery[d].state = "none")
        \/ /\ d[1] = r /\ d[2] \in known'[r]
           /\ delivery'[d] = [state |-> "sending", attempt |-> 1]
  <2>1. \A d \in Deliveries : d[1] = r => delivery[d].state = "none"
    BY <1>0, <1>1 DEF DeliveriesOK
  <2>2. CASE Emit(r)
    <3>1. known'[r] = hooks
      BY <1>0, <2>2 DEF Emit, TypeOK
    <3>2. delivery' = [d \in Deliveries |->
                        IF d[1] = r /\ d[2] \in hooks THEN [state |-> "sending", attempt |-> 1]
                        ELSE delivery[d]]
      BY <2>2 DEF Emit
    <3> QED
      BY <2>1, <3>1, <3>2
  <2>3. CASE EmitFails(r)
    BY <2>1, <2>3 DEF EmitFails, deliveryVars
  <2> QED
    BY <2>2, <2>3
<1>5. [state |-> "sending", attempt |-> 1] \in Delivery
  BY DEF Delivery
<1>6. TypeOK'
  <2>1. delivery' \in [Deliveries -> Delivery]
    BY <1>0, <1>5 DEF Emit, EmitFails, deliveryVars, TypeOK
  <2>2. \A d \in Deliveries :
          /\ delivery'[d].state = "none" <=> delivery'[d].attempt = 0
          /\ delivery'[d].state = "failed" => delivery'[d].attempt = MaxAttempts
    <3> TAKE d \in Deliveries
    <3>1. CASE delivery'[d] = delivery[d]
      BY <1>0, <3>1 DEF TypeOK
    <3>2. CASE delivery'[d] = [state |-> "sending", attempt |-> 1]
      BY <3>2
    <3> QED
      BY <1>4, <3>1, <3>2
  <2>3. request' \in [Requests -> {"none", "handling", "announcing", "over"}]
    BY <1>0, <1>1 DEF TypeOK
  <2> QED
    BY <1>0, <1>1, <1>3, <2>1, <2>2, <2>3 DEF TypeOK, clientVars, processVars, adminVars
<1>7. \A q \in Requests : q # r => request'[q] = request[q]
  BY <1>0, <1>1 DEF TypeOK
<1>8. request'[r] = "over"
  BY <1>0, <1>1 DEF TypeOK
<1>9. TriesOK'
  <2>1. \A c \in Calls, k \in 1 .. MaxTries : <<c, k>> \in Requests
    BY DEF Requests
  <2>2. \A c \in Calls, k \in 1 .. MaxTries : <<c, k>> = r => ~(k > caller[c].try)
    BY <1>0, <1>1 DEF TriesOK
  <2> QED
    BY <1>0, <1>1, <1>2, <1>7, <1>8, <2>1, <2>2 DEF TriesOK, clientVars
<1>10. EffectOK'
  BY <1>0, <1>1 DEF EffectOK, Made, clientVars
<1>11. CallersOK'
  <2>1. \A c \in Calls : caller[c].state = "asking" => This(c) \in Requests
    BY <1>0 DEF CallersOK, This, Requests
  <2>2. \A c \in Calls : caller[c].state = "asking" => request'[This(c)] # "none"
    BY <1>0, <1>7, <1>8, <2>1 DEF CallersOK
  <2> QED
    BY <1>0, <1>1, <2>2 DEF CallersOK, This, clientVars
<1>12. DeliveriesOK'
  <2> SUFFICES ASSUME NEW d \in Deliveries
               PROVE  /\ delivery'[d].state # "none" \/ d \in received' =>
                           /\ request'[d[1]] = "over" /\ d[1] \in changed'
                           /\ answer'[d[1]] \in {"success", "gone"} /\ d[2] \in known'[d[1]]
                      /\ delivery'[d].state = "waiting" => delivery'[d].attempt < MaxAttempts
    BY DEF DeliveriesOK
  <2>0. d[1] \in Requests
    BY DEF Deliveries
  <2>1. CASE d[1] = r
    <3>1. d \notin received
      BY <1>0, <1>1, <2>1 DEF DeliveriesOK
    <3> QED
      BY <1>1, <1>2, <1>4, <1>8, <2>1, <3>1
  <2>2. CASE d[1] # r
    BY <1>0, <1>1, <1>3, <1>4, <1>7, <2>0, <2>2 DEF DeliveriesOK
  <2> QED
    BY <2>1, <2>2
<1> QED
  BY <1>6, <1>9, <1>10, <1>11, <1>12 DEF Inv

-----------------------------------------------------------------------------
(* A client's step: where it is then, and the answer of its try at most.   *)
LEMMA FailedTryType ==
  ASSUME Inv, NEW c \in Calls, NEW k \in 1 .. MaxTries, FailedTry(c, k)
  PROVE  /\ caller' = [caller EXCEPT ![c] = caller'[c]] /\ caller'[c] \in Caller
         /\ caller'[c].try = k /\ caller'[c].told \in {"nothing", "failed"}
         /\ caller'[c].state \in {"pausing", "told"}
         /\ caller'[c].state = "pausing" => k < MaxTries
<1>1. caller \in [Calls -> Caller] /\ k \in 0 .. MaxTries
  <2>1. caller \in [Calls -> Caller]
    BY DEF Inv, TypeOK
  <2> QED
    BY <2>1, ServerAssumption
<1>2. CASE k < MaxTries
  <2>1. /\ caller' = [caller EXCEPT ![c] = caller'[c]]
        /\ caller'[c] = [state |-> "pausing", try |-> k, told |-> "nothing"]
    BY <1>1, <1>2 DEF FailedTry
  <2> QED
    BY <1>1, <1>2, <2>1 DEF Caller
<1>3. CASE ~(k < MaxTries)
  <2>1. /\ caller' = [caller EXCEPT ![c] = caller'[c]]
        /\ caller'[c] = [state |-> "told", try |-> k, told |-> "failed"]
    BY <1>1, <1>3 DEF FailedTry
  <2> QED
    BY <1>1, <1>3, <2>1 DEF Caller
<1> QED
  BY <1>2, <1>3

LEMMA ClientInv ==
  ASSUME Inv, NEW c \in Calls,
         UNCHANGED <<kind, there, request, changed, deliveryVars, processVars, adminVars>>,
         caller' = [caller EXCEPT ![c] = caller'[c]], caller'[c] \in Caller,
         caller'[c].try \in 1 .. MaxTries, caller'[c].try >= caller[c].try,
         caller'[c].state \in {"pausing", "told"},
         caller'[c].state = "pausing" => caller'[c].try < MaxTries,
         \/ answer' = answer
         \/ /\ caller[c].state = "asking" /\ answer[This(c)] = "none"
            /\ answer' = [answer EXCEPT ![This(c)] = "gone"],
         \/ caller'[c].told \in {"nothing", "failed"}
         \/ /\ caller'[c].told \in {"success", "refused"} /\ caller'[c].state = "told"
            /\ answer' = answer /\ answer[<<c, caller'[c].try>>] = caller'[c].told
  PROVE  Inv'
<1> USE ServerAssumption
<1>0. TypeOK /\ TriesOK /\ EffectOK /\ CallersOK /\ DeliveriesOK
  BY DEF Inv
<1>1. caller \in [Calls -> Caller] /\ answer \in [Requests ->
        {"none", "success", "refused", "error", "timeout", "gone"}]
  BY <1>0 DEF TypeOK
<1>2. \A b \in Calls : b # c => caller'[b] = caller[b]
  BY <1>1
<1>3. /\ answer' \in [Requests -> {"none", "success", "refused", "error", "timeout", "gone"}]
      /\ \A q \in Requests :
           answer'[q] # answer[q] =>
             answer[q] = "none" /\ answer'[q] = "gone" /\ request[q] # "none"
  <2>1. CASE answer' = answer
    BY <1>1, <2>1
  <2>2. CASE caller[c].state = "asking" /\ answer' = [answer EXCEPT ![This(c)] = "gone"]
                                        /\ answer[This(c)] = "none"
    <3>1. request[This(c)] # "none"
      BY <1>0, <2>2 DEF CallersOK
    <3> QED
      BY <1>1, <2>2, <3>1
  <2> QED
    BY <2>1, <2>2
<1>4. \A b \in Calls, k \in 1 .. MaxTries : <<b, k>> \in Requests
  BY DEF Requests
<1>5. TypeOK'
  <2>1. caller' \in [Calls -> Caller]
    BY <1>1
  <2> QED
    BY <1>0, <1>3, <2>1 DEF TypeOK, deliveryVars, processVars, adminVars
<1>6. TriesOK'
  <2> SUFFICES ASSUME NEW b \in Calls, NEW j \in 1 .. MaxTries
               PROVE  LET q == <<b, j>> IN
         /\ j > caller'[b].try => request'[q] = "none"
         /\ request'[q] = "none" => answer'[q] = "none" /\ q \notin changed'
         /\ request'[q] = "handling" => answer'[q] \in {"none", "timeout", "gone"} /\ q \notin changed'
         /\ request'[q] = "announcing" => q \in changed' /\ answer'[q] \in {"success", "gone"}
         /\ answer'[q] = "success" => q \in changed'
         /\ answer'[q] = "refused" => q \notin changed'
    BY DEF TriesOK
  <2> DEFINE q == <<b, j>>
  <2>1. j > caller'[b].try => j > caller[b].try
    <3>1. caller[b].try \in Nat /\ caller'[b].try \in Nat
      BY <1>1, <1>2 DEF Caller
    <3> QED
      BY <1>2, <3>1
  <2>2. /\ j > caller[b].try => request[q] = "none"
        /\ request[q] = "none" => answer[q] = "none" /\ q \notin changed
        /\ request[q] = "handling" => answer[q] \in {"none", "timeout", "gone"} /\ q \notin changed
        /\ request[q] = "announcing" => q \in changed /\ answer[q] \in {"success", "gone"}
        /\ answer[q] = "success" => q \in changed
        /\ answer[q] = "refused" => q \notin changed
    BY <1>0 DEF TriesOK
  <2>3. answer'[q] # answer[q] => answer[q] = "none" /\ answer'[q] = "gone" /\ request[q] # "none"
    BY <1>3, <1>4
  <2> HIDE DEF q
  <2>4. /\ j > caller'[b].try => request'[q] = "none"
        /\ request'[q] = "none" => answer'[q] = "none" /\ q \notin changed'
        /\ request'[q] = "handling" => answer'[q] \in {"none", "timeout", "gone"} /\ q \notin changed'
        /\ request'[q] = "announcing" => q \in changed' /\ answer'[q] \in {"success", "gone"}
        /\ answer'[q] = "success" => q \in changed'
        /\ answer'[q] = "refused" => q \notin changed'
    BY <2>1, <2>2, <2>3
  <2> QED
    BY <2>4 DEF q
<1>7. EffectOK'
  BY <1>0, <1>3, <1>4 DEF EffectOK, Made
<1>8. CallersOK'
  <2> SUFFICES ASSUME NEW b \in Calls
               PROVE  /\ caller'[b].state # "new" => caller'[b].try \in 1 .. MaxTries
                      /\ caller'[b].state = "new" => caller'[b].try = 0
                      /\ caller'[b].state = "pausing" => caller'[b].try < MaxTries
                      /\ caller'[b].state = "asking" => request'[This(b)'] # "none"
                      /\ caller'[b].told = "success" =>
                           answer'[This(b)'] = "success" /\ caller'[b].state = "told"
                      /\ caller'[b].told = "refused" =>
                           answer'[This(b)'] = "refused" /\ caller'[b].state = "told"
    BY DEF CallersOK, This
  <2>1. CASE b = c
    BY <2>1 DEF This
  <2>2. CASE b # c
    <3>1. caller'[b] = caller[b] /\ This(b)' = This(b)
      BY <1>2, <2>2 DEF This
    <3>2. caller[b].told \in {"success", "refused"} =>
            This(b) \in Requests /\ answer'[This(b)] = answer[This(b)]
      <4>1. caller[b].told \in {"success", "refused"} =>
              This(b) \in Requests /\ answer[This(b)] # "none"
        BY <1>0, <1>4 DEF CallersOK, This
      <4> QED
        BY <1>3, <4>1
    <3> QED
      BY <1>0, <3>1, <3>2 DEF CallersOK
  <2> QED
    BY <2>1, <2>2
<1>9. DeliveriesOK'
  <2>1. \A d \in Deliveries : d[1] \in Requests
    BY DEF Deliveries
  <2> QED
    BY <1>0, <1>3, <2>1 DEF DeliveriesOK, deliveryVars
<1> QED
  BY <1>5, <1>6, <1>7, <1>8, <1>9 DEF Inv

(* A request is sent: the next try of its client has nothing behind it.    *)
LEMMA AskInv ==
  ASSUME Inv, NEW c \in Calls, Ask(c)
  PROVE  Inv'
<1> DEFINE k == caller[c].try + 1
<1> DEFINE r == <<c, k>>
<1> USE ServerAssumption
<1>0. TypeOK /\ TriesOK /\ EffectOK /\ CallersOK /\ DeliveriesOK
  BY DEF Inv
<1>1. /\ caller[c].state \in {"new", "pausing"}
      /\ UNCHANGED <<kind, there, answer, changed, deliveryVars, processVars, adminVars>>
  BY DEF Ask
<1>2. caller \in [Calls -> Caller] /\ MaxTries \in Nat \ {0} /\ caller[c].try \in Nat
  <2>1. caller \in [Calls -> Caller]
    BY <1>0 DEF TypeOK
  <2> QED
    BY <2>1 DEF Caller
<1>3. k \in 1 .. MaxTries
  <2>1. \/ caller[c].try = 0
        \/ caller[c].try \in 1 .. MaxTries /\ caller[c].try < MaxTries
    BY <1>0, <1>1 DEF CallersOK
  <2> QED
    BY <1>2, <2>1
<1>4. CASE phase # "up"
  <2>1. FailedTry(c, k) /\ UNCHANGED request
    BY <1>4 DEF Ask
  <2> HIDE DEF k
  <2>2. /\ caller' = [caller EXCEPT ![c] = caller'[c]] /\ caller'[c] \in Caller
        /\ caller'[c].try = k /\ caller'[c].told \in {"nothing", "failed"}
        /\ caller'[c].state \in {"pausing", "told"}
        /\ caller'[c].state = "pausing" => k < MaxTries
    BY <1>3, <2>1, FailedTryType
  <2>3. k >= caller[c].try
    BY <1>2 DEF k
  <2> QED
    BY <1>1, <1>3, <2>1, <2>2, <2>3, ClientInv
<1>5. CASE phase = "up"
  <2> DEFINE x == caller'[c]
  <2>1. /\ request' = [request EXCEPT ![r] = "handling"]
        /\ caller' = [caller EXCEPT ![c].state = "asking", ![c].try = k]
    BY <1>5 DEF Ask
  <2>2. x = [state |-> "asking", try |-> k, told |-> caller[c].told]
    BY <1>2, <2>1 DEF Caller
  <2>3. caller[c].told \in {"nothing", "failed"}
    <3>1. caller[c].told \in {"nothing", "success", "refused", "failed"}
      BY <1>2 DEF Caller
    <3> QED
      BY <1>0, <1>1, <3>1 DEF CallersOK
  <2>4. x \in Caller
    BY <1>2, <1>3, <2>2, <2>3 DEF Caller
  <2>5. \A b \in Calls : b # c => caller'[b] = caller[b]
    BY <1>2, <2>1
  <2>6. caller' \in [Calls -> Caller]
    BY <1>2, <2>1, <2>4
  <2>7. r \in Requests /\ \A b \in Calls, j \in 1 .. MaxTries : <<b, j>> \in Requests
    BY <1>3 DEF Requests
  <2>8. request[r] = "none" /\ answer[r] = "none" /\ r \notin changed
    <3>1. k > caller[c].try
      BY <1>2
    <3> QED
      BY <1>0, <1>3, <3>1 DEF TriesOK
  <2>9. /\ request' \in [Requests -> {"none", "handling", "announcing", "over"}]
        /\ request'[r] = "handling"
        /\ \A q \in Requests : q # r => request'[q] = request[q]
    BY <1>0, <2>1, <2>7 DEF TypeOK
  <2> HIDE DEF x
  <2>10. TypeOK'
    BY <1>0, <1>1, <2>6, <2>9 DEF TypeOK, deliveryVars, processVars, adminVars
  <2>11. TriesOK'
    <3> SUFFICES ASSUME NEW b \in Calls, NEW j \in 1 .. MaxTries
                 PROVE  LET q == <<b, j>> IN
           /\ j > caller'[b].try => request'[q] = "none"
           /\ request'[q] = "none" => answer'[q] = "none" /\ q \notin changed'
           /\ request'[q] = "handling" => answer'[q] \in {"none", "timeout", "gone"} /\ q \notin changed'
           /\ request'[q] = "announcing" => q \in changed' /\ answer'[q] \in {"success", "gone"}
           /\ answer'[q] = "success" => q \in changed'
           /\ answer'[q] = "refused" => q \notin changed'
      BY DEF TriesOK
    <3>1. CASE b = c /\ j = k
      <4>1. ~(j > caller'[b].try)
        BY <1>2, <2>2, <3>1 DEF x
      <4> QED
        BY <1>1, <2>8, <2>9, <3>1, <4>1
    <3>2. CASE b # c \/ j # k
      <4>1. <<b, j>> # r
        BY <3>2
      <4>2. j > caller'[b].try => j > caller[b].try
        BY <1>2, <2>2, <2>5 DEF x
      <4> QED
        BY <1>0, <1>1, <2>7, <2>9, <4>1, <4>2 DEF TriesOK
    <3> QED
      BY <3>1, <3>2
  <2>12. EffectOK'
    BY <1>0, <1>1 DEF EffectOK, Made
  <2>13. CallersOK'
    <3> SUFFICES ASSUME NEW b \in Calls
                 PROVE  /\ caller'[b].state # "new" => caller'[b].try \in 1 .. MaxTries
                        /\ caller'[b].state = "new" => caller'[b].try = 0
                        /\ caller'[b].state = "pausing" => caller'[b].try < MaxTries
                        /\ caller'[b].state = "asking" => request'[This(b)'] # "none"
                        /\ caller'[b].told = "success" =>
                             answer'[This(b)'] = "success" /\ caller'[b].state = "told"
                        /\ caller'[b].told = "refused" =>
                             answer'[This(b)'] = "refused" /\ caller'[b].state = "told"
      BY DEF CallersOK, This
    <3>1. CASE b = c
      BY <1>3, <2>2, <2>3, <2>9, <3>1 DEF This, x
    <3>2. CASE b # c
      <4>1. caller'[b] = caller[b] /\ This(b)' = This(b)
        BY <2>5, <3>2 DEF This
      <4>2. caller[b].state = "asking" => This(b) \in Requests
        BY <1>0, <2>7 DEF CallersOK, This
      <4>3. caller[b].state = "asking" => request'[This(b)] # "none"
        BY <1>0, <2>9, <4>2 DEF CallersOK
      <4> QED
        BY <1>0, <1>1, <4>1, <4>3 DEF CallersOK
    <3> QED
      BY <3>1, <3>2
  <2>14. DeliveriesOK'
    <3>1. \A d \in Deliveries : d[1] \in Requests
      BY DEF Deliveries
    <3> QED
      BY <1>0, <1>1, <2>8, <2>9, <3>1 DEF DeliveriesOK, deliveryVars
  <2> QED
    BY <2>10, <2>11, <2>12, <2>13, <2>14 DEF Inv
<1> QED
  BY <1>4, <1>5

LEMMA HearInv ==
  ASSUME Inv, NEW c \in Calls, Hear(c) \/ Lost(c)
  PROVE  Inv'
<1> DEFINE k == caller[c].try
<1>0. TypeOK /\ CallersOK /\ caller \in [Calls -> Caller]
  BY DEF Inv, TypeOK
<1>1. caller[c].state = "asking" /\ k \in 1 .. MaxTries /\ k >= k
  BY <1>0, ServerAssumption DEF CallersOK, Hear, Lost
<1>2. UNCHANGED <<kind, there, request, changed, deliveryVars, processVars, adminVars>>
  BY DEF Hear, Lost, requestVars
<1>3. \/ answer' = answer
      \/ /\ answer[This(c)] = "none" /\ answer' = [answer EXCEPT ![This(c)] = "gone"]
         /\ FailedTry(c, k)
  <2>1. CASE Hear(c)
    BY <2>1 DEF Hear, requestVars
  <2>2. CASE Lost(c)
    BY <1>0, <2>2 DEF Lost, TypeOK
  <2> QED
    BY <2>1, <2>2
<1>4. CASE FailedTry(c, k)
  <2> HIDE DEF k
  <2>1. /\ caller' = [caller EXCEPT ![c] = caller'[c]] /\ caller'[c] \in Caller
        /\ caller'[c].try = k /\ caller'[c].told \in {"nothing", "failed"}
        /\ caller'[c].state \in {"pausing", "told"}
        /\ caller'[c].state = "pausing" => k < MaxTries
    BY <1>1, <1>4, FailedTryType
  <2>2. k >= caller[c].try
    BY <1>1 DEF k
  <2> QED
    BY <1>1, <1>2, <1>3, <2>1, <2>2, ClientInv
<1>5. CASE ~FailedTry(c, k)
  <2> DEFINE t == answer[This(c)]
  <2>1. t \in {"success", "refused"} /\ Told(c, t) /\ answer' = answer
    BY <1>3, <1>5 DEF Hear, Lost
  <2>2. /\ caller' = [caller EXCEPT ![c] = caller'[c]]
        /\ caller'[c] = [state |-> "told", try |-> k, told |-> t]
    BY <1>0, <2>1 DEF Told, Caller
  <2>3. caller'[c] \in Caller
    BY <1>0, <2>1, <2>2 DEF Caller
  <2>4. This(c) = <<c, k>>
    BY DEF This
  <2> QED
    BY <1>1, <1>2, <2>1, <2>2, <2>3, <2>4, ClientInv
<1> QED
  BY <1>4, <1>5

-----------------------------------------------------------------------------
(* Every behaviour of the server keeps the invariant.                      *)
THEOREM ServerInvariance == Spec => []Inv
<1>1. Inv /\ [Next]_vars => Inv'
  <2> SUFFICES ASSUME Inv, [Next]_vars PROVE Inv'
    OBVIOUS
  <2>1. ASSUME NEW c \in Calls, Client(c) PROVE Inv'
    BY <2>1, AskInv, HearInv DEF Client
  <2>2. ASSUME NEW r \in Requests, Handle(r) PROVE Inv'
    BY <2>2, HandleInv, EmitInv DEF Handle
  <2>3. ASSUME NEW d \in Deliveries, Attempt(d) PROVE Inv'
    BY <2>3, AttemptInv
  <2>4. CASE Shutdown \/ Leave \/ \E h \in Hooks : Register(h) \/ Remove(h)
    BY <2>4, ProcessInv
  <2>5. CASE UNCHANGED vars
    <3>1. UNCHANGED <<clientVars, there, requestVars, deliveryVars, phase, awaited, hooks, admins>>
      BY <2>5 DEF vars, processVars, adminVars
    <3> QED
      BY <3>1, FrameInv DEF Inv, TypeOK
  <2> QED
    BY <2>1, <2>2, <2>3, <2>4, <2>5 DEF Next, Gone
<1> QED
  BY InitInv, <1>1, PTL DEF Spec

(* Types; attempts of a delivery are used one after another.               *)
THEOREM TypeCorrect == Spec => []TypeOK
<1>1. Inv => TypeOK
  BY DEF Inv
<1> QED
  BY <1>1, ServerInvariance, PTL

(* What a webhook hears was done and not denied to the client, and the     *)
(* webhook was registered when it was announced.                           *)
THEOREM HeardTrue == Spec => []HeardIsTrue
<1>1. Inv => HeardIsTrue
  BY DEF Inv, DeliveriesOK, HeardIsTrue, TypeOK
<1> QED
  BY <1>1, ServerInvariance, PTL

(* What a client is told in the end is what came of its tries.             *)
THEOREM ToldTrue == Spec => []ToldIsTrue
<1>1. ASSUME Inv PROVE ToldIsTrue
  <2> SUFFICES ASSUME NEW c \in Calls
               PROVE  LET made == {k \in 1 .. MaxTries : <<c, k>> \in changed}
                      IN /\ caller[c].told = "success" =>
                              caller[c].try \in made /\ (c \in there <=> kind[c] # "delete")
                         /\ caller[c].told = "refused" =>
                              \/ made = {}
                              \/ kind[c] = "delete" /\ \E k \in made : k < caller[c].try
    BY DEF ToldIsTrue
  <2> DEFINE made == {k \in 1 .. MaxTries : <<c, k>> \in changed}
  <2>0. TypeOK /\ TriesOK /\ EffectOK /\ CallersOK
    BY <1>1 DEF Inv
  <2>1. caller[c].told # "nothing" /\ caller[c].state # "new" => caller[c].try \in 1 .. MaxTries
    BY <2>0 DEF CallersOK
  <2>2. ASSUME caller[c].told = "success"
        PROVE  caller[c].try \in made /\ (c \in there <=> kind[c] # "delete")
    <3>1. answer[This(c)] = "success" /\ caller[c].try \in 1 .. MaxTries
      BY <2>0, <2>1, <2>2 DEF CallersOK
    <3>2. <<c, caller[c].try>> \in changed
      BY <2>0, <3>1 DEF TriesOK, This
    <3>3. Made(c)
      BY <3>1, <3>2 DEF Made
    <3> QED
      BY <2>0, <3>1, <3>2, <3>3 DEF EffectOK
  <2>3. ASSUME caller[c].told = "refused", made # {}
        PROVE  kind[c] = "delete" /\ \E k \in made : k < caller[c].try
    <3>1. answer[<<c, caller[c].try>>] = "refused" /\ caller[c].try \in 1 .. MaxTries
      BY <2>0, <2>1, <2>3 DEF CallersOK, This
    <3>2. PICK k \in made : TRUE
      BY <2>3
    <3>3. <<c, k>> \in changed /\ k \in 1 .. MaxTries
      OBVIOUS
    <3>4. k # caller[c].try
      BY <2>0, <3>1, <3>3 DEF TriesOK
    <3>5. ~(k > caller[c].try)
      BY <2>0, <3>3 DEF TriesOK
    <3>6. k < caller[c].try
      BY <3>1, <3>3, <3>4, <3>5, ServerAssumption
    <3>7. kind[c] # "invalid" /\ (c \in there <=> kind[c] # "delete")
      BY <2>0, <3>3 DEF EffectOK, Made
    <3>8. kind[c] = "delete"
      BY <2>0, <3>1, <3>7 DEF EffectOK
    <3> QED
      BY <3>6, <3>8
  <2> QED
    BY <2>2, <2>3
<1> QED
  BY <1>1, ServerInvariance, PTL
=============================================================================
