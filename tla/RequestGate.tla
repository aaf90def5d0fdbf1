---------------------------- MODULE RequestGate ----------------------------
(***************************************************************************)
(* The overload gate of the proxy (apis/proxy_api.go): one counter of      *)
(* requests in flight, one broadcast channel that every release closes and *)
(* replaces, and requests that wait for a slot until their deadline.       *)
(*                                                                         *)
(* Every request reads the capacity from the configuration on its own, so  *)
(* requests with different capacities meet at the same gate.               *)
(***************************************************************************)
EXTENDS Integers, FiniteSets

CONSTANTS
    Requests,       \* goroutines serving proxy calls, one call at a time each
    Capacities      \* the values of maxConcurrent while the gateway runs

(* forwardProxy replaces a capacity below 1 by 128 before it uses it.      *)
ASSUME CapacityAssumption == Capacities \subseteq (Nat \ {0})
ASSUME RequestsAssumption == IsFiniteSet(Requests)

VARIABLES
    inFlight,       \* proxyRequestGate.inFlight
    pc,             \* pc[r]: where r stands in forwardProxy and the gate
    capacity,       \* capacity[r]: the argument max of its call
    expired,        \* expired[r]: no time is left (from the start if wait <= 0)
    cancelled,      \* cancelled[r]: its client is gone (ctx.Done is closed)
    closed          \* closed[r]: the channel it took from the gate is closed

vars == <<inFlight, pc, capacity, expired, cancelled, closed>>

Stages == {"idle", "entering", "queued", "selecting", "serving"}

Holders == {r \in Requests : pc[r] = "serving"}

\* mutant: the channel is taken after the unlock, just before the select
SelectingOnly == {r \in Requests : pc[r] = "selecting"}

(* The requests that have read a channel from the gate: a release closes   *)
(* the one it finds, the older ones are closed already.                    *)
Listening == {r \in Requests : pc[r] \in {"queued", "selecting"}}

Goto(r, stage) == pc' = [pc EXCEPT ![r] = stage]

Init ==
    /\ inFlight = 0
    /\ pc = [r \in Requests |-> "idle"]
    /\ capacity \in [Requests -> Capacities]
    /\ expired = [r \in Requests |-> FALSE]
    /\ cancelled = [r \in Requests |-> FALSE]
    /\ closed = [r \in Requests |-> FALSE]

(* forwardProxy reads the configuration and calls the gate.                *)
Arrive(r) ==
    /\ pc[r] = "idle"
    /\ \E max \in Capacities : capacity' = [capacity EXCEPT ![r] = max]
    /\ \E noWait \in BOOLEAN : expired' = [expired EXCEPT ![r] = noWait]
    /\ cancelled' = [cancelled EXCEPT ![r] = FALSE]
    /\ closed' = [closed EXCEPT ![r] = FALSE]
    /\ Goto(r, "entering")
    /\ UNCHANGED inFlight

(* The head of the loop and the critical section with a slot free.         *)
TakeSlot(r) ==
    /\ pc[r] = "entering"
    /\ ~cancelled[r]
    /\ inFlight < capacity[r]
    /\ inFlight' = inFlight + 1
    /\ Goto(r, "serving")
    /\ UNCHANGED <<capacity, expired, cancelled, closed>>

(* The same with the gate full: keep the channel the next release closes.  *)
TakeChannel(r) ==
    /\ pc[r] = "entering"
    /\ ~cancelled[r]
    /\ inFlight >= capacity[r]
    /\ closed' = [closed EXCEPT ![r] = FALSE]
    /\ Goto(r, "queued")
    /\ UNCHANGED <<inFlight, capacity, expired, cancelled>>

(* After the unlock, time left or not.                                     *)
DecideToWait(r) ==
    /\ pc[r] = "queued"
    /\ Goto(r, IF expired[r] THEN "idle" ELSE "selecting")
    /\ UNCHANGED <<inFlight, capacity, expired, cancelled, closed>>

\* mutant: the release is deferred before the answer of the gate is looked at
GiveUpReleasing(r) ==
    /\ \/ pc[r] = "entering" /\ cancelled[r]
       \/ pc[r] = "selecting" /\ (cancelled[r] \/ expired[r])
    /\ inFlight' = inFlight - 1
    /\ Goto(r, "idle")
    /\ UNCHANGED <<capacity, expired, cancelled, closed>>

(* A request leaves without a slot: its context is done at the head of the *)
(* loop, or the select takes the context's or the timer's case. The reply  *)
(* is 429 with Retry-After.                                                *)
GiveUp(r) ==
    /\ \/ pc[r] = "entering" /\ cancelled[r]
       \/ pc[r] = "selecting" /\ (cancelled[r] \/ expired[r])
    /\ Goto(r, "idle")
    /\ UNCHANGED <<inFlight, capacity, expired, cancelled, closed>>

\* mutant: the deadline is computed inside the loop
WakeUpRenewing(r) ==
    /\ pc[r] = "selecting"
    /\ closed[r]
    /\ expired' = [expired EXCEPT ![r] = FALSE]
    /\ Goto(r, "entering")
    /\ UNCHANGED <<inFlight, capacity, cancelled, closed>>

(* The select takes the channel's case, which Go may prefer to the others. *)
WakeUp(r) ==
    /\ pc[r] = "selecting"
    /\ closed[r]
    /\ Goto(r, "entering")
    /\ UNCHANGED <<inFlight, capacity, expired, cancelled, closed>>

(* The deferred releaseProxyRequestSlot, however forwardProxy ends.        *)
Release(r) ==
    /\ pc[r] = "serving"
    /\ inFlight' = IF inFlight > 0 THEN inFlight - 1 ELSE inFlight
    /\ closed' = [q \in Requests |-> q \in Listening \/ closed[q]]
    /\ Goto(r, "idle")
    /\ UNCHANGED <<capacity, expired, cancelled>>

(* The environment: the deadline passes, the client disconnects.           *)
Expire(r) ==
    /\ pc[r] # "idle"
    /\ ~expired[r]
    /\ expired' = [expired EXCEPT ![r] = TRUE]
    /\ UNCHANGED <<inFlight, pc, capacity, cancelled, closed>>

Disconnect(r) ==
    /\ pc[r] # "idle"
    /\ ~cancelled[r]
    /\ cancelled' = [cancelled EXCEPT ![r] = TRUE]
    /\ UNCHANGED <<inFlight, pc, capacity, expired, closed>>

(* What a goroutine does by itself once it is scheduled.                   *)
Proceed(r) ==
    TakeSlot(r) \/ TakeChannel(r) \/ DecideToWait(r) \/ GiveUp(r) \/ WakeUp(r)

Next ==
    \E r \in Requests :
        Arrive(r) \/ Proceed(r) \/ Release(r) \/ Expire(r) \/ Disconnect(r)

(* Goroutines are scheduled and timers fire. Nothing says that a request   *)
(* arrives, that a client disconnects or that a served request ends.       *)
Fairness == \A r \in Requests : WF_vars(Proceed(r)) /\ WF_vars(Expire(r))

Spec == Init /\ [][Next]_vars /\ Fairness

-----------------------------------------------------------------------------

(* The shape of the state; the counter never goes below zero.              *)
TypeOK ==
    /\ inFlight \in Nat
    /\ pc \in [Requests -> Stages]
    /\ capacity \in [Requests -> Capacities]
    /\ expired \in [Requests -> BOOLEAN]
    /\ cancelled \in [Requests -> BOOLEAN]
    /\ closed \in [Requests -> BOOLEAN]

(* Every slot the gate counts belongs to a request that will give it back, *)
(* whatever the order of timeouts, disconnections and wake-ups: no slot    *)
(* leaks and none is given back twice.                                     *)
SlotsAreOwned == inFlight = Cardinality(Holders)

(* However the configured capacity moves while requests are served, no     *)
(* more than max of them run that were admitted under a capacity up to max.*)
WithinCapacity ==
    \A max \in Capacities :
        Cardinality({r \in Holders : capacity[r] <= max}) <= max

(* No lost wake-up: while the channel a request listens to is open, the    *)
(* gate is full for it. A release that fell between its look at the        *)
(* counter and its select would break this.                                *)
NoLostWakeUp ==
    \A r \in Listening : ~closed[r] => inFlight >= capacity[r]

(* A request that reaches the gate is admitted or refused: the wake-ups of *)
(* a busy gate cannot keep it queueing past its deadline.                  *)
EveryRequestIsDecided ==
    \A r \in Requests :
        pc[r] \in {"entering", "queued", "selecting"}
            ~> pc[r] \in {"idle", "serving"}

=============================================================================
