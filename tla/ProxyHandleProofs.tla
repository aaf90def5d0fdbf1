-------------------------- MODULE ProxyHandleProofs --------------------------
(***************************************************************************)
(* One request in Handle, for any pool of accounts and any MaxRetries,     *)
(* first with its upstream calls as single steps (ProxyHandle) and then    *)
(* with the calls in detail (UpstreamCall).                                *)
(*                                                                         *)
(* What holds of Handle is proved of Steps, its specification without the  *)
(* fairness, which is all that CallSpec implies without liveness.          *)
(***************************************************************************)
EXTENDS UpstreamCall, FiniteSetTheorems, TLAPS

Steps == Init /\ [][Next]_vars

(* The types of the loop, of the context and of the result, one by one.    *)
LEMMA LoopStep == LoopTypes /\ ContextTypes /\ [Next]_vars => LoopTypes'
  <1> SUFFICES ASSUME LoopTypes, ContextTypes, [Next]_vars PROVE LoopTypes'
    OBVIOUS
  <1> USE MaxAttemptsAssumption
          DEF LoopTypes, loop, outcome, environment, history, settlement
  <1>1. CASE OutOfTime
    BY <1>1 DEF OutOfTime, Kinds
  <1>2. CASE Route
    <2>1. attempts' \in 1 .. MaxAttempts + 1
      BY <1>2 DEF Route
    <2>2. excluded' \subseteq Accounts
      BY <1>2 DEF Route, Candidates, ContextTypes
    <2> QED
      BY <1>2, <2>1, <2>2 DEF Route
  <1>3. CASE NextRound \/ AwaitAccount \/ KeepLast
    BY <1>3 DEF NextRound, AwaitAccount, KeepLast
  <1>4. CASE Unroutable \/ RouterFails
    BY <1>4 DEF Unroutable, RouterFails, Kinds
  <1>5. CASE Discard \/ Conclude \/ BackOff \/ FailOver
    BY <1>5 DEF Discard, Conclude, BackOff, FailOver
  <1>6. CASE Resume \/ Finish
    BY <1>6 DEF Resume, Finish
  <1>7. CASE StreamBegins
    BY <1>7 DEF StreamBegins
  <1>8. CASE CallReturns
    BY <1>8 DEF CallReturns, Kinds
  <1>9. CASE Fire \/ Disconnect \/ PoolChanges
    BY <1>9 DEF Fire, Disconnect, PoolChanges
  <1>10. CASE UNCHANGED vars
    BY <1>10 DEF vars
  <1> QED
    BY <1>1, <1>2, <1>3, <1>4, <1>5, <1>6, <1>7, <1>8, <1>9, <1>10
    DEF Next, Proceed

LEMMA ContextStep == ContextTypes /\ [Next]_vars => ContextTypes'
  <1> SUFFICES ASSUME ContextTypes, [Next]_vars PROVE ContextTypes'
    OBVIOUS
  <1> USE DEF ContextTypes, loop, outcome, environment, history, settlement
  <1>1. CASE OutOfTime
    BY <1>1 DEF OutOfTime, Kinds
  <1>2. CASE Route
    BY <1>2 DEF Route, Candidates
  <1>3. CASE NextRound \/ AwaitAccount \/ KeepLast
    BY <1>3 DEF NextRound, AwaitAccount, KeepLast
  <1>4. CASE Unroutable \/ RouterFails
    BY <1>4 DEF Unroutable, RouterFails, Kinds
  <1>5. CASE Discard \/ Conclude \/ BackOff \/ FailOver
    BY <1>5 DEF Discard, Conclude, BackOff, FailOver
  <1>6. CASE Resume \/ Finish
    BY <1>6 DEF Resume, Finish
  <1>7. CASE StreamBegins
    BY <1>7 DEF StreamBegins
  <1>8. CASE CallReturns
    BY <1>8 DEF CallReturns, Kinds
  <1>9. CASE Fire \/ Disconnect \/ PoolChanges
    BY <1>9 DEF Fire, Disconnect, PoolChanges
  <1>10. CASE UNCHANGED vars
    BY <1>10 DEF vars
  <1> QED
    BY <1>1, <1>2, <1>3, <1>4, <1>5, <1>6, <1>7, <1>8, <1>9, <1>10
    DEF Next, Proceed

LEMMA ResultStep == ResultTypes /\ [Next]_vars => ResultTypes'
  <1> SUFFICES ASSUME ResultTypes, [Next]_vars PROVE ResultTypes'
    OBVIOUS
  <1> USE DEF ResultTypes, loop, outcome, environment, history, settlement
  <1>1. CASE OutOfTime
    BY <1>1 DEF OutOfTime, Kinds
  <1>2. CASE Route
    BY <1>2 DEF Route, Candidates
  <1>3. CASE NextRound \/ AwaitAccount \/ KeepLast
    BY <1>3 DEF NextRound, AwaitAccount, KeepLast
  <1>4. CASE Unroutable \/ RouterFails
    BY <1>4 DEF Unroutable, RouterFails, Kinds
  <1>5. CASE Discard \/ Conclude \/ BackOff \/ FailOver
    BY <1>5 DEF Discard, Conclude, BackOff, FailOver
  <1>6. CASE Resume \/ Finish
    BY <1>6 DEF Resume, Finish
  <1>7. CASE StreamBegins
    BY <1>7 DEF StreamBegins
  <1>8. CASE CallReturns
    BY <1>8 DEF CallReturns, Kinds
  <1>9. CASE Fire \/ Disconnect \/ PoolChanges
    BY <1>9 DEF Fire, Disconnect, PoolChanges
  <1>10. CASE UNCHANGED vars
    BY <1>10 DEF vars
  <1> QED
    BY <1>1, <1>2, <1>3, <1>4, <1>5, <1>6, <1>7, <1>8, <1>9, <1>10
    DEF Next, Proceed

(* Only BackOff and an empty round of a waiting request lead to a wait.    *)
LEMMA WaitStep ==
    (pc = "waiting" => waits) /\ [Next]_vars => (pc' = "waiting" => waits')
  <1> SUFFICES ASSUME pc = "waiting" => waits, [Next]_vars, pc' = "waiting"
               PROVE  waits'
    OBVIOUS
  <1> USE DEF loop
  <1>1. CASE AwaitAccount
    BY <1>1 DEF AwaitAccount
  <1>2. CASE BackOff
    BY <1>2 DEF BackOff
  <1>3. CASE FailOver
    BY <1>3 DEF FailOver
  <1>4. CASE NextRound
    BY <1>4 DEF NextRound
  <1>5. CASE \/ OutOfTime \/ Route \/ KeepLast \/ Unroutable \/ RouterFails
             \/ Discard \/ Conclude \/ Resume \/ Finish \/ CallReturns
    BY <1>5 DEF OutOfTime, Route, KeepLast, Unroutable, RouterFails, Discard,
                Conclude, Resume, Finish, CallReturns
  <1>6. CASE StreamBegins \/ Fire \/ Disconnect \/ PoolChanges \/ UNCHANGED vars
    BY <1>6 DEF StreamBegins, Fire, Disconnect, PoolChanges, vars
  <1> QED
    BY <1>1, <1>2, <1>3, <1>4, <1>5, <1>6 DEF Next, Proceed

LEMMA StepsTyped == Steps => []TypeOK
  <1>1. Init => LoopTypes /\ ContextTypes /\ ResultTypes
    <2>1. Init => LoopTypes
      BY MaxAttemptsAssumption, 0 \in 0 .. MaxAttempts + 1 DEF Init, LoopTypes
    <2>2. Init => ContextTypes
      <3> SUFFICES ASSUME Init PROVE ContextTypes
        OBVIOUS
      <3>1. eligible \subseteq Accounts
        BY DEF Init
      <3> QED
        BY <3>1 DEF Init, ContextTypes
    <2>3. Init => ResultTypes
      <3> SUFFICES ASSUME Init PROVE ResultTypes
        OBVIOUS
      <3>1. answers \in 0 .. 2
        BY DEF Init
      <3> QED
        BY <3>1 DEF Init, ResultTypes, Kinds
    <2> QED
      BY <2>1, <2>2, <2>3
  <1>2. Init => (pc = "waiting" => waits)
    BY DEF Init
  <1>3. TypeOK /\ [Next]_vars => TypeOK'
    BY LoopStep, ContextStep, ResultStep, WaitStep DEF TypeOK
  <1>4. Init => TypeOK
    BY <1>1, <1>2 DEF TypeOK
  <1> QED
    BY <1>3, <1>4, PTL DEF Steps

(* The variables of a request have their types in every behaviour of       *)
(* Handle, and a request that waits has met a capacity error.              *)
THEOREM HandleTypeCorrect == Spec => []TypeOK
  BY StepsTyped DEF Spec, Steps

-----------------------------------------------------------------------------

(* A request that does not wait has a fresh account for every call, and    *)
(* comes back to the router with attempts to spare, unless its context has *)
(* ended, and with that its turns.                                         *)
Bounded ==
    /\ IsFiniteSet(excluded)
    /\ ~waits => Cardinality(excluded) = attempts
    /\ ~waits => attempts <= MaxAttempts
    /\ ~waits /\ pc = "routing" /\ IsLive => attempts < MaxAttempts

LEMMA BoundedStep == TypeOK /\ Bounded /\ [Next]_vars => Bounded'
  <1> SUFFICES ASSUME TypeOK, Bounded, [Next]_vars PROVE Bounded'
    OBVIOUS
  <1> USE MaxAttemptsAssumption DEF TypeOK, LoopTypes, Bounded, IsLive
  <1>1. CASE Route
    <2>1. PICK a \in Candidates : excluded' = excluded \cup {a}
      BY <1>1 DEF Route
    <2>2. /\ IsFiniteSet(excluded')
          /\ Cardinality(excluded') = Cardinality(excluded) + 1
      BY <2>1, FS_AddElement DEF Candidates
    <2>3. ~waits => attempts' = attempts + 1 /\ attempts' <= MaxAttempts
      BY <1>1 DEF Route
    <2> QED
      BY <1>1, <2>2, <2>3 DEF Route, environment
  <1>2. CASE NextRound
    BY <1>2, FS_EmptySet DEF NextRound, environment
  <1>3. CASE BackOff
    BY <1>3 DEF BackOff, environment
  <1>4. CASE FailOver
    BY <1>4 DEF FailOver, loop, environment
  <1>5. CASE Resume
    BY <1>5 DEF Resume, loop, environment
  <1>6. CASE \/ OutOfTime \/ AwaitAccount \/ KeepLast \/ Unroutable
             \/ RouterFails \/ Conclude \/ Finish
    BY <1>6 DEF OutOfTime, AwaitAccount, KeepLast, Unroutable, RouterFails,
                Conclude, Finish, loop, environment
  <1>7. CASE Discard
    BY <1>7 DEF Discard, Interrupted, loop, environment
  <1>8. CASE StreamBegins \/ CallReturns \/ Fire \/ Disconnect \/ PoolChanges
    BY <1>8 DEF StreamBegins, CallReturns, Fire, Disconnect, PoolChanges,
                loop, environment
  <1>9. CASE UNCHANGED vars
    BY <1>9 DEF vars, loop, environment
  <1> QED
    BY <1>1, <1>2, <1>3, <1>4, <1>5, <1>6, <1>7, <1>8, <1>9 DEF Next, Proceed

LEMMA StepsAreBounded == Steps => []RetriesAreBounded
  <1>1. Init => Bounded
    BY MaxAttemptsAssumption, FS_EmptySet DEF Init, Bounded, IsLive
  <1>2. Bounded => RetriesAreBounded
    BY DEF Bounded, RetriesAreBounded
  <1> QED
    BY <1>1, <1>2, BoundedStep, StepsTyped, PTL DEF Steps

(* Without a capacity error, MaxRetries bounds the calls of a request and  *)
(* no account is called twice.                                             *)
THEOREM HandleRetriesAreBounded == Spec => []RetriesAreBounded
  BY StepsAreBounded DEF Spec, Steps

-----------------------------------------------------------------------------

(* Content marks its call: a call that has sent some is of a stream, has   *)
(* stopped the timer or come after it, and is the last one of the request. *)
Marked ==
    /\ answers = IF started THEN 1 ELSE 0
    /\ started => stream /\ timer # "armed"
    /\ pc \in {"routing", "waiting"} => ~started

LEMMA MarkedStep == TypeOK /\ Marked /\ [Next]_vars => Marked'
  <1> SUFFICES ASSUME TypeOK, Marked, [Next]_vars PROVE Marked'
    OBVIOUS
  <1> USE DEF TypeOK, LoopTypes, ContextTypes, ResultTypes, Marked, loop, outcome, environment, history, settlement
  <1>1. CASE OutOfTime \/ Route \/ NextRound \/ AwaitAccount
    BY <1>1 DEF OutOfTime, Route, NextRound, AwaitAccount
  <1>2. CASE KeepLast \/ Unroutable \/ RouterFails
    BY <1>2 DEF KeepLast, Unroutable, RouterFails
  <1>3. CASE Discard
    BY <1>3 DEF Discard, Interrupted
  <1>4. CASE Conclude \/ Resume \/ Finish
    BY <1>4 DEF Conclude, Resume, Finish
  <1>5. CASE BackOff \/ FailOver
    BY <1>5 DEF BackOff, FailOver, Retryable
  <1>6. CASE StreamBegins
    BY <1>6 DEF StreamBegins
  <1>7. CASE CallReturns
    BY <1>7 DEF CallReturns
  <1>8. CASE Fire \/ Disconnect \/ PoolChanges
    BY <1>8 DEF Fire, Disconnect, PoolChanges
  <1>9. CASE UNCHANGED vars
    BY <1>9 DEF vars
  <1> QED
    BY <1>1, <1>2, <1>3, <1>4, <1>5, <1>6, <1>7, <1>8, <1>9 DEF Next, Proceed

LEMMA StepsMarked == Steps => []Marked
  <1>1. Init => Marked
    BY DEF Init, Marked
  <1> QED
    BY <1>1, MarkedStep, StepsTyped, PTL DEF Steps

LEMMA StepsSpareStreams == Steps => DeadlineSparesStreams
  <1>1. Marked /\ [Next]_vars
            => [timer # "fired" /\ timer' = "fired" => answers = 0]_vars
    <2> SUFFICES ASSUME Marked, [Next]_vars, timer # "fired", timer' = "fired"
                 PROVE  answers = 0
      OBVIOUS
    <2>1. timer = "armed"
      BY DEF Next, Proceed, OutOfTime, Route, NextRound, AwaitAccount, KeepLast,
             Unroutable, RouterFails, Discard, Conclude, BackOff, FailOver,
             Resume, Finish, StreamBegins, CallReturns, Fire, Disconnect,
             PoolChanges, vars, environment
    <2> QED
      BY <2>1 DEF Marked
  <1> QED
    BY <1>1, StepsMarked, PTL DEF Steps, DeadlineSparesStreams

(* The five minutes never end an answer whose content is on its way.       *)
THEOREM HandleDeadlineSparesStreams == Spec => DeadlineSparesStreams
  BY StepsSpareStreams DEF Spec, Steps

LEMMA StepsAnswerOnce == Steps => AnswersOnce
  <1>1. Init => Answer!Init
    BY DEF Init, Answer!Init
  <1>2. TypeOK /\ Marked /\ [Next]_vars => [Answer!Next]_(Answer!vars)
    <2> SUFFICES ASSUME TypeOK, Marked, [Next]_vars
                 PROVE  [Answer!Next]_(Answer!vars)
      OBVIOUS
    <2> USE DEF loop, outcome, environment, history, settlement, Answer!vars
    <2>1. CASE OutOfTime \/ Route \/ NextRound \/ AwaitAccount \/ KeepLast
      BY <2>1 DEF OutOfTime, Route, NextRound, AwaitAccount, KeepLast
    <2>2. CASE RouterFails \/ Discard \/ Conclude \/ BackOff
      BY <2>2 DEF RouterFails, Discard, Conclude, BackOff
    <2>3. CASE FailOver \/ Resume
      BY <2>3 DEF FailOver, Resume
    <2>4. CASE Unroutable \/ Finish
      BY <2>4 DEF Unroutable, Finish, Answer!Next, Answer!End
    <2>5. CASE StreamBegins
      BY <2>5 DEF StreamBegins, Marked, TypeOK, ResultTypes, Answer!Next, Answer!Begin
    <2>6. CASE CallReturns \/ Fire \/ Disconnect \/ PoolChanges
      BY <2>6 DEF CallReturns, Fire, Disconnect, PoolChanges
    <2>7. CASE UNCHANGED vars
      BY <2>7 DEF vars
    <2> QED
      BY <2>1, <2>2, <2>3, <2>4, <2>5, <2>6, <2>7 DEF Next, Proceed
  <1> QED
    BY <1>1, <1>2, StepsMarked, StepsTyped, PTL
    DEF Steps, AnswersOnce, Answer!Spec

(* Handle implements ProxyAnswer: every step of the loop is a step of the  *)
(* promise to the client or leaves it alone.                               *)
THEOREM HandleAnswersOnce == Spec => AnswersOnce
  BY StepsAnswerOnce DEF Spec, Steps

-----------------------------------------------------------------------------
(* The calls in detail. What a call can fail of, and how.                  *)

Sent == [what : UpstreamErrors, how : {"http", "folded", "event"}, named : BOOLEAN]
Failures == Sent \cup {Own(what) : what \in Unstructured} \cup {NoFailure}

LEMMA OwnFailures ==
    /\ \A what \in Unstructured : Own(what) \in Failures /\ Own(what) # NoFailure
    /\ \A f \in Sent : f \in Failures /\ f # NoFailure
    /\ \A what, how, named : Failure(what, how, named).what = what
    /\ \A what : Own(what).what = what
    /\ NoFailure \in Failures /\ NoFailure.what = "none"
    /\ \A f \in Failures : f.what = "none" => f = NoFailure
  BY DEF Failures, Sent, Own, Failure, NoFailure, Unstructured, UpstreamErrors

(* A kind of error by its meaning, over each of the three channels; and    *)
(* nothing but the absence of an error is taken for a success.             *)
LEMMA KindOfFailures ==
    ASSUME NEW f \in Failures
    PROVE  /\ f.what \in DOMAIN Meaning /\ IsPlain(f) => KindOf(f) = Meaning[f.what]
           /\ KindOf(f) = "ok" => f = NoFailure
<1>1. f # NoFailure => KindOf(f) # "ok"
  BY DEF KindOf
<1>2. CASE f \notin Sent
  <2>1. f.what \notin DOMAIN Meaning
    BY <1>2 DEF Failures, Own, Failure, NoFailure, Meaning, UpstreamErrors, Unstructured
  <2> QED
    BY <1>1, <2>1
<1>3. CASE f \in Sent
  <2>1. f # NoFailure /\ KindOf(f) # "ok"
    BY <1>1, <1>3, OwnFailures
  <2>2. /\ f.what \in UpstreamErrors /\ f.how \in {"http", "folded", "event"}
        /\ f.named \in BOOLEAN
    BY <1>3 DEF Sent
  <2> SUFFICES ASSUME f.what \in DOMAIN Meaning, IsPlain(f)
               PROVE  KindOf(f) = Meaning[f.what]
    BY <2>1
  <2>3. StatusOf(f) = IF Known(f) # 0 THEN Known(f) ELSE 502
    BY <2>2 DEF StatusOf
  <2>4. TypeOf(f) = IF f.how = "event" THEN TypeOfEvent(f) ELSE TypeOfStatus(f)
    BY <2>2 DEF TypeOf, Meaning
  <2>5. CASE f.what = "overloaded"
    <3>1. f.named /\ Known(f) = 503
      BY <2>2, <2>5 DEF Known, HttpStatus, Inferred, IsPlain, UpstreamErrors
    <3>2. TypeOf(f) \in {"failed", "http_5xx"}
      BY <2>4, <3>1 DEF TypeOfEvent, TypeOfStatus
    <3>3. StatusOf(f) = 503 /\ Transient(f)
      BY <2>3, <2>5, <3>1 DEF Transient
    <3> QED
      BY <2>1, <2>5, <3>2, <3>3 DEF KindOf, Meaning, UpstreamErrors
  <2>6. CASE f.what = "rate_limited"
    <3>1. Known(f) = 429
      BY <2>2, <2>6 DEF Known, HttpStatus, Inferred, IsPlain, UpstreamErrors
    <3>2. TypeOf(f) = "rate_limited"
      BY <2>4, <3>1 DEF TypeOfEvent, TypeOfStatus
    <3> QED
      BY <2>1, <2>6, <3>2 DEF KindOf, Meaning, UpstreamErrors
  <2>7. CASE f.what = "unauthorized"
    <3>1. Known(f) = 401
      BY <2>2, <2>7 DEF Known, HttpStatus, Inferred, IsPlain, UpstreamErrors
    <3>2. TypeOf(f) = "auth_failed"
      BY <2>4, <3>1 DEF TypeOfEvent, TypeOfStatus
    <3> QED
      BY <2>1, <2>3, <2>7, <3>1, <3>2 DEF KindOf, Meaning, Transient, UpstreamErrors
  <2>8. CASE f.what = "invalid"
    <3>1. Known(f) = 400
      BY <2>2, <2>8 DEF Known, HttpStatus, Inferred, IsPlain, UpstreamErrors
    <3>2. TypeOf(f) = "http_4xx"
      BY <2>4, <3>1 DEF TypeOfEvent, TypeOfStatus
    <3> QED
      BY <2>1, <2>3, <2>8, <3>1, <3>2 DEF KindOf, Meaning, Transient, UpstreamErrors
  <2>9. CASE f.what = "broken"
    <3>1. Known(f) = IF f.how = "http" THEN 500 ELSE 0
      BY <2>2, <2>9 DEF Known, HttpStatus, Inferred, UpstreamErrors
    <3>2. TypeOf(f) \in {"failed", "http_5xx"}
      BY <2>2, <2>4, <2>9, <3>1 DEF TypeOfEvent, TypeOfStatus, IsPlain
    <3> QED
      BY <2>1, <2>3, <2>9, <3>1, <3>2 DEF KindOf, Meaning, Transient, UpstreamErrors
  <2> QED
    BY <2>2, <2>5, <2>6, <2>7, <2>8, <2>9 DEF Meaning, UpstreamErrors
<1> QED
  BY <1>2, <1>3

(* Every step of the call, or of Handle around it, is a step of Handle.    *)
LEMMA CallStepsAreSteps == [CallNext]_cvars => [Next]_vars
  BY DEF CallNext, cvars, Enter, Local, FailsFirst, KeepBack, FirstContent,
         LaterEvent, Write, Remote, Load, Unauthorized, Rejected, Answered,
         Connected, Receive, StreamEnds, GiveUp, Expire, FireTimer, Return,
         Handle, Next, Proceed

(* Every step of the call, of its timers and of its context is a step of   *)
(* Handle or leaves it alone: RefinesHandle, but for its fairness.         *)
THEOREM CallIsSteps == CallSpec => Steps
  <1>1. CallInit => Init
    BY DEF CallInit
  <1> QED
    BY <1>1, CallStepsAreSteps, PTL DEF CallSpec, Steps

(* Where the call stands, while there is one; once its last event has been *)
(* written, it only waits for the end.                                     *)
CallStages ==
    /\ phase # "none" => pc = "calling"
    /\ phase \in {"none", "file", "dialing", "reading", "event", "writing", "failing"}
    /\ phase = "event" => event \in Events
    /\ complete \in BOOLEAN
    /\ complete => phase \in {"none", "reading"}

(* The result Handle judges is the kind of the failure of the call, and a  *)
(* stream that was written to its end never fails of its client.           *)
Judged ==
    pc = "judging" =>
        /\ failure \in Failures
        /\ result = KindOf(failure)
        /\ stream /\ failure = NoFailure => complete
        /\ complete => failure.what # "disconnected"

CallInv == CallStages /\ Judged

(* A call that ends is judged by what it ends with.                        *)
LEMMA ReturnStep ==
    ASSUME CallInv, NEW f \in Failures, Return(f),
           stream /\ f = NoFailure => complete,
           complete => f.what # "disconnected"
    PROVE  CallInv'
  BY DEF CallInv, CallStages, Judged, Return, CallReturns

(* What a call may end with, cut off by its context or not.                *)
Ended(f) ==
    /\ f \in Failures
    /\ f = NoFailure => complete
    /\ complete => f.what # "disconnected"

LEMMA CutFailures ==
    ASSUME NEW f \in Failures
    PROVE  /\ Cut(f) \in Failures
           /\ f # NoFailure => Cut(f) # NoFailure
           /\ ContextFailure \in Failures /\ ContextFailure # NoFailure
<1>1. ContextFailure \in {Own(what) : what \in Unstructured}
  BY DEF ContextFailure, Unstructured
<1> QED
  BY <1>1, OwnFailures DEF Cut

LEMMA ClosedFailures ==
    ASSUME CallStages, NEW f \in Failures, f = NoFailure => complete
    PROVE  Ended(Closed(f))
<1>1. complete => phase # "failing"
  BY DEF CallStages
<1>2. Own("failed") \in Failures /\ Own("failed") # NoFailure
  BY OwnFailures DEF Unstructured
<1>3. NoFailure \in Failures /\ NoFailure.what # "disconnected"
  BY OwnFailures
<1> QED
  BY <1>1, <1>2, <1>3 DEF Closed, Ended

(* The call gives up, or fails or answers before it reads a stream.        *)
LEMMA EarlyReturn ==
    ASSUME CallInv, GiveUp \/ Load \/ Unauthorized \/ Rejected \/ Answered \/ Connected
    PROVE  CallInv'
  <1> USE DEF CallInv, CallStages, NoFailure, Failures
  <1>1. CASE GiveUp
    <2>1. Return(Closed(ContextFailure))
      BY <1>1 DEF GiveUp
    <2>2. Ended(Closed(ContextFailure))
      BY OwnFailures, CutFailures, ClosedFailures
    <2> QED
      BY <2>1, <2>2, ReturnStep DEF Ended
  <1>2. CASE Load
    <2>1. CASE \E what \in Unstructured :
                  Return(Cut(Own(IF refreshed THEN "auth_failed" ELSE what)))
      <3>1. PICK what \in Unstructured :
                  Return(Cut(Own(IF refreshed THEN "auth_failed" ELSE what)))
        BY <2>1
      <3>2. (IF refreshed THEN "auth_failed" ELSE what) \in Unstructured
        BY DEF Unstructured
      <3>3. PICK f \in Failures : f # NoFailure /\ Return(Cut(f))
        BY <3>1, <3>2, OwnFailures
      <3>4. ~complete
        BY <1>2 DEF Load
      <3> QED
        BY <3>3, <3>4, CutFailures, ReturnStep
    <2> QED
      BY <1>2, <2>1 DEF Load, timers, vars, Judged
  <1>3. CASE Unauthorized
    BY <1>3 DEF Unauthorized, timers, vars, Judged
  <1>4. CASE Rejected
    <2>1. PICK f \in Failures : f # NoFailure /\ Return(Cut(f))
      <3>1. \A what \in UpstreamErrors, how \in {"http", "folded"}, named \in BOOLEAN :
               Failure(what, how, named) \in Sent
        BY DEF Failure, Sent
      <3>2. \/ \E f \in Sent : Return(Cut(f))
            \/ \E what \in Unstructured : Return(Cut(Own(what)))
        BY <1>4, <3>1 DEF Rejected
      <3> QED
        BY <3>2, OwnFailures
    <2>2. ~complete
      BY <1>4 DEF Rejected
    <2> QED
      BY <2>1, <2>2, CutFailures, ReturnStep
  <1>5. CASE Answered
    <2>1. PICK f \in Failures : Return(f)
      BY <1>5, OwnFailures DEF Answered, Unstructured
    <2>2. ~complete /\ ~stream
      BY <1>5 DEF Answered
    <2> QED
      BY <2>1, <2>2, ReturnStep
  <1>6. CASE Connected
    BY <1>6 DEF Connected, timers, vars, Judged
  <1> QED
    BY <1>1, <1>2, <1>3, <1>4, <1>5, <1>6

(* The events of a stream, one by one, and its end.                        *)
LEMMA StreamStep ==
    ASSUME CallInv, Receive \/ Local \/ StreamEnds
    PROVE  CallInv'
  <1> USE DEF CallInv, CallStages, NoFailure, Failures
  <1>1. CASE Receive
    BY <1>1 DEF Receive, timers, vars, Judged
  <1>2. CASE FailsFirst
    <2>1. \A named \in BOOLEAN : Failure(event, "event", named) \in Sent
      BY <1>2 DEF FailsFirst, Failure, Sent
    <2>2. PICK f \in Sent : Return(f)
      BY <1>2, <2>1 DEF FailsFirst
    <2>3. ~complete
      BY <1>2 DEF FailsFirst
    <2> QED
      BY <2>2, <2>3, OwnFailures, ReturnStep
  <1>3. CASE KeepBack
    <2>1. CASE Return(Own("protocol"))
      BY <1>3, <2>1, OwnFailures, ReturnStep DEF KeepBack, Unstructured
    <2> QED
      BY <1>3, <2>1 DEF KeepBack, vars, Judged
  <1>4. CASE FirstContent
    BY <1>4 DEF FirstContent, StreamBegins, Judged
  <1>5. CASE LaterEvent
    BY <1>5 DEF LaterEvent, vars, Judged
  <1>6. CASE Write
    <2>1. CASE Return(Own("disconnected"))
      BY <1>6, <2>1, OwnFailures, ReturnStep DEF Write, Unstructured
    <2> QED
      BY <1>6, <2>1 DEF Write, vars, Judged, UpstreamErrors
  <1>7. CASE StreamEnds
    <2>1. PICK f \in Failures : (f = NoFailure => complete) /\ Return(Closed(Cut(f)))
      BY <1>7, OwnFailures DEF StreamEnds
    <2>2. Ended(Closed(Cut(f)))
      BY <2>1, CutFailures, ClosedFailures
    <2> QED
      BY <2>1, <2>2, ReturnStep DEF Ended
  <1> QED
    BY <1>1, <1>2, <1>3, <1>4, <1>5, <1>6, <1>7 DEF Local

LEMMA CallInvStep == CallInv /\ [CallNext]_cvars => CallInv'
  <1> SUFFICES ASSUME CallInv, [CallNext]_cvars PROVE CallInv'
    OBVIOUS
  <1> USE DEF CallInv, CallStages
  <1>1. CASE Enter
    BY <1>1 DEF Enter, Route, Judged
  <1>2. CASE Expire \/ FireTimer
    BY <1>2 DEF Expire, FireTimer, vars, outcome, Judged
  <1>3. ASSUME UNCHANGED call, UNCHANGED <<pc, stream, result>> PROVE CallInv'
    BY <1>3 DEF call, Judged
  <1>4. CASE (Fire \/ Disconnect \/ PoolChanges) /\ UNCHANGED call
    BY <1>3, <1>4 DEF Fire, Disconnect, PoolChanges, outcome
  <1>5. CASE Handle /\ UNCHANGED call
    <2>1. pc # "calling" /\ pc' # "judging"
      BY <1>5 DEF Handle, OutOfTime, NextRound, AwaitAccount, KeepLast, Unroutable,
                  RouterFails, Discard, Conclude, BackOff, FailOver, Resume, Finish
    <2> QED
      BY <1>5, <2>1 DEF call, Judged
  <1>6. CASE UNCHANGED cvars
    BY <1>3, <1>6 DEF cvars, vars, outcome
  <1> QED
    BY <1>1, <1>2, <1>4, <1>5, <1>6, EarlyReturn, StreamStep DEF CallNext, Remote

LEMMA AlwaysCallInv == CallSpec => []CallInv
  <1>1. CallInit => CallInv
    BY DEF CallInit, Init, CallInv, CallStages, Judged
  <1> QED
    BY <1>1, CallInvStep, PTL DEF CallSpec

(* Whichever way an error of the upstream arrives, and whenever, it means  *)
(* the same for the retries, if its text or its status says what it is.    *)
THEOREM CallErrorsKeepTheirMeaning == CallSpec => []ErrorsKeepTheirMeaning
  <1>1. CallInv => ErrorsKeepTheirMeaning
    BY KindOfFailures DEF CallInv, Judged, ErrorsKeepTheirMeaning
  <1> QED
    BY <1>1, AlwaysCallInv, PTL

(* Only a stream that was written to its end is a success, and its client  *)
(* makes none of them a failure by leaving.                                *)
THEOREM CallSuccessIsCompletion == CallSpec => []SuccessIsCompletion
  <1>1. CallInv => SuccessIsCompletion
    BY KindOfFailures DEF CallInv, Judged, SuccessIsCompletion
  <1> QED
    BY <1>1, AlwaysCallInv, PTL

(* As long as nothing has cancelled the call, no timer that could still    *)
(* report a missing first response is left once the answer has begun.      *)
FirstTimers ==
    cause = "none" /\ (armed = "first" \/ (firing = "first" /\ ~overtaken)) => ~started

LEMMA FirstTimersStep == FirstTimers /\ [CallNext]_cvars => FirstTimers'
  <1> SUFFICES ASSUME FirstTimers, [CallNext]_cvars PROVE FirstTimers'
    OBVIOUS
  <1> USE DEF FirstTimers, timers
  <1>1. CASE Enter
    BY <1>1 DEF Enter, Route
  <1>2. CASE Expire \/ FireTimer
    BY <1>2 DEF Expire, FireTimer, vars, outcome
  <1>3. ASSUME NEW f, Return(f) PROVE FirstTimers'
    BY <1>3 DEF Return
  <1>4. CASE FirstContent \/ LaterEvent \/ KeepBack
    BY <1>3, <1>4 DEF FirstContent, LaterEvent, KeepBack, Noted, Arm, vars, outcome
  <1>5. CASE FailsFirst \/ Write
    BY <1>3, <1>5 DEF FailsFirst, Write, vars, outcome
  <1>6. CASE Load \/ Unauthorized \/ Rejected \/ Answered \/ Connected \/ Receive
    BY <1>3, <1>6 DEF Load, Unauthorized, Rejected, Answered, Connected, Receive, vars, outcome
  <1>7. CASE StreamEnds \/ GiveUp
    BY <1>3, <1>7 DEF StreamEnds, GiveUp
  <1>8. CASE (Handle \/ Fire \/ Disconnect \/ PoolChanges) /\ UNCHANGED call
    BY <1>8 DEF Handle, Fire, Disconnect, PoolChanges, call, outcome,
                OutOfTime, NextRound, AwaitAccount, KeepLast, Unroutable,
                RouterFails, Discard, Conclude, BackOff, FailOver, Resume, Finish
  <1>9. CASE UNCHANGED cvars
    BY <1>9 DEF cvars, call, vars, outcome
  <1> QED
    BY <1>1, <1>2, <1>4, <1>5, <1>6, <1>7, <1>8, <1>9 DEF CallNext, Local, Remote

(* A timer that an event has overtaken cancels nothing, and the first      *)
(* response is not missed any more once the answer has begun.              *)
THEOREM CallOvertakenTimersAreVoid == CallSpec => OvertakenTimersAreVoid
  <1>1. CallInit => FirstTimers
    BY DEF CallInit, Init, FirstTimers
  <1>2. FirstTimers /\ [CallNext]_cvars =>
            [cause = "none" /\ cause' # "none" =>
                ~overtaken /\ (cause' = "first" => ~started)]_cvars
    <2> SUFFICES ASSUME FirstTimers, [CallNext]_cvars, cause = "none", cause' # "none"
                 PROVE  ~overtaken /\ (cause' = "first" => ~started)
      OBVIOUS
    <2>1. FireTimer
      BY DEF CallNext, cvars, call, timers, Enter, Local, FailsFirst, KeepBack,
             FirstContent, LaterEvent, Write, Remote, Load, Unauthorized, Rejected,
             Answered, Connected, Receive, StreamEnds, GiveUp, Expire, Return
    <2> QED
      BY <2>1 DEF FireTimer, FirstTimers
  <1> QED
    BY <1>1, <1>2, FirstTimersStep, PTL DEF CallSpec, OvertakenTimersAreVoid

(* With its calls in detail a request still keeps the promise of           *)
(* ProxyAnswer.                                                            *)
THEOREM CallAnswersOnce == CallSpec => AnswersOnce
  BY CallIsSteps, StepsAnswerOnce

(* The deadline of the retries never ends an answer on its way, timers of  *)
(* the stream included.                                                    *)
THEOREM CallDeadlineSparesStreams == CallSpec => DeadlineSparesStreams
  BY CallIsSteps, StepsSpareStreams

=============================================================================
