---------------------------- MODULE UpstreamCall ----------------------------
(***************************************************************************)
(* The upstream call of ProxyHandle in detail: ProxyAPIClientImpl.Do and   *)
(* Stream, the timers of stream_timeout.go that watch a stream, and the    *)
(* classification that turns what the upstream says, over whichever        *)
(* channel, into the kind of error the loop of Handle looks at.            *)
(*                                                                         *)
(* Every action of ProxyHandle that concerns the call is refined here;     *)
(* the rest of Handle runs as before, with no call under way. One timer    *)
(* callback waits for c.mu at a time: a second one would find a newer      *)
(* generation too.                                                         *)
(***************************************************************************)
EXTENDS ProxyHandle

CONSTANTS
    FirstTimeout,   \* the first-response timeout is configured
    IdleTimeout     \* so is the stream idle timeout

ASSUME TimeoutsAssumption == {FirstTimeout, IdleTimeout} \subseteq BOOLEAN

VARIABLES
    phase,          \* where Do or Stream stands
    event,          \* the event Next has returned, not looked at yet
    refreshed,      \* a 401 has made it refresh the token
    armed,          \* what the running timer would report, or "off"
    firing,         \* the callback of an expired timer that waits for c.mu
    cause,          \* what has cancelled streamCtx, its parent aside
    complete,       \* responseCompleted
    failure,        \* history: what the last call has failed of, and how
    overtaken       \* history: an event was noted after the timer expired

timers == <<armed, firing, cause, overtaken>>
call == <<phase, event, refreshed, timers, complete, failure>>
cvars == <<vars, call>>

(* A failure: what went wrong, how the gateway learnt of it, and whether   *)
(* the text of the error names it in the words the gateway looks for.      *)
Failure(what, how, named) == [what |-> what, how |-> how, named |-> named]
Own(what) == Failure(what, "local", FALSE)
NoFailure == Own("none")

CallInit ==
    /\ Init
    /\ phase = "none" /\ event = "none"
    /\ refreshed = FALSE /\ complete = FALSE
    /\ armed = "off" /\ firing = "none" /\ cause = "none" /\ overtaken = FALSE
    /\ failure = NoFailure

ContextDone == ~IsLive \/ cause # "none"

-----------------------------------------------------------------------------
(* Errors. An error of the upstream has a status of its own ("http"), is   *)
(* a terminal event before the content ("event"), or is such an event that *)
(* the library folds into an APIError without a status ("folded").         *)

UpstreamErrors ==
    {"overloaded", "rate_limited", "no_quota", "unauthorized", "invalid", "slow", "broken"}

(* What classifyError and classifyUnstructuredError make of other errors.  *)
Unstructured == {"auth_failed", "network", "timeout", "protocol", "incomplete",
                 "failed", "internal", "disconnected"}

HttpStatus == [what \in UpstreamErrors |->
    CASE what = "overloaded" -> 503
      [] what \in {"rate_limited", "no_quota"} -> 429
      [] what = "unauthorized" -> 401
      [] what = "invalid" -> 400
      [] what = "slow" -> 504
      [] what = "broken" -> 500]

\* mutant: an error without a status has no status
InferredNothing(f) == 0

(* upstreamAPIErrorStatus: the text stands for a status, if it is one of   *)
(* four that it looks for.                                                 *)
Inferred(f) ==
    IF f.named /\ f.what \in {"overloaded", "rate_limited", "unauthorized", "invalid"}
    THEN HttpStatus[f.what] ELSE 0

Known(f) == IF f.how = "http" THEN HttpStatus[f.what] ELSE Inferred(f)

(* The status of the result, where the retries look at it.                 *)
StatusOf(f) ==
    IF f.what \in UpstreamErrors /\ Known(f) # 0 THEN Known(f) ELSE 502

(* initialStreamErrorResult.                                               *)
TypeOfEvent(f) ==
    CASE Known(f) = 401 -> "auth_failed"
      [] Known(f) = 429 -> "rate_limited"
      [] Known(f) = 400 -> "http_4xx"
      [] OTHER -> "failed"

(* classifyStatusError, which reads the text when there is no status.      *)
TypeOfStatus(f) ==
    CASE Known(f) = 401 -> "auth_failed"
      [] Known(f) = 429 -> "rate_limited"
      [] Known(f) = 504 -> "timeout"
      [] Known(f) = 400 -> "http_4xx"
      [] Known(f) \in {500, 503} -> "http_5xx"
      [] OTHER -> IF ~f.named THEN "internal"
                  ELSE IF f.what = "slow" THEN "timeout" ELSE "http_5xx"

TypeOf(f) ==
    IF f.what \notin UpstreamErrors THEN f.what
    ELSE IF f.how = "event" THEN TypeOfEvent(f)
    ELSE IF f.named /\ f.what = "no_quota" THEN "quota_exhausted"
    ELSE TypeOfStatus(f)

(* IsTransientUpstreamCapacityError.                                       *)
Transient(f) == f.what = "overloaded" /\ f.named /\ StatusOf(f) \in 500 .. 599

(* shouldRetry and shouldWaitForUpstreamCapacity, before any content.      *)
KindOf(f) ==
    CASE f = NoFailure -> "ok"
      [] Transient(f) \/ TypeOf(f) \in {"rate_limited", "timeout"} -> "capacity"
      [] TypeOf(f) \in {"http_4xx", "disconnected", "protocol", "internal"} -> "fatal"
      [] StatusOf(f) = 429 -> "capacity"
      [] OTHER -> "failover"

-----------------------------------------------------------------------------
(* The timers: streamTimeoutController of a stream, the deadline of the    *)
(* context of the other calls.                                             *)

(* arm: a new generation, and the callback of an older one is void.        *)
Arm(timeout, isOn) ==
    IF cause # "none" THEN UNCHANGED <<armed, firing, overtaken>>
    ELSE /\ armed' = IF isOn THEN timeout ELSE "off"
         /\ overtaken' = (firing # "none")
         /\ UNCHANGED firing

Expire ==
    /\ armed # "off" /\ firing = "none"
    /\ firing' = armed
    /\ armed' = "off"
    /\ UNCHANGED <<vars, phase, event, refreshed, cause, complete, failure, overtaken>>

\* mutant: the callback does not compare the generations
FireAnyGeneration ==
    /\ firing # "none"
    /\ cause' = IF cause = "none" THEN firing ELSE cause
    /\ firing' = "none" /\ overtaken' = FALSE
    /\ UNCHANGED <<vars, phase, event, refreshed, armed, complete, failure>>

(* The callback has c.mu: it cancels unless an event was faster.           *)
FireTimer ==
    /\ firing # "none"
    /\ cause' = IF cause = "none" /\ ~overtaken THEN firing ELSE cause
    /\ firing' = "none" /\ overtaken' = FALSE
    /\ UNCHANGED <<vars, phase, event, refreshed, armed, complete, failure>>

-----------------------------------------------------------------------------
(* The call.                                                               *)

Enter ==
    /\ Route
    /\ phase' = "file" /\ event' = "none"
    /\ refreshed' = FALSE /\ complete' = FALSE
    /\ armed' = IF FirstTimeout THEN "first" ELSE "off"
    /\ firing' = "none" /\ cause' = "none" /\ overtaken' = FALSE
    /\ failure' = NoFailure

(* The call is over with the failure f; the timers are stopped.            *)
Return(f) ==
    /\ CallReturns
    /\ result' = KindOf(f)
    /\ usage' = IF stream THEN complete ELSE f = NoFailure
    /\ failure' = f
    /\ phase' = "none" /\ event' = "none"
    /\ armed' = "off" /\ firing' = "none" /\ overtaken' = FALSE
    /\ UNCHANGED <<refreshed, cause, complete>>

(* The context is done; its parent comes first (streamContextError).       *)
ContextFailure == Own(IF IsLive THEN "timeout" ELSE "disconnected")

(* A stream reports the end of its context and no error it has caused.     *)
Cut(f) == IF stream /\ ContextDone THEN ContextFailure ELSE f

\* mutant: a client that leaves is an error even after the last event
ClosedAlways(f) == f

(* The end of a stream: a client that leaves after response.completed is   *)
(* no error (applyPostCompletionStreamError), every other one still is. A  *)
(* terminal event says what the error is.                                  *)
Closed(f) ==
    IF complete /\ f.what = "disconnected" THEN NoFailure
    ELSE IF phase = "failing" THEN Own("failed") ELSE f

\* mutant: a call that waits for its answer does not notice the end
GiveUpStreams ==
    /\ phase \in {"reading", "failing"}
    /\ ContextDone
    /\ Return(Closed(ContextFailure))

GiveUp ==
    /\ phase \in {"file", "dialing", "reading", "failing"}
    /\ ContextDone
    /\ Return(Closed(ContextFailure))

(* The request is converted and ActiveAccountFile returns the tokens; the  *)
(* second time its failure leaves the 401 as it was.                       *)
Load ==
    /\ phase = "file"
    /\ \/ /\ phase' = "dialing"
          /\ UNCHANGED <<vars, event, refreshed, timers, complete, failure>>
       \/ \E what \in Unstructured :
             Return(Cut(Own(IF refreshed THEN "auth_failed" ELSE what)))

(* The first 401 has the token refreshed and the call repeated.            *)
Unauthorized ==
    /\ phase = "dialing" /\ ~refreshed
    /\ refreshed' = TRUE
    /\ phase' = "file"
    /\ UNCHANGED <<vars, event, timers, complete, failure>>

Rejected ==
    /\ phase = "dialing"
    /\ \/ \E what \in UpstreamErrors, how \in {"http", "folded"}, named \in BOOLEAN :
             /\ how = "folded" => ~stream
             /\ what = "unauthorized" /\ how = "http" => refreshed
             /\ Return(Cut(Failure(what, how, named)))
       \/ \E what \in Unstructured : Return(Cut(Own(what)))

(* A whole answer, or a response that cannot be read.                      *)
Answered ==
    /\ phase = "dialing" /\ ~stream
    /\ \E f \in {NoFailure, Own("protocol")} : Return(f)

Connected ==
    /\ phase = "dialing" /\ stream
    /\ phase' = "reading"
    /\ UNCHANGED <<vars, event, refreshed, timers, complete, failure>>

(* streamEventErrorType and isContentStreamEvent sort the events of a      *)
(* stream by what they mean for the answer, whatever their names.          *)
Events == {"prepare", "content", "completed"} \cup UpstreamErrors

(* stream.Next returns an event; response.completed is the last one.       *)
Receive ==
    /\ phase = "reading" /\ ~complete
    /\ event' \in Events
    /\ phase' = "event"
    /\ UNCHANGED <<vars, refreshed, timers, complete, failure>>

\* mutant: an event ends the timer and starts none
NotedOnce == Arm("off", FALSE)

(* noteEvent, the first thing the loop does.                               *)
Noted == Arm("idle", IdleTimeout)

(* A terminal event before the content: nothing was sent, Handle may retry.*)
FailsFirst ==
    /\ phase = "event" /\ event \in UpstreamErrors /\ ~started
    /\ \E named \in BOOLEAN : Return(Failure(event, "event", named))

(* An event that prepares the answer is kept back, up to a limit.          *)
KeepBack ==
    /\ phase = "event" /\ event = "prepare" /\ ~started
    /\ \/ /\ Noted
          /\ phase' = "reading" /\ event' = "none"
          /\ UNCHANGED <<vars, refreshed, cause, complete, failure>>
       \/ Return(Own("protocol"))

(* The first content, or the end: what was kept back goes with it.         *)
FirstContent ==
    /\ phase = "event" /\ event \in {"content", "completed"} /\ ~started
    /\ StreamBegins
    /\ Noted
    /\ phase' = "writing"
    /\ UNCHANGED <<event, refreshed, cause, complete, failure>>

LaterEvent ==
    /\ phase = "event" /\ started
    /\ Noted
    /\ phase' = "writing"
    /\ UNCHANGED <<vars, event, refreshed, cause, complete, failure>>

(* The events are written; the client may be gone.                         *)
Write ==
    /\ phase = "writing"
    /\ \/ /\ phase' = IF event \in UpstreamErrors THEN "failing" ELSE "reading"
          /\ complete' = (event = "completed")
          /\ event' = "none"
          /\ UNCHANGED <<vars, refreshed, timers, failure>>
       \/ Return(Own("disconnected"))

(* stream.Next returns false: the stream ends well, after its last event,  *)
(* or with an error before or after it, or with that of a terminal event.  *)
StreamEnds ==
    \/ /\ phase = "reading" /\ complete
       /\ Return(Closed(Cut(NoFailure)))
    \/ /\ phase \in {"reading", "failing"}
       /\ \E what \in Unstructured : Return(Closed(Cut(Own(what))))

-----------------------------------------------------------------------------

(* What the call does without the upstream.                                *)
Local == FailsFirst \/ KeepBack \/ FirstContent \/ LaterEvent \/ Write

Remote ==
    \/ Load \/ Unauthorized \/ Rejected \/ Answered \/ Connected
    \/ Receive \/ StreamEnds

(* The rest of Handle, its client, its retry timer and the pool.           *)
Handle ==
    \/ OutOfTime \/ NextRound \/ AwaitAccount \/ KeepLast
    \/ Unroutable \/ RouterFails
    \/ Discard \/ Conclude \/ BackOff \/ FailOver \/ Resume \/ Finish

CallNext ==
    \/ Enter \/ Local \/ Remote \/ GiveUp \/ Expire \/ FireTimer
    \/ (Handle \/ Fire \/ Disconnect \/ PoolChanges) /\ UNCHANGED call

(* The gateway's own steps are taken and its timers fire. A call whose     *)
(* context is done returns, after the events it has buffered, if any;      *)
(* otherwise the upstream owes nothing.                                    *)
CallSpec ==
    /\ CallInit /\ [][CallNext]_cvars
    /\ WF_cvars(Enter) /\ WF_cvars(Handle /\ UNCHANGED call) /\ WF_cvars(Local)
    /\ SF_cvars(GiveUp)
    /\ WF_cvars(Fire /\ UNCHANGED call) /\ WF_cvars(Expire) /\ WF_cvars(FireTimer)

-----------------------------------------------------------------------------

(* stream_timeout.go: a timer that expires while an event arrives cancels  *)
(* nothing when the event has c.mu first, so no stream is cut off for a    *)
(* silence that has ended; and no first-response timeout cancels a stream  *)
(* that has begun to answer.                                               *)
OvertakenTimersAreVoid ==
    [][cause = "none" /\ cause' # "none" =>
          ~overtaken /\ (cause' = "first" => ~started)]_cvars

(* proxyapi_client.go:1021: overload, rate limits, refused requests and    *)
(* refused credentials mean the same for the retries, whichever way they   *)
(* arrive, as long as nothing has been sent and the text names them; with  *)
(* a status of their own, all but the overload need no text.               *)
Meaning == [what \in UpstreamErrors \ {"no_quota", "slow"} |->
    CASE what \in {"overloaded", "rate_limited"} -> "capacity"
      [] what \in {"unauthorized", "broken"} -> "failover"
      [] what = "invalid" -> "fatal"]

IsPlain(f) == f.named \/ (f.how = "http" /\ f.what # "overloaded")

ErrorsKeepTheirMeaning ==
    pc = "judging" /\ failure.what \in DOMAIN Meaning /\ IsPlain(failure) =>
        result = Meaning[failure.what]

(* applyPostCompletionStreamError (comment at proxyapi_client.go:844): no  *)
(* stream is a success before its last event has been sent, and no client  *)
(* that leaves afterwards makes it a failure.                              *)
SuccessIsCompletion ==
    pc = "judging" /\ stream =>
        /\ result = "ok" => complete
        /\ complete => failure.what # "disconnected"

(* A stream whose upstream falls silent, before its content or after it,   *)
(* is given up: a call that lasts for ever receives events for ever.       *)
SilentStreamsEnd == <>[](phase # "none") => []<>(phase = "event")

(* Whatever the call does, Handle sees the call its own module describes,  *)
(* so all that is proved of ProxyHandle holds of the two together.         *)
RefinesHandle == Spec

=============================================================================
