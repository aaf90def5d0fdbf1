----------------------------- MODULE ProxyHandle -----------------------------
(***************************************************************************)
(* One request in ProxyService.Handle, from its reservation to its         *)
(* settlement: the loop over accounts and retries, the context that ends   *)
(* with the client or with the five minutes of proxy_retry.go, and the     *)
(* stream that stops that timer with its first content.                    *)
(*                                                                         *)
(* The accounts come and go as AccountHealth lets them; an upstream call   *)
(* ends with a kind of error, which is all the loop looks at.              *)
(***************************************************************************)
EXTENDS Integers, FiniteSets

CONSTANTS
    Accounts,       \* the accounts that serve the model
    MaxAttempts     \* Config().MaxRetries + 1, at least 1

ASSUME MaxAttemptsAssumption == MaxAttempts \in Nat \ {0}

VARIABLES
    stream,         \* the request asks for a stream
    pc,             \* where the request stands in Handle
    eligible,       \* the accounts the router would return now
    ctx,            \* retryCtx: "live", or why it is done
    timer,          \* the retry timer: "armed", "stopped" or "fired"
    excluded,       \* the accounts tried in this round
    attempts,       \* the calls so far, counted up to MaxAttempts + 1
    waits,          \* capacityRetrying
    result,         \* the kind of lastResult and lastErr
    started,        \* StreamStarted of the call
    usage,          \* lastResult carries token usage
    answers,        \* history: calls that sent content, counted up to 2
    completed,      \* history: some call was answered completely
    reserved,       \* the reservation is held
    charged         \* the usage has been charged

loop == <<excluded, attempts, waits>>
outcome == <<result, started, usage>>
environment == <<eligible, ctx, timer>>
history == <<answers, completed>>
settlement == <<reserved, charged>>
vars == <<stream, pc, environment, loop, outcome, history, settlement>>

(* "capacity": overload, rate limit or timeout, which shouldWaitForUpstream*)
(* Capacity waits for; "failover": the other errors of shouldRetry.        *)
Kinds == {"none", "ok", "capacity", "failover", "fatal"}

Candidates == eligible \ excluded

IsLive == ctx = "live"

Init ==
    /\ stream \in BOOLEAN
    /\ pc = "routing"
    /\ eligible \in SUBSET Accounts
    /\ ctx = "live" /\ timer = "armed"
    /\ excluded = {} /\ attempts = 0 /\ waits = FALSE
    /\ result = "none" /\ started = FALSE /\ usage = FALSE
    /\ answers = 0 /\ completed = FALSE
    /\ reserved = TRUE /\ charged = FALSE

-----------------------------------------------------------------------------
(* Routing.                                                                *)

\* mutant: the context is looked at before the first call only
OutOfTimeAtFirst ==
    /\ pc = "routing" /\ ~IsLive /\ attempts = 0
    /\ result' = "fatal" /\ usage' = FALSE
    /\ pc' = "finishing"
    /\ UNCHANGED <<stream, environment, loop, started, history, settlement>>

(* The head of the loop: the deadline or the client has ended the context, *)
(* which replaces whatever the last call has returned.                     *)
OutOfTime ==
    /\ pc = "routing" /\ ~IsLive
    /\ result' = "fatal" /\ usage' = FALSE
    /\ pc' = "finishing"
    /\ UNCHANGED <<stream, environment, loop, started, history, settlement>>

(* The router returns an account.                                          *)
Route ==
    /\ pc = "routing" /\ IsLive
    /\ \E a \in Candidates : excluded' = excluded \cup {a}
    /\ attempts' = IF attempts > MaxAttempts THEN attempts ELSE attempts + 1
    /\ started' = FALSE
    /\ pc' = "calling"
    /\ UNCHANGED <<stream, environment, waits, result, usage, history, settlement>>

(* No account is left while waiting for capacity: begin another round, ... *)
NextRound ==
    /\ pc = "routing" /\ IsLive
    /\ Candidates = {} /\ waits
    /\ excluded # {}
    /\ excluded' = {}
    /\ UNCHANGED <<stream, pc, environment, attempts, waits, outcome, history, settlement>>

(* ... or wait if a whole round has none.                                  *)
AwaitAccount ==
    /\ pc = "routing" /\ IsLive
    /\ Candidates = {} /\ waits
    /\ excluded = {}
    /\ pc' = "waiting"
    /\ UNCHANGED <<stream, environment, loop, outcome, history, settlement>>

(* No other account to fail over to: the last result stands.               *)
KeepLast ==
    /\ pc = "routing" /\ IsLive
    /\ Candidates = {} /\ ~waits
    /\ attempts > 0
    /\ pc' = "finishing"
    /\ UNCHANGED <<stream, environment, loop, outcome, history, settlement>>

\* mutant: the early return does not release the reservation
UnroutableKeeping ==
    /\ pc = "routing" /\ IsLive
    /\ Candidates = {} /\ attempts = 0
    /\ pc' = "done"
    /\ UNCHANGED <<stream, environment, loop, outcome, history, settlement>>

(* No account at all: the early return, with the deferred FinalizeTokens.  *)
Unroutable ==
    /\ pc = "routing" /\ IsLive
    /\ Candidates = {} /\ attempts = 0
    /\ reserved' = FALSE
    /\ pc' = "done"
    /\ UNCHANGED <<stream, environment, loop, outcome, history, charged>>

(* The router fails for another reason (the model, the database).          *)
RouterFails ==
    /\ pc = "routing" /\ IsLive
    /\ result' = IF attempts = 0 THEN "fatal" ELSE result
    /\ pc' = "finishing"
    /\ UNCHANGED <<stream, environment, loop, started, usage, history, settlement>>

-----------------------------------------------------------------------------
(* The upstream call.                                                      *)

\* mutant: the writer does not stop the timer
StreamBeginsTimed ==
    /\ pc = "calling" /\ stream /\ ~started
    /\ started' = TRUE
    /\ answers' = IF answers < 2 THEN answers + 1 ELSE answers
    /\ UNCHANGED <<stream, pc, environment, loop, result, usage, completed, settlement>>

(* The first content is written: proxyRetryWriter stops the timer, unless  *)
(* it has fired by then.                                                   *)
StreamBegins ==
    /\ pc = "calling" /\ stream /\ ~started
    /\ started' = TRUE
    /\ timer' = IF timer = "armed" THEN "stopped" ELSE timer
    /\ answers' = IF answers < 2 THEN answers + 1 ELSE answers
    /\ UNCHANGED <<stream, pc, eligible, ctx, loop, result, usage, completed, settlement>>

(* The call ends. Only a complete answer has usage; a stream that is       *)
(* complete has started, and may still end with an error.                  *)
CallReturns ==
    /\ pc = "calling"
    /\ result' \in Kinds \ {"none"}
    /\ usage' \in IF stream THEN {FALSE, started} ELSE {result' = "ok"}
    /\ completed' = (completed \/ usage')
    /\ pc' = "judging"
    /\ UNCHANGED <<stream, environment, loop, started, answers, settlement>>

-----------------------------------------------------------------------------
(* Judging its result.                                                     *)

(* The context ended during the call: back to the head of the loop.        *)
Interrupted == ~IsLive /\ ~(stream /\ started)

Discard ==
    /\ pc = "judging" /\ Interrupted
    /\ pc' = "routing"
    /\ UNCHANGED <<stream, environment, loop, outcome, history, settlement>>

(* shouldRetry.                                                            *)
Retryable == result \in {"capacity", "failover"} /\ ~(stream /\ started)

(* A success, or an error that is not retried.                             *)
Conclude ==
    /\ pc = "judging" /\ ~Interrupted
    /\ ~Retryable
    /\ pc' = "finishing"
    /\ UNCHANGED <<stream, environment, loop, outcome, history, settlement>>

(* shouldWaitForUpstreamCapacity, now or earlier: back off and go on.      *)
BackOff ==
    /\ pc = "judging" /\ ~Interrupted
    /\ Retryable /\ (waits \/ result = "capacity")
    /\ waits' = TRUE
    /\ pc' = "waiting"
    /\ UNCHANGED <<stream, environment, excluded, attempts, outcome, history, settlement>>

(* Another account, while the attempts last.                               *)
FailOver ==
    /\ pc = "judging" /\ ~Interrupted
    /\ Retryable /\ ~waits /\ result = "failover"
    /\ pc' = IF attempts >= MaxAttempts THEN "finishing" ELSE "routing"
    /\ UNCHANGED <<stream, environment, loop, outcome, history, settlement>>

(* waitForUpstreamRetry returns.                                           *)
Resume ==
    /\ pc = "waiting"
    /\ pc' = "routing"
    /\ UNCHANGED <<stream, environment, loop, outcome, history, settlement>>

(* The log, FinalizeTokens with the usage of the last result, the return.  *)
Finish ==
    /\ pc = "finishing"
    /\ reserved' = FALSE
    /\ charged' = usage
    /\ pc' = "done"
    /\ UNCHANGED <<stream, environment, loop, outcome, history>>

-----------------------------------------------------------------------------
(* The timer, the client and the pool.                                     *)

Fire ==
    /\ pc # "done" /\ timer = "armed"
    /\ timer' = "fired"
    /\ ctx' = IF IsLive THEN "deadline" ELSE ctx
    /\ UNCHANGED <<stream, pc, eligible, loop, outcome, history, settlement>>

Disconnect ==
    /\ pc # "done" /\ IsLive
    /\ ctx' = "cancelled"
    /\ UNCHANGED <<stream, pc, eligible, timer, loop, outcome, history, settlement>>

PoolChanges ==
    /\ pc # "done"
    /\ \E pool \in SUBSET Accounts : pool # eligible /\ eligible' = pool
    /\ UNCHANGED <<stream, pc, ctx, timer, loop, outcome, history, settlement>>

(* The steps Handle takes by itself. An upstream call is none of them: it  *)
(* may last for ever, unless the context has ended.                        *)
Proceed ==
    \/ OutOfTime \/ Route \/ NextRound \/ AwaitAccount \/ KeepLast
    \/ Unroutable \/ RouterFails
    \/ Discard \/ Conclude \/ BackOff \/ FailOver \/ Resume \/ Finish

Next ==
    \/ Proceed \/ StreamBegins \/ CallReturns
    \/ Fire \/ Disconnect \/ PoolChanges

(* Handle is scheduled, its timer fires if nobody stops it, and a call is  *)
(* given up when its context ends. The upstream, the client and the pool   *)
(* owe nothing.                                                            *)
Fairness ==
    /\ WF_vars(Proceed)
    /\ WF_vars(Fire)
    /\ WF_vars(~IsLive /\ CallReturns)

Spec == Init /\ [][Next]_vars /\ Fairness

-----------------------------------------------------------------------------

LoopTypes ==
    /\ pc \in {"routing", "calling", "judging", "waiting", "finishing", "done"}
    /\ excluded \subseteq Accounts
    /\ attempts \in 0 .. MaxAttempts + 1
    /\ waits \in BOOLEAN
    /\ pc \in {"calling", "judging"} => attempts > 0

ContextTypes ==
    /\ stream \in BOOLEAN
    /\ eligible \subseteq Accounts
    /\ ctx \in {"live", "deadline", "cancelled"}
    /\ timer \in {"armed", "stopped", "fired"}

ResultTypes ==
    /\ result \in Kinds
    /\ started \in BOOLEAN /\ usage \in BOOLEAN
    /\ answers \in 0 .. 2 /\ completed \in BOOLEAN
    /\ reserved \in BOOLEAN /\ charged \in BOOLEAN

(* The variables have their types, a request counts a call when it makes   *)
(* one, and it waits only if it has met a capacity error.                  *)
TypeOK ==
    /\ LoopTypes /\ ContextTypes /\ ResultTypes
    /\ pc = "waiting" => waits

(* A request that no capacity error has made wait calls an account at most *)
(* once and no more accounts than its attempts: what MaxRetries bounds is  *)
(* every call of such a request, whatever the pool does between them.      *)
RetriesAreBounded ==
    ~waits => attempts <= MaxAttempts /\ Cardinality(excluded) = attempts

(* The deadline of the retries spares an answer that is on its way: once   *)
(* content is sent, proxyRetryWriter has stopped the timer.                *)
DeadlineSparesStreams ==
    [][timer # "fired" /\ timer' = "fired" => answers = 0]_vars

(* However often the pool empties and the upstream fails or hangs, the     *)
(* request ends or its answer begins.                                      *)
EndsOrStreams == (pc # "done") ~> (pc = "done" \/ answers > 0)

(* The request keeps the promise of ProxyAnswer: retries are invisible to  *)
(* the client once content is sent, and no return keeps the reservation.   *)
Answer == INSTANCE ProxyAnswer WITH begun <- answers, over <- (pc = "done")
AnswersOnce == Answer!Spec

=============================================================================
