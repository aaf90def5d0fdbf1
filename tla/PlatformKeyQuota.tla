-------------------------- MODULE PlatformKeyQuota --------------------------
(***************************************************************************)
(* The token budget of one platform key: reservations made before the      *)
(* upstream call, the settlement after it, and the reconciliation with the *)
(* request log, when an instance boots and after each synchronisation of   *)
(* the prices (services/platform_key_quota_service, the steps of           *)
(* ProxyService.Handle and of ModelPricingService.SyncOfficial that call   *)
(* it).                                                                    *)
(*                                                                         *)
(* A database transaction is one action. Time is the number of ticks each  *)
(* reservation has left, so that expires_at > now reads left[r] > 0.       *)
(***************************************************************************)
EXTENDS Integers, FiniteSets

CONSTANTS
    Requests,       \* request ids; each one is used once
    Instances,      \* gateway processes on the shared database
    Home,           \* Home[r]: the instance that serves r
    Limits,         \* effective token limits; 0 is unlimited
    MaxReserve,     \* bound on estimateQuotaReservationTokens
    Overrun,        \* how far the real usage may exceed the estimate
    TTL             \* quota-reservation-ttl-seconds, in ticks

ASSUME ConstantsAssumption ==
    /\ IsFiniteSet(Requests)
    /\ Home \in [Requests -> Instances]
    /\ Limits \subseteq Nat
    /\ MaxReserve \in Nat /\ Overrun \in Nat
    /\ TTL \in Nat \ {0}

VARIABLES
    key,            \* the platform key: its state and its effective limit
    used,           \* PlatformKey.UsedTokens
    pc,             \* pc[r]: where r stands in Handle
    limit,          \* limit[r]: the limit in the copy of the key r verified
    tokens,         \* tokens[r]: its reserved_tokens
    left,           \* left[r]: ticks its reservation row has left, or NoRow
    actual,         \* actual[r]: the tokens the upstream reported for it
    logs,           \* the requests with a row in the request log
    boot,           \* boot[i]: "down", "booting", "up" or "syncing"
    seen,           \* seen[i]: the usage i summed up from the log
    uncovered,      \* history: tokens charged beyond live reservations
    uncharged,      \* history: the requests a crash kept from being charged
    late            \* history, late[i]: those answered since i summed the log up

quota == <<key, used, limit, tokens, left, actual, logs>>
past == <<uncovered, uncharged, late>>
vars == <<quota, pc, boot, seen, past>>

NoRow == -1
Usages == 0 .. (MaxReserve + Overrun)

(* What estimateQuotaReservationTokens makes of a request: never nothing.  *)
Estimates == 1 .. MaxReserve

(* A sum over requests is the number of its units <<r, n>>, 1 <= n <= f[r].*)
Units(R, f) == {u \in R \X (1 .. (MaxReserve + Overrun)) : u[2] <= f[u[1]]}
Total(R, f) == Cardinality(Units(R, f))

(* The rows the SUM of ReserveTokens counts.                               *)
Live == {r \in Requests : left[r] > 0}

Held == Total(Live, tokens)

(* What the log says the key has used.                                     *)
Logged == Total(logs, actual)

Goto(r, stage) == pc' = [pc EXCEPT ![r] = stage]
DropRow(r) == left' = [left EXCEPT ![r] = NoRow]
DropExpired(f) == [r \in Requests |-> IF f[r] = 0 THEN NoRow ELSE f[r]]
MaxOf(a, b) == IF a >= b THEN a ELSE b

Init ==
    /\ key \in [state : {"enabled"}, limit : Limits]
    /\ used = 0
    /\ pc = [r \in Requests |-> "idle"]
    /\ limit = [r \in Requests |-> 0]
    /\ tokens = [r \in Requests |-> 0]
    /\ left = [r \in Requests |-> NoRow]
    /\ actual = [r \in Requests |-> 0]
    /\ logs = {}
    /\ boot = [i \in Instances |-> "down"]
    /\ seen = [i \in Instances |-> 0]
    /\ uncovered = 0
    /\ uncharged = {}
    /\ late = [i \in Instances |-> {}]

(* An instance serves its requests while it synchronises the prices.       *)
Serving(i) == boot[i] \in {"up", "syncing"}

(* It has a sum of the log it has not used yet.                            *)
Summing(i) == boot[i] \in {"booting", "syncing"}

(* The requests that are answered and wait to be charged, those whose      *)
(* settlement failed included.                                             *)
Unsettled == {r \in Requests : pc[r] \in {"answered", "unsettled"}}

(* Verify: r works from here on with the key as it is now.                 *)
Verify(r) ==
    /\ Serving(Home[r])
    /\ pc[r] = "idle"
    /\ key.state = "enabled"
    /\ limit' = [limit EXCEPT ![r] = key.limit]
    /\ Goto(r, "verified")
    /\ UNCHANGED <<key, used, tokens, left, actual, logs, boot, seen, past>>

(* ReserveTokens of a key without a limit writes nothing.                  *)
ReserveUnlimited(r) ==
    /\ pc[r] = "verified"
    /\ limit[r] = 0
    /\ Goto(r, "upstream")
    /\ UNCHANGED <<quota, boot, seen, past>>

\* mutant: the requests in flight are left out of the comparison
FitsAlone(r, n) == used < limit[r] /\ n <= limit[r] - used

(* The comparison of the transaction.                                      *)
Fits(r, n) == used < limit[r] /\ n <= limit[r] - used - Held

(* ReserveTokens commits: expired rows of the key go, r's row is created.  *)
Reserve(r) ==
    /\ pc[r] = "verified"
    /\ limit[r] > 0
    /\ key.state = "enabled"
    /\ \E n \in Estimates :
          /\ Fits(r, n)
          /\ tokens' = [tokens EXCEPT ![r] = n]
    /\ left' = [DropExpired(left) EXCEPT ![r] = TTL]
    /\ Goto(r, "upstream")
    /\ UNCHANGED <<key, used, limit, actual, logs, boot, seen, past>>

(* ReserveTokens rolls back: the key is gone or disabled, or is limited.   *)
Refuse(r) ==
    /\ pc[r] = "verified"
    /\ limit[r] > 0
    /\ key.state = "enabled" => \E n \in Estimates : ~Fits(r, n)
    /\ Goto(r, "done")
    /\ UNCHANGED <<quota, boot, seen, past>>

(* The attempts are over and the request is logged; a failing insert is    *)
(* ignored. The usage may be zero, and may exceed the estimate.            *)
Answer(r) ==
    /\ pc[r] = "upstream"
    /\ \E n \in 0 .. ((IF limit[r] > 0 THEN tokens[r] ELSE MaxReserve) + Overrun) :
          actual' = [actual EXCEPT ![r] = n]
    /\ logs' \in {logs, logs \cup {r}}
    /\ late' = [i \in Instances |-> IF Summing(i) THEN late[i] \cup {r} ELSE late[i]]
    /\ Goto(r, "answered")
    /\ UNCHANGED <<key, used, limit, tokens, left, boot, seen, uncovered, uncharged>>

(* What the row of r still takes from the budget when it is dropped.       *)
Covered(r) == IF left[r] > 0 THEN tokens[r] ELSE 0

(* FinalizeTokens: drop the row and charge the usage, to any key that is   *)
(* not deleted.                                                            *)
Settle(r) ==
    /\ pc[r] = "answered"
    /\ DropRow(r)
    /\ used' = IF key.state = "deleted" THEN used ELSE used + actual[r]
    /\ uncovered' = uncovered + MaxOf(0, (used' - used) - Covered(r))
    /\ Goto(r, "done")
    /\ UNCHANGED <<key, limit, tokens, actual, logs, boot, seen, uncharged, late>>

(* The transaction fails: Handle ignores the error and tries no second     *)
(* time, so the row and the usage stay as they are.                        *)
SettleFails(r) ==
    /\ pc[r] \in {"answered", "upstream"}
    /\ Goto(r, "unsettled")
    /\ UNCHANGED <<quota, boot, seen, past>>

(* Handle returns early without an account: the deferred FinalizeTokens    *)
(* drops the row and charges nothing.                                      *)
Abandon(r) ==
    /\ pc[r] = "upstream"
    /\ DropRow(r)
    /\ Goto(r, "done")
    /\ UNCHANGED <<key, used, limit, tokens, actual, logs, boot, seen, past>>

(* An instance dies with its requests; rows and logs stay.                 *)
Crash(i) ==
    /\ boot[i] # "down"
    /\ boot' = [boot EXCEPT ![i] = "down"]
    /\ pc' = [r \in Requests |->
                 IF Home[r] = i /\ pc[r] \notin {"idle", "done"} THEN "lost"
                 ELSE pc[r]]
    /\ uncharged' = uncharged \cup {r \in Unsettled : Home[r] = i}
    /\ UNCHANGED <<quota, seen, uncovered, late>>

(* ReconcileUsageFromLogs sums the log up outside its transaction, at boot *)
(* and at the end of SyncOfficial, of which an instance runs at most one at*)
(* a time here...                                                          *)
ReadLogs(i) ==
    /\ boot[i] \in {"down", "up"}
    /\ boot' = [boot EXCEPT ![i] = IF boot[i] = "down" THEN "booting" ELSE "syncing"]
    /\ seen' = [seen EXCEPT ![i] = Logged]
    /\ late' = [late EXCEPT ![i] = {}]
    /\ UNCHANGED <<quota, pc, uncovered, uncharged>>

\* mutant: the comparison is the wrong way round
CorrectedDown(i) == IF seen[i] < used THEN seen[i] ELSE used

(* ... and only corrects upwards.                                          *)
Corrected(i) == MaxOf(used, seen[i])

(* What a crash left uncharged is charged with it, except what may hide    *)
(* behind a request that was answered after the sum and is charged already.*)
StillUncharged(i) ==
    IF late[i] \subseteq Unsettled \cup uncharged
    THEN uncharged \cap late[i] ELSE uncharged

(* The transaction; afterwards the instance serves. It drops the expired   *)
(* rows and skips a deleted key.                                           *)
Reconcile(i) ==
    /\ Summing(i)
    /\ boot' = [boot EXCEPT ![i] = "up"]
    /\ used' = IF key.state = "deleted" THEN used ELSE Corrected(i)
    /\ uncovered' = uncovered + (used' - used)
    /\ left' = DropExpired(left)
    /\ uncharged' = StillUncharged(i)
    /\ seen' = [seen EXCEPT ![i] = 0]
    /\ late' = [late EXCEPT ![i] = {}]
    /\ UNCHANGED <<key, limit, tokens, actual, logs, pc>>

(* The query or the transaction fails. Bootstrap and SyncOfficial both drop*)
(* the error, so the instance serves with the charges as they are.         *)
ReconcileFails(i) ==
    /\ Summing(i)
    /\ boot' = [boot EXCEPT ![i] = "up"]
    /\ seen' = [seen EXCEPT ![i] = 0]
    /\ late' = [late EXCEPT ![i] = {}]
    /\ UNCHANGED <<quota, pc, uncovered, uncharged>>

(* ClearBefore, by hand or daily: the rows before some time go.            *)
ClearLogs ==
    /\ logs # {}
    /\ \E kept \in SUBSET logs : logs' = kept
    /\ UNCHANGED <<key, used, limit, tokens, left, actual, pc, boot, seen, past>>

(* Update, SetEnabled and DeleteByGuid by the administrator.               *)
Administer ==
    /\ key.state # "deleted"
    /\ key' \in [state : {"enabled", "disabled", "deleted"}, limit : Limits]
    /\ key'.limit = key.limit \/ key'.state = key.state
    /\ UNCHANGED <<used, limit, tokens, left, actual, logs, pc, boot, seen, past>>

Tick ==
    /\ Live # {}
    /\ left' = [r \in Requests |-> IF left[r] > 0 THEN left[r] - 1 ELSE left[r]]
    /\ UNCHANGED <<key, used, limit, tokens, actual, logs, pc, boot, seen, past>>

Serve(r) ==
    \/ Verify(r) \/ ReserveUnlimited(r) \/ Reserve(r) \/ Refuse(r)
    \/ Answer(r) \/ Settle(r) \/ SettleFails(r) \/ Abandon(r)

Next ==
    \/ \E r \in Requests : Serve(r)
    \/ \E i \in Instances : Crash(i) \/ ReadLogs(i) \/ Reconcile(i) \/ ReconcileFails(i)
    \/ ClearLogs \/ Administer \/ Tick

Spec == Init /\ [][Next]_vars

-----------------------------------------------------------------------------

Stages ==
    {"idle", "verified", "upstream", "answered", "unsettled", "lost", "done"}

(* The shape of the state; usage is never negative.                        *)
TypeOK ==
    /\ key \in [state : {"enabled", "disabled", "deleted"}, limit : Limits]
    /\ used \in Nat
    /\ pc \in [Requests -> Stages]
    /\ limit \in [Requests -> Limits \cup {0}]
    /\ tokens \in [Requests -> 0 .. MaxReserve]
    /\ left \in [Requests -> NoRow .. TTL]
    /\ actual \in [Requests -> Usages]
    /\ logs \in SUBSET Requests
    /\ boot \in [Instances -> {"down", "booting", "up", "syncing"}]
    /\ seen \in [Instances -> Nat]
    /\ uncovered \in Nat
    /\ uncharged \in SUBSET Requests
    /\ late \in [Instances -> SUBSET Requests]

(* ReserveTokens: concurrent requests never jointly pass the largest limit *)
(* the key has had, except by what was charged beyond a live reservation   *)
(* (usage over the estimate, a request that outlived its reservation, an   *)
(* unlimited key, usage found in the log).                                 *)
WithinLimit ==
    \E max \in Limits \cup {0} : used + Held <= max + uncovered

(* FinalizeTokens and the deferred call: a request that is over holds no   *)
(* part of the budget, unless its settlement failed or its instance died.  *)
SettledHoldNothing == \A r \in Requests : pc[r] = "done" => left[r] = NoRow

(* FinalizeTokens and ReconcileUsageFromLogs: the log shows no more than is *)
(* charged, waits to be settled, or was lost in a crash; and what a crash  *)
(* lost is charged by the first reconciliation that succeeds, on whichever *)
(* instance and whatever it failed before, unless a request answered since *)
(* its sum was settled before its comparison and makes up for the lost one.*)
LogIsCharged ==
    key.state # "deleted" =>
        Logged <= used + Total(Unsettled \cup uncharged, actual)

=============================================================================
