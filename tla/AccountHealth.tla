---------------------------- MODULE AccountHealth ----------------------------
(***************************************************************************)
(* The health of one upstream account: the row that requests, the usage    *)
(* refresh, the OAuth token refresh, the recovery task, the import and the *)
(* administrator read and write without a lock (services/account_service,  *)
(* RecoverCooldownAccounts of services/quota_service, the loop of          *)
(* ProxyService.Handle). Some writes compare and bump health_version, some *)
(* only bump it, and some do neither.                                      *)
(*                                                                         *)
(* Reading the row and writing it are separate actions. Time is the number *)
(* of ticks a cooldown has left; the quota windows are read as a free      *)
(* choice, because their race with the row only decides a label.           *)
(***************************************************************************)
EXTENDS Integers, FiniteSets

CONSTANTS
    Requests,       \* proxy requests that may be routed to the account
    Refreshes,      \* RefreshUsage calls, scheduled or by hand
    Flight,         \* the token refresh: accountTokenRefreshGroup runs one
    Recovery,       \* the scheduled RecoverCooldownAccounts
    Adders,         \* calls that add the account again
    MaxTries,       \* maxStateUpdateAttempts
    MaxCooldown,    \* bound on a cooldown, in ticks
    MaxVersion,     \* bound on health_version, for TLC
    MaxReaders      \* bound on the actors between a read and a write, for TLC

Tasks == Refreshes \cup Adders \cup {Flight, Recovery}
Actors == Requests \cup Tasks

ASSUME ActorsAssumption ==
    /\ Requests \cap Tasks = {}
    /\ Refreshes \cap Adders = {}
    /\ Flight \notin Refreshes \cup Adders
    /\ Recovery \notin Refreshes \cup Adders
    /\ Flight # Recovery

ASSUME BoundsAssumption ==
    MaxTries \in Nat \ {0} /\ MaxCooldown \in Nat \ {0} /\ MaxVersion \in Nat

VARIABLES
    acct,           \* the row in the database
    copy,           \* copy[a]: the row as the actor a last read it, or NoCopy
    pc,             \* pc[r]: where the request r stands
    tries,          \* tries[r]: lost rounds of MarkFailureWithPolicy
    first,          \* history: the version r read in the first round
    stale,          \* history: readers a recorded failure has overtaken
    swept           \* history: readers an unversioned write has overtaken

vars == <<acct, copy, pc, tries, first, stale, swept>>
request == <<pc, tries, first>>

Statuses == {"available", "unknown", "limited", "cooldown", "exhausted",
             "invalid", "expired", "disabled"}
Timed == {"limited", "cooldown"}

(* "last" is a transient error under PreserveLastAvailable.                *)
Failures == {"auth", "rate", "quota", "transient", "last"}

NoTimer == -1       \* cooldown_until = 0; an elapsed one is 0 ticks
NoCopy == [version |-> -1]

(* An image account has an API key in place of tokens.                     *)
Rows == [image : BOOLEAN,
         enabled : BOOLEAN, status : Statuses, tokenOk : BOOLEAN,
         failures : Nat, cooldown : NoTimer .. MaxCooldown, version : Nat]

Readers == {a \in Actors : copy[a] # NoCopy}

(* accountAvailabilityReason: the row lets the router pick the account.    *)
Routable(row) ==
    /\ row.enabled
    /\ row.tokenOk
    /\ row.status \notin {"disabled", "invalid", "expired", "exhausted"}
    /\ row.status \in Timed => row.cooldown = 0

(* Writes of the row; a versioned one is visible to compare-and-set.       *)
Versioned(row) == [row EXCEPT !.version = acct.version + 1]

Store(row) == acct' = row /\ row.version <= MaxVersion

Goto(r, stage) == pc' = [pc EXCEPT ![r] = stage]

(* a ends what it did with its copy; no history about it is kept.          *)
Forget(a) ==
    /\ copy' = [copy EXCEPT ![a] = NoCopy]
    /\ stale' = stale \ {a}
    /\ swept' = swept \ {a}

(* The same, and what a wrote overtakes the other readers: as a failure    *)
(* (the account is worse than they think) or as an unversioned write.      *)
ForgetFailing(a) ==
    /\ copy' = [copy EXCEPT ![a] = NoCopy]
    /\ stale' = (stale \cup Readers) \ {a}
    /\ swept' = swept \ {a}

ForgetSweeping(a) ==
    /\ copy' = [copy EXCEPT ![a] = NoCopy]
    /\ stale' = stale \ {a}
    /\ swept' = (swept \cup Readers) \ {a}

(* a reads the row, as one of at most MaxReaders at a time.                *)
Take(a) ==
    /\ Cardinality(Readers \ {a}) < MaxReaders
    /\ copy' = [copy EXCEPT ![a] = acct]
    /\ stale' = stale \ {a}
    /\ swept' = swept \ {a}

IsCurrent(a) == copy[a].version = acct.version

(* r is done with the account.                                             *)
Leave(r) ==
    /\ Goto(r, "idle")
    /\ tries' = [tries EXCEPT ![r] = 0]
    /\ first' = [first EXCEPT ![r] = 0]

(* A row found in the database at boot.                                    *)
Init ==
    /\ acct \in [image : BOOLEAN,
                 enabled : {TRUE}, status : {"available"}, tokenOk : {TRUE},
                 failures : 0 .. 2, cooldown : {NoTimer}, version : {0}]
    /\ copy = [a \in Actors |-> NoCopy]
    /\ pc = [r \in Requests |-> "idle"]
    /\ tries = [r \in Requests |-> 0]
    /\ first = [r \in Requests |-> 0]
    /\ stale = {}
    /\ swept = {}

-----------------------------------------------------------------------------
(* Requests.                                                               *)

(* The router returns the row; r calls the upstream with it.               *)
Select(r) ==
    /\ pc[r] = "idle"
    /\ Routable(acct)
    /\ Take(r)
    /\ Goto(r, "calling")
    /\ UNCHANGED <<acct, tries, first>>

(* An administrator probes the account, in whatever state it is.           *)
Probe(r) ==
    /\ pc[r] = "idle"
    /\ Take(r)
    /\ Goto(r, "calling")
    /\ UNCHANGED <<acct, tries, first>>

(* What a success, or a recovery, leaves in the row.                       *)
Healthy(row) ==
    [row EXCEPT !.status = "available", !.failures = 0, !.cooldown = NoTimer]

\* mutant: the version is not compared
SucceedAnyhow(r) ==
    /\ pc[r] = "calling"
    /\ acct.tokenOk
    /\ \E status \in {"available", "exhausted"} :
          Store(Versioned([Healthy(acct) EXCEPT !.status = status]))
    /\ Forget(r)
    /\ Leave(r)

(* MarkUsedIfCurrent: compare the version and the token, then set.         *)
Succeed(r) ==
    /\ pc[r] = "calling"
    /\ IF IsCurrent(r) /\ acct.tokenOk
       THEN \E status \in {"available", "exhausted"} :
               Store(Versioned([Healthy(acct) EXCEPT !.status = status]))
       ELSE UNCHANGED acct
    /\ Forget(r)
    /\ Leave(r)

(* The call ends with nothing to record: a capacity error, an error that   *)
(* is not the account's, a deadline. Or Handle ignores that recording it   *)
(* failed, on a database error or after the last round.                    *)
Ignore(r) ==
    /\ pc[r] # "idle"
    /\ Forget(r)
    /\ Leave(r)
    /\ UNCHANGED acct

(* MarkFailureWithPolicy is called; Commit says with which error.          *)
Fail(r) ==
    /\ pc[r] = "calling"
    /\ Forget(r)
    /\ Goto(r, "reading")
    /\ UNCHANGED <<acct, tries, first>>

Read(r) ==
    /\ pc[r] = "reading"
    /\ Take(r)
    /\ first' = [first EXCEPT ![r] = IF tries[r] = 0 THEN acct.version ELSE @]
    /\ Goto(r, "writing")
    /\ UNCHANGED <<acct, tries>>

(* accountFailureState of the row that was read, as what the write may be. *)
Outcomes(row, f) ==
    LET Out(status, timers) == [status : {status}, cooldown : timers]
        Third == row.failures + 1 >= 3
    IN  CASE f = "auth"  -> Out("invalid", {row.cooldown})
          [] f = "rate"  -> Out("limited", 1 .. MaxCooldown)
          [] f = "quota" -> Out("exhausted", {row.cooldown})
          [] f = "transient" /\ Third -> Out("cooldown", 1 .. MaxCooldown)
          [] f = "last" /\ Third      -> Out(row.status, {NoTimer})
          [] OTHER -> Out(row.status, {row.cooldown})

(* The update of MarkFailureWithPolicy hits the row.                       *)
Commit(r, f) ==
    /\ pc[r] = "writing"
    /\ IsCurrent(r)
    /\ \E out \in Outcomes(copy[r], f) :
          Store(Versioned([acct EXCEPT !.status = out.status,
                                       !.cooldown = out.cooldown,
                                       !.failures = @ + 1]))
    /\ ForgetFailing(r)
    /\ Leave(r)

(* It misses: read again, or give up after the last round.                 *)
Conflict(r) ==
    /\ pc[r] = "writing"
    /\ ~IsCurrent(r)
    /\ tries' = [tries EXCEPT ![r] = @ + 1]
    /\ Goto(r, IF tries[r] + 1 < MaxTries THEN "reading" ELSE "lost")
    /\ Forget(r)
    /\ UNCHANGED <<acct, first>>

-----------------------------------------------------------------------------
(* The background tasks and the administrator.                             *)

(* ActiveAccountFile: a caller starts the flight, which reads the row.     *)
StartFlight ==
    /\ ~acct.image
    /\ copy[Flight] = NoCopy
    /\ \E a \in Requests \cup Refreshes : copy[a] # NoCopy
    /\ Take(Flight)
    /\ UNCHANGED <<acct, request>>

(* Only a row that was read as available or unknown becomes unknown.       *)
Doubted(a) ==
    IF copy[a].status \in {"available", "unknown"} THEN "unknown" ELSE acct.status

(* recordTokenRefreshFailure, permanent or not.                            *)
FlightFails ==
    /\ copy[Flight] # NoCopy
    /\ \E status \in {"invalid", Doubted(Flight)} :
          Store(Versioned([acct EXCEPT !.status = status, !.tokenOk = FALSE]))
    /\ ForgetFailing(Flight)
    /\ UNCHANGED request

(* The new tokens are stored with the metadata, token_status among it.     *)
FlightSucceeds ==
    /\ copy[Flight] # NoCopy
    /\ acct' = [acct EXCEPT !.tokenOk = TRUE]
    /\ Forget(Flight)
    /\ UNCHANGED request

(* RefreshUsage, or the synchronisation of the account's models: read the  *)
(* row, ask the upstream, ...                                              *)
StartRefresh(u) ==
    /\ copy[u] = NoCopy
    /\ Take(u)
    /\ UNCHANGED <<acct, request>>

(* ... then write without looking at the version and without bumping it,   *)
(* or return on an error that is not recorded.                             *)
RefreshSucceeds(u) ==
    /\ ~acct.image
    /\ copy[u] # NoCopy
    /\ LET known == [acct EXCEPT !.tokenOk = TRUE]
       IN  acct' \in {[known EXCEPT !.status = "exhausted"],
                      IF copy[u].enabled THEN Healthy(known) ELSE known}
    /\ ForgetSweeping(u)
    /\ UNCHANGED request

(* syncAccountModelsOnce of an image account, which RefreshUsage calls for *)
(* one: the list was read, so the key works, whatever was recorded since.  *)
ModelsSynced(u) ==
    /\ acct.image
    /\ copy[u] # NoCopy
    /\ acct' = [acct EXCEPT !.status = "available", !.tokenOk = TRUE]
    /\ ForgetSweeping(u)
    /\ UNCHANGED request

(* The models of an account with tokens leave its health alone, and an     *)
(* error may end the call before anything is written.                      *)
RefreshAborts(u) ==
    /\ copy[u] # NoCopy
    /\ Forget(u)
    /\ UNCHANGED <<acct, request>>

(* recordSyncFailure: an authentication failure, or any other.             *)
RefreshFails(u) ==
    /\ copy[u] # NoCopy
    /\ \/ Store(Versioned([acct EXCEPT !.status = "invalid", !.tokenOk = FALSE]))
       \/ Store(Versioned([acct EXCEPT !.status = Doubted(u)]))
    /\ ForgetFailing(u)
    /\ UNCHANGED request

(* RecoverCooldownAccounts finds the row ...                               *)
FindElapsed ==
    /\ copy[Recovery] = NoCopy
    /\ acct.enabled /\ acct.status \in Timed /\ acct.cooldown = 0
    /\ Take(Recovery)
    /\ UNCHANGED <<acct, request>>

(* ... and makes it available, or exhausted with the count it has read.    *)
Recover ==
    /\ copy[Recovery] # NoCopy
    /\ IF IsCurrent(Recovery)
       THEN \/ Store(Versioned(Healthy(acct)))
            \/ Store(Versioned([Healthy(acct) EXCEPT
                         !.status = "exhausted",
                         !.failures = copy[Recovery].failures]))
       ELSE UNCHANGED acct
    /\ Forget(Recovery)
    /\ UNCHANGED request

\* mutant: SetEnabled does not bump the version
SwitchUnversioned(on) ==
    /\ Store([acct EXCEPT !.enabled = on,
                !.status = IF ~on THEN "disabled"
                           ELSE IF acct.tokenOk THEN "available" ELSE "invalid"])
    /\ stale' = IF on THEN stale ELSE stale \cup Readers
    /\ UNCHANGED <<copy, swept, request>>

(* SetEnabled: the status follows the switch and the token.                *)
SetEnabled(on) ==
    /\ Store(Versioned([acct EXCEPT !.enabled = on,
                !.status = IF ~on THEN "disabled"
                           ELSE IF acct.tokenOk THEN "available" ELSE "invalid"]))
    /\ stale' = IF on THEN stale ELSE stale \cup Readers
    /\ UNCHANGED <<copy, swept, request>>

(* upsertOfficialAccount, or the first write of AddAPIKey, finds the row   *)
(* and resets it, without a version; AddAPIKey then has it to hand while   *)
(* it stores the models of the key ...                                     *)
Add(d) ==
    /\ copy[d] = NoCopy
    /\ acct.image => Cardinality(Readers) < MaxReaders
    /\ acct' = [acct EXCEPT !.enabled = TRUE, !.status = "available", !.tokenOk = TRUE]
    /\ copy' = IF acct.image THEN [copy EXCEPT ![d] = acct'] ELSE copy
    /\ swept' = swept \cup Readers
    /\ UNCHANGED <<stale, request>>

(* ... and makes it available once more, or fails before that.             *)
AddEnds(d) ==
    /\ copy[d] # NoCopy
    /\ acct' = [acct EXCEPT !.status = "available"]
    /\ ForgetSweeping(d)
    /\ UNCHANGED request

AddFails(d) ==
    /\ copy[d] # NoCopy
    /\ Forget(d)
    /\ UNCHANGED <<acct, request>>

(* MarkExpiredSubscriptions, without a version.                            *)
MarkExpired ==
    /\ acct.enabled /\ ~acct.image
    /\ acct' = [acct EXCEPT !.status = "expired"]
    /\ swept' = swept \cup Readers
    /\ UNCHANGED <<copy, stale, request>>

Aged(row) ==
    IF row = NoCopy THEN NoCopy
    ELSE [row EXCEPT !.cooldown = IF @ > 0 THEN @ - 1 ELSE @]

Tick ==
    /\ acct.cooldown > 0 \/ \E a \in Readers : copy[a].cooldown > 0
    /\ acct' = Aged(acct)
    /\ copy' = [a \in Actors |-> Aged(copy[a])]
    /\ UNCHANGED <<stale, swept, request>>

Serve(r) ==
    \/ Select(r) \/ Probe(r) \/ Succeed(r) \/ Ignore(r) \/ Fail(r)
    \/ Read(r) \/ Conflict(r) \/ \E f \in Failures : Commit(r, f)

Refresh(u) ==
    \/ StartRefresh(u) \/ RefreshSucceeds(u) \/ ModelsSynced(u)
    \/ RefreshAborts(u) \/ RefreshFails(u)

Next ==
    \/ \E r \in Requests : Serve(r)
    \/ \E u \in Refreshes : Refresh(u)
    \/ StartFlight \/ FlightFails \/ FlightSucceeds
    \/ FindElapsed \/ Recover
    \/ \E d \in Adders : Add(d) \/ AddEnds(d) \/ AddFails(d)
    \/ \E on \in BOOLEAN : SetEnabled(on)
    \/ MarkExpired \/ Tick

Spec == Init /\ [][Next]_vars

-----------------------------------------------------------------------------

Stages == {"idle", "calling", "reading", "writing", "lost"}

(* The shape of the state; only the readers are in the histories.          *)
TypeOK ==
    /\ acct \in Rows
    /\ copy \in [Actors -> Rows \cup {NoCopy}]
    /\ pc \in [Requests -> Stages]
    /\ tries \in [Requests -> 0 .. MaxTries]
    /\ first \in [Requests -> Nat]
    /\ stale \in SUBSET Readers
    /\ swept \in SUBSET Readers

(* What health_version stands for.                                         *)
Health(row) == <<row.enabled, row.status, row.failures, row.cooldown>>

(* The compare-and-set of MarkUsedIfCurrent, MarkFailureWithPolicy and     *)
(* RecoverCooldownAccounts is as good as a lock: an actor whose version is *)
(* the row's has read the row as it is, unless one of the writers that     *)
(* keep the version came in between: the usage refresh, the models of an   *)
(* image account, adding the account again, the expiry task.               *)
SameVersionSameRow ==
    \A a \in Readers \ swept :
        IsCurrent(a) => Health(copy[a]) = Health(acct)

(* MarkUsedIfCurrent (comment at account_service.go:1329): a request that  *)
(* began before a newer failure, or before the account was disabled, does  *)
(* not write it back to available, and neither does the recovery task.     *)
StaleWritesAreDropped ==
    [][/\ \A r \in Requests \cap stale : Succeed(r) => UNCHANGED acct
       /\ Recovery \in stale /\ Recover => UNCHANGED acct]_vars

(* MarkFailureWithPolicy (comment at account_service.go:1391): a failure   *)
(* is dropped only when each of its rounds met another writer's version.   *)
LostOnlyUnderContention ==
    \A r \in Requests : pc[r] = "lost" => acct.version >= first[r] + MaxTries

(* accountFailureState: an account cools down after three failures in a    *)
(* row, counted in the row that is written and not in an older copy of it. *)
CooldownsAreEarned ==
    [][\A r \in Requests \ swept, f \in Failures :
          Commit(r, f) /\ acct'.status = "cooldown" =>
              acct.status = "cooldown" \/ acct'.failures >= 3]_vars

=============================================================================
