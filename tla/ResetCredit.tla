----------------------------- MODULE ResetCredit -----------------------------
(***************************************************************************)
(* Rate-limit reset credits (services/account_reset_credit_service):       *)
(* administrators list the credits of an account and consume one under an  *)
(* idempotency key. A redemption row per key is written before the         *)
(* upstream is called and completed with its outcome; a mutex per account  *)
(* orders the calls of one process, and the process may crash in between.  *)
(*                                                                         *)
(* A client draws a key for one account and repeats it there; a key in     *)
(* Shared is sent for several accounts. Of the snapshot only its existence *)
(* and how often a key has reduced it is kept.                             *)
(***************************************************************************)
EXTENDS Naturals

CONSTANTS
    Callers,        \* HTTP calls of Consume or List that run at the same time
    Accounts,       \* Codex OAuth accounts
    Keys,           \* idempotency keys
    Shared,         \* the keys used with more than one account
    Owner,          \* Owner[k]: the account of a key that is not shared
    Credits,        \* credit identifiers
    None            \* no row, no credit, no key, no outcome

ASSUME OwnerAssumption == Shared \subseteq Keys /\ Owner \in [Keys -> Accounts]

(* RateLimitResetOutcome: a credit was redeemed, now or before, or none    *)
(* was (no_credit, nothing_to_reset, or an outcome the code does not know).*)
Success == {"reset", "already"}
Outcomes == Success \cup {"none"}

Private == Keys \ Shared

(* What is asked: to list an account's credits (no key), or to consume.    *)
Requests ==
    {r \in [account : Accounts, key : Keys \cup {None},
            credit : Credits \cup {None}] :
        IF r.key = None THEN r.credit = None
        ELSE r.key \in Shared \/ Owner[r.key] = r.account}

(* A row is pending when its outcome is None, and completed otherwise; the *)
(* code never reads an outcome that a pending row still has.               *)
Redemptions ==
    [account : Accounts, credit : Credits \cup {None},
     outcome : Outcomes \cup {None}]

ASSUME NoneAssumption == None \notin Keys \cup Credits \cup Outcomes \cup Redemptions

VARIABLES
    row,            \* row[k]: the redemption row of k, or None
    snapshots,      \* the accounts with a snapshot row
    taken,          \* upstream: <<a, k>> when k has redeemed a credit of a
    pc,             \* pc[p]: where the caller p stands
    req,            \* req[p]: what p asks, or None
    result,         \* result[p]: the outcome p holds, or None
    reduced         \* history: how often a private k has reduced a snapshot

caller == <<pc, req, result>>
vars == <<row, snapshots, taken, caller, reduced>>

Unlocked == {"idle", "waiting"}
Stages == Unlocked \cup {"finding", "creating", "calling", "failing",
                         "completing", "applying", "listing", "telling"}

Goto(p, stage) == pc' = [pc EXCEPT ![p] = stage]

Leave(p) ==
    /\ Goto(p, "idle")
    /\ req' = [req EXCEPT ![p] = None]
    /\ result' = [result EXCEPT ![p] = None]

Init ==
    /\ row = [k \in Keys |-> None]
    /\ snapshots \in SUBSET Accounts
    /\ taken = {}
    /\ pc = [p \in Callers |-> "idle"]
    /\ req = [p \in Callers |-> None]
    /\ result = [p \in Callers |-> None]
    /\ reduced = [k \in Private |-> 0]

-----------------------------------------------------------------------------
(* List and Consume up to the call of the upstream.                        *)

Ask(p, r) ==
    /\ pc[p] = "idle"
    /\ req' = [req EXCEPT ![p] = r]
    /\ Goto(p, "waiting")
    /\ UNCHANGED <<row, snapshots, taken, result, reduced>>

\* mutant: the mutex is not per account but per call
EnterUnlocked(p) ==
    /\ pc[p] = "waiting"
    /\ Goto(p, IF req[p].key = None THEN "listing" ELSE "finding")
    /\ UNCHANGED <<row, snapshots, taken, req, result, reduced>>

(* accountResetCreditLock: one caller of an account at a time.             *)
Enter(p) ==
    /\ pc[p] = "waiting"
    /\ \A q \in Callers :
          pc[q] \notin Unlocked => req[q].account # req[p].account
    /\ Goto(p, IF req[p].key = None THEN "listing" ELSE "finding")
    /\ UNCHANGED <<row, snapshots, taken, req, result, reduced>>

(* An error is returned and nothing is written: the account is not found,  *)
(* the key belongs to another account or credit, the database fails, or    *)
(* there is no usable OAuth file.                                          *)
Refuse(p) ==
    /\ pc[p] \in {"finding", "creating", "calling", "completing"}
    /\ Leave(p)
    /\ UNCHANGED <<row, snapshots, taken, reduced>>

\* mutant: a completed row is not looked at
ProceedAgain(p) ==
    /\ Goto(p, "calling")
    /\ UNCHANGED <<row, snapshots, taken, req, result, reduced>>

(* The row decides: a completed one is the answer, shown with the snapshot *)
(* or, without one, with a new list; a pending one is sent again.          *)
Proceed(p) ==
    LET k == req[p].key
    IN  /\ IF row[k].outcome # None
           THEN /\ result' = [result EXCEPT ![p] = row[k].outcome]
                /\ \/ req[p].account \in snapshots /\ Goto(p, "telling")
                   \/ Goto(p, "listing")
           ELSE Goto(p, "calling") /\ UNCHANGED result
        /\ UNCHANGED <<row, snapshots, taken, req, reduced>>

Matches(r, red) ==
    /\ red.account = r.account
    /\ r.credit = None \/ red.credit = None \/ red.credit = r.credit

(* findOrCreateRedemption: look the key up, ...                            *)
Find(p) ==
    /\ pc[p] = "finding"
    /\ row[req[p].key] # None
    /\ Matches(req[p], row[req[p].key])
    /\ Proceed(p)

FindNone(p) ==
    /\ pc[p] = "finding"
    /\ row[req[p].key] = None
    /\ Goto(p, "creating")
    /\ UNCHANGED <<row, snapshots, taken, req, result, reduced>>

(* ... insert a pending row, ...                                           *)
Create(p) ==
    /\ pc[p] = "creating"
    /\ row[req[p].key] = None
    /\ row' = [row EXCEPT ![req[p].key] =
                  [account |-> req[p].account, credit |-> req[p].credit,
                   outcome |-> None]]
    /\ Goto(p, "calling")
    /\ UNCHANGED <<snapshots, taken, req, result, reduced>>

(* ... or take the row that another caller inserted first, whatever its    *)
(* account and its credit are.                                             *)
Adopt(p) ==
    /\ pc[p] = "creating"
    /\ row[req[p].key] # None
    /\ Proceed(p)

-----------------------------------------------------------------------------
(* The call of the upstream, and what follows it.                          *)

(* The upstream: a key redeems once, and its repetition says so.           *)
Redeem(a, k, o) ==
    /\ IF <<a, k>> \in taken THEN o \in Success ELSE o # "already"
    /\ taken' = IF o \in Success THEN taken \cup {<<a, k>>} ELSE taken

(* consumeWithFile, repeated once after a 401: it is answered, or not.     *)
Call(p) ==
    /\ pc[p] = "calling"
    /\ \E o \in Outcomes :
          /\ Redeem(req[p].account, req[p].key, o)
          /\ \/ Goto(p, "completing") /\ result' = [result EXCEPT ![p] = o]
             \/ Goto(p, "failing") /\ UNCHANGED result
    /\ UNCHANGED <<row, snapshots, req, reduced>>

(* The failure is noted, unless the database fails, and returned.          *)
Fail(p) ==
    /\ pc[p] = "failing"
    /\ \/ row' = [row EXCEPT ![req[p].key].outcome = None]
       \/ UNCHANGED row
    /\ Leave(p)
    /\ UNCHANGED <<snapshots, taken, reduced>>

(* The row gets the outcome, and the credit the upstream names.            *)
Complete(p) ==
    /\ pc[p] = "completing"
    /\ \E credit \in Credits \cup {req[p].credit} :
          row' = [row EXCEPT ![req[p].key].credit = credit,
                             ![req[p].key].outcome = result[p]]
    /\ Goto(p, "applying")
    /\ UNCHANGED <<snapshots, taken, req, result, reduced>>

(* Twice stands for more often than that.                                  *)
CountReduction(k) ==
    reduced' = [reduced EXCEPT ![k] = IF @ < 2 THEN @ + 1 ELSE @]

(* applyConsumeOutcome: a redeemed credit is taken off the snapshot, and   *)
(* no_credit is noted even without one. When the snapshot is missing or    *)
(* cannot be stored, an outcome the code knows is followed by a list.      *)
Apply(p) ==
    /\ pc[p] = "applying"
    /\ \/ /\ req[p].account \in snapshots
          /\ IF result[p] \in Success /\ req[p].key \in Private
             THEN CountReduction(req[p].key) ELSE UNCHANGED reduced
          /\ Goto(p, "telling")
          /\ UNCHANGED snapshots
       \/ /\ req[p].account \notin snapshots /\ result[p] = "none"
          /\ snapshots' = snapshots \cup {req[p].account}
          /\ Goto(p, "telling")
          /\ UNCHANGED reduced
       \/ /\ \/ Goto(p, "listing")
             \/ result[p] = "none" /\ Goto(p, "telling")
          /\ UNCHANGED <<snapshots, reduced>>
    /\ UNCHANGED <<row, taken, req, result>>

(* A new snapshot is stored, or something fails: List returns the error,   *)
(* Consume answers all the same, with a warning.                           *)
Listed(p) ==
    /\ \/ snapshots' = snapshots \cup {req[p].account}
       \/ UNCHANGED snapshots
    /\ IF req[p].key = None THEN Leave(p)
       ELSE Goto(p, "telling") /\ UNCHANGED <<req, result>>
    /\ UNCHANGED <<row, taken, reduced>>

\* mutant: List is called, which locks the account again
ListLocking(p) ==
    /\ pc[p] = "listing"
    /\ \A q \in Callers :
          pc[q] \notin Unlocked => req[q].account # req[p].account
    /\ Listed(p)

(* listUnlocked, under the mutex that its caller holds.                    *)
ListUnlocked(p) ==
    /\ pc[p] = "listing"
    /\ Listed(p)

(* The administrator gets result[p].                                       *)
Tell(p) ==
    /\ pc[p] = "telling"
    /\ Leave(p)
    /\ UNCHANGED <<row, snapshots, taken, reduced>>

-----------------------------------------------------------------------------
(* The process stops; the database and the upstream stay as they are.      *)
Crash ==
    /\ \E p \in Callers : pc[p] # "idle"
    /\ pc' = [p \in Callers |-> "idle"]
    /\ req' = [p \in Callers |-> None]
    /\ result' = [p \in Callers |-> None]
    /\ UNCHANGED <<row, snapshots, taken, reduced>>

Work(p) ==
    \/ Refuse(p) \/ Find(p) \/ FindNone(p) \/ Create(p) \/ Adopt(p)
    \/ Call(p) \/ Fail(p) \/ Complete(p) \/ Apply(p)
    \/ ListUnlocked(p) \/ Tell(p)

Next ==
    \/ \E p \in Callers :
          (\E r \in Requests : Ask(p, r)) \/ Enter(p) \/ Work(p)
    \/ Crash

Spec == Init /\ [][Next]_vars

(* Every call of the upstream and of the database ends, and a Go mutex     *)
(* does not starve a goroutine that waits for it.                          *)
Fairness == \A p \in Callers : WF_vars(Work(p)) /\ SF_vars(Enter(p))

FairSpec == Spec /\ Fairness

-----------------------------------------------------------------------------
TypeOK ==
    /\ row \in [Keys -> Redemptions \cup {None}]
    /\ snapshots \in SUBSET Accounts
    /\ taken \in SUBSET (Accounts \X Keys)
    /\ pc \in [Callers -> Stages]
    /\ req \in [Callers -> Requests \cup {None}]
    /\ result \in [Callers -> Outcomes \cup {None}]
    /\ reduced \in [Private -> 0 .. 2]

(* A private key as the administrator sees it.                             *)
Settled(k) ==
    IF row[k] = None THEN None ELSE row[k].outcome

Answer == INSTANCE ResetAnswer WITH
    Keys <- Private,
    Redeemed <- Success,
    Unsettled <- None,
    spent <- {k \in Private : <<Owner[k], k>> \in taken},
    answer <- [k \in Private |-> Settled(k)]

(* AccountResetCreditRedemption (the idempotent state of a redemption): a  *)
(* key used with one account is settled once whatever is retried, answered *)
(* late or cut by a crash, and as redeemed only when the upstream did it.  *)
SettledOnce == Answer!Spec

(* Consume (lines 129-147 and 177-207): what an administrator is told for  *)
(* a private key is what its row says, now and to every later repetition.  *)
ToldAsSettled ==
    [][\A p \in Callers :
          Tell(p) /\ req[p].key \in Private => result[p] = Settled(req[p].key)]_vars

(* applyConsumeOutcome: a private key takes one credit off the displayed   *)
(* snapshot at most, although a repetition succeeds with already_redeemed. *)
ReducedOnce == \A k \in Private : reduced[k] <= 1

(* The account's mutex is held while the upstream is called and the        *)
(* credits are listed again; still every call ends and the next one runs.  *)
CallsEnd == \A p \in Callers : pc[p] = "waiting" ~> pc[p] = "idle"

=============================================================================
