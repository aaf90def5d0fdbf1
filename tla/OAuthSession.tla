----------------------------- MODULE OAuthSession ------------------------------
(***************************************************************************)
(* The login sessions of services/account_oauth_service: a browser (PKCE)  *)
(* session is completed by the callbacks that carry its state, a device    *)
(* session by the goroutine that polls for it. Every step under the        *)
(* service's mutex is one action; the exchange upstream and the upsert of  *)
(* the account run without it, so cancelling, expiry, a second callback    *)
(* and the sweep of Start fall between them.                               *)
(*                                                                         *)
(* Of the clock a session sees its age: fresh up to expiresAt, late after  *)
(* it, and old one hour later. The session's context is cancelled with the *)
(* session and has expiresAt as its deadline.                              *)
(***************************************************************************)
EXTENDS AccountPool

CONSTANTS
    Sessions,       \* the ids Start gives out
    Device,         \* those of them in device mode
    Callbacks,      \* calls of CompleteBrowser
    User            \* User[s]: who logs in

ASSUME DeviceAssumption == Device \subseteq Sessions
ASSUME CallbacksAssumption == Callbacks \cap Sessions = {}
ASSUME UserAssumption == User \in [Sessions -> Users]

VARIABLES
    status,         \* status[s]: Status, "none" before Start, "gone" after the sweep
    age,            \* age[s]: "fresh", "late" or "old"
    cancelled,      \* cancelled[s]: session.cancel was called
    pc,             \* pc[w]: where the worker w stands
    job,            \* job[c]: the session the callback c completes
    match,          \* match[w]: the row w found for its account
    stored,         \* history: how often the account of s was stored
    overlooked      \* history: the users a search may have missed a row of

vars == <<status, age, cancelled, pc, job, match, stored, overlooked, poolVars>>
pool == <<match, overlooked, poolVars>>

\* the goroutine of a device session is known by the session
Workers == Callbacks \cup Device
Browser == Sessions \ Device

Open == {"pending", "completing"}
Terminal == {"success", "failed", "cancelled", "expired"}
Exists(s) == status[s] \in Open \cup Terminal
Late(s) == age[s] # "fresh"
ContextDone(s) == cancelled[s] \/ Late(s)
Of(w) == IF w \in Device THEN w ELSE job[w]

(* Who looked for the row of u and has not written it yet.                 *)
Seekers(u) ==
    {w \in Workers : match[w] # Searching /\ User[Of(w)] = u} \cup
    {i \in Imports : /\ import[i].match # Searching
                     /\ Head(import[i].left) = [user |-> u, named |-> TRUE]}

(* A row becomes u's behind the back of a search for u, or by a refresh,   *)
(* which ends no search, though u has one.                                 *)
Overlooks(u) ==
    /\ ~(RowsOf(u)' \subseteq RowsOf(u))
    /\ Seekers(u)' # {} \/ (Seekers(u)' = Seekers(u) /\ RowsOf(u) # {})

Note == overlooked' = overlooked \cup {u \in Users : Overlooks(u)}

Goto(w, stage) == pc' = [pc EXCEPT ![w] = stage]

Init ==
    /\ status = [s \in Sessions |-> "none"]
    /\ age = [s \in Sessions |-> "fresh"]
    /\ cancelled = [s \in Sessions |-> FALSE]
    /\ pc = [w \in Workers |-> "idle"]
    /\ \E s \in (IF Browser = {} THEN Sessions ELSE Browser) : job = [c \in Callbacks |-> s]
    /\ match = [w \in Workers |-> Searching]
    /\ stored = [s \in Sessions |-> 0]
    /\ overlooked = {}
    /\ PoolInit

(* The session ends with the status v, and its context with it.            *)
EndAs(s, v) ==
    /\ status' = [status EXCEPT ![s] = v]
    /\ cancelled' = [cancelled EXCEPT ![s] = TRUE]

(* cleanupLocked: what the sweep makes of a session.                       *)
Swept(s) ==
    CASE Exists(s) /\ age[s] = "old" -> "gone"
      [] status[s] \in Open /\ age[s] = "late" -> "expired"
      [] OTHER -> status[s]

(* Start sweeps, adds the session and starts the goroutine of a device.    *)
Start(s) ==
    /\ status[s] = "none"
    /\ status' = [q \in Sessions |-> IF q = s THEN "pending" ELSE Swept(q)]
    /\ cancelled' = [q \in Sessions |->
          cancelled[q] \/ (status[q] \in Open /\ Late(q))]
    /\ IF s \in Device THEN Goto(s, "exchanging") ELSE UNCHANGED pc
    /\ UNCHANGED <<age, job, stored, pool>>

(* expireLocked, under Get and before every completion.                    *)
Expire(s) ==
    /\ status[s] \in Open /\ Late(s)
    /\ EndAs(s, "expired")
    /\ UNCHANGED <<age, pc, job, stored, pool>>

\* mutant: the context of a cancelled session goes on
CancelStatusOnly(s) ==
    /\ status[s] \in Open
    /\ status' = [status EXCEPT ![s] = "cancelled"]
    /\ UNCHANGED <<age, cancelled, pc, job, stored, pool>>

Cancel(s) ==
    /\ status[s] \in Open
    /\ EndAs(s, "cancelled")
    /\ UNCHANGED <<age, pc, job, stored, pool>>

(* What failByID writes: a deadline can also be the HTTP client's own.     *)
Verdicts(s) == IF Late(s) THEN {"expired"} ELSE {"failed", "expired"}

FailByID(s) ==
    IF status[s] \in Open
    THEN \E v \in Verdicts(s) : EndAs(s, v)
    ELSE UNCHANGED <<status, cancelled>>

(* A callback with the session's state and an error instead of a code.     *)
Denied(s) ==
    /\ s \in Browser /\ status[s] \in Open
    /\ FailByID(s)
    /\ UNCHANGED <<age, pc, job, stored, pool>>

\* mutant: a second callback may complete a session that is completing
BeginAgain(c, s) ==
    /\ pc[c] = "idle" /\ s \in Browser
    /\ status[s] \in Open /\ ~Late(s)
    /\ status' = [status EXCEPT ![s] = "completing"]
    /\ job' = [job EXCEPT ![c] = s]
    /\ Goto(c, "exchanging")
    /\ UNCHANGED <<age, cancelled, stored, pool>>

(* beginBrowserCompletion: the first callback takes the session.           *)
Begin(c, s) ==
    /\ pc[c] = "idle" /\ s \in Browser
    /\ status[s] = "pending" /\ ~Late(s)
    /\ status' = [status EXCEPT ![s] = "completing"]
    /\ job' = [job EXCEPT ![c] = s]
    /\ Goto(c, "exchanging")
    /\ UNCHANGED <<age, cancelled, stored, pool>>

(* The tokens arrive while the context lasts.                              *)
Exchange(w) ==
    /\ pc[w] = "exchanging"
    /\ ~ContextDone(Of(w))
    /\ Goto(w, IF w \in Device THEN "polled" ELSE "finding")
    /\ UNCHANGED <<status, age, cancelled, job, stored, pool>>

(* The exchange is refused, times out or is cancelled.                     *)
ExchangeFails(w) ==
    /\ pc[w] = "exchanging"
    /\ FailByID(Of(w))
    /\ Goto(w, "idle")
    /\ UNCHANGED <<age, job, stored, pool>>

(* beginDeviceCompletion, which expires the session before it looks.       *)
BeginDevice(d) ==
    /\ pc[d] = "polled"
    /\ \/ /\ status[d] = "pending" /\ ~Late(d)
          /\ status' = [status EXCEPT ![d] = "completing"]
          /\ UNCHANGED cancelled
          /\ Goto(d, "finding")
       \/ /\ status[d] \in Open /\ Late(d)
          /\ EndAs(d, "expired")
          /\ Goto(d, "idle")
       \/ /\ status[d] \notin Open
          /\ UNCHANGED <<status, cancelled>>
          /\ Goto(d, "idle")
    /\ UNCHANGED <<age, job, stored, pool>>

(* finishTokens reads the pool of the session, if there still is one.      *)
Find(w) ==
    /\ pc[w] = "finding"
    /\ Goto(w, IF Exists(Of(w)) THEN "storing" ELSE "idle")
    /\ UNCHANGED <<status, age, cancelled, job, stored, pool>>

FileOf(w) == [user |-> User[Of(w)], named |-> TRUE]

(* upsertOfficialAccount looks for the account of the user, ...            *)
Match(w) ==
    /\ pc[w] = "storing" /\ match[w] = Searching
    /\ match' = [match EXCEPT ![w] = Found(FileOf(w))]
    /\ UNCHANGED <<status, age, cancelled, pc, job, stored, overlooked, poolVars>>

(* ... and updates it or creates one.                                      *)
Store(w) ==
    /\ pc[w] = "storing" /\ match[w] # Searching
    /\ rows' = Written(match[w], FileOf(w))
    /\ match' = [match EXCEPT ![w] = Searching]
    /\ stored' = [stored EXCEPT ![Of(w)] = @ + 1]
    /\ Goto(w, "closing")
    /\ UNCHANGED <<status, age, cancelled, job, import>>
    /\ Note

\* mutant: the error of the store is returned and the session left as it is
StoreFailsSilently(w) ==
    /\ pc[w] \in {"finding", "storing"}
    /\ Goto(w, "idle")
    /\ match' = [match EXCEPT ![w] = Searching]
    /\ UNCHANGED <<status, age, cancelled, job, stored, overlooked, poolVars>>

(* The tokens make no account file, or the account is not stored.          *)
StoreFails(w) ==
    /\ pc[w] \in {"finding", "storing"}
    /\ FailByID(Of(w))
    /\ Goto(w, "idle")
    /\ match' = [match EXCEPT ![w] = Searching]
    /\ UNCHANGED <<age, job, stored, overlooked, poolVars>>

Close(w) ==
    /\ pc[w] = "closing"
    /\ IF status[Of(w)] = "completing"
       THEN EndAs(Of(w), "success")
       ELSE UNCHANGED <<status, cancelled>>
    /\ Goto(w, "idle")
    /\ UNCHANGED <<age, job, stored, pool>>

Tick(s) ==
    /\ Exists(s) /\ age[s] # "old"
    /\ age' = [age EXCEPT ![s] = IF @ = "fresh" THEN "late" ELSE "old"]
    /\ UNCHANGED <<status, cancelled, pc, job, stored, pool>>

(* The sessions live in memory; the accounts do not.                       *)
Crash ==
    /\ status' = [s \in Sessions |-> IF Exists(s) THEN "gone" ELSE status[s]]
    /\ pc' = [w \in Workers |-> "idle"]
    /\ match' = [w \in Workers |-> Searching]
    /\ import' = [i \in Imports |-> [left |-> <<>>, match |-> Searching]]
    /\ UNCHANGED <<age, cancelled, job, stored, overlooked, rows>>

Work(w) ==
    \/ Exchange(w) \/ ExchangeFails(w) \/ Find(w)
    \/ Match(w) \/ Store(w) \/ StoreFails(w) \/ Close(w)
    \/ w \in Device /\ BeginDevice(w)

Next ==
    \/ \E s \in Sessions : Start(s) \/ Expire(s) \/ Cancel(s) \/ Denied(s) \/ Tick(s)
    \/ \E c \in Callbacks, s \in Sessions : Begin(c, s)
    \/ \E w \in Workers : Work(w)
    \/ PoolNext /\ UNCHANGED <<status, age, cancelled, pc, job, match, stored>> /\ Note
    \/ Crash

(* A worker goes on: its exchange has the deadline of the context, its     *)
(* database calls return.                                                  *)
Spec == Init /\ [][Next]_vars /\ \A w \in Workers : WF_vars(Work(w))

-----------------------------------------------------------------------------

TypeOK ==
    /\ status \in [Sessions -> Open \cup Terminal \cup {"none", "gone"}]
    /\ age \in [Sessions -> {"fresh", "late", "old"}]
    /\ cancelled \in [Sessions -> BOOLEAN]
    /\ pc \in [Workers -> {"idle", "exchanging", "polled", "finding", "storing", "closing"}]
    /\ job \in [Callbacks -> Sessions]
    /\ stored \in [Sessions -> Nat]

(* However many callbacks carry the code of one login (the browser sends   *)
(* it again, the operator pastes it too), and whatever cancels or expires  *)
(* the session meanwhile, its account is stored at most once, and a login  *)
(* that is reported as a success has been stored.                          *)
StoredOnce ==
    \A s \in Sessions :
       /\ stored[s] <= 1
       /\ status[s] = "success" => stored[s] = 1

(* The comments on Import and upsertOfficialAccount: users who share a     *)
(* ChatGPT account id have accounts of their own. Whatever logins, imports *)
(* and refreshes run side by side, an account that was only written from   *)
(* files naming their subject never held the tokens of two users, and a    *)
(* user gets a second account only where a search was overtaken by another *)
(* write of the user's row or a refresh gave the user another row.         *)
UsersApart ==
    /\ \A i \in DOMAIN rows : rows[i].by = "user" =>
          /\ Cardinality(rows[i].users) = 1
          /\ rows[i].subject \in rows[i].users \cup {Nobody}
    /\ \A u \in Users \ overlooked : Cardinality(RowsOf(u)) <= 1

(* No late answer, failure or expiry changes how a login has ended: a      *)
(* terminal status is left only by the sweep.                              *)
EndedStays ==
    [][\A s \in Sessions :
          status[s] \in Terminal => status'[s] \in {status[s], "gone"}]_vars

(* Ending a session ends its context: a login that was cancelled, denied   *)
(* or expired before the upstream answered never gets the tokens.          *)
EndedGetsNoTokens ==
    [][\A w \in Workers :
          pc[w] = "exchanging" /\ pc'[w] \in {"polled", "finding"} =>
              status[Of(w)] \in Open]_vars

(* Nobody has to ask for it: a login that is completing, and one that      *)
(* waits for its device, comes to an end by the work of its own worker.    *)
LoginEnds ==
    \A s \in Sessions :
       /\ status[s] = "completing" ~> status[s] \notin Open
       /\ s \in Device => (status[s] = "pending" ~> status[s] \notin Open)

=============================================================================
