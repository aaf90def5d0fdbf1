------------------------- MODULE OAuthSessionProofs --------------------------
(***************************************************************************)
(* A login is stored at most once and ends once, for any number of logins, *)
(* callbacks and devices, cancelled, expired or swept at any time.         *)
(*                                                                         *)
(* What makes it so is who may work on a session. A callback claims it     *)
(* while it is pending and keeps the claim, a device claims it after its   *)
(* poll; there is never a second claim, because a claimed session is not   *)
(* pending any more. A claim that has stored the account can only close.   *)
(***************************************************************************)
EXTENDS OAuthSession, FiniteSetTheorems, WellFoundedInduction, TLAPS

Busy(w) == pc[w] # "idle"

(* The worker may store the account of its session.                        *)
Claims(w) ==
    \/ pc[w] \in {"finding", "storing", "closing"}
    \/ w \notin Device /\ pc[w] = "exchanging"

EndedIsCancelled == \A s \in Sessions : status[s] \in Terminal => cancelled[s]

(* A session is swept from under its worker only long after it expired.    *)
WorkIsBound ==
    \A w \in Workers : Busy(w) =>
        /\ status[Of(w)] # "none"
        /\ status[Of(w)] = "gone" => Late(Of(w))

CallbacksAreAlone ==
    \A c \in Callbacks : Busy(c) =>
        /\ job[c] \in Browser
        /\ pc[c] # "polled"
        /\ \A e \in Callbacks : (Busy(e) /\ job[e] = job[c]) => e = c

ClaimsHold ==
    \A w \in Workers : Claims(w) =>
        /\ status[Of(w)] \notin {"none", "pending", "success"}
        /\ stored[Of(w)] = IF pc[w] = "closing" THEN 1 ELSE 0

WaitsHold ==
    \A d \in Device : pc[d] \in {"exchanging", "polled"} =>
        /\ status[d] \notin {"completing", "success"}
        /\ stored[d] = 0

StoresHold ==
    \A s \in Sessions :
        /\ stored[s] \in {0, 1}
        /\ status[s] \in {"none", "pending"} => stored[s] = 0
        /\ status[s] = "success" => stored[s] = 1

Safe ==
    /\ TypeOK /\ EndedIsCancelled /\ WorkIsBound
    /\ CallbacksAreAlone /\ ClaimsHold /\ WaitsHold /\ StoresHold

USE DeviceAssumption, CallbacksAssumption

LEMMA InitIsSafe == Init => Safe
<1> SUFFICES ASSUME Init PROVE Safe
  OBVIOUS
<1>1. TypeOK
  <2>1. PICK s \in Sessions : job = [c \in Callbacks |-> s]
    BY DEF Init, Browser
  <2> QED
    BY <2>1 DEF Init, TypeOK, Workers
<1>2. EndedIsCancelled /\ StoresHold
  BY DEF Init, EndedIsCancelled, StoresHold, Terminal
<1>3. \A w \in Workers : pc[w] = "idle"
  BY DEF Init
<1>4. WorkIsBound /\ CallbacksAreAlone
  BY <1>3 DEF WorkIsBound, CallbacksAreAlone, Busy, Workers
<1>5. ClaimsHold /\ WaitsHold
  BY <1>3 DEF ClaimsHold, WaitsHold, Claims, Workers
<1> QED
  BY <1>1, <1>2, <1>4, <1>5 DEF Safe

(* A session that is still open ends: its worker, if it has one, keeps its *)
(* claim or lets it go.                                                    *)
LEMMA EndingIsSafe ==
    ASSUME Safe, NEW s \in Sessions, status[s] \in Open,
           NEW v \in {"failed", "cancelled", "expired"}, EndAs(s, v),
           UNCHANGED pc \/ (\E w \in Workers : Goto(w, "idle")),
           UNCHANGED <<age, job, stored>>
    PROVE  Safe'
<1> USE DEF Safe, EndAs, Open, Goto
<1>1. TypeOK'
  BY DEF TypeOK, Terminal
<1>2. EndedIsCancelled'
  BY DEF EndedIsCancelled, TypeOK
<1>3. WorkIsBound'
  BY DEF WorkIsBound, Busy, Of, Late, TypeOK
<1>4. CallbacksAreAlone'
  BY DEF CallbacksAreAlone, Busy, TypeOK, Workers
<1>5. ClaimsHold'
  BY DEF ClaimsHold, Claims, Of, TypeOK
<1>6. WaitsHold'
  BY DEF WaitsHold, TypeOK, Workers
<1>7. StoresHold'
  BY DEF StoresHold, TypeOK
<1> QED
  BY <1>1, <1>2, <1>3, <1>4, <1>5, <1>6, <1>7

(* The steps in which a worker lets go of its session.                     *)
LEMMA LettingGoIsSafe ==
    ASSUME Safe, NEW w \in Workers, Goto(w, "idle"),
           UNCHANGED <<status, age, cancelled, job, stored>>
    PROVE  Safe'
<1> USE DEF Safe, Goto
<1>1. TypeOK'
  BY DEF TypeOK
<1>2. EndedIsCancelled'
  BY DEF EndedIsCancelled
<1>3. WorkIsBound'
  BY DEF WorkIsBound, Busy, Of, Late, TypeOK
<1>4. CallbacksAreAlone'
  BY DEF CallbacksAreAlone, Busy, TypeOK, Workers
<1>5. ClaimsHold'
  BY DEF ClaimsHold, Claims, Of, TypeOK
<1>6. WaitsHold'
  BY DEF WaitsHold, TypeOK, Workers
<1>7. StoresHold'
  BY DEF StoresHold
<1> QED
  BY <1>1, <1>2, <1>3, <1>4, <1>5, <1>6, <1>7

(* A new session has no worker yet; the sweep of Start ends the others.    *)
LEMMA StartIsSafe ==
    ASSUME Safe, NEW s \in Sessions, Start(s)
    PROVE  Safe'
<1> USE DEF Safe, Start, Goto, Swept, Exists, Open, Late
<1>1. TypeOK'
  BY DEF TypeOK, Terminal, Workers
<1>2. EndedIsCancelled'
  BY DEF EndedIsCancelled, TypeOK, Terminal
<1>3. WorkIsBound'
  BY DEF WorkIsBound, Busy, Of, TypeOK, Terminal, Workers
<1>4. CallbacksAreAlone'
  BY DEF CallbacksAreAlone, Busy, TypeOK, Workers, Browser
<1>5. ClaimsHold'
  BY DEF ClaimsHold, Claims, Of, TypeOK, Terminal, Workers, WorkIsBound, Busy
<1>6. WaitsHold'
  BY DEF WaitsHold, TypeOK, Terminal, Workers, StoresHold
<1>7. StoresHold'
  BY DEF StoresHold, TypeOK, Terminal
<1> QED
  BY <1>1, <1>2, <1>3, <1>4, <1>5, <1>6, <1>7

(* The first callback takes a session that no other callback has.          *)
LEMMA BeginIsSafe ==
    ASSUME Safe, NEW c \in Callbacks, NEW s \in Sessions, Begin(c, s)
    PROVE  Safe'
<1> USE DEF Safe, Begin, Goto
<1>1. TypeOK'
  BY DEF TypeOK, Workers, Open
<1>2. EndedIsCancelled'
  BY DEF EndedIsCancelled, TypeOK, Terminal
<1>3. WorkIsBound'
  BY DEF WorkIsBound, Busy, Of, TypeOK, Late, Workers, Browser
<1>4. CallbacksAreAlone'
  BY DEF CallbacksAreAlone, Busy, TypeOK, ClaimsHold, Claims, Of, Workers, Browser
<1>5. ClaimsHold'
  BY DEF ClaimsHold, Claims, Of, TypeOK, StoresHold, CallbacksAreAlone, Workers, Browser, Busy
<1>6. WaitsHold'
  BY DEF WaitsHold, TypeOK, Workers, Browser
<1>7. StoresHold'
  BY DEF StoresHold, TypeOK
<1> QED
  BY <1>1, <1>2, <1>3, <1>4, <1>5, <1>6, <1>7

(* An exchange that is answered.                                           *)
LEMMA ExchangeIsSafe ==
    ASSUME Safe, NEW w \in Workers, Exchange(w)
    PROVE  Safe'
<1> USE DEF Safe, Exchange, Goto
<1>1. TypeOK'
  BY DEF TypeOK, Workers
<1>2. EndedIsCancelled'
  BY DEF EndedIsCancelled, TypeOK
<1>3. WorkIsBound'
  BY DEF WorkIsBound, Busy, Of, TypeOK, Late
<1>4. CallbacksAreAlone'
  BY DEF CallbacksAreAlone, Busy, TypeOK, Workers
<1>5. ClaimsHold'
  BY DEF ClaimsHold, Claims, Of, TypeOK, Workers
<1>6. WaitsHold'
  BY DEF WaitsHold, TypeOK, Workers
<1>7. StoresHold'
  BY DEF StoresHold, TypeOK
<1> QED
  BY <1>1, <1>2, <1>3, <1>4, <1>5, <1>6, <1>7

(* The device session is taken by its only worker.                         *)
LEMMA TakeDeviceIsSafe ==
    ASSUME Safe, NEW d \in Device, pc[d] = "polled", status[d] = "pending",
           status' = [status EXCEPT ![d] = "completing"], Goto(d, "finding"),
           UNCHANGED <<age, cancelled, job, stored>>
    PROVE  Safe'
<1> USE DEF Safe, Goto
<1>1. TypeOK'
  BY DEF TypeOK, Workers, Open
<1>2. EndedIsCancelled'
  BY DEF EndedIsCancelled, TypeOK, Terminal
<1>3. WorkIsBound'
  BY DEF WorkIsBound, Busy, Of, TypeOK, Workers, Late
<1>4. CallbacksAreAlone'
  BY DEF CallbacksAreAlone, Busy, TypeOK, Workers
<1>5. ClaimsHold'
  BY DEF ClaimsHold, Claims, Of, TypeOK, WaitsHold, CallbacksAreAlone, Busy, Workers, Browser
<1>6. WaitsHold'
  BY DEF WaitsHold, TypeOK, Workers
<1>7. StoresHold'
  BY DEF StoresHold, TypeOK
<1> QED
  BY <1>1, <1>2, <1>3, <1>4, <1>5, <1>6, <1>7

(* A claim goes on: the pool is read, the account is stored.               *)
LEMMA FindIsSafe ==
    ASSUME Safe, NEW w \in Workers, pc[w] = "finding", Goto(w, "storing"),
           UNCHANGED <<status, age, cancelled, job, stored>>
    PROVE  Safe'
<1> USE DEF Safe, Goto
<1>1. TypeOK'
  BY DEF TypeOK, Workers
<1>2. EndedIsCancelled'
  BY DEF EndedIsCancelled, TypeOK
<1>3. WorkIsBound'
  BY DEF WorkIsBound, Busy, Of, TypeOK, Late
<1>4. CallbacksAreAlone'
  BY DEF CallbacksAreAlone, Busy, TypeOK, Workers
<1>5. ClaimsHold'
  BY DEF ClaimsHold, Claims, Of, TypeOK, Workers
<1>6. WaitsHold'
  BY DEF WaitsHold, TypeOK, Workers
<1>7. StoresHold'
  BY DEF StoresHold, TypeOK
<1> QED
  BY <1>1, <1>2, <1>3, <1>4, <1>5, <1>6, <1>7

(* The account of a claimed session had not been stored.                   *)
LEMMA StoreIsSafe ==
    ASSUME Safe, NEW w \in Workers, Store(w)
    PROVE  Safe'
<1> USE DEF Safe, Store, Goto
<1>1. TypeOK'
  BY DEF TypeOK, Workers, Of
<1>2. EndedIsCancelled'
  BY DEF EndedIsCancelled, TypeOK
<1>3. WorkIsBound'
  BY DEF WorkIsBound, Busy, Of, TypeOK, Late
<1>4. CallbacksAreAlone'
  BY DEF CallbacksAreAlone, Busy, TypeOK, Workers
<1>5. ClaimsHold'
  BY DEF ClaimsHold, Claims, Of, TypeOK, CallbacksAreAlone, Busy, Workers, Browser
<1>6. WaitsHold'
  BY DEF WaitsHold, TypeOK, CallbacksAreAlone, Busy, Workers, Browser, Of
<1>7. StoresHold'
  BY DEF StoresHold, TypeOK, ClaimsHold, Claims, Of
<1> QED
  BY <1>1, <1>2, <1>3, <1>4, <1>5, <1>6, <1>7

(* The claim that has stored is the one that succeeds.                     *)
LEMMA SucceedIsSafe ==
    ASSUME Safe, NEW w \in Workers, pc[w] = "closing",
           status[Of(w)] = "completing", EndAs(Of(w), "success"), Goto(w, "idle"),
           UNCHANGED <<age, job, stored>>
    PROVE  Safe'
<1> USE DEF Safe, EndAs, Goto
<1>1. TypeOK'
  BY DEF TypeOK, Workers, Of, Terminal
<1>2. EndedIsCancelled'
  BY DEF EndedIsCancelled, TypeOK, Of, Workers
<1>3. WorkIsBound'
  BY DEF WorkIsBound, Busy, Of, TypeOK, Late, Workers
<1>4. CallbacksAreAlone'
  BY DEF CallbacksAreAlone, Busy, TypeOK, Workers
<1>5. ClaimsHold'
  BY DEF ClaimsHold, Claims, Of, TypeOK, CallbacksAreAlone, Busy, Workers, Browser
<1>6. WaitsHold'
  BY DEF WaitsHold, TypeOK, CallbacksAreAlone, Busy, Workers, Browser, Of
<1>7. StoresHold'
  BY DEF StoresHold, TypeOK, ClaimsHold, Claims, Of, Workers
<1> QED
  BY <1>1, <1>2, <1>3, <1>4, <1>5, <1>6, <1>7

(* A step that leaves the sessions and the workers alone.                  *)
LEMMA OtherStateIsFree ==
    ASSUME Safe, UNCHANGED <<status, age, cancelled, pc, job, stored>>
    PROVE  Safe'
<1> USE DEF Safe
<1>1. TypeOK' /\ EndedIsCancelled' /\ StoresHold' /\ WaitsHold'
  BY DEF TypeOK, EndedIsCancelled, StoresHold, WaitsHold
<1>2. WorkIsBound' /\ CallbacksAreAlone' /\ ClaimsHold'
  BY DEF WorkIsBound, CallbacksAreAlone, ClaimsHold, Claims, Busy, Of, Late
<1> QED
  BY <1>1, <1>2

(* Time only makes sessions late.                                          *)
LEMMA TickIsSafe ==
    ASSUME Safe, NEW s \in Sessions, Tick(s)
    PROVE  Safe'
<1> USE DEF Safe, Tick
<1>1. TypeOK' /\ EndedIsCancelled' /\ StoresHold' /\ WaitsHold'
  BY DEF TypeOK, EndedIsCancelled, StoresHold, WaitsHold
<1>2. CallbacksAreAlone' /\ ClaimsHold'
  BY DEF CallbacksAreAlone, ClaimsHold, Claims, Busy, Of
<1>3. WorkIsBound'
  BY DEF WorkIsBound, Busy, Of, Late, TypeOK
<1> QED
  BY <1>1, <1>2, <1>3

(* No worker survives a crash.                                             *)
LEMMA CrashIsSafe ==
    ASSUME Safe, Crash
    PROVE  Safe'
<1> USE DEF Safe, Crash
<1>1. TypeOK'
  BY DEF TypeOK
<1>2. EndedIsCancelled' /\ StoresHold'
  BY DEF EndedIsCancelled, StoresHold, TypeOK, Exists, Open, Terminal
<1>3. \A w \in Workers : pc'[w] = "idle"
  OBVIOUS
<1>4. WorkIsBound' /\ CallbacksAreAlone'
  BY <1>3 DEF WorkIsBound, CallbacksAreAlone, Busy, Workers
<1>5. ClaimsHold' /\ WaitsHold'
  BY <1>3 DEF ClaimsHold, WaitsHold, Claims, Workers
<1> QED
  BY <1>1, <1>2, <1>4, <1>5

LEMMA FailByIDIsSafe ==
    ASSUME Safe, NEW s \in Sessions, FailByID(s),
           NEW w \in Workers, Goto(w, "idle"), UNCHANGED <<age, job, stored>>
    PROVE  Safe'
<1>1. CASE status[s] \in Open
  <2>1. PICK v \in {"failed", "cancelled", "expired"} : EndAs(s, v)
    BY <1>1 DEF FailByID, Verdicts
  <2> QED
    BY <1>1, <2>1, EndingIsSafe
<1>2. CASE status[s] \notin Open
  BY <1>2, LettingGoIsSafe DEF FailByID
<1> QED
  BY <1>1, <1>2

LEMMA WorkIsSafe ==
    ASSUME Safe, NEW w \in Workers, Work(w)
    PROVE  Safe'
<1>1. Busy(w) => Of(w) \in Sessions
  BY DEF Of, Safe, TypeOK, Workers
<1>2. CASE Exchange(w)
  BY <1>2, ExchangeIsSafe
<1>3. CASE ExchangeFails(w)
  <2>1. Busy(w) /\ FailByID(Of(w)) /\ Goto(w, "idle") /\ UNCHANGED <<age, job, stored>>
    BY <1>3 DEF ExchangeFails, Busy
  <2> QED
    BY <1>1, <2>1, FailByIDIsSafe
<1>4. CASE Find(w)
  <2>1. CASE Exists(Of(w))
    BY <1>4, <2>1, FindIsSafe DEF Find
  <2>2. CASE ~Exists(Of(w))
    BY <1>4, <2>2, LettingGoIsSafe DEF Find
  <2> QED
    BY <2>1, <2>2
<1>5. CASE Match(w)
  BY <1>5, OtherStateIsFree DEF Match
<1>6. CASE Store(w)
  BY <1>6, StoreIsSafe
<1>7. CASE StoreFails(w)
  <2>1. Busy(w) /\ FailByID(Of(w)) /\ Goto(w, "idle") /\ UNCHANGED <<age, job, stored>>
    BY <1>7 DEF StoreFails, Busy
  <2> QED
    BY <1>1, <2>1, FailByIDIsSafe
<1>8. CASE Close(w)
  <2>1. CASE status[Of(w)] = "completing"
    BY <1>8, <2>1, SucceedIsSafe DEF Close
  <2>2. CASE status[Of(w)] # "completing"
    BY <1>8, <2>2, LettingGoIsSafe DEF Close
  <2> QED
    BY <2>1, <2>2
<1>9. CASE w \in Device /\ BeginDevice(w)
  <2>1. CASE status[w] = "pending" /\ ~Late(w)
    BY <1>9, <2>1, TakeDeviceIsSafe DEF BeginDevice, Open
  <2>2. CASE status[w] \in Open /\ Late(w)
    <3>1. EndAs(w, "expired") /\ Goto(w, "idle") /\ UNCHANGED <<age, job, stored>>
      BY <1>9, <2>2 DEF BeginDevice
    <3> QED
      BY <1>9, <2>2, <3>1, EndingIsSafe
  <2>3. CASE status[w] \notin Open
    BY <1>9, <2>3, LettingGoIsSafe DEF BeginDevice, Open
  <2> QED
    BY <1>9, <2>1, <2>2, <2>3 DEF BeginDevice
<1> QED
  BY <1>2, <1>3, <1>4, <1>5, <1>6, <1>7, <1>8, <1>9 DEF Work

LEMMA StepIsSafe == Safe /\ [Next]_vars => Safe'
<1> SUFFICES ASSUME Safe, [Next]_vars PROVE Safe'
  OBVIOUS
<1>1. ASSUME NEW s \in Sessions, Start(s) PROVE Safe'
  BY <1>1, StartIsSafe
<1>2. ASSUME NEW s \in Sessions, Expire(s) PROVE Safe'
  BY <1>2, EndingIsSafe DEF Expire
<1>3. ASSUME NEW s \in Sessions, Cancel(s) PROVE Safe'
  BY <1>3, EndingIsSafe DEF Cancel
<1>4. ASSUME NEW s \in Sessions, Denied(s) PROVE Safe'
  BY <1>4, EndingIsSafe DEF Denied, FailByID, Verdicts
<1>5. ASSUME NEW s \in Sessions, Tick(s) PROVE Safe'
  BY <1>5, TickIsSafe
<1>6. ASSUME NEW c \in Callbacks, NEW s \in Sessions, Begin(c, s) PROVE Safe'
  BY <1>6, BeginIsSafe
<1>7. ASSUME NEW w \in Workers, Work(w) PROVE Safe'
  BY <1>7, WorkIsSafe
<1>8. CASE PoolNext /\ UNCHANGED <<status, age, cancelled, pc, job, match, stored>> /\ Note
  BY <1>8, OtherStateIsFree
<1>9. CASE Crash
  BY <1>9, CrashIsSafe
<1>10. CASE UNCHANGED vars
  BY <1>10, OtherStateIsFree DEF vars
<1> QED
  BY <1>1, <1>2, <1>3, <1>4, <1>5, <1>6, <1>7, <1>8, <1>9, <1>10 DEF Next

THEOREM SpecIsSafe == Spec => []Safe
<1> QED
  BY InitIsSafe, StepIsSafe, PTL DEF Spec

(* Type correctness, for any logins, callbacks and devices.                *)
THEOREM TypesHold == Spec => []TypeOK
<1>1. Safe => TypeOK
  BY DEF Safe
<1> QED
  BY <1>1, SpecIsSafe, PTL

(* However the callbacks, the devices, cancelling, expiry and the sweep    *)
(* interleave, an account is stored at most once for a login, and has been *)
(* when the login is reported as a success.                                *)
THEOREM StoredAtMostOnce == Spec => []StoredOnce
<1>1. Safe => StoredOnce
  BY DEF Safe, StoresHold, StoredOnce
<1> QED
  BY <1>1, SpecIsSafe, PTL

LEMMA StepKeepsEnded ==
    ASSUME Safe, [Next]_vars, NEW s \in Sessions, status[s] \in Terminal
    PROVE  status'[s] \in {status[s], "gone"}
<1> USE DEF Safe, TypeOK, Terminal, Open, EndAs
<1>1. ASSUME NEW q \in Sessions, Start(q) PROVE status'[s] \in {status[s], "gone"}
  BY <1>1 DEF Start, Swept
<1>2. ASSUME NEW q \in Sessions, Expire(q) \/ Cancel(q) \/ Denied(q) \/ Tick(q)
      PROVE  status'[s] \in {status[s], "gone"}
  BY <1>2 DEF Expire, Cancel, Denied, FailByID, Tick
<1>3. ASSUME NEW c \in Callbacks, NEW q \in Sessions, Begin(c, q)
      PROVE  status'[s] \in {status[s], "gone"}
  BY <1>3 DEF Begin
<1>4. ASSUME NEW w \in Workers, Work(w) PROVE status'[s] \in {status[s], "gone"}
  <2>1. CASE Exchange(w) \/ Find(w) \/ Match(w) \/ Store(w)
    BY <2>1 DEF Exchange, Find, Match, Store
  <2>2. CASE ExchangeFails(w) \/ StoreFails(w)
    BY <2>2 DEF ExchangeFails, StoreFails, FailByID
  <2>3. CASE Close(w)
    BY <2>3 DEF Close
  <2>4. CASE BeginDevice(w)
    BY <2>4 DEF BeginDevice
  <2> QED
    BY <1>4, <2>1, <2>2, <2>3, <2>4 DEF Work
<1>5. CASE Crash
  BY <1>5 DEF Crash
<1>6. CASE PoolNext /\ UNCHANGED <<status, age, cancelled, pc, job, match, stored>>
  BY <1>6
<1>7. CASE UNCHANGED vars
  BY <1>7 DEF vars
<1> QED
  BY <1>1, <1>2, <1>3, <1>4, <1>5, <1>6, <1>7 DEF Next

(* A login ends once: no late answer, failure or expiry changes how.       *)
THEOREM EndsOnce == Spec => EndedStays
<1>1. Safe /\ [Next]_vars =>
        [\A s \in Sessions : status[s] \in Terminal => status'[s] \in {status[s], "gone"}]_vars
  BY StepKeepsEnded
<1> QED
  BY <1>1, SpecIsSafe, PTL DEF Spec, EndedStays

LEMMA TokensNeedAnOpenLogin ==
    ASSUME Safe, [Next]_vars, NEW w \in Workers,
           pc[w] = "exchanging", pc'[w] \in {"polled", "finding"}
    PROVE  status[Of(w)] \in Open
<1> USE DEF Safe, TypeOK, Goto
<1>1. Exchange(w)
  <2>1. ASSUME NEW s \in Sessions PROVE ~Start(s)
    BY DEF Start, Workers
  <2>2. ASSUME NEW s \in Sessions
        PROVE  ~(Expire(s) \/ Cancel(s) \/ Denied(s) \/ Tick(s))
    BY DEF Expire, Cancel, Denied, Tick
  <2>3. ASSUME NEW c \in Callbacks, NEW s \in Sessions PROVE ~Begin(c, s)
    BY DEF Begin, Workers
  <2>4. ASSUME NEW v \in Workers, Work(v) PROVE v = w /\ Exchange(v)
    <3>1. v = w
      BY <2>4 DEF Work, Exchange, ExchangeFails, Find, Match, Store, StoreFails,
                  Close, BeginDevice
    <3> QED
      BY <2>4, <3>1 DEF Work, ExchangeFails, Find, Match, Store, StoreFails,
                        Close, BeginDevice
  <2>5. ~Crash /\ ~UNCHANGED pc
    BY DEF Crash
  <2> QED
    BY <2>1, <2>2, <2>3, <2>4, <2>5 DEF Next, vars
<1>2. ~cancelled[Of(w)] /\ ~Late(Of(w))
  BY <1>1 DEF Exchange, ContextDone
<1>3. Of(w) \in Sessions
  BY DEF Of, Workers
<1>4. status[Of(w)] \notin {"none", "gone"}
  BY <1>2 DEF WorkIsBound, Busy
<1>5. status[Of(w)] \notin Terminal
  BY <1>2, <1>3 DEF EndedIsCancelled
<1> QED
  BY <1>3, <1>4, <1>5

(* A login that has ended, whoever ended it, gets no tokens any more.      *)
THEOREM NoTokensAfterTheEnd == Spec => EndedGetsNoTokens
<1>1. Safe /\ [Next]_vars =>
        [\A w \in Workers : pc[w] = "exchanging" /\ pc'[w] \in {"polled", "finding"} =>
            status[Of(w)] \in Open]_vars
  BY TokensNeedAnOpenLogin
<1> QED
  BY <1>1, SpecIsSafe, PTL DEF Spec, EndedGetsNoTokens

-----------------------------------------------------------------------------
(***************************************************************************)
(* The accounts of two users stay apart. A row that was only written from  *)
(* files naming their subject has one owner, whose e-mail and subject it   *)
(* bears; so what a search finds belongs to the user of the file, and it   *)
(* still does when the row is written, whoever wrote it in between.        *)
(***************************************************************************)

Files == [user : Users, named : BOOLEAN]
RowTypes ==
    [subject : Users \cup {Nobody}, mail : {Mail[u] : u \in Users},
     users : SUBSET Users, by : {"user", "id"}]

PoolTypes ==
    /\ rows \in Seq(RowTypes)
    /\ import \in [Imports -> [left : Seq(Files), match : Nat \cup {Searching}]]
    /\ match \in [Workers -> Nat \cup {Searching}]

OwnedBy(i, u) == rows[i].by = "id" \/ rows[i].users = {u}

Owns(u, row) ==
    row.users = {u} /\ row.mail = Mail[u] /\ row.subject \in {u, Nobody}

RowsAreOwned ==
    \A i \in DOMAIN rows : rows[i].by = "user" => \E u \in Users : Owns(u, rows[i])

(* What a file was found to be: new, or a row of its user.                 *)
Mine(m, file) ==
    m = Create \/ (m \in DOMAIN rows /\ (file.named => OwnedBy(m, file.user)))

MatchesAreMine ==
    /\ \A w \in Workers : match[w] # Searching =>
          pc[w] = "storing" /\ Mine(match[w], FileOf(w))
    /\ \A i \in Imports : import[i].match # Searching =>
          import[i].left # <<>> /\ Mine(import[i].match, Head(import[i].left))

Apart == PoolTypes /\ RowsAreOwned /\ MatchesAreMine

(* Rows are only added, and never pass to another owner.                   *)
OwnersStay ==
    /\ DOMAIN rows \subseteq DOMAIN rows'
    /\ \A i \in DOMAIN rows : \A u \in Users : OwnedBy(i, u) => OwnedBy(i, u)'

USE MailAssumption, FilesAssumption, UserAssumption

(* A set of row numbers that is not empty has a first one.                 *)
LEMMA FirstIsFound ==
    ASSUME NEW S \in SUBSET (Nat \ {0})
    PROVE  FirstOf(S) \in S \cup {Create} /\ FirstOf(S) \in Nat
<1>1. CASE S = {}
  BY <1>1 DEF FirstOf, Create
<1>2. CASE S # {}
  <2>1. PICK x \in S : \A y \in S : ~(<<y, x>> \in OpToRel(<, Nat))
    <3>1. S \subseteq Nat
      OBVIOUS
    <3> QED
      BY <1>2, <3>1, NatLessThanWellFounded, WFMin
  <2>2. \A y \in S : x <= y
    <3> SUFFICES ASSUME NEW y \in S, y < x PROVE FALSE
      OBVIOUS
    <3>1. <<y, x>> \in OpToRel(<, Nat)
      BY DEF OpToRel
    <3> QED
      BY <2>1, <3>1
  <2>3. Min(S) \in S
    BY <2>2, Zenon DEF Min
  <2> QED
    BY <1>2, <2>3 DEF FirstOf
<1> QED
  BY <1>1, <1>2

LEMMA RowsAreTyped ==
    ASSUME PoolTypes, NEW i \in DOMAIN rows
    PROVE  /\ rows[i] \in RowTypes
           /\ rows[i].by \in {"user", "id"}
           /\ rows[i].users \in SUBSET Users
<1>1. rows[i] \in RowTypes
  BY DEF PoolTypes
<1> QED
  BY <1>1 DEF RowTypes

LEMMA FoundIsMine ==
    ASSUME PoolTypes, RowsAreOwned, NEW file \in Files
    PROVE  Found(file) \in Nat /\ Mine(Found(file), file)
<1> USE DEF PoolTypes, Files
<1>1. DOMAIN rows \in SUBSET (Nat \ {0})
  OBVIOUS
<1>2. CASE ~file.named
  BY <1>1, <1>2, FirstIsFound DEF Found, Mine
<1>3. CASE file.named /\ RowsOf(file.user) # {}
  <2>1. RowsOf(file.user) \in SUBSET (Nat \ {0})
    BY <1>1 DEF RowsOf
  <2>2. Found(file) \in RowsOf(file.user) \cup {Create} /\ Found(file) \in Nat
    BY <1>3, <2>1, FirstIsFound DEF Found
  <2>3. ASSUME NEW i \in RowsOf(file.user) PROVE OwnedBy(i, file.user)
    <3>1. i \in DOMAIN rows /\ rows[i].subject = file.user
      BY DEF RowsOf
    <3>2. CASE rows[i].by = "user"
      <4>1. PICK u \in Users : rows[i].users = {u} /\ rows[i].subject \in {u, Nobody}
        BY <3>1, <3>2 DEF RowsAreOwned, Owns
      <4> QED
        BY <3>1, <4>1 DEF OwnedBy, Nobody
    <3> QED
      BY <3>1, <3>2, RowsAreTyped DEF OwnedBy
  <2> QED
    BY <2>2, <2>3 DEF Mine, RowsOf
<1>4. CASE file.named /\ RowsOf(file.user) = {}
  <2>1. LegacyOf(file) \in SUBSET (Nat \ {0})
    BY <1>1 DEF LegacyOf, RowsOf
  <2>2. Found(file) \in LegacyOf(file) \cup {Create} /\ Found(file) \in Nat
    BY <1>4, <2>1, FirstIsFound DEF Found
  <2>3. \A i \in LegacyOf(file) : i \in DOMAIN rows /\ rows[i].mail = Mail[file.user]
    BY DEF LegacyOf, RowsOf
  <2>4. ASSUME NEW i \in LegacyOf(file) PROVE OwnedBy(i, file.user)
    <3>1. CASE rows[i].by = "user"
      <4>1. PICK u \in Users : rows[i].users = {u} /\ rows[i].mail = Mail[u]
        BY <2>3, <3>1 DEF RowsAreOwned, Owns
      <4>2. u = file.user
        BY <2>3, <4>1
      <4> QED
        BY <4>1, <4>2 DEF OwnedBy
    <3> QED
      BY <2>3, <3>1, RowsAreTyped DEF OwnedBy
  <2> QED
    BY <2>2, <2>3, <2>4 DEF Mine
<1> QED
  BY <1>2, <1>3, <1>4

LEMMA WritingKeepsOwners ==
    ASSUME PoolTypes, RowsAreOwned, NEW file \in Files, NEW m \in Nat,
           Mine(m, file), rows' = Written(m, file)
    PROVE  rows' \in Seq(RowTypes) /\ RowsAreOwned' /\ OwnersStay
<1> USE DEF PoolTypes, Files, Create
<1>1. CASE m = Create
  <2> DEFINE new == Row(Subject(file), file.user, IF file.named THEN "user" ELSE "id")
  <2>1. new \in RowTypes
    BY DEF Row, RowTypes, Subject
  <2>2. rows' = Append(rows, new)
    BY <1>1 DEF Written
  <2>3. rows' \in Seq(RowTypes)
    BY <2>1, <2>2
  <2>4. \A i \in DOMAIN rows : i \in DOMAIN rows' /\ rows'[i] = rows[i]
    BY <2>1, <2>2
  <2>5. \A i \in DOMAIN rows' : i \in DOMAIN rows \/ rows'[i] = new
    BY <2>1, <2>2
  <2>6. Owns(file.user, new)
    BY DEF Row, Subject, Owns
  <2>7. RowsAreOwned'
    <3> HIDE DEF new
    <3> QED
      BY <2>4, <2>5, <2>6 DEF RowsAreOwned
  <2>8. OwnersStay
    BY <2>4 DEF OwnersStay, OwnedBy
  <2> QED
    BY <2>3, <2>7, <2>8
<1>2. CASE m # Create
  <2>1. m \in DOMAIN rows /\ (file.named => OwnedBy(m, file.user))
    BY <1>2 DEF Mine
  <2> DEFINE new == Updated(rows[m], file)
  <2>2. rows' = [rows EXCEPT ![m] = new]
    BY <1>2 DEF Written
  <2>3. /\ rows[m] \in RowTypes
        /\ rows[m].by \in {"user", "id"}
    BY <2>1, RowsAreTyped
  <2>4. new \in RowTypes
    BY <2>3 DEF Updated, RowTypes
  <2>5. /\ new.users = rows[m].users \cup {file.user}
        /\ new.mail = Mail[file.user]
        /\ new.by = IF file.named THEN rows[m].by ELSE "id"
        /\ file.named => new.subject = file.user
    BY DEF Updated
  <2> HIDE DEF new
  <2>6. rows' \in Seq(RowTypes) /\ DOMAIN rows' = DOMAIN rows
    BY <2>1, <2>2, <2>4
  <2>7. rows'[m] = new /\ \A i \in DOMAIN rows : i # m => rows'[i] = rows[i]
    BY <2>1, <2>2
  <2>8. ASSUME NEW u \in Users, OwnedBy(m, u) PROVE new.by = "id" \/ new.users = {u}
    <3>1. CASE file.named /\ rows[m].by = "user"
      BY <2>1, <2>5, <2>8, <3>1 DEF OwnedBy
    <3> QED
      BY <2>3, <2>5, <3>1
  <2>9. new.by = "user" => Owns(file.user, new)
    BY <2>1, <2>5 DEF OwnedBy, Owns
  <2>10. RowsAreOwned'
    BY <2>6, <2>7, <2>9 DEF RowsAreOwned
  <2>11. OwnersStay
    BY <2>6, <2>7, <2>8 DEF OwnersStay, OwnedBy
  <2> QED
    BY <2>6, <2>10, <2>11
<1> QED
  BY <1>1, <1>2

LEMMA RefreshKeepsOwners ==
    ASSUME PoolTypes, RowsAreOwned, NEW i \in DOMAIN rows, Refresh(i)
    PROVE  rows' \in Seq(RowTypes) /\ RowsAreOwned' /\ OwnersStay
<1> USE DEF PoolTypes
<1>1. PICK u \in Users : Mail[u] = rows[i].mail /\ rows' = [rows EXCEPT ![i].subject = u]
  BY DEF Refresh
<1>3. rows[i] \in RowTypes /\ u \in Users
  BY RowsAreTyped
<1> DEFINE new == [rows[i] EXCEPT !.subject = u]
<1>4. new \in RowTypes
  BY <1>3 DEF RowTypes
<1>5. /\ new.users = rows[i].users /\ new.mail = rows[i].mail
      /\ new.by = rows[i].by /\ new.subject = u
  BY <1>3 DEF RowTypes
<1>6. rows' = [rows EXCEPT ![i] = new]
  BY <1>1
<1> HIDE DEF new
<1>7. rows' \in Seq(RowTypes) /\ DOMAIN rows' = DOMAIN rows
  BY <1>4, <1>6
<1>8. rows'[i] = new /\ \A j \in DOMAIN rows : j # i => rows'[j] = rows[j]
  BY <1>6
<1>9. RowsAreOwned'
  <2>1. ASSUME new.by = "user" PROVE \E v \in Users : Owns(v, new)
    <3>1. PICK v \in Users : Owns(v, rows[i])
      BY <1>5, <2>1 DEF RowsAreOwned
    <3>2. u = v
      BY <1>1, <3>1 DEF Owns
    <3>3. Owns(v, new)
      BY <1>5, <3>1, <3>2 DEF Owns
    <3> QED
      BY <3>3
  <2> QED
    BY <1>7, <1>8, <2>1 DEF RowsAreOwned
<1>10. OwnersStay
  BY <1>5, <1>7, <1>8 DEF OwnersStay, OwnedBy
<1> QED
  BY <1>7, <1>9, <1>10

LEMMA MineStays ==
    ASSUME PoolTypes, OwnersStay, NEW m, NEW file \in Files, Mine(m, file)
    PROVE  Mine(m, file)'
BY DEF Mine, OwnersStay, OwnedBy, Files

(* What was found stays right while other steps write.                     *)
LEMMA MatchStays ==
    ASSUME Safe, Apart, OwnersStay, NEW w \in Workers, match[w] # Searching,
           match'[w] = match[w], pc'[w] = pc[w], Of(w)' = Of(w)
    PROVE  pc'[w] = "storing" /\ Mine(match[w], FileOf(w))'
<1> USE DEF Apart, PoolTypes
<1>1. pc[w] = "storing" /\ Mine(match[w], FileOf(w))
  BY DEF MatchesAreMine
<1>2. User[Of(w)] \in Users
  BY <1>1 DEF Of, Safe, TypeOK, Workers
<1>3. FileOf(w) \in Files /\ FileOf(w)' = FileOf(w)
  BY <1>2 DEF FileOf, Files
<1>4. Mine(match[w], FileOf(w))'
  BY <1>1, <1>3, MineStays
<1> QED
  BY <1>1, <1>4

LEMMA ImportedStays ==
    ASSUME Apart, OwnersStay, NEW i \in Imports, import[i].match # Searching,
           import'[i] = import[i]
    PROVE  (import[i].left # <<>> /\ Mine(import[i].match, Head(import[i].left)))'
<1> USE DEF Apart, PoolTypes
<1>1. import[i].left # <<>> /\ Mine(import[i].match, Head(import[i].left))
  BY DEF MatchesAreMine
<1>2. Head(import[i].left) \in Files
  <2>1. import[i].left \in Seq(Files)
    OBVIOUS
  <2> QED
    BY <1>1, <2>1
<1>3. PICK m \in Nat, file \in Files : m = import[i].match /\ file = Head(import[i].left)
  BY <1>2
<1>4. Mine(m, file)'
  BY <1>1, <1>3, MineStays
<1> QED
  BY <1>1, <1>3, <1>4

(* A step that forgets some of what was found, and keeps the rest.         *)
LEMMA MatchesStay ==
    ASSUME Safe, Apart, OwnersStay,
           \A w \in Workers : match'[w] # Searching =>
               match'[w] = match[w] /\ pc'[w] = pc[w] /\ Of(w)' = Of(w),
           \A i \in Imports : import'[i].match # Searching => import'[i] = import[i]
    PROVE  MatchesAreMine'
<1>1. ASSUME NEW w \in Workers, match'[w] # Searching
      PROVE  pc'[w] = "storing" /\ Mine(match[w], FileOf(w))'
  BY <1>1, MatchStays
<1>2. ASSUME NEW i \in Imports, import'[i].match # Searching
      PROVE  (import[i].left # <<>> /\ Mine(import[i].match, Head(import[i].left)))'
  BY <1>2, ImportedStays
<1> QED
  BY <1>1, <1>2 DEF MatchesAreMine

LEMMA ApartWithin ==
    ASSUME Safe, Apart, UNCHANGED poolVars,
           match' \in [Workers -> Nat \cup {Searching}],
           \A w \in Workers : match'[w] # Searching =>
               match'[w] = match[w] /\ pc'[w] = pc[w] /\ Of(w)' = Of(w)
    PROVE  Apart'
<1> USE DEF poolVars
<1>1. PoolTypes' /\ RowsAreOwned'
  BY DEF Apart, PoolTypes, RowsAreOwned
<1>2. OwnersStay
  BY DEF OwnersStay, OwnedBy
<1> QED
  BY <1>1, <1>2, MatchesStay DEF Apart

LEMMA WorkKeepsApart ==
    ASSUME Safe, Apart, NEW w \in Workers, Work(w)
    PROVE  Apart'
<1> USE DEF Goto
<1>1. match \in [Workers -> Nat \cup {Searching}] /\ pc \in [Workers -> {"idle",
        "exchanging", "polled", "finding", "storing", "closing"}]
  BY DEF Apart, PoolTypes, Safe, TypeOK
<1>2. \A v \in Workers : match[v] # Searching => pc[v] = "storing"
  BY DEF Apart, MatchesAreMine
<1>3. job' = job /\ \A v \in Workers : Of(v)' = Of(v)
  BY DEF Work, Exchange, ExchangeFails, Find, Match, Store, StoreFails, Close,
         BeginDevice, Of
<1>4. CASE Exchange(w) \/ ExchangeFails(w) \/ Find(w) \/ Close(w) \/ BeginDevice(w)
  <2>1. pc[w] # "storing" /\ UNCHANGED <<match, poolVars>>
    BY <1>4 DEF Exchange, ExchangeFails, Find, Close, BeginDevice, pool
  <2>2. \A v \in Workers : v # w => pc'[v] = pc[v]
    BY <1>1, <1>4 DEF Exchange, ExchangeFails, Find, Close, BeginDevice
  <2> QED
    BY <1>1, <1>2, <1>3, <2>1, <2>2, ApartWithin
<1>5. CASE StoreFails(w)
  <2>1. UNCHANGED poolVars /\ match' = [match EXCEPT ![w] = Searching]
    BY <1>5 DEF StoreFails
  <2>2. \A v \in Workers : v # w => pc'[v] = pc[v]
    BY <1>1, <1>5 DEF StoreFails
  <2>3. match' \in [Workers -> Nat \cup {Searching}]
    BY <1>1, <2>1
  <2>4. \A v \in Workers : match'[v] # Searching => v # w /\ match'[v] = match[v]
    BY <1>1, <2>1
  <2> QED
    BY <1>3, <2>1, <2>2, <2>3, <2>4, ApartWithin
<1>6. CASE Match(w)
  <2>1. /\ pc[w] = "storing" /\ UNCHANGED <<pc, poolVars>>
        /\ match' = [match EXCEPT ![w] = Found(FileOf(w))]
    BY <1>6 DEF Match
  <2>2. FileOf(w) \in Files
    BY DEF FileOf, Files, Of, Safe, TypeOK, Workers
  <2>3. Found(FileOf(w)) \in Nat /\ Mine(Found(FileOf(w)), FileOf(w))
    BY <2>2, FoundIsMine DEF Apart
  <2>4. PoolTypes' /\ RowsAreOwned' /\ OwnersStay
    BY <1>1, <2>1, <2>3 DEF Apart, PoolTypes, RowsAreOwned, OwnersStay, OwnedBy, poolVars
  <2>5. ASSUME NEW v \in Workers, v # w, match'[v] # Searching
        PROVE  (pc[v] = "storing" /\ Mine(match[v], FileOf(v)))'
    <3>1. match'[v] = match[v] /\ pc'[v] = pc[v] /\ Of(v)' = Of(v)
      BY <1>1, <1>3, <2>1, <2>5
    <3> QED
      BY <2>4, <2>5, <3>1, MatchStays
  <2>6. (pc[w] = "storing" /\ Mine(match[w], FileOf(w)))'
    BY <1>1, <1>3, <2>1, <2>3 DEF Mine, OwnedBy, poolVars, FileOf
  <2>7. MatchesAreMine'
    BY <2>1, <2>4, <2>5, <2>6, ImportedStays DEF MatchesAreMine, poolVars
  <2> QED
    BY <2>4, <2>7 DEF Apart
<1>7. CASE Store(w)
  <2>1. /\ pc[w] = "storing" /\ match[w] # Searching /\ rows' = Written(match[w], FileOf(w))
        /\ match' = [match EXCEPT ![w] = Searching] /\ UNCHANGED import
    BY <1>7 DEF Store
  <2>2. FileOf(w) \in Files
    BY DEF FileOf, Files, Of, Safe, TypeOK, Workers
  <2>3. match[w] \in Nat /\ Mine(match[w], FileOf(w))
    BY <1>1, <2>1 DEF Apart, MatchesAreMine
  <2>4. rows' \in Seq(RowTypes) /\ RowsAreOwned' /\ OwnersStay
    BY <2>1, <2>2, <2>3, WritingKeepsOwners DEF Apart
  <2>5. PoolTypes'
    BY <1>1, <2>1, <2>4 DEF Apart, PoolTypes
  <2>6. \A v \in Workers : match'[v] # Searching =>
            match'[v] = match[v] /\ pc'[v] = pc[v] /\ Of(v)' = Of(v)
    BY <1>1, <1>3, <1>7, <2>1 DEF Store
  <2> QED
    BY <2>1, <2>4, <2>5, <2>6, MatchesStay DEF Apart
<1> QED
  BY <1>4, <1>5, <1>6, <1>7 DEF Work

LEMMA PoolKeepsApart ==
    ASSUME Safe, Apart, PoolNext, UNCHANGED <<pc, job, match>>
    PROVE  Apart'
<1>1. match \in [Workers -> Nat \cup {Searching}]
      /\ import \in [Imports -> [left : Seq(Files), match : Nat \cup {Searching}]]
  BY DEF Apart, PoolTypes
<1>2. \A w \in Workers : Of(w)' = Of(w)
  BY DEF Of
<1>3. ASSUME NEW i \in Imports, FindImported(i) PROVE Apart'
  <2>1. PICK file \in Files : file = Head(import[i].left)
    <3>1. import[i].left \in Seq(Files) /\ import[i].left # <<>>
      BY <1>1, <1>3 DEF FindImported
    <3> QED
      BY <3>1
  <2>2. PICK m \in Nat : m = Found(file) /\ Mine(m, file)
    BY FoundIsMine DEF Apart
  <2>3. UNCHANGED rows /\ import[i].left # <<>> /\ import' = [import EXCEPT ![i].match = m]
    BY <1>3, <2>1, <2>2 DEF FindImported
  <2>4. PoolTypes' /\ RowsAreOwned' /\ OwnersStay
    BY <1>1, <2>3 DEF Apart, PoolTypes, RowsAreOwned, OwnersStay, OwnedBy
  <2>5. ASSUME NEW j \in Imports, import'[j].match # Searching
        PROVE  (import[j].left # <<>> /\ Mine(import[j].match, Head(import[j].left)))'
    <3>1. CASE j = i
      <4>1. import'[i].left = import[i].left /\ import'[i].match = m
        BY <1>1, <2>3
      <4>2. Mine(m, file)'
        BY <2>2, <2>4, MineStays DEF Apart
      <4>3. import'[i].left # <<>> /\ Head(import'[i].left) = file
        BY <2>1, <2>3, <4>1
      <4> QED
        BY <3>1, <4>1, <4>2, <4>3
    <3>2. CASE j # i
      <4>1. import'[j] = import[j]
        BY <1>1, <2>3, <3>2
      <4> QED
        BY <2>4, <2>5, <4>1, ImportedStays
    <3> QED
      BY <3>1, <3>2
  <2>6. \A w \in Workers : match[w] # Searching =>
            pc'[w] = "storing" /\ Mine(match[w], FileOf(w))'
    BY <1>2, <2>4, MatchStays
  <2> QED
    BY <2>4, <2>5, <2>6 DEF Apart, MatchesAreMine
<1>4. ASSUME NEW i \in Imports, NextFile(i), import[i].left # <<>>,
             rows' \in Seq(RowTypes), RowsAreOwned', OwnersStay
      PROVE  Apart'
  <2>1. Tail(import[i].left) \in Seq(Files)
    <3>1. import[i].left \in Seq(Files)
      BY <1>1
    <3> QED
      BY <1>4, <3>1
  <2>2. import' = [import EXCEPT ![i] = [left |-> Tail(import[i].left), match |-> Searching]]
    BY <1>4 DEF NextFile
  <2>3. PoolTypes'
    BY <1>1, <1>4, <2>1, <2>2 DEF PoolTypes
  <2>4. \A j \in Imports : import'[j].match # Searching => import'[j] = import[j]
    BY <1>1, <2>2
  <2> QED
    BY <1>2, <1>4, <2>3, <2>4, MatchesStay DEF Apart
<1>5. ASSUME NEW i \in Imports, WriteImported(i) PROVE Apart'
  <2>1. import[i].left # <<>> /\ Mine(import[i].match, Head(import[i].left))
    BY <1>5 DEF WriteImported, Apart, MatchesAreMine
  <2>2. import[i].match \in Nat /\ Head(import[i].left) \in Files
    <3>1. import[i].left \in Seq(Files) /\ import[i].match \in Nat \cup {Searching}
      BY <1>1
    <3> QED
      BY <1>5, <2>1, <3>1 DEF WriteImported
  <2>3. rows' = Written(import[i].match, Head(import[i].left))
    BY <1>5 DEF WriteImported
  <2>4. rows' \in Seq(RowTypes) /\ RowsAreOwned' /\ OwnersStay
    BY <2>1, <2>2, <2>3, WritingKeepsOwners DEF Apart
  <2> QED
    BY <1>4, <1>5, <2>1, <2>4 DEF WriteImported
<1>6. ASSUME UNCHANGED rows PROVE rows' \in Seq(RowTypes) /\ RowsAreOwned' /\ OwnersStay
  BY <1>6 DEF Apart, PoolTypes, RowsAreOwned, OwnersStay, OwnedBy
<1>7. ASSUME NEW i \in Imports, ImportFails(i) PROVE Apart'
  BY <1>4, <1>6, <1>7 DEF ImportFails
<1>8. ASSUME NEW i \in DOMAIN rows, Refresh(i) PROVE Apart'
  <2>1. rows' \in Seq(RowTypes) /\ RowsAreOwned' /\ OwnersStay
    BY <1>8, RefreshKeepsOwners DEF Apart
  <2>2. UNCHANGED import
    BY <1>8 DEF Refresh
  <2>3. PoolTypes'
    BY <1>1, <2>1, <2>2 DEF PoolTypes
  <2> QED
    BY <1>2, <2>1, <2>2, <2>3, MatchesStay DEF Apart
<1> QED
  BY <1>3, <1>5, <1>7, <1>8 DEF PoolNext

LEMMA InitIsApart == Init => Apart
<1> SUFFICES ASSUME Init PROVE Apart
  OBVIOUS
<1>1. PICK owners \in Legacy : rows = [i \in DOMAIN owners |-> Row(Nobody, owners[i], "user")]
  BY DEF Init, PoolInit
<1>2. owners \in Seq(Users)
  OBVIOUS
<1>3. \A i \in DOMAIN owners :
        /\ rows[i] \in RowTypes /\ owners[i] \in Users /\ Owns(owners[i], rows[i])
  BY <1>1, <1>2 DEF Row, RowTypes, Owns
<1>4. rows \in Seq(RowTypes) /\ DOMAIN rows = DOMAIN owners
  BY <1>1, <1>2, <1>3
<1>5. RowsAreOwned
  BY <1>3, <1>4 DEF RowsAreOwned
<1>6. import \in [Imports -> [left : Batches, match : {Searching}]]
      /\ match = [w \in Workers |-> Searching]
  BY DEF Init, PoolInit
<1>7. PoolTypes
  BY <1>4, <1>6 DEF PoolTypes, Files
<1>8. MatchesAreMine
  BY <1>6 DEF MatchesAreMine
<1> QED
  BY <1>5, <1>7, <1>8 DEF Apart

LEMMA StepKeepsApart == Safe /\ Apart /\ [Next]_vars => Apart'
<1> SUFFICES ASSUME Safe, Apart, [Next]_vars PROVE Apart'
  OBVIOUS
<1> USE DEF Goto
<1>1. match \in [Workers -> Nat \cup {Searching}] /\ pc \in [Workers -> {"idle",
        "exchanging", "polled", "finding", "storing", "closing"}]
      /\ job \in [Callbacks -> Sessions]
  BY DEF Apart, PoolTypes, Safe, TypeOK
<1>2. \A v \in Workers : match[v] # Searching => pc[v] = "storing"
  BY DEF Apart, MatchesAreMine
<1>3. ASSUME NEW s \in Sessions, Start(s) PROVE Apart'
  <2>1. ~(s \in Workers /\ pc[s] = "storing")
    BY <1>3 DEF Start, Safe, WorkIsBound, Busy, Of, Workers
  <2>2. UNCHANGED <<match, poolVars, job>>
    BY <1>3 DEF Start, pool
  <2>3. \A v \in Workers : v # s => pc'[v] = pc[v]
    BY <1>1, <1>3 DEF Start
  <2> QED
    BY <1>1, <1>2, <2>1, <2>2, <2>3, ApartWithin DEF Of
<1>4. ASSUME NEW s \in Sessions, Expire(s) \/ Cancel(s) \/ Denied(s) \/ Tick(s) PROVE Apart'
  <2>1. UNCHANGED <<pc, job, match, poolVars>>
    BY <1>4 DEF Expire, Cancel, Denied, Tick, pool
  <2> QED
    BY <1>1, <2>1, ApartWithin DEF Of
<1>5. ASSUME NEW c \in Callbacks, NEW s \in Sessions, Begin(c, s) PROVE Apart'
  <2>1. UNCHANGED <<match, poolVars>> /\ pc[c] = "idle"
    BY <1>5 DEF Begin, pool
  <2>2. \A v \in Workers : v # c => pc'[v] = pc[v] /\ Of(v)' = Of(v)
    BY <1>1, <1>5 DEF Begin, Of, Workers
  <2> QED
    BY <1>1, <1>2, <2>1, <2>2, ApartWithin
<1>6. ASSUME NEW w \in Workers, Work(w) PROVE Apart'
  BY <1>6, WorkKeepsApart
<1>7. CASE PoolNext /\ UNCHANGED <<status, age, cancelled, pc, job, match, stored>> /\ Note
  BY <1>7, PoolKeepsApart
<1>8. CASE Crash
  <2>1. /\ match' = [w \in Workers |-> Searching] /\ UNCHANGED rows
        /\ import' = [i \in Imports |-> [left |-> <<>>, match |-> Searching]]
    BY <1>8 DEF Crash
  <2>2. PoolTypes' /\ RowsAreOwned'
    BY <2>1 DEF Apart, PoolTypes, RowsAreOwned
  <2>3. MatchesAreMine'
    BY <2>1 DEF MatchesAreMine
  <2> QED
    BY <2>2, <2>3 DEF Apart
<1>9. CASE UNCHANGED vars
  <2>1. UNCHANGED <<pc, job, match, poolVars>>
    BY <1>9 DEF vars
  <2> QED
    BY <1>1, <2>1, ApartWithin DEF Of
<1> QED
  BY <1>3, <1>4, <1>5, <1>6, <1>7, <1>8, <1>9 DEF Next

-----------------------------------------------------------------------------
(***************************************************************************)
(* A user has one row. What a search has found is then the only row there  *)
(* is of its user, or there is none; and it stays so until the statement   *)
(* that uses it, unless some other step makes a row the user's meanwhile,  *)
(* which is what overlooked remembers.                                     *)
(***************************************************************************)

Named(u) == [user |-> u, named |-> TRUE]

SearchesSee(u) ==
    /\ \A w \in Workers :
          match[w] # Searching /\ User[Of(w)] = u => RowsOf(u) \subseteq {match[w]}
    /\ \A i \in Imports :
          import[i].match # Searching /\ Head(import[i].left) = Named(u) =>
              RowsOf(u) \subseteq {import[i].match}

SoleRow(u) == \A i, j \in RowsOf(u) : i = j

OneRowEach == \A u \in Users \ overlooked : SoleRow(u) /\ SearchesSee(u)

(* A search sees the only row of its user, or there is none to see.        *)
LEMMA FoundIsSole ==
    ASSUME PoolTypes, NEW u \in Users, SoleRow(u)
    PROVE  RowsOf(u) \subseteq {Found(Named(u))}
<1>1. CASE RowsOf(u) = {}
  BY <1>1
<1>2. CASE RowsOf(u) # {}
  <2>1. RowsOf(u) \in SUBSET (Nat \ {0})
    BY DEF RowsOf, PoolTypes
  <2>2. PICK i \in RowsOf(u) : TRUE
    BY <1>2
  <2>5. RowsOf(u) = {i}
    BY <2>2 DEF SoleRow
  <2>3. Min({i}) = i /\ FirstOf({i}) = i
    <3>1. i \in Nat
      BY <2>1, <2>2, <2>5
    <3>2. FirstOf({i}) = Min({i})
      BY DEF FirstOf
    <3>3. Min({i}) \in {i}
      <4>1. i \in {i} /\ \A y \in {i} : i <= y
        BY <3>1
      <4> QED
        BY <4>1, Zenon DEF Min
    <3> QED
      BY <3>2, <3>3
  <2>4. Found(Named(u)) = FirstOf(RowsOf(u))
    BY <1>2 DEF Found, Named
  <2> QED
    BY <2>5, <2>3, <2>4
<1> QED
  BY <1>1, <1>2

(* Steps that end or keep the searches and give no row to the user, or     *)
(* give the user a first row that no search is left to miss.               *)
LEMMA OneRowStays ==
    ASSUME OneRowEach, overlooked \subseteq overlooked',
           \A w \in Workers : match'[w] # Searching =>
               match'[w] = match[w] /\ Of(w)' = Of(w),
           \A i \in Imports : import'[i].match # Searching => import'[i] = import[i],
           \A u \in Users \ overlooked' :
               \/ RowsOf(u)' \subseteq RowsOf(u)
               \/ Seekers(u)' = {} /\ \E i : RowsOf(u)' \subseteq {i}
    PROVE  OneRowEach'
<1> SUFFICES ASSUME NEW u \in Users \ overlooked'
             PROVE  SoleRow(u)' /\ SearchesSee(u)'
  BY DEF OneRowEach
<1>1. SoleRow(u) /\ SearchesSee(u)
  BY DEF OneRowEach
<1>2. CASE RowsOf(u)' \subseteq RowsOf(u)
  <2>1. SoleRow(u)'
    BY <1>1, <1>2 DEF SoleRow
  <2>2. SearchesSee(u)'
    BY <1>1, <1>2 DEF SearchesSee
  <2> QED
    BY <2>1, <2>2
<1>3. CASE Seekers(u)' = {} /\ \E i : RowsOf(u)' \subseteq {i}
  <2>1. SoleRow(u)'
    BY <1>3 DEF SoleRow
  <2>2. SearchesSee(u)'
    BY <1>3 DEF SearchesSee, Seekers, Named
  <2> QED
    BY <2>1, <2>2
<1> QED
  BY <1>2, <1>3

(* What a statement makes of the rows of each user.                        *)
LEMMA WritingGives ==
    ASSUME PoolTypes, NEW file \in Files, NEW m \in Nat,
           m = Create \/ m \in DOMAIN rows, rows' = Written(m, file)
    PROVE  /\ \A u \in Users : ~(file.named /\ file.user = u) =>
                                   RowsOf(u)' \subseteq RowsOf(u)
           /\ m = Create => \E n : RowsOf(file.user)' \subseteq RowsOf(file.user) \cup {n}
           /\ m # Create => RowsOf(file.user)' \subseteq RowsOf(file.user) \cup {m}
<1> USE DEF PoolTypes, Files, Create
<1>1. CASE m = Create
  <2> DEFINE new == Row(Subject(file), file.user, IF file.named THEN "user" ELSE "id")
  <2>1. new.subject = IF file.named THEN file.user ELSE Nobody
    BY DEF Row, Subject
  <2>2. rows' = Append(rows, new)
    BY <1>1 DEF Written
  <2> HIDE DEF new
  <2>3. /\ DOMAIN rows' = DOMAIN rows \cup {Len(rows) + 1}
        /\ \A i \in DOMAIN rows : rows'[i] = rows[i]
        /\ rows'[Len(rows) + 1] = new
    BY <2>2
  <2>4. \A u \in Users : u # Nobody
    BY DEF Nobody
  <2>5. \A u \in Users : ~(file.named /\ file.user = u) => new.subject # u
    BY <2>1, <2>4
  <2>6. \A u \in Users : ~(file.named /\ file.user = u) => RowsOf(u)' \subseteq RowsOf(u)
    BY <2>3, <2>5 DEF RowsOf
  <2>7. RowsOf(file.user)' \subseteq RowsOf(file.user) \cup {Len(rows) + 1}
    BY <2>3 DEF RowsOf
  <2>8. \E n : RowsOf(file.user)' \subseteq RowsOf(file.user) \cup {n}
    BY <2>7
  <2> QED
    BY <1>1, <2>6, <2>8
<1>2. CASE m # Create
  <2> DEFINE new == Updated(rows[m], file)
  <2>1. rows' = [rows EXCEPT ![m] = new] /\ m \in DOMAIN rows
    BY <1>2 DEF Written
  <2>2. new.subject = IF file.named THEN file.user ELSE rows[m].subject
    BY DEF Updated
  <2> HIDE DEF new
  <2>3. /\ DOMAIN rows' = DOMAIN rows /\ rows'[m] = new
        /\ \A i \in DOMAIN rows : i # m => rows'[i] = rows[i]
    BY <2>1
  <2> QED
    BY <1>2, <2>1, <2>2, <2>3 DEF RowsOf
<1> QED
  BY <1>1, <1>2

(* A statement by a search that sees the rows of its user gives the user   *)
(* a first row, or the row there is.                                       *)
LEMMA WritingKeepsOne ==
    ASSUME PoolTypes, OneRowEach, NEW file \in Files, NEW m \in Nat,
           m = Create \/ m \in DOMAIN rows, rows' = Written(m, file), Note,
           file.named /\ file.user \notin overlooked => RowsOf(file.user) \subseteq {m},
           NEW u \in Users \ overlooked'
    PROVE  \/ RowsOf(u)' \subseteq RowsOf(u)
           \/ Seekers(u)' = {} /\ \E i : RowsOf(u)' \subseteq {i}
<1> SUFFICES ASSUME ~(RowsOf(u)' \subseteq RowsOf(u))
             PROVE  Seekers(u)' = {} /\ \E i : RowsOf(u)' \subseteq {i}
  OBVIOUS
<1>1. file.named /\ file.user = u
  BY WritingGives
<1>2. u \notin overlooked /\ ~Overlooks(u)
  BY DEF Note
<1>3. Seekers(u)' = {}
  BY <1>2 DEF Overlooks
<1>4. RowsOf(u) \subseteq {m}
  BY <1>1, <1>2
<1>5. CASE m = Create
  <2>1. RowsOf(u) = {}
    BY <1>4, <1>5 DEF RowsOf, Create, PoolTypes
  <2> QED
    BY <1>1, <1>3, <1>5, <2>1, WritingGives
<1>6. CASE m # Create
  BY <1>1, <1>3, <1>4, <1>6, WritingGives
<1> QED
  BY <1>5, <1>6

LEMMA RefreshKeepsOne ==
    ASSUME PoolTypes, OneRowEach, NEW i \in DOMAIN rows, Refresh(i), Note,
           UNCHANGED <<match, job>>, NEW u \in Users \ overlooked'
    PROVE  \/ RowsOf(u)' \subseteq RowsOf(u)
           \/ Seekers(u)' = {} /\ \E j : RowsOf(u)' \subseteq {j}
<1> SUFFICES ASSUME ~(RowsOf(u)' \subseteq RowsOf(u))
             PROVE  Seekers(u)' = {} /\ \E j : RowsOf(u)' \subseteq {j}
  OBVIOUS
<1>1. PICK v \in Users : rows' = [rows EXCEPT ![i].subject = v]
  BY DEF Refresh
<1>2. RowsOf(u)' \subseteq RowsOf(u) \cup {i}
  BY <1>1 DEF RowsOf, PoolTypes
<1>3. Seekers(u)' = Seekers(u)
  BY DEF Seekers, Refresh, Of
<1>4. ~Overlooks(u)
  BY DEF Note
<1>5. Seekers(u)' = {} /\ RowsOf(u) = {}
  BY <1>3, <1>4 DEF Overlooks
<1> QED
  BY <1>2, <1>5

(* A step that writes no row and starts no search.                         *)
LEMMA OneRowWithin ==
    ASSUME OneRowEach, UNCHANGED <<rows, overlooked>>,
           \A w \in Workers : match'[w] # Searching =>
               match'[w] = match[w] /\ Of(w)' = Of(w),
           \A i \in Imports : import'[i].match # Searching => import'[i] = import[i]
    PROVE  OneRowEach'
<1>1. \A u \in Users : RowsOf(u)' = RowsOf(u)
  BY DEF RowsOf
<1> QED
  BY <1>1, OneRowStays

LEMMA WorkKeepsOne ==
    ASSUME Safe, Apart, OneRowEach, NEW w \in Workers, Work(w)
    PROVE  OneRowEach'
<1>1. match \in [Workers -> Nat \cup {Searching}]
  BY DEF Apart, PoolTypes
<1>2. job' = job /\ \A v \in Workers : Of(v)' = Of(v)
  BY DEF Work, Exchange, ExchangeFails, Find, Match, Store, StoreFails, Close,
         BeginDevice, Of
<1>3. CASE Exchange(w) \/ ExchangeFails(w) \/ Find(w) \/ Close(w) \/ BeginDevice(w)
  <2>1. UNCHANGED <<match, overlooked, poolVars>>
    BY <1>3 DEF Exchange, ExchangeFails, Find, Close, BeginDevice, pool
  <2> QED
    BY <1>2, <2>1, OneRowWithin DEF poolVars
<1>4. CASE StoreFails(w)
  <2>1. UNCHANGED <<overlooked, poolVars>> /\ match' = [match EXCEPT ![w] = Searching]
    BY <1>4 DEF StoreFails
  <2>2. \A v \in Workers : match'[v] # Searching => match'[v] = match[v]
    BY <1>1, <2>1
  <2> QED
    BY <1>2, <2>1, <2>2, OneRowWithin DEF poolVars
<1>5. CASE Match(w)
  <2>1. /\ UNCHANGED <<overlooked, poolVars>>
        /\ match' = [match EXCEPT ![w] = Found(FileOf(w))]
    BY <1>5 DEF Match
  <2>2. \A u \in Users : RowsOf(u)' = RowsOf(u)
    BY <2>1 DEF RowsOf, poolVars
  <2> SUFFICES ASSUME NEW u \in Users \ overlooked
               PROVE  SoleRow(u)' /\ SearchesSee(u)'
    BY <2>1 DEF OneRowEach
  <2>3. SoleRow(u) /\ SearchesSee(u)
    BY DEF OneRowEach
  <2>4. SoleRow(u)'
    BY <2>2, <2>3 DEF SoleRow
  <2>5. ASSUME NEW v \in Workers, match'[v] # Searching, User[Of(v)] = u
        PROVE  RowsOf(u) \subseteq {match'[v]}
    <3>1. CASE v = w
      <4>1. FileOf(w) = Named(u)
        BY <2>5, <3>1 DEF FileOf, Named
      <4>2. match'[v] = Found(Named(u))
        BY <1>1, <2>1, <3>1, <4>1
      <4> QED
        BY <2>3, <4>2, FoundIsSole DEF Apart
    <3>2. CASE v # w
      <4>1. match'[v] = match[v]
        BY <1>1, <2>1, <3>2
      <4> QED
        BY <2>3, <2>5, <4>1 DEF SearchesSee
    <3> QED
      BY <3>1, <3>2
  <2>6. SearchesSee(u)'
    BY <1>2, <2>1, <2>2, <2>3, <2>5 DEF SearchesSee, poolVars
  <2> QED
    BY <2>4, <2>6
<1>6. CASE Store(w)
  <2>1. /\ pc[w] = "storing" /\ match[w] # Searching /\ rows' = Written(match[w], FileOf(w))
        /\ match' = [match EXCEPT ![w] = Searching] /\ UNCHANGED import /\ Note
    BY <1>6 DEF Store
  <2>2. FileOf(w) \in Files /\ FileOf(w).named /\ FileOf(w).user = User[Of(w)]
    BY DEF FileOf, Files, Of, Safe, TypeOK, Workers
  <2>3. match[w] \in Nat /\ (match[w] = Create \/ match[w] \in DOMAIN rows)
    BY <1>1, <2>1 DEF Apart, MatchesAreMine, Mine
  <2>4. FileOf(w).user \notin overlooked => RowsOf(FileOf(w).user) \subseteq {match[w]}
    <3>1. User[Of(w)] \in Users
      BY <2>2 DEF Files
    <3> QED
      BY <2>1, <2>2, <3>1 DEF OneRowEach, SearchesSee
  <2>5. overlooked \subseteq overlooked'
    BY <2>1 DEF Note
  <2>6. \A u \in Users \ overlooked' :
            \/ RowsOf(u)' \subseteq RowsOf(u)
            \/ Seekers(u)' = {} /\ \E i : RowsOf(u)' \subseteq {i}
    <3>1. PICK m \in Nat, file \in Files : m = match[w] /\ file = FileOf(w)
      BY <2>2, <2>3
    <3> QED
      BY <2>1, <2>2, <2>3, <2>4, <3>1, WritingKeepsOne DEF Apart
  <2>7. \A v \in Workers : match'[v] # Searching => match'[v] = match[v]
    BY <1>1, <2>1
  <2> QED
    BY <1>2, <2>1, <2>5, <2>6, <2>7, OneRowStays
<1> QED
  BY <1>3, <1>4, <1>5, <1>6 DEF Work

LEMMA PoolKeepsOne ==
    ASSUME Apart, OneRowEach, PoolNext, Note, UNCHANGED <<job, match>>
    PROVE  OneRowEach'
<1>1. import \in [Imports -> [left : Seq(Files), match : Nat \cup {Searching}]]
  BY DEF Apart, PoolTypes
<1>2. \A w \in Workers : Of(w)' = Of(w) /\ match'[w] = match[w]
  BY DEF Of
<1>3. overlooked \subseteq overlooked'
  BY DEF Note
<1>4. ASSUME UNCHANGED rows PROVE \A u \in Users : RowsOf(u)' = RowsOf(u)
  BY <1>4 DEF RowsOf
<1>5. ASSUME NEW i \in Imports, NextFile(i)
      PROVE  \A j \in Imports : import'[j].match # Searching => import'[j] = import[j]
  BY <1>1, <1>5 DEF NextFile
<1>6. ASSUME NEW i \in Imports, FindImported(i) PROVE OneRowEach'
  <2>1. /\ UNCHANGED rows /\ import[i].left # <<>>
        /\ import' = [import EXCEPT ![i].match = Found(Head(import[i].left))]
    BY <1>6 DEF FindImported
  <2>2. \A u \in Users : RowsOf(u)' = RowsOf(u)
    BY <1>4, <2>1
  <2> SUFFICES ASSUME NEW u \in Users \ overlooked
               PROVE  SoleRow(u)' /\ SearchesSee(u)'
    BY <1>3 DEF OneRowEach
  <2>3. SoleRow(u) /\ SearchesSee(u)
    BY DEF OneRowEach
  <2>4. SoleRow(u)'
    BY <2>2, <2>3 DEF SoleRow
  <2>5. ASSUME NEW j \in Imports, import'[j].match # Searching,
               Head(import'[j].left) = Named(u)
        PROVE  RowsOf(u) \subseteq {import'[j].match}
    <3>1. CASE j = i
      <4>1. Head(import[i].left) = Named(u) /\ import'[i].match = Found(Named(u))
        BY <1>1, <2>1, <2>5, <3>1
      <4> QED
        BY <2>3, <3>1, <4>1, FoundIsSole DEF Apart
    <3>2. CASE j # i
      <4>1. import'[j] = import[j]
        BY <1>1, <2>1, <3>2
      <4> QED
        BY <2>3, <2>5, <4>1 DEF SearchesSee
    <3> QED
      BY <3>1, <3>2
  <2>6. SearchesSee(u)'
    BY <1>2, <2>2, <2>3, <2>5 DEF SearchesSee
  <2> QED
    BY <2>4, <2>6
<1>7. ASSUME NEW i \in Imports, WriteImported(i) PROVE OneRowEach'
  <2>1. import[i].left # <<>> /\ Mine(import[i].match, Head(import[i].left))
        /\ import[i].match # Searching
    BY <1>7 DEF WriteImported, Apart, MatchesAreMine
  <2>2. import[i].match \in Nat /\ Head(import[i].left) \in Files
    <3>1. import[i].left \in Seq(Files) /\ import[i].match \in Nat \cup {Searching}
      BY <1>1
    <3> QED
      BY <2>1, <3>1
  <2>3. PICK m \in Nat, file \in Files : m = import[i].match /\ file = Head(import[i].left)
    BY <2>2
  <2>4. rows' = Written(m, file) /\ NextFile(i)
    BY <1>7, <2>3 DEF WriteImported
  <2>5. m = Create \/ m \in DOMAIN rows
    BY <2>1, <2>3 DEF Mine
  <2>6. file.named /\ file.user \notin overlooked => RowsOf(file.user) \subseteq {m}
    <3> SUFFICES ASSUME file.named, file.user \notin overlooked
                 PROVE  RowsOf(file.user) \subseteq {m}
      OBVIOUS
    <3>1. file = Named(file.user) /\ file.user \in Users
      BY DEF Files, Named
    <3>2. SearchesSee(file.user)
      BY <3>1 DEF OneRowEach
    <3> QED
      BY <2>1, <2>3, <3>1, <3>2 DEF SearchesSee
  <2>7. \A u \in Users \ overlooked' :
            \/ RowsOf(u)' \subseteq RowsOf(u)
            \/ Seekers(u)' = {} /\ \E j : RowsOf(u)' \subseteq {j}
    BY <2>4, <2>5, <2>6, WritingKeepsOne DEF Apart
  <2> QED
    BY <1>2, <1>3, <1>5, <2>4, <2>7, OneRowStays
<1>8. ASSUME NEW i \in Imports, ImportFails(i) PROVE OneRowEach'
  <2>1. NextFile(i) /\ \A u \in Users : RowsOf(u)' = RowsOf(u)
    BY <1>4, <1>8 DEF ImportFails
  <2> QED
    BY <1>2, <1>3, <1>5, <2>1, OneRowStays
<1>9. ASSUME NEW i \in DOMAIN rows, Refresh(i) PROVE OneRowEach'
  <2>1. UNCHANGED import
    BY <1>9 DEF Refresh
  <2>2. \A u \in Users \ overlooked' :
            \/ RowsOf(u)' \subseteq RowsOf(u)
            \/ Seekers(u)' = {} /\ \E j : RowsOf(u)' \subseteq {j}
    BY <1>9, RefreshKeepsOne DEF Apart
  <2> QED
    BY <1>2, <1>3, <2>1, <2>2, OneRowStays
<1> QED
  BY <1>6, <1>7, <1>8, <1>9 DEF PoolNext

LEMMA InitIsOneEach == Init => OneRowEach
<1> SUFFICES ASSUME Init, NEW u \in Users PROVE SoleRow(u) /\ SearchesSee(u)
  BY DEF OneRowEach
<1>1. PICK owners \in Legacy : rows = [i \in DOMAIN owners |-> Row(Nobody, owners[i], "user")]
  BY DEF Init, PoolInit
<1>2. \A i \in DOMAIN rows : rows[i].subject = Nobody
  BY <1>1 DEF Row
<1>3. RowsOf(u) = {}
  BY <1>2 DEF RowsOf, Nobody
<1> QED
  BY <1>3 DEF SoleRow, SearchesSee

LEMMA StepKeepsOne == Safe /\ Apart /\ OneRowEach /\ [Next]_vars => OneRowEach'
<1> SUFFICES ASSUME Safe, Apart, OneRowEach, [Next]_vars PROVE OneRowEach'
  OBVIOUS
<1>1. \A v \in Workers : match[v] # Searching => pc[v] = "storing"
  BY DEF Apart, MatchesAreMine
<1>2. ASSUME NEW s \in Sessions,
             Start(s) \/ Expire(s) \/ Cancel(s) \/ Denied(s) \/ Tick(s)
      PROVE  OneRowEach'
  <2>1. UNCHANGED <<job, match, overlooked, poolVars>>
    BY <1>2 DEF Start, Expire, Cancel, Denied, Tick, pool
  <2> QED
    BY <2>1, OneRowWithin DEF Of, poolVars
<1>3. ASSUME NEW c \in Callbacks, NEW s \in Sessions, Begin(c, s) PROVE OneRowEach'
  <2>1. UNCHANGED <<match, overlooked, poolVars>> /\ pc[c] = "idle"
    BY <1>3 DEF Begin, pool
  <2>2. job \in [Callbacks -> Sessions]
    BY DEF Safe, TypeOK
  <2>3. \A v \in Workers : v # c => Of(v)' = Of(v)
    BY <1>3, <2>2 DEF Begin, Of, Workers
  <2> QED
    BY <1>1, <2>1, <2>3, OneRowWithin DEF poolVars
<1>4. ASSUME NEW w \in Workers, Work(w) PROVE OneRowEach'
  BY <1>4, WorkKeepsOne
<1>5. CASE PoolNext /\ UNCHANGED <<status, age, cancelled, pc, job, match, stored>> /\ Note
  BY <1>5, PoolKeepsOne
<1>6. CASE Crash
  <2>1. /\ match' = [w \in Workers |-> Searching] /\ UNCHANGED <<rows, overlooked>>
        /\ import' = [i \in Imports |-> [left |-> <<>>, match |-> Searching]]
    BY <1>6 DEF Crash
  <2> QED
    BY <2>1, OneRowWithin
<1>7. CASE UNCHANGED vars
  BY <1>7, OneRowWithin DEF vars, poolVars, Of
<1> QED
  BY <1>2, <1>3, <1>4, <1>5, <1>6, <1>7 DEF Next

(* Whatever logins, imports and refreshes run side by side, an account     *)
(* that was only written from files naming their subject never held the    *)
(* tokens of two users, and a user has one account unless a search for it  *)
(* was overtaken or a refresh renamed another.                             *)
THEOREM UsersStayApart == Spec => []UsersApart
<1>1. Apart => \A i \in DOMAIN rows : rows[i].by = "user" =>
                   /\ Cardinality(rows[i].users) = 1
                   /\ rows[i].subject \in rows[i].users \cup {Nobody}
  <2> SUFFICES ASSUME Apart, NEW i \in DOMAIN rows, rows[i].by = "user"
               PROVE  /\ Cardinality(rows[i].users) = 1
                      /\ rows[i].subject \in rows[i].users \cup {Nobody}
    OBVIOUS
  <2>1. PICK u \in Users : Owns(u, rows[i])
    BY DEF Apart, RowsAreOwned
  <2>2. Cardinality({u}) = 1
    BY FS_Singleton
  <2> QED
    BY <2>1, <2>2 DEF Owns
<1>2. OneRowEach => \A u \in Users \ overlooked : Cardinality(RowsOf(u)) <= 1
  <2> SUFFICES ASSUME NEW u, SoleRow(u) PROVE Cardinality(RowsOf(u)) <= 1
    BY DEF OneRowEach
  <2>1. CASE RowsOf(u) = {}
    BY <2>1, FS_EmptySet
  <2>2. CASE RowsOf(u) # {}
    <3>1. PICK i \in RowsOf(u) : TRUE
      BY <2>2
    <3>2. RowsOf(u) = {i}
      BY <3>1 DEF SoleRow
    <3>3. Cardinality({i}) = 1
      BY FS_Singleton
    <3> QED
      BY <3>2, <3>3
  <2> QED
    BY <2>1, <2>2
<1>3. Safe /\ Apart /\ OneRowEach => UsersApart
  BY <1>1, <1>2 DEF UsersApart
<1> QED
  BY <1>3, SpecIsSafe, InitIsApart, InitIsOneEach, StepKeepsApart, StepKeepsOne,
     PTL DEF Spec

==============================================================================
