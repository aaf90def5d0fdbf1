------------------------- MODULE AccountHealthProofs -------------------------
(***************************************************************************)
(* What holds of the account row for any number of requests, refreshes and *)
(* retries: optimistic locking by health_version works between the writers *)
(* that use it. Every step either bumps the version, or keeps it and marks *)
(* every earlier reader as swept, or leaves the health of the row alone.   *)
(***************************************************************************)
EXTENDS AccountHealth, TLAPS

LEMMA Apart ==
    /\ NoCopy \notin Rows
    /\ \A row \in Rows : row.version # NoCopy.version /\ row.version \in Nat
  BY DEF NoCopy, Rows

LEMMA RowsClosed ==
    ASSUME NEW row \in Rows
    PROVE  /\ Healthy(row) \in Rows
           /\ \A t \in BOOLEAN : [row EXCEPT !.tokenOk = t] \in Rows
           /\ \A s \in Statuses : [row EXCEPT !.status = s] \in Rows
           /\ \A s \in Statuses, t \in BOOLEAN :
                 [row EXCEPT !.status = s, !.tokenOk = t] \in Rows
           /\ \A s \in Statuses, e \in BOOLEAN :
                 [row EXCEPT !.enabled = e, !.status = s] \in Rows
           /\ \A s \in Statuses, e, t \in BOOLEAN :
                 [row EXCEPT !.enabled = e, !.status = s, !.tokenOk = t] \in Rows
           /\ \A s \in Statuses, c \in NoTimer .. MaxCooldown :
                 [row EXCEPT !.status = s, !.cooldown = c, !.failures = @ + 1] \in Rows
           /\ \A n \in Nat :
                 [row EXCEPT !.status = "exhausted", !.failures = n] \in Rows
  <1> DEFINE Timers == NoTimer .. MaxCooldown
  <1>0. /\ {"available", "exhausted"} \subseteq Statuses
        /\ NoTimer \in Timers
        /\ row.failures + 1 \in Nat /\ 0 \in Nat
    BY BoundsAssumption DEF Rows, Statuses, NoTimer
  <1>a. Rows = [image : BOOLEAN, enabled : BOOLEAN, status : Statuses, tokenOk : BOOLEAN,
                failures : Nat, cooldown : Timers, version : Nat]
    BY DEF Rows
  <1> HIDE DEF Timers
  <1>1. Healthy(row) \in Rows
    BY <1>0, <1>a DEF Healthy
  <1>2. \A t \in BOOLEAN : [row EXCEPT !.tokenOk = t] \in Rows
    BY DEF Rows
  <1>3. \A s \in Statuses, t \in BOOLEAN :
           /\ [row EXCEPT !.status = s] \in Rows
           /\ [row EXCEPT !.status = s, !.tokenOk = t] \in Rows
           /\ [row EXCEPT !.enabled = t, !.status = s] \in Rows
           /\ \A e \in BOOLEAN :
                 [row EXCEPT !.enabled = e, !.status = s, !.tokenOk = t] \in Rows
    BY DEF Rows
  <1>4. \A s \in Statuses, c \in Timers :
           [row EXCEPT !.status = s, !.cooldown = c, !.failures = @ + 1] \in Rows
    BY <1>0, <1>a
  <1>5. \A n \in Nat :
           [row EXCEPT !.status = "exhausted", !.failures = n] \in Rows
    BY DEF Rows, Statuses
  <1> QED
    BY <1>1, <1>2, <1>3, <1>4, <1>5 DEF Timers

LEMMA VersionedRow ==
    ASSUME acct \in Rows, NEW row \in Rows
    PROVE  /\ Versioned(row) \in Rows
           /\ Versioned(row).version = acct.version + 1
           /\ Health(Versioned(row)) = Health(row)
  BY DEF Rows, Versioned, Health

LEMMA AgedRow ==
    ASSUME NEW row \in Rows
    PROVE  /\ Aged(row) \in Rows
           /\ Aged(row).version = row.version
           /\ Aged(row) # NoCopy
           /\ \A other \in Rows :
                 Health(row) = Health(other) => Health(Aged(row)) = Health(Aged(other))
  BY Apart, BoundsAssumption DEF Rows, Aged, NoTimer, Health

LEMMA OutcomeTypes ==
    ASSUME NEW row \in Rows, NEW f \in Failures, NEW out \in Outcomes(row, f)
    PROVE  out.status \in Statuses /\ out.cooldown \in NoTimer .. MaxCooldown
  BY BoundsAssumption DEF Outcomes, Failures, Rows, Statuses, NoTimer

-----------------------------------------------------------------------------
(* What the four ways of handling a copy do to the types.                  *)

Copies ==
    /\ copy \in [Actors -> Rows \cup {NoCopy}]
    /\ stale \in SUBSET Readers
    /\ swept \in SUBSET Readers

LEMMA CopyTypes ==
    ASSUME Copies, acct \in Rows, NEW a \in Actors,
           Take(a) \/ Forget(a) \/ ForgetFailing(a) \/ ForgetSweeping(a)
    PROVE  Copies'
  <1>1. copy' \in [Actors -> Rows \cup {NoCopy}]
    BY DEF Copies, Take, Forget, ForgetFailing, ForgetSweeping
  <1>2. \A b \in Readers \ {a} : b \in Readers'
    BY DEF Copies, Readers, Take, Forget, ForgetFailing, ForgetSweeping
  <1>3. stale' \subseteq Readers \ {a} /\ swept' \subseteq Readers \ {a}
    BY DEF Copies, Take, Forget, ForgetFailing, ForgetSweeping
  <1> QED
    BY <1>1, <1>2, <1>3 DEF Copies

(* A round of MarkFailureWithPolicy is lost to a version the request has   *)
(* not read, so the rounds count versions.                                 *)
RoundsCounted ==
    \A r \in Requests :
        /\ pc[r] \in {"idle", "calling"} => tries[r] = 0
        /\ pc[r] # "lost" => tries[r] < MaxTries
        /\ pc[r] = "reading" /\ tries[r] > 0 =>
              first[r] + tries[r] <= acct.version
        /\ pc[r] = "writing" =>
              /\ copy[r] # NoCopy
              /\ first[r] + tries[r] <= copy[r].version
        /\ pc[r] = "lost" => first[r] + MaxTries <= acct.version

LEMMA CommitRow ==
    ASSUME TypeOK, NEW r \in Requests, NEW f \in Failures, Commit(r, f)
    PROVE  acct' \in Rows /\ acct'.version = acct.version + 1
  <1>1. acct \in Rows /\ copy[r] \in Rows
    BY Apart DEF TypeOK, Actors, Commit, IsCurrent
  <1>2. PICK out \in Outcomes(copy[r], f) :
           acct' = Versioned([acct EXCEPT !.status = out.status,
                                !.cooldown = out.cooldown, !.failures = @ + 1])
    BY DEF Commit, Store
  <1>3. out.status \in Statuses /\ out.cooldown \in NoTimer .. MaxCooldown
    BY <1>1, OutcomeTypes
  <1>4. [acct EXCEPT !.status = out.status, !.cooldown = out.cooldown,
                     !.failures = @ + 1] \in Rows
    BY <1>1, <1>3, RowsClosed
  <1> QED
    BY <1>1, <1>2, <1>4, VersionedRow

LEMMA TypeStep == TypeOK /\ RoundsCounted /\ [Next]_vars => TypeOK'
  <1> SUFFICES ASSUME TypeOK, RoundsCounted, [Next]_vars PROVE TypeOK'
    OBVIOUS
  <1>0. acct \in Rows /\ Copies /\ \A a \in Readers : copy[a] \in Rows
    BY DEF TypeOK, Copies, Readers
  <1>S. {"available", "unknown", "exhausted", "invalid", "expired", "disabled"}
           \subseteq Statuses
    BY DEF Statuses
  <1>D. \A a \in Actors : Doubted(a) \in Statuses
    BY <1>0 DEF Doubted, Rows, Statuses
  <1>1. ASSUME NEW r \in Requests, Serve(r) PROVE TypeOK'
    <2> r \in Actors
      BY DEF Actors
    <2>1. CASE Select(r)
      BY <1>0, <2>1, CopyTypes DEF TypeOK, Copies, Select, Goto, Stages
    <2>8. CASE Probe(r)
      BY <1>0, <2>8, CopyTypes DEF TypeOK, Copies, Probe, Goto, Stages
    <2>2. CASE Succeed(r)
      <3>1. acct' \in Rows
        BY <1>0, <2>2, <1>S, RowsClosed, VersionedRow DEF Succeed, Store
      <3> QED
        BY <1>0, <2>2, <3>1, CopyTypes, BoundsAssumption
           DEF TypeOK, Copies, Succeed, Leave, Goto, Stages
    <2>3. CASE Ignore(r)
      BY <1>0, <2>3, CopyTypes, BoundsAssumption
         DEF TypeOK, Copies, Ignore, Leave, Goto, Stages
    <2>4. CASE Fail(r)
      BY <1>0, <2>4, CopyTypes DEF TypeOK, Copies, Fail, Goto, Stages
    <2>5. CASE Read(r)
      <3>1. first' \in [Requests -> Nat]
        BY <1>0, <2>5 DEF TypeOK, Read, Rows
      <3> QED
        BY <1>0, <2>5, <3>1, CopyTypes DEF TypeOK, Copies, Read, Goto, Stages
    <2>6. CASE Conflict(r)
      <3>1. tries[r] + 1 \in 0 .. MaxTries
        BY <2>6, BoundsAssumption DEF TypeOK, RoundsCounted, Conflict
      <3> QED
        BY <1>0, <2>6, <3>1, CopyTypes DEF TypeOK, Copies, Conflict, Goto, Stages
    <2>7. ASSUME NEW f \in Failures, Commit(r, f) PROVE TypeOK'
      <3>1. acct' \in Rows
        BY <2>7, CommitRow
      <3> QED
        BY <1>0, <2>7, <3>1, CopyTypes, BoundsAssumption
           DEF TypeOK, Copies, Commit, Leave, Goto, Stages
    <2> QED
      BY <1>1, <2>1, <2>2, <2>3, <2>4, <2>5, <2>6, <2>7, <2>8 DEF Serve
  <1>2. ASSUME NEW u \in Refreshes, Refresh(u) PROVE TypeOK'
    <2> u \in Actors
      BY DEF Actors, Tasks
    <2>1. CASE StartRefresh(u)
      BY <1>0, <2>1, CopyTypes DEF TypeOK, Copies, StartRefresh, request
    <2>2. CASE RefreshSucceeds(u)
      <3> DEFINE known == [acct EXCEPT !.tokenOk = TRUE]
      <3>a. known \in Rows
        BY <1>0, RowsClosed
      <3>b. acct' \in {[known EXCEPT !.status = "exhausted"],
                      IF copy[u].enabled THEN Healthy(known) ELSE known}
        BY <2>2 DEF RefreshSucceeds
      <3> HIDE DEF known
      <3>1. acct' \in Rows
        BY <3>a, <3>b, <1>S, RowsClosed
      <3> QED
        BY <1>0, <2>2, <3>1, CopyTypes DEF TypeOK, Copies, RefreshSucceeds, request
    <2>3. CASE RefreshAborts(u)
      BY <1>0, <2>3, CopyTypes DEF TypeOK, Copies, RefreshAborts, request
    <2>4. CASE RefreshFails(u)
      <3>1. acct' \in Rows
        BY <1>0, <2>4, <1>S, <1>D, RowsClosed, VersionedRow DEF RefreshFails, Store
      <3> QED
        BY <1>0, <2>4, <3>1, CopyTypes DEF TypeOK, Copies, RefreshFails, request
    <2>5. CASE ModelsSynced(u)
      <3>1. acct' \in Rows
        BY <1>0, <2>5, <1>S, RowsClosed DEF ModelsSynced
      <3> QED
        BY <1>0, <2>5, <3>1, CopyTypes DEF TypeOK, Copies, ModelsSynced, request
    <2> QED
      BY <1>2, <2>1, <2>2, <2>3, <2>4, <2>5 DEF Refresh
  <1> Flight \in Actors /\ Recovery \in Actors
    BY DEF Actors, Tasks
  <1>3. CASE StartFlight
    BY <1>0, <1>3, CopyTypes DEF TypeOK, Copies, StartFlight, request
  <1>4. CASE FlightFails
    <2>1. acct' \in Rows
      BY <1>0, <1>4, <1>S, <1>D, RowsClosed, VersionedRow DEF FlightFails, Store
    <2> QED
      BY <1>0, <1>4, <2>1, CopyTypes DEF TypeOK, Copies, FlightFails, request
  <1>5. CASE FlightSucceeds
    <2>1. acct' \in Rows
      BY <1>0, <1>5, RowsClosed DEF FlightSucceeds
    <2> QED
      BY <1>0, <1>5, <2>1, CopyTypes DEF TypeOK, Copies, FlightSucceeds, request
  <1>6. CASE FindElapsed
    BY <1>0, <1>6, CopyTypes DEF TypeOK, Copies, FindElapsed, request
  <1>7. CASE Recover
    <2>1. copy[Recovery].failures \in Nat
      BY <1>0, <1>7 DEF Recover, Readers, Rows
    <2>2. acct' \in Rows
      BY <1>0, <1>7, <2>1, <1>S, RowsClosed, VersionedRow DEF Recover, Store
    <2> QED
      BY <1>0, <1>7, <2>2, CopyTypes DEF TypeOK, Copies, Recover, request
  <1>8. ASSUME NEW on \in BOOLEAN, SetEnabled(on) PROVE TypeOK'
    <2>1. acct' \in Rows
      BY <1>0, <1>8, <1>S, RowsClosed, VersionedRow DEF SetEnabled, Store
    <2> QED
      BY <1>0, <1>8, <2>1 DEF TypeOK, Copies, SetEnabled, request, Readers
  <1>9. CASE MarkExpired
    <2>1. acct' \in Rows
      BY <1>0, <1>9, <1>S, RowsClosed DEF MarkExpired
    <2> QED
      BY <1>0, <1>9, <2>1 DEF TypeOK, Copies, MarkExpired, request, Readers
  <1>10. CASE Tick
    <2>1. acct' \in Rows
      BY <1>0, <1>10, AgedRow DEF Tick
    <2>2. \A a \in Actors :
             /\ Aged(copy[a]) \in Rows \cup {NoCopy}
             /\ copy[a] # NoCopy => Aged(copy[a]) # NoCopy
      BY <1>0, AgedRow DEF Readers, Aged
    <2>3. copy' \in [Actors -> Rows \cup {NoCopy}]
      BY <1>10, <2>2 DEF Tick
    <2>4. Readers \subseteq Readers'
      BY <1>10, <2>2 DEF Tick, Readers
    <2>5. stale' \in SUBSET Readers' /\ swept' \in SUBSET Readers'
      BY <1>0, <1>10, <2>4 DEF Copies, Tick
    <2>6. UNCHANGED <<pc, tries, first>>
      BY <1>10 DEF Tick, request
    <2> QED
      BY <2>1, <2>3, <2>5, <2>6 DEF TypeOK
  <1>11. CASE UNCHANGED vars
    BY <1>11 DEF TypeOK, vars, Readers
  <1>12. ASSUME NEW d \in Adders, Add(d) \/ AddEnds(d) \/ AddFails(d) PROVE TypeOK'
    <2> d \in Actors
      BY DEF Actors, Tasks
    <2>1. CASE Add(d)
      <3>1. acct' \in Rows
        BY <1>0, <2>1, <1>S, RowsClosed DEF Add
      <3>2. copy' \in [Actors -> Rows \cup {NoCopy}]
        BY <1>0, <2>1, <3>1 DEF Add, Copies
      <3>3. Readers \subseteq Readers'
        BY <1>0, <2>1, <3>1, Apart DEF Add, Copies, Readers
      <3> QED
        BY <2>1, <3>1, <3>2, <3>3 DEF TypeOK, Add, request
    <2>2. CASE AddEnds(d)
      <3>1. acct' \in Rows
        BY <1>0, <2>2, <1>S, RowsClosed DEF AddEnds
      <3> QED
        BY <1>0, <2>2, <3>1, CopyTypes DEF TypeOK, Copies, AddEnds, request
    <2>3. CASE AddFails(d)
      BY <1>0, <2>3, CopyTypes DEF TypeOK, Copies, AddFails, request
    <2> QED
      BY <1>12, <2>1, <2>2, <2>3
  <1> QED
    BY <1>1, <1>2, <1>3, <1>4, <1>5, <1>6, <1>7, <1>8, <1>9, <1>10, <1>11, <1>12
       DEF Next

-----------------------------------------------------------------------------
(* The versions: what a step can do to the row and to the readers.         *)

Versions ==
    /\ \A a \in Readers : copy[a].version <= acct.version
    /\ \A a \in stale : copy[a].version < acct.version
    /\ SameVersionSameRow

Keeps(a) == a \in Readers /\ copy'[a] = copy[a]

WritesVersioned ==
    /\ acct'.version = acct.version + 1
    /\ \A a \in Readers' : Keeps(a)

WritesSweeping ==
    /\ acct'.version = acct.version
    /\ \A a \in Readers' :
          \/ copy'[a] = acct' /\ a \notin stale'
          \/ Keeps(a) /\ a \in swept' /\ (a \in stale' => a \in stale)

WritesNoHealth ==
    /\ acct'.version = acct.version
    /\ Health(acct') = Health(acct)
    /\ \A a \in Readers' :
          \/ copy'[a] = acct /\ a \notin stale'
          \/ Keeps(a) /\ (a \in stale' => a \in stale) /\ (a \in swept => a \in swept')

LEMMA Leaves ==
    ASSUME Copies, NEW a \in Actors,
           Forget(a) \/ ForgetFailing(a) \/ ForgetSweeping(a)
    PROVE  \A b \in Readers' : Keeps(b) /\ b # a
  BY DEF Copies, Readers, Keeps, Forget, ForgetFailing, ForgetSweeping

LEMMA Forgets ==
    ASSUME Copies, NEW a \in Actors, Forget(a), UNCHANGED acct
    PROVE  WritesNoHealth
  BY Leaves DEF WritesNoHealth, Forget

LEMMA Takes ==
    ASSUME Copies, NEW a \in Actors, Take(a), UNCHANGED acct
    PROVE  WritesNoHealth
  BY DEF WritesNoHealth, Take, Copies, Readers, Keeps

(* Every step is one of these, or time passes.                             *)
LEMMA StepKinds ==
    ASSUME TypeOK, [Next]_vars
    PROVE  WritesVersioned \/ WritesSweeping \/ WritesNoHealth \/ Tick
  <1>0. acct \in Rows /\ Copies /\ \A a \in Readers : copy[a] \in Rows
    BY DEF TypeOK, Copies, Readers
  <1>S. {"available", "unknown", "exhausted", "invalid", "expired", "disabled"}
           \subseteq Statuses
    BY DEF Statuses
  <1>D. \A a \in Actors : Doubted(a) \in Statuses
    BY <1>0 DEF Doubted, Rows, Statuses
  <1>V. \A row \in Rows : Versioned(row).version = acct.version + 1
    BY <1>0, VersionedRow
  <1>1. ASSUME NEW r \in Requests, Serve(r) PROVE WritesVersioned \/ WritesNoHealth
    <2> r \in Actors
      BY DEF Actors
    <2>1. CASE Select(r) \/ Probe(r) \/ Read(r)
      BY <1>0, <2>1, Takes DEF Select, Probe, Read
    <2>2. CASE Ignore(r) \/ Fail(r) \/ Conflict(r)
      BY <1>0, <2>2, Forgets DEF Ignore, Fail, Conflict
    <2>3. CASE Succeed(r)
      <3>1. CASE UNCHANGED acct
        BY <1>0, <2>3, <3>1, Forgets DEF Succeed
      <3>2. CASE ~UNCHANGED acct
        <4>1. PICK status \in {"available", "exhausted"} :
                 acct' = Versioned([Healthy(acct) EXCEPT !.status = status])
          BY <2>3, <3>2 DEF Succeed, Store
        <4>2. [Healthy(acct) EXCEPT !.status = status] \in Rows
          BY <1>0, <1>S, RowsClosed
        <4>3. acct'.version = acct.version + 1
          BY <1>V, <4>1, <4>2
        <4> QED
          BY <1>0, <2>3, <4>3, Leaves DEF Succeed, WritesVersioned
      <3> QED
        BY <3>1, <3>2
    <2>4. ASSUME NEW f \in Failures, Commit(r, f) PROVE WritesVersioned
      BY <1>0, <2>4, CommitRow, Leaves DEF Commit, WritesVersioned
    <2> QED
      BY <1>1, <2>1, <2>2, <2>3, <2>4 DEF Serve
  <1>2. ASSUME NEW u \in Refreshes, Refresh(u)
        PROVE  WritesVersioned \/ WritesSweeping \/ WritesNoHealth
    <2> u \in Actors
      BY DEF Actors, Tasks
    <2>1. CASE StartRefresh(u)
      BY <1>0, <2>1, Takes DEF StartRefresh
    <2>2. CASE RefreshSucceeds(u)
      <3> DEFINE known == [acct EXCEPT !.tokenOk = TRUE]
      <3>a. known \in Rows /\ known.version = acct.version
        BY <1>0, RowsClosed DEF Rows
      <3>b. acct' \in {[known EXCEPT !.status = "exhausted"],
                      IF copy[u].enabled THEN Healthy(known) ELSE known}
        BY <2>2 DEF RefreshSucceeds
      <3> HIDE DEF known
      <3>1. acct'.version = acct.version
        BY <3>a, <3>b DEF Rows, Healthy
      <3>2. \A b \in Readers' : Keeps(b) /\ b # u
        BY <1>0, <2>2, Leaves DEF RefreshSucceeds
      <3>3. \A b \in Readers' : b \in swept' /\ (b \in stale' => b \in stale)
        BY <2>2, <3>2 DEF RefreshSucceeds, ForgetSweeping, Keeps
      <3> QED
        BY <3>1, <3>2, <3>3 DEF WritesSweeping
    <2>3. CASE RefreshAborts(u)
      BY <1>0, <2>3, Forgets DEF RefreshAborts
    <2>4. CASE RefreshFails(u)
      <3>1. \/ acct' = Versioned([acct EXCEPT !.status = "invalid", !.tokenOk = FALSE])
            \/ acct' = Versioned([acct EXCEPT !.status = Doubted(u)])
        BY <2>4 DEF RefreshFails, Store
      <3>2. /\ [acct EXCEPT !.status = "invalid", !.tokenOk = FALSE] \in Rows
            /\ [acct EXCEPT !.status = Doubted(u)] \in Rows
        BY <1>0, <1>S, <1>D, RowsClosed
      <3>3. acct'.version = acct.version + 1
        BY <1>V, <3>1, <3>2
      <3> QED
        BY <1>0, <2>4, <3>3, Leaves DEF RefreshFails, WritesVersioned
    <2>5. CASE ModelsSynced(u)
      <3>1. acct'.version = acct.version
        BY <1>0, <2>5 DEF ModelsSynced, Rows
      <3>2. \A b \in Readers' : Keeps(b) /\ b # u
        BY <1>0, <2>5, Leaves DEF ModelsSynced
      <3>3. \A b \in Readers' : b \in swept' /\ (b \in stale' => b \in stale)
        BY <2>5, <3>2 DEF ModelsSynced, ForgetSweeping, Keeps
      <3> QED
        BY <3>1, <3>2, <3>3 DEF WritesSweeping
    <2> QED
      BY <1>2, <2>1, <2>2, <2>3, <2>4, <2>5 DEF Refresh
  <1> Flight \in Actors /\ Recovery \in Actors
    BY DEF Actors, Tasks
  <1>3. CASE StartFlight \/ FindElapsed
    BY <1>0, <1>3, Takes DEF StartFlight, FindElapsed
  <1>4. CASE FlightFails
    <2>1. PICK status \in {"invalid", Doubted(Flight)} :
             acct' = Versioned([acct EXCEPT !.status = status, !.tokenOk = FALSE])
      BY <1>4 DEF FlightFails, Store
    <2>2. [acct EXCEPT !.status = status, !.tokenOk = FALSE] \in Rows
      BY <1>0, <1>S, <1>D, RowsClosed
    <2>3. acct'.version = acct.version + 1
      BY <1>V, <2>1, <2>2
    <2> QED
      BY <1>0, <1>4, <2>3, Leaves DEF FlightFails, WritesVersioned
  <1>5. CASE FlightSucceeds
    <2>1. acct'.version = acct.version /\ Health(acct') = Health(acct)
      BY <1>0, <1>5 DEF FlightSucceeds, Rows, Health
    <2>2. \A b \in Readers' : Keeps(b) /\ b # Flight
      BY <1>0, <1>5, Leaves DEF FlightSucceeds
    <2>3. stale' = stale \ {Flight} /\ swept' = swept \ {Flight}
      BY <1>5 DEF FlightSucceeds, Forget
    <2> QED
      BY <2>1, <2>2, <2>3 DEF WritesNoHealth
  <1>6. CASE Recover
    <2>1. CASE UNCHANGED acct
      BY <1>0, <1>6, <2>1, Forgets DEF Recover
    <2>2. CASE ~UNCHANGED acct
      <3>1. copy[Recovery].failures \in Nat
        BY <1>0, <1>6 DEF Recover, Readers, Rows
      <3> DEFINE spent == [Healthy(acct) EXCEPT !.status = "exhausted",
                               !.failures = copy[Recovery].failures]
      <3>a. acct' = Versioned(Healthy(acct)) \/ acct' = Versioned(spent)
        BY <1>6, <2>2 DEF Recover, Store
      <3>b. Healthy(acct) \in Rows /\ spent \in Rows
        BY <1>0, <3>1, RowsClosed
      <3> HIDE DEF spent
      <3>2. acct'.version = acct.version + 1
        BY <1>V, <3>a, <3>b
      <3> QED
        BY <1>0, <1>6, <3>2, Leaves DEF Recover, WritesVersioned
    <2> QED
      BY <2>1, <2>2
  <1>7. ASSUME NEW on \in BOOLEAN, SetEnabled(on) PROVE WritesVersioned
    <2>1. acct'.version = acct.version + 1
      BY <1>0, <1>7, <1>S, <1>V, RowsClosed DEF SetEnabled, Store
    <2> QED
      BY <1>7, <2>1 DEF SetEnabled, WritesVersioned, Keeps, Readers
  <1>8. CASE MarkExpired
    <2>1. acct'.version = acct.version
      BY <1>0, <1>8 DEF MarkExpired, Rows
    <2> QED
      BY <1>8, <2>1 DEF MarkExpired, WritesSweeping, Keeps, Readers
  <1>9. CASE UNCHANGED vars
    BY <1>9 DEF vars, WritesNoHealth, Keeps, Readers
  <1>10. ASSUME NEW d \in Adders, Add(d) \/ AddEnds(d) \/ AddFails(d)
         PROVE  WritesSweeping \/ WritesNoHealth
    <2> d \in Actors
      BY DEF Actors, Tasks
    <2>1. CASE Add(d)
      <3>1. acct'.version = acct.version
        BY <1>0, <2>1 DEF Add, Rows
      <3>2. d \notin Readers /\ d \notin stale
        BY <1>0, <2>1 DEF Add, Readers, Copies
      <3>3. \A b \in Readers' : (b = d /\ copy'[b] = acct') \/ Keeps(b)
        BY <1>0, <2>1, <3>2 DEF Add, Copies, Readers, Keeps
      <3>4. stale' = stale /\ swept' = swept \cup Readers
        BY <2>1 DEF Add
      <3> QED
        BY <3>1, <3>2, <3>3, <3>4 DEF WritesSweeping, Keeps
    <2>2. CASE AddEnds(d)
      <3>1. acct'.version = acct.version
        BY <1>0, <2>2 DEF AddEnds, Rows
      <3>2. \A b \in Readers' : Keeps(b) /\ b # d
        BY <1>0, <2>2, Leaves DEF AddEnds
      <3>3. \A b \in Readers' : b \in swept' /\ (b \in stale' => b \in stale)
        BY <2>2, <3>2 DEF AddEnds, ForgetSweeping, Keeps
      <3> QED
        BY <3>1, <3>2, <3>3 DEF WritesSweeping
    <2>3. CASE AddFails(d)
      BY <1>0, <2>3, Forgets DEF AddFails
    <2> QED
      BY <1>10, <2>1, <2>2, <2>3
  <1> QED
    BY <1>1, <1>2, <1>3, <1>4, <1>5, <1>6, <1>7, <1>8, <1>9, <1>10 DEF Next

LEMMA VersionsStep ==
    ASSUME TypeOK, TypeOK', Versions, [Next]_vars
    PROVE  Versions' /\ acct.version <= acct'.version
  <1> USE Apart
  <1>0. /\ acct \in Rows /\ acct' \in Rows
        /\ acct.version \in Nat /\ acct'.version \in Nat
        /\ \A a \in Readers : copy[a] \in Rows /\ copy[a].version \in Nat
        /\ stale' \subseteq Readers' /\ swept' \subseteq Readers'
        /\ stale \subseteq Readers /\ Readers \subseteq Actors
    BY DEF TypeOK, Readers
  <1>1. CASE WritesVersioned
    <2>1. \A a \in Readers' : copy'[a].version < acct'.version
      BY <1>0, <1>1 DEF WritesVersioned, Keeps, Versions
    <2>2. \A a \in Readers' : copy'[a].version \in Nat
      BY <1>0, <1>1 DEF WritesVersioned, Keeps
    <2>3. SameVersionSameRow'
      BY <1>0, <2>1, <2>2 DEF SameVersionSameRow, IsCurrent
    <2>4. /\ \A a \in Readers' : copy'[a].version <= acct'.version
          /\ \A a \in stale' : copy'[a].version < acct'.version
      BY <1>0, <2>1, <2>2
    <2>5. Versions'
      BY <2>3, <2>4 DEF Versions
    <2> QED
      BY <1>0, <1>1, <2>5 DEF WritesVersioned
  <1>2. CASE WritesSweeping
    <2>1. SameVersionSameRow'
      BY <1>2 DEF WritesSweeping, SameVersionSameRow, Health
    <2>2. \A a \in Readers' : copy'[a].version <= acct'.version
      BY <1>0, <1>2 DEF WritesSweeping, Keeps, Versions
    <2>3. \A a \in stale' : copy'[a].version < acct'.version
      BY <1>0, <1>2 DEF WritesSweeping, Keeps, Versions
    <2> QED
      BY <1>0, <1>2, <2>1, <2>2, <2>3 DEF WritesSweeping, Versions
  <1>3. CASE WritesNoHealth
    <2>1. ASSUME NEW a \in Readers', a \notin swept', copy'[a].version = acct'.version
          PROVE  Health(copy'[a]) = Health(acct')
      BY <1>0, <1>3, <2>1 DEF WritesNoHealth, Keeps, Versions, SameVersionSameRow, IsCurrent
    <2>2. \A a \in Readers' : copy'[a].version <= acct'.version
      BY <1>0, <1>3 DEF WritesNoHealth, Keeps, Versions
    <2>3. \A a \in stale' : copy'[a].version < acct'.version
      BY <1>0, <1>3 DEF WritesNoHealth, Keeps, Versions
    <2> QED
      BY <1>0, <1>3, <2>1, <2>2, <2>3
         DEF WritesNoHealth, Versions, SameVersionSameRow, IsCurrent
  <1>4. CASE Tick
    <2>1. acct' = Aged(acct) /\ acct'.version = acct.version
      BY <1>0, <1>4, AgedRow DEF Tick
    <2>2. stale' = stale /\ swept' = swept
      BY <1>4 DEF Tick
    <2>3. \A a \in Actors : copy'[a] = Aged(copy[a])
      BY <1>4 DEF Tick
    <2>4. \A a \in Readers' : a \in Readers
      BY <2>3 DEF Readers, Aged
    <2>5. \A a \in Readers :
             /\ copy'[a].version = copy[a].version
             /\ Health(copy[a]) = Health(acct) => Health(copy'[a]) = Health(acct')
      BY <1>0, <2>1, <2>3, AgedRow
    <2>6. SameVersionSameRow'
      BY <2>1, <2>2, <2>4, <2>5 DEF Versions, SameVersionSameRow, IsCurrent
    <2>7. /\ \A a \in Readers' : copy'[a].version <= acct'.version
          /\ \A a \in stale' : copy'[a].version < acct'.version
      BY <1>0, <2>1, <2>2, <2>4, <2>5 DEF Versions
    <2> QED
      BY <1>0, <2>1, <2>6, <2>7 DEF Versions
  <1> QED
    BY <1>1, <1>2, <1>3, <1>4, StepKinds

-----------------------------------------------------------------------------
(* The rounds.                                                             *)

LeftAlone(r) ==
    /\ pc'[r] = pc[r] /\ tries'[r] = tries[r] /\ first'[r] = first[r]
    /\ copy[r] # NoCopy =>
          copy'[r] # NoCopy /\ copy'[r].version = copy[r].version

LEMMA OthersLeaveAlone ==
    ASSUME TypeOK, [Next]_vars, NEW r \in Requests, ~Serve(r)
    PROVE  LeftAlone(r)
  <1> USE Apart, ActorsAssumption DEF Actors, Tasks, LeftAlone
  <1>1. ASSUME NEW q \in Requests, Serve(q) PROVE LeftAlone(r)
    <2>1. q # r
      BY <1>1
    <2>2. CASE Select(q) \/ Probe(q) \/ Read(q)
      BY <2>1, <2>2 DEF TypeOK, Select, Probe, Read, Take, Goto
    <2>3. CASE Ignore(q) \/ Succeed(q)
      BY <2>1, <2>3 DEF TypeOK, Ignore, Succeed, Forget, Leave, Goto
    <2>4. CASE Fail(q) \/ Conflict(q)
      BY <2>1, <2>4 DEF TypeOK, Fail, Conflict, Forget, Goto
    <2>5. ASSUME NEW f \in Failures, Commit(q, f) PROVE LeftAlone(r)
      BY <2>1, <2>5 DEF TypeOK, Commit, ForgetFailing, Leave, Goto
    <2> QED
      BY <1>1, <2>2, <2>3, <2>4, <2>5 DEF Serve
  <1>2. ASSUME NEW u \in Refreshes, Refresh(u) PROVE LeftAlone(r)
    BY <1>2 DEF TypeOK, Refresh, StartRefresh, RefreshSucceeds, ModelsSynced,
                RefreshAborts, RefreshFails, Take, Forget, ForgetSweeping, ForgetFailing, request
  <1>3. CASE StartFlight \/ FlightFails \/ FlightSucceeds
    BY <1>3 DEF TypeOK, StartFlight, FlightFails, FlightSucceeds,
                Take, Forget, ForgetFailing, request
  <1>4. CASE FindElapsed \/ Recover
    BY <1>4 DEF TypeOK, FindElapsed, Recover, Take, Forget, request
  <1>5. CASE (\E on \in BOOLEAN : SetEnabled(on)) \/ MarkExpired \/ UNCHANGED vars
    BY <1>5 DEF SetEnabled, MarkExpired, request, vars
  <1>6. CASE Tick
    <2>1. copy'[r] = Aged(copy[r]) /\ UNCHANGED request
      BY <1>6 DEF Tick
    <2>2. copy[r] # NoCopy => copy[r] \in Rows
      BY DEF TypeOK
    <2> QED
      BY <2>1, <2>2, AgedRow DEF request
  <1>7. ASSUME NEW d \in Adders, Add(d) \/ AddEnds(d) \/ AddFails(d)
        PROVE  LeftAlone(r)
    BY <1>7 DEF TypeOK, Add, AddEnds, AddFails, Forget, ForgetSweeping, request
  <1> QED
    BY <1>1, <1>2, <1>3, <1>4, <1>5, <1>6, <1>7 DEF Next

LEMMA RoundsStep ==
    ASSUME TypeOK, TypeOK', Versions, RoundsCounted, [Next]_vars
    PROVE  RoundsCounted'
  <1> SUFFICES ASSUME NEW r \in Requests
               PROVE  /\ pc'[r] \in {"idle", "calling"} => tries'[r] = 0
                      /\ pc'[r] # "lost" => tries'[r] < MaxTries
                      /\ pc'[r] = "reading" /\ tries'[r] > 0 =>
                            first'[r] + tries'[r] <= acct'.version
                      /\ pc'[r] = "writing" =>
                            /\ copy'[r] # NoCopy
                            /\ first'[r] + tries'[r] <= copy'[r].version
                      /\ pc'[r] = "lost" => first'[r] + MaxTries <= acct'.version
    BY DEF RoundsCounted
  <1> USE Apart, BoundsAssumption
  <1>0. /\ r \in Actors /\ acct.version \in Nat /\ acct'.version \in Nat
        /\ acct \in Rows /\ acct.version <= acct'.version
        /\ tries[r] \in Nat /\ first[r] \in Nat
        /\ copy[r] # NoCopy => r \in Readers /\ copy[r].version \in Nat
        /\ pc[r] \in Stages
    BY VersionsStep DEF Actors, TypeOK, Readers
  <1>1. CASE ~Serve(r)
    BY <1>0, <1>1, OthersLeaveAlone DEF RoundsCounted, LeftAlone
  <1>2. CASE Select(r) \/ Probe(r) \/ Fail(r)
    BY <1>0, <1>2 DEF Select, Probe, Fail, Goto, RoundsCounted, TypeOK
  <1>3. CASE Succeed(r) \/ Ignore(r)
    BY <1>0, <1>3 DEF Succeed, Ignore, Leave, Goto, TypeOK
  <1>4. CASE Read(r)
    BY <1>0, <1>4 DEF Read, Take, Goto, RoundsCounted, TypeOK
  <1>5. ASSUME NEW f \in Failures, Commit(r, f) PROVE pc'[r] = "idle" /\ tries'[r] = 0
    BY <1>5 DEF Commit, Leave, Goto, TypeOK
  <1>6. CASE Conflict(r)
    <2>1. first[r] + tries[r] + 1 <= acct.version
      BY <1>0, <1>6 DEF Conflict, IsCurrent, RoundsCounted, Versions
    <2>2. tries[r] < MaxTries
      BY <1>6 DEF Conflict, RoundsCounted
    <2> QED
      BY <1>0, <1>6, <2>1, <2>2 DEF Conflict, Goto, TypeOK
  <1> QED
    BY <1>1, <1>2, <1>3, <1>4, <1>5, <1>6 DEF Serve

-----------------------------------------------------------------------------

HealthInv == TypeOK /\ Versions /\ RoundsCounted

LEMMA InitHealthInv == Init => HealthInv
  <1> SUFFICES ASSUME Init PROVE HealthInv
    OBVIOUS
  <1>1. Readers = {}
    BY DEF Init, Readers
  <1>2. acct \in Rows
    <2>1. PICK n \in 0 .. 2, image \in BOOLEAN :
             acct = [image |-> image,
                     enabled |-> TRUE, status |-> "available", tokenOk |-> TRUE,
                     failures |-> n, cooldown |-> NoTimer, version |-> 0]
      BY DEF Init
    <2>2. "available" \in Statuses /\ NoTimer \in NoTimer .. MaxCooldown /\ n \in Nat
      BY BoundsAssumption DEF Statuses, NoTimer
    <2> QED
      BY <2>1, <2>2 DEF Rows
  <1>3. TypeOK
    BY <1>2, BoundsAssumption DEF Init, TypeOK, Stages
  <1>4. RoundsCounted
    BY BoundsAssumption DEF Init, RoundsCounted
  <1> QED
    BY <1>1, <1>3, <1>4 DEF Init, HealthInv, Versions, SameVersionSameRow

LEMMA HealthInvariant == Spec => []HealthInv
  <1>1. HealthInv /\ [Next]_vars => HealthInv'
    BY TypeStep, VersionsStep, RoundsStep DEF HealthInv
  <1> QED
    BY InitHealthInv, <1>1, PTL DEF Spec

(* The shape of the account row and of its readers, for any number of      *)
(* requests, refreshes and rounds.                                         *)
THEOREM HealthTypeCorrect == Spec => []TypeOK
  <1>1. HealthInv => TypeOK
    BY DEF HealthInv
  <1> QED
    BY HealthInvariant, <1>1, PTL

(* Optimistic locking works: whoever would pass the comparison of          *)
(* health_version has read the row as it is, unless one of the writers     *)
(* that keep the version came in between.                                  *)
THEOREM HealthVersionIsALock == Spec => []SameVersionSameRow
  <1>1. HealthInv => SameVersionSameRow
    BY DEF HealthInv, Versions
  <1> QED
    BY HealthInvariant, <1>1, PTL

(* MarkFailureWithPolicy drops a failure only after as many foreign        *)
(* versions as it has rounds.                                              *)
THEOREM HealthLostOnlyUnderContention == Spec => []LostOnlyUnderContention
  <1>1. HealthInv => LostOnlyUnderContention
    <2> SUFFICES ASSUME HealthInv, NEW r \in Requests, pc[r] = "lost"
                 PROVE  acct.version >= first[r] + MaxTries
      BY DEF LostOnlyUnderContention
    <2>1. acct.version \in Nat /\ first[r] \in Nat
      BY DEF HealthInv, TypeOK, Rows
    <2> QED
      BY <2>1, BoundsAssumption DEF HealthInv, RoundsCounted
  <1> QED
    BY HealthInvariant, <1>1, PTL

(* A success or a recovery that a newer failure has overtaken changes      *)
(* nothing in the row.                                                     *)
THEOREM HealthStaleWritesAreDropped == Spec => StaleWritesAreDropped
  <1>1. HealthInv =>
           /\ \A r \in Requests \cap stale : Succeed(r) => UNCHANGED acct
           /\ Recovery \in stale /\ Recover => UNCHANGED acct
    <2> SUFFICES ASSUME HealthInv
                 PROVE  \A a \in stale : ~IsCurrent(a)
      BY DEF Succeed, Recover
    <2>1. \A a \in stale : copy[a].version < acct.version
      BY DEF HealthInv, Versions
    <2>2. acct.version \in Nat /\ \A a \in stale : copy[a].version \in Nat
      BY Apart DEF HealthInv, TypeOK, Readers, Rows
    <2> QED
      BY <2>1, <2>2 DEF IsCurrent
  <1> QED
    BY HealthInvariant, <1>1, PTL DEF StaleWritesAreDropped

(* Only a third failure in a row, counted in the row that is written,      *)
(* starts a cooldown.                                                      *)
THEOREM HealthCooldownsAreEarned == Spec => CooldownsAreEarned
  <1>1. HealthInv =>
           \A r \in Requests \ swept, f \in Failures :
               Commit(r, f) /\ acct'.status = "cooldown" =>
                   acct.status = "cooldown" \/ acct'.failures >= 3
    <2> SUFFICES ASSUME HealthInv, NEW r \in Requests \ swept, NEW f \in Failures,
                        Commit(r, f), acct'.status = "cooldown",
                        acct.status # "cooldown"
                 PROVE  acct'.failures >= 3
      OBVIOUS
    <2>1. acct \in Rows /\ copy[r] \in Rows /\ r \in Readers
      BY Apart DEF HealthInv, TypeOK, Actors, Commit, IsCurrent, Readers
    <2>2. Health(copy[r]) = Health(acct)
      BY <2>1 DEF HealthInv, Versions, SameVersionSameRow, Commit
    <2>3. copy[r].status = acct.status /\ copy[r].failures = acct.failures
      BY <2>2 DEF Health
    <2>4. PICK out \in Outcomes(copy[r], f) :
             acct' = Versioned([acct EXCEPT !.status = out.status,
                                  !.cooldown = out.cooldown, !.failures = @ + 1])
      BY DEF Commit, Store
    <2>5. acct'.status = out.status /\ acct'.failures = acct.failures + 1
      BY <2>1, <2>4 DEF Versioned, Rows
    <2>6. out.status = "cooldown" => copy[r].status = "cooldown" \/ copy[r].failures + 1 >= 3
      BY <2>1 DEF Outcomes, Failures, Rows
    <2> QED
      BY <2>3, <2>5, <2>6
  <1> QED
    BY HealthInvariant, <1>1, PTL DEF CooldownsAreEarned

=============================================================================
