--------------------------- MODULE CredentialProofs ---------------------------
(***************************************************************************)
(* What is proved of the credentials that requests go upstream with: the   *)
(* refresh tokens of the accounts (TokenRefresh), and the proxy policy     *)
(* with the credentials of the proxies (ProxyPolicy).                      *)
(***************************************************************************)
EXTENDS TokenRefresh, ProxyPolicy, TLAPS

-----------------------------------------------------------------------------
(* The rotation of the refresh token for any number of callers, sweeps and *)
(* generations. While nothing went unsaved or was overwritten, no caller   *)
(* holds a newer file than the row, and the row lags behind the upstream   *)
(* only between an exchange and the write that stores it.                  *)

LEMMA TypeStep == TypeOK /\ [Next]_vars => TypeOK'
  <1> SUFFICES ASSUME TypeOK, [Next]_vars PROVE TypeOK'
    OBVIOUS
  <1> USE MaxGenAssumption DEF TypeOK, Generations
  <1>1. ASSUME NEW c \in Callers, Call(c) PROVE TypeOK'
    <2>1. CASE Load(c)
      BY <2>1 DEF Load, Goto, flight
    <2>2. CASE UseAsIs(c)
      BY <2>2 DEF UseAsIs, Goto, flight
    <2>3. CASE Join(c)
      BY <2>3 DEF Join, Goto
    <2>4. CASE Refused(c)
      BY <2>4 DEF Refused, Goto, flight
    <2>5. CASE Finish(c)
      BY <2>5 DEF Finish, Goto, flight
    <2>6. CASE StoreUsage(c)
      BY <2>6 DEF StoreUsage, Goto, flight
    <2> QED
      BY <1>1, <2>1, <2>2, <2>3, <2>4, <2>5, <2>6 DEF Call
  <1>2. CASE Reread
    BY <1>2 DEF Reread, Land, Waiting
  <1>3. CASE StartCall
    BY <1>3 DEF StartCall, callers
  <1>4. CASE Exchange
    BY <1>4 DEF Exchange, callers
  <1>5. CASE Persist
    BY <1>5 DEF Persist, Land, Waiting
  <1>6. CASE Fail
    BY <1>6 DEF Fail, Waiting
  <1>7. CASE Expire
    BY <1>7 DEF Expire, callers, flight
  <1>8. CASE Crash
    BY <1>8 DEF Crash
  <1>9. CASE UNCHANGED vars
    BY <1>9 DEF vars, callers, flight
  <1> QED
    BY <1>1, <1>2, <1>3, <1>4, <1>5, <1>6, <1>7, <1>8, <1>9 DEF Next, Fly

(* What holds as long as no token went unsaved and none was overwritten.   *)
Rotation ==
    Intact =>
        /\ phase # "answered" => stored = issued
        /\ phase = "answered" => held = issued /\ stored < issued
        /\ phase = "calling" => held = issued
        /\ \A c \in Callers : file[c] <= stored

LEMMA RotationStep == TypeOK /\ Rotation /\ [Next]_vars => Rotation'
  <1> SUFFICES ASSUME TypeOK, Rotation, [Next]_vars PROVE Rotation'
    OBVIOUS
  <1> USE MaxGenAssumption DEF TypeOK, Generations, Rotation, Intact
  <1>1. ASSUME NEW c \in Callers, Call(c) PROVE Rotation'
    <2>1. CASE Load(c)
      BY <2>1 DEF Load, flight
    <2>2. CASE UseAsIs(c) \/ Refused(c) \/ Finish(c)
      BY <2>2 DEF UseAsIs, Refused, Finish, flight
    <2>3. CASE Join(c)
      BY <2>3 DEF Join
    <2>4. CASE StoreUsage(c)
      BY <2>4 DEF StoreUsage, flight
    <2> QED
      BY <1>1, <2>1, <2>2, <2>3, <2>4 DEF Call
  <1>2. CASE Reread
    BY <1>2 DEF Reread, Land
  <1>3. CASE StartCall
    BY <1>3 DEF StartCall, callers
  <1>4. CASE Exchange
    BY <1>4 DEF Exchange, callers
  <1>5. CASE Persist
    BY <1>5 DEF Persist, Land
  <1>6. CASE Fail
    BY <1>6 DEF Fail
  <1>7. CASE Expire
    BY <1>7 DEF Expire, callers, flight
  <1>8. CASE Crash
    BY <1>8 DEF Crash
  <1>9. CASE UNCHANGED vars
    BY <1>9 DEF vars, callers, flight
  <1> QED
    BY <1>1, <1>2, <1>3, <1>4, <1>5, <1>6, <1>7, <1>8, <1>9 DEF Next, Fly

LEMMA RotationInvariant == Spec => [](TypeOK /\ Rotation)
  <1>1. ASSUME Init PROVE TypeOK /\ Rotation
    <2>1. TypeOK
      <3>1. 0 \in Generations /\ -1 \in -1 .. MaxGen
        BY MaxGenAssumption DEF Generations
      <3> QED
        BY <1>1, <3>1 DEF Init, TypeOK
    <2>2. Rotation
      BY <1>1 DEF Init, Rotation
    <2> QED
      BY <2>1, <2>2
  <1>2. TypeOK /\ Rotation /\ [Next]_vars => (TypeOK /\ Rotation)'
    BY TypeStep, RotationStep
  <1> QED
    BY <1>1, <1>2, PTL DEF Spec

(* The shape of the state, for any number of callers and generations.      *)
THEOREM RefreshTypeCorrect == Spec => []TypeOK
  BY RotationInvariant, PTL

(* The rotated refresh token is in the row, up to the exceptions named.    *)
THEOREM RefreshRotationIsStored == Spec => []RotationIsStored
  <1>1. TypeOK /\ Rotation => RotationIsStored
    BY DEF Rotation, RotationIsStored
  <1> QED
    BY RotationInvariant, <1>1, PTL

(* No refresh token is exchanged twice, up to the exceptions named.        *)
THEOREM RefreshNewestIsExchanged == Spec => []NewestIsExchanged
  <1>1. TypeOK /\ Rotation => NewestIsExchanged
    BY DEF Rotation, NewestIsExchanged
  <1> QED
    BY RotationInvariant, <1>1, PTL

(* Waiting for a flight never costs a caller a newer file, and a forced    *)
(* flight gives everybody a new one.                                       *)
THEOREM RefreshWaitersGetNewer == Spec => WaitersGetNewer
  <1> DEFINE Newer ==
        \A c \in Callers :
          Intact /\ pc[c] = "waiting" /\ pc'[c] = "using" =>
              /\ file'[c] >= file[c]
              /\ forced => file'[c] > file[c]
  <1>1. TypeOK /\ Rotation /\ [Next]_vars => Newer
    <2> SUFFICES ASSUME TypeOK, Rotation, [Next]_vars, NEW c \in Callers,
                        Intact, pc[c] = "waiting", pc'[c] = "using"
                 PROVE  file'[c] >= file[c] /\ (forced => file'[c] > file[c])
      OBVIOUS
    <2> USE DEF TypeOK, Generations, Rotation
    <2>1. CASE \E d \in Callers : Call(d)
      BY <2>1 DEF Call, Load, UseAsIs, Join, Refused, Finish, StoreUsage, Goto
    <2>2. CASE Reread
      BY <2>2 DEF Reread, Land, Waiting
    <2>3. CASE Persist
      BY <2>3 DEF Persist, Land, Waiting
    <2>4. CASE StartCall \/ Exchange \/ Expire \/ UNCHANGED vars
      BY <2>4 DEF StartCall, Exchange, Expire, callers, vars
    <2>5. CASE Fail \/ Crash
      BY <2>5 DEF Fail, Crash, Waiting
    <2> QED
      BY <2>1, <2>2, <2>3, <2>4, <2>5 DEF Next, Fly
  <1> QED
    BY RotationInvariant, <1>1, PTL DEF Spec, WaitersGetNewer

-----------------------------------------------------------------------------
(* The proxy policy, for any number of requests, savers, proxies, saved    *)
(* policies and instances that save. The invariant has a part about what   *)
(* is shared and one about each reader, so that a step of one reader has   *)
(* to be looked at for that reader and what is shared only (OthersHold).   *)

USE ReadersAssumption, BaseAssumption, NoRowAssumption, InputsAssumption

Flags == [on : BOOLEAN, required : BOOLEAN]
Addresses == [host : Hosts \cup {NoHost}, auth : Hosts \cup {NoAuth}, sealed : BOOLEAN]
Tables == [flags : Flags \cup {NoRow}, url : Addresses \cup {NoRow}]
Snaps == [rows : Tables, version : Nat, failed : BOOLEAN]
SaverCalls ==
    [import : BOOLEAN,
     input : [on : BOOLEAN, required : {"yes", "no", "keep"},
              host : Hosts \cup {NoHost}, auth : {"keep", "clear", "new"}]]

(* Credentials that are with their proxy.                                  *)
Home(policy) == policy.auth \in {NoAuth, policy.host}
HomeRoute(route) == Len(route) = 2 => route[2] \in {NoAuth, route[1]}

(* The rows of a policy that was stored, no older than least.              *)
IsVersion(table, version, least) ==
    version \in least .. Version /\ Effective(table) = history[version]

SharedTyped ==
    /\ db \in Tables
    /\ cache \in [rows : Tables, version : Nat, loaded : BOOLEAN, fresh : BOOLEAN]
    /\ history \in Seq(Policies)
    /\ saved \in 1 .. Version
    /\ DOMAIN at = Readers /\ DOMAIN call = Readers
    /\ DOMAIN seen = Readers /\ DOMAIN result = Readers

SharedHolds ==
    /\ Effective(db) = history[Version]
    /\ Home(Effective(db)) /\ Home(Effective(cache.rows))
    /\ cache.fresh => ~Legacy(cache.rows) /\ IsVersion(cache.rows, cache.version, saved)

(* Of a reader: what it has found while it holds the lock of the snapshot  *)
(* is no older than the last save that returned, since an invalidation     *)
(* waits for that lock.                                                    *)
ReaderHolds(p) ==
    /\ at[p] \in {"protecting", "deciding"} =>
          seen[p] \in Snaps /\ Home(Effective(seen[p].rows))
    /\ at[p] = "protecting" =>
          lock = p /\ IsVersion(seen[p].rows, seen[p].version, saved)

(* Of a request: what it goes on with is no older than the last save that  *)
(* had returned when it came.                                              *)
Obeyed(r) ==
    \/ result[r] = Blocked
    \/ \E i \in call[r].since .. Version : result[r] = Route(history[i])
    \/ seen[r].failed /\ result[r] # Direct

SenderHolds(r) ==
    /\ at[r] # "idle" => call[r].since \in 1 .. saved
    /\ at[r] = "deciding" /\ ~seen[r].failed =>
          IsVersion(seen[r].rows, seen[r].version, call[r].since)
    /\ at[r] = "sent" => Obeyed(r) /\ HomeRoute(result[r])

(* Of a saver: it excludes the others until it has invalidated the cache.  *)
SaverHolds(s) ==
    /\ at[s] # "idle" => saving = s /\ call[s] \in SaverCalls
    /\ at[s] = "committing" => result[s] \in Policies /\ Home(result[s])
    /\ at[s] = "invalidating" => result[s] \in saved .. Version

Holds(p) ==
    /\ ReaderHolds(p)
    /\ p \in Senders => SenderHolds(p)
    /\ p \in Savers => SaverHolds(p)

PolicyInv == SharedTyped /\ SharedHolds /\ \A p \in Readers : Holds(p)

-----------------------------------------------------------------------------
(* Lemmas on the rows.                                                     *)

LEMMA EffectiveIsPolicy ==
    ASSUME NEW table \in Tables
    PROVE  Effective(table) \in Policies
<1>1. CASE table.flags = NoRow /\ table.url = NoRow
  BY <1>1 DEF Effective, Policies
<1>2. CASE table.flags # NoRow /\ table.url = NoRow
  BY <1>2 DEF Effective, Policies, Tables, Flags
<1>3. CASE table.flags = NoRow /\ table.url # NoRow
  BY <1>3 DEF Effective, Policies, Tables, Addresses
<1>4. CASE table.flags # NoRow /\ table.url # NoRow
  BY <1>4 DEF Effective, Policies, Tables, Flags, Addresses
<1> QED
  BY <1>1, <1>2, <1>3, <1>4

LEMMA SealedIsAddress ==
    ASSUME NEW policy \in Policies, NEW isSealed \in BOOLEAN
    PROVE  /\ Sealed(policy, isSealed) \in Addresses
           /\ Sealed(policy, isSealed) # NoRow
           /\ Sealed(policy, isSealed).host = policy.host
           /\ Sealed(policy, isSealed).auth = policy.auth
           /\ Sealed(policy, isSealed).sealed = isSealed
<1>1. Sealed(policy, isSealed) \in Addresses
  BY DEF Sealed, Policies, Addresses
<1> QED
  BY <1>1 DEF Sealed, Addresses

(* The migration seals the credentials and changes nothing else.           *)
LEMMA ProtectedIsSame ==
    ASSUME NEW table \in Tables
    PROVE  /\ Protected(table) \in Tables
           /\ Effective(Protected(table)) = Effective(table)
           /\ ~Legacy(Protected(table))
<1>1. CASE ~Legacy(table)
  BY <1>1 DEF Protected
<1>2. CASE Legacy(table)
  <2> DEFINE url == Sealed(Effective(table), TRUE)
  <2>1. /\ url \in Addresses /\ url # NoRow /\ url.host = Effective(table).host
        /\ url.auth = Effective(table).auth /\ url.sealed
    BY EffectiveIsPolicy, SealedIsAddress
  <2> HIDE DEF url
  <2>2. Protected(table) = [table EXCEPT !.url = url]
    BY <1>2 DEF Protected, url
  <2>3. /\ Protected(table) \in Tables
        /\ Protected(table).url = url /\ Protected(table).flags = table.flags
    BY <2>1, <2>2 DEF Tables
  <2> QED
    BY <2>1, <2>3 DEF Effective, Legacy
<1> QED
  BY <1>1, <1>2

(* A policy that is stored is the one that is found.                       *)
LEMMA StoredIsFound ==
    ASSUME NEW policy \in Policies, Store(policy)
    PROVE  db' \in Tables /\ Effective(db') = policy
<1> DEFINE flags == [on |-> policy.on, required |-> policy.required]
           url == Sealed(policy, TRUE)
<1>1. db' = [flags |-> flags, url |-> url]
  BY DEF Store
<1>2. flags \in Flags /\ flags # NoRow
  BY DEF Policies, Flags
<1>3. url \in Addresses /\ url # NoRow /\ url.host = policy.host /\ url.auth = policy.auth
  BY SealedIsAddress
<1>4. flags.on = policy.on /\ flags.required = policy.required
  OBVIOUS
<1> HIDE DEF flags, url
<1>5. db' \in Tables
  BY <1>1, <1>2, <1>3 DEF Tables
<1>6. Effective(db') = [on |-> policy.on, required |-> policy.required,
                       host |-> policy.host, auth |-> policy.auth]
  BY <1>1, <1>2, <1>3, <1>4 DEF Effective
<1>7. policy = [on |-> policy.on, required |-> policy.required,
                host |-> policy.host, auth |-> policy.auth]
  BY DEF Policies
<1> QED
  BY <1>5, <1>6, <1>7

LEMMA NormalizedIsHome ==
    ASSUME NEW input, NEW current, Home(current), NEW policy \in Normalized(input, current)
    PROVE  policy \in Policies /\ Home(policy)
BY DEF Normalized, Auths, Home

LEMMA RoutesAreHome ==
    ASSUME NEW c \in Snaps, Home(Effective(c.rows))
    PROVE  HomeRoute(RouteOf(c))
<1> DEFINE policy == Effective(c.rows)
<1>1. policy.on \in BOOLEAN /\ policy.required \in BOOLEAN
  BY EffectiveIsPolicy DEF Snaps, Policies
<1>2. Route(policy) = <<policy.host, policy.auth>> \/ Route(policy) \in {<<>>, <<"blocked">>}
  BY <1>1 DEF Route, Direct, Blocked
<1>3. RouteOf(c) = Route(policy) \/ RouteOf(c) = <<"blocked">>
  BY DEF RouteOf, Blocked
<1> QED
  BY <1>2, <1>3 DEF Home, HomeRoute

(* Without a readable policy nothing goes out directly.                    *)
LEMMA FailureIsNotDirect ==
    ASSUME NEW c \in Snaps, c.failed
    PROVE  RouteOf(c) = Blocked \/ RouteOf(c) # Direct
<1>1. CASE c.version = 0 \/ ~Effective(c.rows).on
  BY <1>1 DEF RouteOf
<1>2. CASE Effective(c.rows).on
  BY <1>2 DEF RouteOf, Route, Direct, Blocked
<1> QED
  BY <1>1, <1>2

(* The policies stored so far stay where they are.                         *)
Grown ==
    /\ Version' \in Nat /\ Version' >= Version
    /\ \A i \in 1 .. Version : history'[i] = history[i]

LEMMA StoresGrow ==
    ASSUME SharedTyped,
           history' = history \/ \E policy \in Policies : history' = Append(history, policy)
    PROVE  history' \in Seq(Policies) /\ Grown /\ Version \in Nat \ {0}
<1>1. history \in Seq(Policies) /\ Version = Len(history) /\ Version \in Nat \ {0}
  BY DEF SharedTyped, Version
<1>2. CASE history' = history
  BY <1>1, <1>2 DEF Grown, Version
<1>3. ASSUME NEW policy \in Policies, history' = Append(history, policy)
      PROVE  history' \in Seq(Policies) /\ Grown
  <2>1. Append(history, policy) \in Seq(Policies) /\ Version' = Version + 1
    BY <1>1, <1>3 DEF Version
  <2>2. \A i \in 1 .. Version : history'[i] = history[i]
    BY <1>1, <1>3
  <2> QED
    BY <1>1, <1>3, <2>1, <2>2 DEF Grown
<1> QED
  BY <1>1, <1>2, <1>3

LEMMA VersionsStay ==
    ASSUME SharedTyped, Grown, NEW table, NEW version, NEW least \in Nat \ {0},
           IsVersion(table, version, least)
    PROVE  /\ version \in least .. Version' 
           /\ Effective(table) = history'[version]
<1>1. Version \in Nat
  BY DEF SharedTyped, Version
<1>2. version \in 1 .. Version
  BY <1>1 DEF IsVersion
<1> QED
  BY <1>1, <1>2 DEF Grown, IsVersion

(* What a step of p leaves of the others: they go on where they are, and   *)
(* what they hold is as true as before. Only an invalidation, which finds  *)
(* the lock of the snapshot free, raises the version that was saved.       *)
LEMMA OthersHold ==
    ASSUME PolicyInv, NEW p, NEW q \in Readers, q # p,
           at'[q] = at[q], call'[q] = call[q], seen'[q] = seen[q], result'[q] = result[q],
           lock' = lock \/ lock \in {Nobody, p},
           saving' = saving \/ saving \in {Nobody, p},
           Grown,
           saved' = saved \/ (lock = Nobody /\ saving = p /\ saved' \in saved .. Version)
    PROVE  Holds(q)'
<1>1. /\ SharedTyped /\ Holds(q) /\ q # Nobody
      /\ Version \in Nat /\ saved \in 1 .. Version /\ saved' \in saved .. Version
  BY DEF PolicyInv, SharedTyped, Version
<1>2. ReaderHolds(q)'
  <2>1. at[q] = "protecting" => lock' = q /\ saved' = saved
    BY <1>1 DEF Holds, ReaderHolds
  <2>2. ASSUME at[q] = "protecting"
        PROVE  IsVersion(seen[q].rows, seen[q].version, saved)'
    BY <1>1, <2>1, <2>2, VersionsStay DEF Holds, ReaderHolds, IsVersion, Version
  <2> QED
    BY <1>1, <2>1, <2>2 DEF Holds, ReaderHolds, Home, Effective
<1>3. ASSUME q \in Senders
      PROVE  SenderHolds(q)'
  <2>1. SenderHolds(q)
    BY <1>1, <1>3 DEF Holds
  <2>2. at[q] # "idle" => call'[q].since \in 1 .. saved'
    BY <1>1, <2>1 DEF SenderHolds
  <2>3. ASSUME at[q] = "deciding", ~seen[q].failed
        PROVE  IsVersion(seen[q].rows, seen[q].version, call[q].since)'
    BY <1>1, <2>1, <2>3, VersionsStay DEF SenderHolds, IsVersion, Version
  <2>4. ASSUME at[q] = "sent"
        PROVE  Obeyed(q)'
    <3>1. CASE result[q] = Blocked \/ (seen[q].failed /\ result[q] # Direct)
      BY <3>1 DEF Obeyed
    <3>2. CASE \E i \in call[q].since .. Version : result[q] = Route(history[i])
      <4>1. PICK i \in call[q].since .. Version : result[q] = Route(history[i])
        BY <3>2
      <4>2. i \in 1 .. Version /\ call[q].since \in Nat
        BY <1>1, <2>1, <2>4, <4>1 DEF SenderHolds
      <4>3. history'[i] = history[i] /\ i \in call[q].since .. Version'
        BY <1>1, <4>1, <4>2 DEF Grown
      <4>4. Route(history[i])' = Route(history'[i])
        BY DEF Route, Direct, Blocked
      <4> QED
        BY <4>1, <4>3, <4>4 DEF Obeyed
    <3> QED
      BY <2>1, <2>4, <3>1, <3>2 DEF SenderHolds, Obeyed
  <2>5. at[q] = "sent" => HomeRoute(result[q])'
    BY <2>1 DEF SenderHolds, HomeRoute
  <2> QED
    BY <2>2, <2>3, <2>4, <2>5 DEF SenderHolds
<1>4. ASSUME q \in Savers
      PROVE  SaverHolds(q)'
  <2>1. SaverHolds(q)
    BY <1>1, <1>4 DEF Holds
  <2>2. at[q] # "idle" => saving' = q /\ saved' = saved
    BY <1>1, <2>1 DEF SaverHolds
  <2> QED
    BY <1>1, <2>1, <2>2 DEF SaverHolds, Home, Grown
<1> QED
  BY <1>2, <1>3, <1>4 DEF Holds

(* A step of p, or of nobody here.                                         *)
Alone(p) ==
    /\ DOMAIN at' = Readers /\ DOMAIN call' = Readers
    /\ DOMAIN seen' = Readers /\ DOMAIN result' = Readers
    /\ \A q \in Readers \ {p} :
          at'[q] = at[q] /\ call'[q] = call[q] /\ seen'[q] = seen[q] /\ result'[q] = result[q]
    /\ lock' = lock \/ lock \in {Nobody, p}
    /\ saving' = saving \/ saving \in {Nobody, p}
    /\ Grown
    /\ saved' = saved \/ (lock = Nobody /\ saving = p /\ saved' \in saved .. Version)

LEMMA StepHolds ==
    ASSUME PolicyInv, NEW p, Alone(p), SharedTyped', SharedHolds',
           p \in Readers => Holds(p)'
    PROVE  PolicyInv'
<1>1. ASSUME NEW q \in Readers
      PROVE  Holds(q)'
  <2>1. CASE q = p
    BY <2>1
  <2>2. CASE q # p
    BY <2>2, OthersHold DEF Alone
  <2> QED
    BY <2>1, <2>2
<1> QED
  BY <1>1 DEF PolicyInv

(* The step of a reader that leaves what is shared alone.                  *)
LEMMA ReaderSteps ==
    ASSUME PolicyInv, NEW p \in Readers,
           DOMAIN at' = Readers, DOMAIN call' = Readers,
           DOMAIN seen' = Readers, DOMAIN result' = Readers,
           \A q \in Readers \ {p} :
              at'[q] = at[q] /\ call'[q] = call[q] /\ seen'[q] = seen[q] /\ result'[q] = result[q],
           lock' = lock \/ lock \in {Nobody, p},
           saving' = saving \/ saving \in {Nobody, p},
           UNCHANGED <<db, cache, history, saved>>,
           Holds(p)'
    PROVE  PolicyInv'
<1>1. SharedTyped /\ SharedHolds
  BY DEF PolicyInv
<1>2. Alone(p)
  BY <1>1, StoresGrow DEF Alone
<1>3. SharedTyped'
  BY <1>1 DEF SharedTyped, Version
<1>4. SharedHolds'
  BY <1>1 DEF SharedHolds, Version, Home, Effective, Legacy, IsVersion
<1> QED
  BY <1>2, <1>3, <1>4, StepHolds

LEMMA CachedHolds ==
    ASSUME PolicyInv, NEW p \in Readers, Cached(p)
    PROVE  PolicyInv'
<1> DEFINE snapshot == [rows |-> cache.rows, version |-> cache.version, failed |-> FALSE]
<1>1. /\ SharedTyped /\ SharedHolds /\ Holds(p)
      /\ at[p] = "reading" /\ cache.fresh /\ saved \in 1 .. Version /\ Version \in Nat
  BY DEF PolicyInv, Cached, Reading, SharedTyped, Version
<1>2. /\ snapshot \in Snaps /\ Home(Effective(cache.rows))
      /\ IsVersion(cache.rows, cache.version, saved)
  BY <1>1 DEF SharedTyped, SharedHolds, Snaps
<1>3. /\ at' = [at EXCEPT ![p] = "deciding"] /\ seen' = [seen EXCEPT ![p] = snapshot]
      /\ UNCHANGED <<db, cache, lock, saving, call, result, history, saved>>
  BY DEF Cached, Take, Proceed
<1>4. at'[p] = "deciding" /\ seen'[p] = snapshot
  BY <1>1, <1>3 DEF SharedTyped
<1>5. snapshot.rows = cache.rows /\ snapshot.version = cache.version /\ ~snapshot.failed
  OBVIOUS
<1> HIDE DEF snapshot
<1>6. ReaderHolds(p)'
  BY <1>2, <1>4, <1>5 DEF ReaderHolds, Home, Effective
<1>7. ASSUME p \in Senders
      PROVE  SenderHolds(p)'
  <2>1. call[p].since \in 1 .. saved
    BY <1>1, <1>7 DEF Holds, SenderHolds
  <2>2. IsVersion(cache.rows, cache.version, call[p].since)
    BY <1>1, <1>2, <2>1 DEF IsVersion
  <2> QED
    BY <1>3, <1>4, <1>5, <2>1, <2>2 DEF SenderHolds, IsVersion, Effective, Version
<1>8. ASSUME p \in Savers
      PROVE  SaverHolds(p)'
  BY <1>1, <1>3, <1>4, <1>8 DEF Holds, SaverHolds
<1> QED
  BY <1>1, <1>3, <1>6, <1>7, <1>8, ReaderSteps DEF Holds, SharedTyped

LEMMA FindRowsHolds ==
    ASSUME PolicyInv, NEW p \in Readers, FindRows(p)
    PROVE  PolicyInv'
<1> DEFINE snapshot == [rows |-> db, version |-> Version, failed |-> FALSE]
<1>1. /\ SharedTyped /\ SharedHolds /\ Holds(p)
      /\ at[p] = "reading" /\ lock = Nobody /\ saved \in 1 .. Version /\ Version \in Nat
  BY DEF PolicyInv, FindRows, Reading, SharedTyped, Version
<1>2. /\ snapshot \in Snaps /\ Home(Effective(db)) /\ IsVersion(db, Version, saved)
  BY <1>1 DEF SharedTyped, SharedHolds, Snaps, IsVersion
<1>3. /\ at' = [at EXCEPT ![p] = "protecting"] /\ seen' = [seen EXCEPT ![p] = snapshot]
      /\ lock' = p
      /\ UNCHANGED <<db, cache, saving, call, result, history, saved>>
  BY DEF FindRows, Proceed
<1>4. at'[p] = "protecting" /\ seen'[p] = snapshot
  BY <1>1, <1>3 DEF SharedTyped
<1>5. snapshot.rows = db /\ snapshot.version = Version
  OBVIOUS
<1> HIDE DEF snapshot
<1>6. ReaderHolds(p)'
  BY <1>2, <1>3, <1>4, <1>5 DEF ReaderHolds, Home, Effective, IsVersion, Version
<1>7. ASSUME p \in Senders
      PROVE  SenderHolds(p)'
  BY <1>1, <1>3, <1>4, <1>7 DEF Holds, SenderHolds
<1>8. ASSUME p \in Savers
      PROVE  SaverHolds(p)'
  BY <1>1, <1>3, <1>4, <1>8 DEF Holds, SaverHolds
<1> QED
  BY <1>1, <1>3, <1>6, <1>7, <1>8, ReaderSteps DEF Holds, SharedTyped

LEMMA LastSnapshotHolds ==
    ASSUME PolicyInv, NEW p \in Readers, LastSnapshot(p) \/ PublishFails(p)
    PROVE  PolicyInv'
<1> DEFINE snapshot == [rows |-> cache.rows, version |-> cache.version, failed |-> TRUE]
<1>1. /\ SharedTyped /\ SharedHolds /\ Holds(p) /\ at[p] \in {"reading", "protecting"}
      /\ saved \in 1 .. Version /\ Version \in Nat
  <2>1. SharedTyped /\ SharedHolds /\ Holds(p)
    BY DEF PolicyInv
  <2>2. at[p] \in {"reading", "protecting"}
    BY DEF LastSnapshot, PublishFails, Reading
  <2> QED
    BY <2>1, <2>2 DEF SharedTyped, Version
<1>2. snapshot \in Snaps /\ Home(Effective(cache.rows))
  BY <1>1 DEF SharedTyped, SharedHolds, Snaps
<1>3. /\ at' = [at EXCEPT ![p] = "deciding"] /\ seen' = [seen EXCEPT ![p] = snapshot]
      /\ UNCHANGED <<db, cache, saving, call, result, history, saved>>
  BY DEF LastSnapshot, PublishFails, Take, Proceed
<1>4. lock' = lock \/ lock \in {Nobody, p}
  BY <1>1 DEF LastSnapshot, PublishFails, Holds, ReaderHolds
<1>5. at'[p] = "deciding" /\ seen'[p] = snapshot
  BY <1>1, <1>3 DEF SharedTyped
<1>6. snapshot.rows = cache.rows /\ snapshot.failed
  OBVIOUS
<1> HIDE DEF snapshot
<1>7. ReaderHolds(p)'
  BY <1>2, <1>5, <1>6 DEF ReaderHolds, Home, Effective
<1>8. ASSUME p \in Senders
      PROVE  SenderHolds(p)'
  BY <1>1, <1>3, <1>5, <1>6, <1>8 DEF Holds, SenderHolds
<1>9. ASSUME p \in Savers
      PROVE  SaverHolds(p)'
  BY <1>1, <1>3, <1>5, <1>9 DEF Holds, SaverHolds
<1> QED
  BY <1>1, <1>3, <1>4, <1>7, <1>8, <1>9, ReaderSteps DEF Holds, SharedTyped

(* The migration keeps the policy that is stored, and what is published is *)
(* the policy that was found.                                              *)
LEMMA PublishKeeps ==
    ASSUME PolicyInv, NEW p \in Readers, Publish(p)
    PROVE  /\ db' \in Tables /\ Effective(db)' = Effective(db)
           /\ cache'.rows = Protected(seen[p].rows)
           /\ cache'.version = seen[p].version
           /\ cache' \in [rows : Tables, version : Nat, loaded : BOOLEAN, fresh : BOOLEAN]
           /\ seen'[p] = [rows |-> cache'.rows, version |-> cache'.version, failed |-> FALSE]
           /\ Effective(cache.rows)' = Effective(seen[p].rows)
           /\ ~Legacy(cache.rows)'
<1> DEFINE found == seen[p].rows
           rows == Protected(found)
           snapshot == [rows |-> rows, version |-> seen[p].version, failed |-> FALSE]
<1>1. /\ SharedTyped /\ seen[p] \in Snaps /\ at[p] = "protecting"
  BY DEF PolicyInv, Publish, Holds, ReaderHolds
<1>2. found \in Tables /\ seen[p].version \in Nat
  BY <1>1 DEF Snaps
<1> HIDE DEF found
<1>3. rows \in Tables /\ Effective(rows) = Effective(found) /\ ~Legacy(rows)
  BY <1>2, ProtectedIsSame
<1>4. /\ db' = IF Legacy(found) THEN [db EXCEPT !.url = rows.url] ELSE db
      /\ Legacy(found) => db.url = found.url
      /\ cache' = [rows |-> rows, version |-> seen[p].version, loaded |-> TRUE, fresh |-> TRUE]
      /\ seen' = [seen EXCEPT ![p] = snapshot]
  BY DEF Publish, Take, MayMigrate, found
<1> HIDE DEF rows
<1>5. cache'.rows = rows /\ cache'.version = seen[p].version
  BY <1>4
<1>6. cache' \in [rows : Tables, version : Nat, loaded : BOOLEAN, fresh : BOOLEAN]
  BY <1>2, <1>3, <1>4
<1>7. seen'[p] = snapshot
  BY <1>1, <1>4 DEF SharedTyped
<1>8. db' \in Tables /\ Effective(db)' = Effective(db)
  <2>1. CASE ~Legacy(found)
    BY <1>1, <1>4, <2>1 DEF SharedTyped, Effective
  <2>2. CASE Legacy(found)
    <3> DEFINE url == Sealed(Effective(found), TRUE)
    <3>1. /\ url \in Addresses /\ url # NoRow
          /\ url.host = Effective(found).host /\ url.auth = Effective(found).auth
      BY <1>2, EffectiveIsPolicy, SealedIsAddress
    <3>2. rows.url = url
      BY <1>2, <2>2 DEF rows, Protected, Tables
    <3> HIDE DEF url
    <3>3. db' \in Tables /\ db'.url = url /\ db'.flags = db.flags
      BY <1>1, <1>4, <2>2, <3>1, <3>2 DEF SharedTyped, Tables
    <3>4. /\ Effective(found).host = Effective(db).host
          /\ Effective(found).auth = Effective(db).auth
      BY <1>4, <2>2 DEF Effective
    <3> QED
      BY <3>1, <3>3, <3>4 DEF Effective
  <2> QED
    BY <2>1, <2>2
<1>9. Effective(cache.rows)' = Effective(rows) /\ (Legacy(cache.rows)' <=> Legacy(rows))
  BY <1>5 DEF Effective, Legacy
<1> QED
  BY <1>3, <1>5, <1>6, <1>7, <1>8, <1>9 DEF rows, found

LEMMA PublishHolds ==
    ASSUME PolicyInv, NEW p \in Readers, Publish(p)
    PROVE  PolicyInv'
<1>1. /\ SharedTyped /\ SharedHolds /\ Holds(p) /\ at[p] = "protecting"
      /\ saved \in 1 .. Version /\ Version \in Nat
  BY DEF PolicyInv, Publish, SharedTyped, Version
<1>2. /\ lock = p /\ seen[p] \in Snaps /\ Home(Effective(seen[p].rows))
      /\ IsVersion(seen[p].rows, seen[p].version, saved)
  BY <1>1 DEF Holds, ReaderHolds
<1>3. /\ at' = [at EXCEPT ![p] = "deciding"] /\ at'[p] = "deciding"
      /\ \E c : seen' = [seen EXCEPT ![p] = c]
      /\ lock' = Nobody
      /\ UNCHANGED <<saving, call, result, history, saved>>
  BY <1>1 DEF Publish, Take, Proceed, SharedTyped
<1>4. Alone(p)
  BY <1>1, <1>2, <1>3, StoresGrow DEF Alone, SharedTyped
<1>5. SharedTyped'
  BY <1>1, <1>3, <1>4, PublishKeeps DEF SharedTyped, Alone, Version
<1>6. IsVersion(cache.rows, cache.version, saved)'
  BY <1>2, <1>3, PublishKeeps DEF IsVersion, Version
<1>7. SharedHolds'
  BY <1>1, <1>2, <1>3, <1>6, PublishKeeps DEF SharedHolds, Home, Version
<1>8. /\ seen'[p].rows = cache'.rows /\ seen'[p].version = cache'.version
      /\ seen'[p] \in Snaps
  <2>1. cache'.rows \in Tables /\ cache'.version \in Nat
    BY PublishKeeps
  <2>2. seen'[p] = [rows |-> cache'.rows, version |-> cache'.version, failed |-> FALSE]
    BY PublishKeeps
  <2> QED
    BY <2>1, <2>2 DEF Snaps
<1>9. ReaderHolds(p)'
  BY <1>3, <1>7, <1>8 DEF ReaderHolds, SharedHolds, Home, Effective
<1>10. ASSUME p \in Senders
       PROVE  SenderHolds(p)'
  <2>1. call[p].since \in 1 .. saved
    BY <1>1, <1>10 DEF Holds, SenderHolds
  <2>2. IsVersion(seen[p].rows, seen[p].version, call[p].since)'
    BY <1>1, <1>3, <1>6, <1>8, <2>1 DEF IsVersion, Effective, Version
  <2> QED
    BY <1>3, <2>1, <2>2 DEF SenderHolds
<1>11. ASSUME p \in Savers
       PROVE  SaverHolds(p)'
  BY <1>1, <1>3, <1>11 DEF Holds, SaverHolds
<1> QED
  BY <1>4, <1>5, <1>7, <1>9, <1>10, <1>11, StepHolds DEF Holds

LEMMA RequestHolds ==
    ASSUME PolicyInv, NEW r \in Senders, Request(r)
    PROVE  PolicyInv'
<1>1. SharedTyped /\ Holds(r) /\ r \in Readers /\ r \notin Savers
  BY DEF PolicyInv, Readers
<1>2. /\ at' = [at EXCEPT ![r] = "reading"] /\ call' = [call EXCEPT ![r] = [since |-> saved]]
      /\ UNCHANGED <<db, cache, lock, saving, seen, result, history, saved>>
  BY DEF Request, Begin, Proceed
<1>3. at'[r] = "reading" /\ call'[r].since = saved
  BY <1>1, <1>2 DEF SharedTyped
<1>4. Holds(r)'
  BY <1>1, <1>2, <1>3 DEF Holds, ReaderHolds, SenderHolds, SharedTyped
<1> QED
  BY <1>1, <1>2, <1>4, ReaderSteps DEF SharedTyped

(* What goes out is what was saved when the request came, or later.        *)
LEMMA SendHolds ==
    ASSUME PolicyInv, NEW r \in Senders, Send(r)
    PROVE  PolicyInv'
<1>1. /\ SharedTyped /\ Holds(r) /\ r \in Readers /\ r \notin Savers /\ at[r] = "deciding"
      /\ saved \in 1 .. Version /\ Version \in Nat
  BY DEF PolicyInv, Readers, Send, SharedTyped, Version
<1>2. /\ at' = [at EXCEPT ![r] = "sent"] /\ result' = [result EXCEPT ![r] = RouteOf(seen[r])]
      /\ UNCHANGED <<db, cache, lock, saving, call, seen, history, saved>>
  BY DEF Send, Proceed
<1>3. at'[r] = "sent" /\ result'[r] = RouteOf(seen[r])
  BY <1>1, <1>2 DEF SharedTyped
<1>4. seen[r] \in Snaps /\ Home(Effective(seen[r].rows)) /\ call[r].since \in 1 .. saved
  BY <1>1 DEF Holds, ReaderHolds, SenderHolds
<1>5. HomeRoute(result[r])'
  BY <1>3, <1>4, RoutesAreHome DEF HomeRoute
<1>6. Obeyed(r)'
  <2>1. CASE seen[r].failed
    BY <1>2, <1>3, <1>4, <2>1, FailureIsNotDirect DEF Obeyed
  <2>2. CASE ~seen[r].failed
    <3>1. IsVersion(seen[r].rows, seen[r].version, call[r].since)
      BY <1>1, <2>2 DEF Holds, SenderHolds
    <3>2. RouteOf(seen[r]) = Route(Effective(seen[r].rows))
      BY <2>2 DEF RouteOf
    <3>3. PICK i \in call[r].since .. Version : RouteOf(seen[r]) = Route(history[i])
      BY <3>1, <3>2 DEF IsVersion
    <3>4. Route(history[i])' = Route(history'[i]) /\ history'[i] = history[i]
      BY <1>2 DEF Route, Direct, Blocked
    <3> QED
      BY <1>2, <1>3, <3>3, <3>4 DEF Obeyed, Version
  <2> QED
    BY <2>1, <2>2
<1>7. Holds(r)'
  BY <1>1, <1>2, <1>3, <1>4, <1>5, <1>6 DEF Holds, ReaderHolds, SenderHolds
<1> QED
  BY <1>1, <1>2, <1>7, ReaderSteps DEF SharedTyped

LEMMA LeaveHolds ==
    ASSUME PolicyInv, NEW p \in Readers, Leave(p),
           UNCHANGED <<db, cache, lock, history, saved>>
    PROVE  PolicyInv'
<1>1. SharedTyped
  BY DEF PolicyInv
<1>2. /\ at' = [at EXCEPT ![p] = "idle"] /\ call' = [call EXCEPT ![p] = <<>>]
      /\ seen' = [seen EXCEPT ![p] = <<>>] /\ result' = [result EXCEPT ![p] = <<>>]
      /\ saving' = saving \/ saving \in {Nobody, p}
  BY DEF Leave, Proceed, Release
<1>3. at'[p] = "idle"
  BY <1>1, <1>2 DEF SharedTyped
<1>4. Holds(p)'
  BY <1>3 DEF Holds, ReaderHolds, SenderHolds, SaverHolds
<1> QED
  BY <1>1, <1>2, <1>4, ReaderSteps DEF SharedTyped

LEMMA SaverBegins ==
    ASSUME PolicyInv, NEW s \in Savers, NEW fields \in SaverCalls, Begin(s, fields),
           saving = Nobody, saving' = s,
           UNCHANGED <<db, up, cache, lock, history, saved>>
    PROVE  PolicyInv'
<1>1. SharedTyped /\ Holds(s) /\ s \in Readers /\ s \notin Senders
  BY DEF PolicyInv, Readers
<1>2. /\ at' = [at EXCEPT ![s] = "reading"] /\ call' = [call EXCEPT ![s] = fields]
      /\ UNCHANGED <<seen, result>>
  BY DEF Begin, Proceed
<1>3. at'[s] = "reading" /\ call'[s] = fields
  BY <1>1, <1>2 DEF SharedTyped
<1>4. Holds(s)'
  BY <1>1, <1>3 DEF Holds, ReaderHolds, SaverHolds
<1> QED
  BY <1>1, <1>2, <1>4, ReaderSteps DEF SharedTyped

LEMMA SaveHolds ==
    ASSUME PolicyInv, NEW s \in Savers, NEW input \in Inputs, Save(s, input)
    PROVE  PolicyInv'
<1> DEFINE fields == [input |-> input, import |-> FALSE]
<1>1. fields \in SaverCalls
  BY DEF SaverCalls
<1>2. Begin(s, fields) /\ saving = Nobody /\ saving' = s
      /\ UNCHANGED <<db, up, cache, lock, history, saved>>
  BY DEF Save
<1> HIDE DEF fields
<1> QED
  BY <1>1, <1>2, SaverBegins

LEMMA ImportHolds ==
    ASSUME PolicyInv, NEW s \in Savers, Import(s)
    PROVE  PolicyInv'
<1>1. PICK b \in Backups :
        Begin(s, [import |-> TRUE,
                  input |-> [on |-> b.on, required |-> IF b.required THEN "yes" ELSE "no",
                             host |-> b.host, auth |-> IF b.auth = NoAuth THEN "keep" ELSE "new"]])
  BY DEF Import
<1> DEFINE fields == [import |-> TRUE,
                      input |-> [on |-> b.on, required |-> IF b.required THEN "yes" ELSE "no",
                                 host |-> b.host,
                                 auth |-> IF b.auth = NoAuth THEN "keep" ELSE "new"]]
<1>2. b \in Policies
  BY DEF PolicyInv, SharedTyped, Backups, Version
<1>3. b.on \in BOOLEAN /\ b.host \in Hosts \cup {NoHost}
  BY <1>2 DEF Policies
<1>4. fields \in SaverCalls
  BY <1>3 DEF SaverCalls
<1>5. Begin(s, fields) /\ saving = Nobody /\ saving' = s
      /\ UNCHANGED <<db, up, cache, lock, history, saved>>
  BY <1>1 DEF Import
<1> HIDE DEF fields
<1> QED
  BY <1>4, <1>5, SaverBegins

LEMMA NormalizeHolds ==
    ASSUME PolicyInv, NEW s \in Savers, Normalize(s)
    PROVE  PolicyInv'
<1>1. /\ SharedTyped /\ Holds(s) /\ s \in Readers /\ s \notin Senders
      /\ at[s] = "deciding"
  BY DEF PolicyInv, Readers, Normalize
<1>2. PICK policy \in Normalized(call[s].input, Current(s)) :
        result' = [result EXCEPT ![s] = policy]
  BY DEF Normalize
<1>3. Home(Current(s))
  <2>1. Home(Effective(seen[s].rows))
    BY <1>1 DEF Holds, ReaderHolds
  <2>2. [Effective(seen[s].rows) EXCEPT !.host = NoHost, !.auth = NoAuth].auth = NoAuth
    BY DEF Effective
  <2> QED
    BY <2>1, <2>2 DEF Current, Home
<1>4. policy \in Policies /\ Home(policy)
  BY <1>3, NormalizedIsHome
<1>5. /\ at' = [at EXCEPT ![s] = "committing"]
      /\ UNCHANGED <<db, cache, lock, saving, call, seen, history, saved>>
  BY DEF Normalize, Proceed
<1>6. at'[s] = "committing" /\ result'[s] = policy
  BY <1>1, <1>2, <1>5 DEF SharedTyped
<1>7. Holds(s)'
  BY <1>1, <1>4, <1>5, <1>6 DEF Holds, ReaderHolds, SaverHolds, Home
<1> QED
  BY <1>1, <1>2, <1>5, <1>7, ReaderSteps DEF SharedTyped

LEMMA StoreHolds ==
    ASSUME SharedTyped, SharedHolds, NEW policy \in Policies, Home(policy), Store(policy),
           cache' = cache, saved' = saved
    PROVE  /\ SharedHolds' /\ Grown /\ db' \in Tables /\ history' \in Seq(Policies)
           /\ Version' = Version + 1 /\ Version \in Nat /\ saved \in 1 .. Version
<1>1. history' = Append(history, policy) /\ history \in Seq(Policies)
  BY DEF Store, SharedTyped
<1>2. Grown /\ history' \in Seq(Policies)
  BY <1>1, StoresGrow
<1>3. Version \in Nat /\ saved \in 1 .. Version
  BY DEF SharedTyped, Version
<1>4. Version' = Version + 1 /\ history'[Version'] = policy
  BY <1>1 DEF Version
<1>5. db' \in Tables /\ Effective(db') = policy
  BY StoredIsFound
<1>6. Effective(db)' = history'[Version'] /\ Home(Effective(db))'
  BY <1>4, <1>5 DEF Effective, Home
<1>7. Home(Effective(cache.rows))'
  BY DEF SharedHolds, Home, Effective
<1>8. ASSUME cache.fresh
      PROVE  (~Legacy(cache.rows) /\ IsVersion(cache.rows, cache.version, saved))'
  <2>1. IsVersion(cache.rows, cache.version, saved) /\ ~Legacy(cache.rows)
    BY <1>8 DEF SharedHolds
  <2>2. cache.version \in saved .. Version' /\ Effective(cache.rows) = history'[cache.version]
    BY <1>2, <1>3, <2>1, VersionsStay
  <2> QED
    BY <2>1, <2>2 DEF IsVersion, Legacy, Effective, Version
<1> QED
  BY <1>2, <1>3, <1>4, <1>5, <1>6, <1>7, <1>8 DEF SharedHolds, Version

LEMMA CommitHolds ==
    ASSUME PolicyInv, NEW s \in Savers, Commit(s)
    PROVE  PolicyInv'
<1>1. /\ SharedTyped /\ SharedHolds /\ Holds(s) /\ s \in Readers /\ s \notin Senders
      /\ at[s] = "committing"
  BY DEF PolicyInv, Readers, Commit
<1>2. /\ result[s] \in Policies /\ Home(result[s]) /\ saving = s
      /\ call[s] \in SaverCalls
  BY <1>1 DEF Holds, SaverHolds
<1>3. /\ at' = [at EXCEPT ![s] = "invalidating"] /\ result' = [result EXCEPT ![s] = Version + 1]
      /\ Store(result[s])
      /\ UNCHANGED <<cache, lock, saving, call, seen, saved>>
  BY DEF Commit, Proceed
<1>4. /\ SharedHolds' /\ Grown /\ db' \in Tables /\ history' \in Seq(Policies)
      /\ Version' = Version + 1 /\ Version \in Nat /\ saved \in 1 .. Version
  BY <1>1, <1>2, <1>3, StoreHolds
<1>5. at'[s] = "invalidating" /\ result'[s] = Version + 1
  BY <1>1, <1>3 DEF SharedTyped
<1>6. Alone(s)
  BY <1>1, <1>3, <1>4 DEF Alone, SharedTyped
<1>7. SharedTyped'
  BY <1>1, <1>3, <1>4, <1>6 DEF SharedTyped, Alone
<1>8. Holds(s)'
  BY <1>1, <1>2, <1>3, <1>4, <1>5 DEF Holds, ReaderHolds, SaverHolds
<1> QED
  BY <1>1, <1>4, <1>6, <1>7, <1>8, StepHolds

(* An invalidation waits for who publishes: nobody publishes afterwards    *)
(* what was found before.                                                  *)
LEMMA InvalidateHolds ==
    ASSUME PolicyInv, NEW s \in Savers, Invalidate(s)
    PROVE  PolicyInv'
<1>1. /\ SharedTyped /\ SharedHolds /\ Holds(s) /\ s \in Readers /\ s \notin Senders
      /\ at[s] = "invalidating" /\ lock = Nobody
  BY DEF PolicyInv, Readers, Invalidate
<1>2. result[s] \in saved .. Version /\ saving = s
  BY <1>1 DEF Holds, SaverHolds
<1>3. /\ at' = [at EXCEPT ![s] = "idle"] /\ call' = [call EXCEPT ![s] = <<>>]
      /\ seen' = [seen EXCEPT ![s] = <<>>] /\ result' = [result EXCEPT ![s] = <<>>]
      /\ saving' = saving \/ saving \in {Nobody, s}
      /\ cache' = [cache EXCEPT !.fresh = FALSE] /\ saved' = result[s]
      /\ UNCHANGED <<db, lock, history>>
  BY DEF Invalidate, Leave, Proceed, Release, CacheDropped
<1>4. Alone(s)
  BY <1>1, <1>2, <1>3, StoresGrow DEF Alone, SharedTyped
<1>5. /\ cache' \in [rows : Tables, version : Nat, loaded : BOOLEAN, fresh : BOOLEAN]
      /\ ~cache'.fresh /\ cache'.rows = cache.rows
  BY <1>1, <1>3 DEF SharedTyped
<1>6. saved' \in 1 .. Version'
  BY <1>1, <1>2, <1>3 DEF SharedTyped, Version
<1>7. SharedTyped'
  BY <1>1, <1>3, <1>4, <1>5, <1>6 DEF SharedTyped, Alone
<1>8. SharedHolds'
  BY <1>1, <1>3, <1>5 DEF SharedHolds, Home, Effective, Version
<1>9. at'[s] = "idle"
  BY <1>1, <1>3 DEF SharedTyped
<1>10. Holds(s)'
  BY <1>1, <1>9 DEF Holds, ReaderHolds, SaverHolds
<1> QED
  BY <1>1, <1>4, <1>7, <1>8, <1>10, StepHolds

LEMMA SaveElsewhereHolds ==
    ASSUME PolicyInv, SaveElsewhere
    PROVE  PolicyInv'
<1>1. SharedTyped /\ SharedHolds
  BY DEF PolicyInv
<1>2. PICK input \in Inputs : \E policy \in Normalized(input, Effective(db)) : Store(policy)
  BY DEF SaveElsewhere
<1>3. PICK policy \in Normalized(input, Effective(db)) : Store(policy)
  BY <1>2
<1>4. policy \in Policies /\ Home(policy)
  BY <1>1, NormalizedIsHome DEF SharedHolds
<1>5. UNCHANGED <<cache, lock, saving, at, call, seen, result, saved>>
  BY DEF SaveElsewhere, readers
<1>6. /\ SharedHolds' /\ Grown /\ db' \in Tables /\ history' \in Seq(Policies)
      /\ Version' = Version + 1 /\ Version \in Nat /\ saved \in 1 .. Version
  BY <1>1, <1>3, <1>4, <1>5, StoreHolds
<1>7. Alone(Nobody)
  BY <1>1, <1>5, <1>6 DEF Alone, SharedTyped
<1>8. SharedTyped'
  BY <1>1, <1>5, <1>6 DEF SharedTyped
<1> QED
  BY <1>6, <1>7, <1>8, StepHolds

LEMMA ElapseHolds ==
    ASSUME PolicyInv, CacheExpires \/ Outage \/ UNCHANGED policyVars
    PROVE  PolicyInv'
<1>1. SharedTyped /\ SharedHolds
  BY DEF PolicyInv
<1>2. /\ cache' \in {cache, [cache EXCEPT !.fresh = FALSE]}
      /\ UNCHANGED <<db, lock, saving, at, call, seen, result, history, saved>>
  BY DEF CacheExpires, Outage, policyVars, readers, CacheDropped
<1>3. /\ cache' \in [rows : Tables, version : Nat, loaded : BOOLEAN, fresh : BOOLEAN]
      /\ cache'.rows = cache.rows /\ cache'.version = cache.version
      /\ cache'.fresh => cache.fresh
  BY <1>1, <1>2 DEF SharedTyped
<1>4. Alone(Nobody)
  BY <1>1, <1>2, StoresGrow DEF Alone, SharedTyped
<1>5. SharedTyped'
  BY <1>1, <1>2, <1>3 DEF SharedTyped, Version
<1>6. SharedHolds'
  BY <1>1, <1>2, <1>3 DEF SharedHolds, Home, Effective, Legacy, IsVersion, Version
<1> QED
  BY <1>4, <1>5, <1>6, StepHolds

LEMMA NoRowsAreBase == NoRows \in Tables /\ Effective(NoRows) = Base
<1>1. NoRows \in Tables
  BY DEF NoRows, Tables
<1>2. Effective(NoRows) = [on |-> Base.on, required |-> Base.required,
                           host |-> Base.host, auth |-> Base.auth]
  BY DEF NoRows, Effective
<1> QED
  BY <1>1, <1>2 DEF Policies

LEMMA UnloadedIsHome ==
    /\ Unloaded \in [rows : Tables, version : Nat, loaded : BOOLEAN, fresh : BOOLEAN]
    /\ ~Unloaded.fresh /\ Home(Effective(Unloaded.rows))
BY NoRowsAreBase DEF Unloaded, Home

LEMMA RestartHolds ==
    ASSUME PolicyInv, Restart
    PROVE  PolicyInv'
<1>1. SharedTyped /\ SharedHolds
  BY DEF PolicyInv
<1>2. /\ cache' = Unloaded
      /\ at' = [p \in Readers |-> "idle"] /\ call' = [p \in Readers |-> <<>>]
      /\ seen' = [p \in Readers |-> <<>>] /\ result' = [p \in Readers |-> <<>>]
      /\ UNCHANGED <<db, history, saved>>
  BY DEF Restart
<1>3. SharedTyped'
  BY <1>1, <1>2, UnloadedIsHome DEF SharedTyped, Version
<1>4. Home(Effective(cache.rows))' /\ ~cache'.fresh
  BY <1>2, UnloadedIsHome DEF Home, Effective
<1>5. SharedHolds'
  BY <1>1, <1>2, <1>4 DEF SharedHolds, Home, Effective, Version
<1>6. ASSUME NEW p \in Readers
      PROVE  Holds(p)'
  BY <1>2 DEF Holds, ReaderHolds, SenderHolds, SaverHolds
<1> QED
  BY <1>3, <1>5, <1>6 DEF PolicyInv

LEMMA FirstRows ==
    ASSUME PolicyInit
    PROVE  db \in Tables /\ Effective(db) \in Policies /\ Home(Effective(db))
<1>1. db.flags = NoRow /\ DOMAIN db = {"flags", "url"}
  BY DEF PolicyInit
<1>2. CASE db.url = NoRow
  <2>1. db = NoRows
    BY <1>2 DEF PolicyInit, NoRows
  <2> QED
    BY <2>1, NoRowsAreBase DEF Home
<1>3. CASE db.url # NoRow
  <2>1. PICK h \in Hosts : db.url = Sealed([host |-> h, auth |-> h], FALSE)
    BY <1>3 DEF PolicyInit
  <2>2. db.url \in Addresses /\ db.url.host = h /\ db.url.auth = h
    BY <2>1 DEF Sealed, Addresses
  <2>3. db \in Tables
    BY <1>1, <2>2 DEF PolicyInit, Tables
  <2>4. Effective(db).auth = h /\ Effective(db).host = h
    BY <1>3, <2>2 DEF Effective
  <2> QED
    BY <2>3, <2>4, EffectiveIsPolicy DEF Home
<1> QED
  BY <1>2, <1>3

LEMMA PolicyStarts == PolicyInit => PolicyInv
<1> SUFFICES ASSUME PolicyInit
             PROVE  PolicyInv
  OBVIOUS
<1>1. db \in Tables /\ Effective(db) \in Policies /\ Home(Effective(db))
  BY FirstRows
<1>2. history = <<Effective(db)>> /\ saved = 1 /\ cache = Unloaded
  BY DEF PolicyInit
<1>3. history \in Seq(Policies) /\ Version = 1 /\ history[Version] = Effective(db)
  BY <1>1, <1>2 DEF Version
<1>4. SharedTyped
  BY <1>1, <1>2, <1>3, UnloadedIsHome DEF SharedTyped, PolicyInit
<1>5. SharedHolds
  BY <1>1, <1>2, <1>3, UnloadedIsHome DEF SharedHolds
<1>6. ASSUME NEW p \in Readers
      PROVE  Holds(p)
  BY DEF PolicyInit, Holds, ReaderHolds, SenderHolds, SaverHolds
<1> QED
  BY <1>4, <1>5, <1>6 DEF PolicyInv

LEMMA PolicySteps == PolicyInv /\ [PolicyNext]_policyVars => PolicyInv'
<1> SUFFICES ASSUME PolicyInv, [PolicyNext]_policyVars
             PROVE  PolicyInv'
  OBVIOUS
<1>1. ASSUME NEW p \in Readers,
             \/ Cached(p) \/ FindRows(p) \/ LastSnapshot(p)
             \/ Publish(p) \/ PublishFails(p)
      PROVE  PolicyInv'
  BY <1>1, CachedHolds, FindRowsHolds, LastSnapshotHolds, PublishHolds
<1>2. ASSUME NEW r \in Senders, Request(r) \/ Send(r) \/ Done(r)
      PROVE  PolicyInv'
  <2>1. CASE Request(r) \/ Send(r)
    BY <2>1, RequestHolds, SendHolds
  <2>2. CASE Done(r)
    BY <2>2, LeaveHolds DEF Done, Readers
  <2> QED
    BY <1>2, <2>1, <2>2
<1>3. ASSUME NEW s \in Savers,
             \/ \E input \in Inputs : Save(s, input)
             \/ Import(s) \/ Normalize(s) \/ Refuse(s) \/ Commit(s) \/ Invalidate(s)
      PROVE  PolicyInv'
  <2>1. CASE \E input \in Inputs : Save(s, input)
    BY <2>1, SaveHolds
  <2>2. CASE Import(s) \/ Normalize(s) \/ Commit(s) \/ Invalidate(s)
    BY <2>2, ImportHolds, NormalizeHolds, CommitHolds, InvalidateHolds
  <2>3. CASE Refuse(s)
    BY <2>3, LeaveHolds DEF Refuse, Readers
  <2> QED
    BY <1>3, <2>1, <2>2, <2>3
<1>4. CASE SaveElsewhere \/ CacheExpires \/ Outage \/ Restart \/ UNCHANGED policyVars
  BY <1>4, SaveElsewhereHolds, ElapseHolds, RestartHolds
<1> QED
  BY <1>1, <1>2, <1>3, <1>4 DEF PolicyNext

THEOREM PolicyInvariant == PolicySpec => []PolicyInv
BY PolicyStarts, PolicySteps, PTL DEF PolicySpec

(* A save that has returned is obeyed by every request that starts after   *)
(* it, through whatever cache, outage, restart or other instance: it is    *)
(* routed by that policy or a later one, or by no readable policy and then *)
(* never directly (UpstreamHTTPClient, invalidateSystemConfigCache).       *)
THEOREM SavedPoliciesAreObeyed == PolicySpec => []SavedIsObeyed
<1>1. PolicyInv => SavedIsObeyed
  BY DEF PolicyInv, Holds, SenderHolds, Obeyed, SavedIsObeyed, Readers
<1> QED
  BY <1>1, PolicyInvariant, PTL

(* Credentials are stored with, backed up with and sent to the proxy they  *)
(* were supplied for, and no other (resolveProxyCredentials, ImportCore).  *)
THEOREM CredentialsStayHome == PolicySpec => []AuthStaysHome
<1>1. PolicyInv => AuthStaysHome
  <2> SUFFICES ASSUME PolicyInv
               PROVE  AuthStaysHome
    OBVIOUS
  <2>1. Effective(db).auth \in {NoAuth, Effective(db).host}
    BY DEF PolicyInv, SharedHolds, Home
  <2>2. ASSUME NEW r \in Senders, at[r] = "sent"
        PROVE  HomeRoute(result[r])
    BY <2>2 DEF PolicyInv, Holds, SenderHolds, Readers
  <2> QED
    BY <2>1, <2>2 DEF AuthStaysHome, HomeRoute
<1> QED
  BY <1>1, PolicyInvariant, PTL

(* The migration of credentials leaves the policy that is stored as it is, *)
(* whoever saves meanwhile, and no snapshot that has credentials in the    *)
(* clear is fresh afterwards (protectProxySnapshot).                       *)
THEOREM MigrationsKeepPolicies == PolicySpec => MigrationKeepsPolicy
<1>1. ASSUME PolicyInv, PolicyInv', [PolicyNext]_policyVars,
             NEW p \in Readers, at[p] = "protecting", at'[p] = "deciding"
      PROVE  Effective(db') = Effective(db) /\ (cache'.fresh => ~Legacy(cache'.rows))
  <2>1. SharedTyped /\ DOMAIN at = Readers
    BY <1>1 DEF PolicyInv, SharedTyped
  <2>2. CASE Publish(p)
    BY <1>1, <2>2, PublishKeeps DEF Effective, Legacy
  <2>3. CASE PublishFails(p)
    BY <1>1, <2>3 DEF PublishFails, PolicyInv, SharedHolds
  <2>4. Publish(p) \/ PublishFails(p)
    <3>1. ASSUME NEW q \in Readers, q # p,
                 \/ Cached(q) \/ FindRows(q) \/ LastSnapshot(q)
                 \/ Publish(q) \/ PublishFails(q)
          PROVE  FALSE
      BY <1>1, <2>1, <3>1 DEF Cached, FindRows, LastSnapshot, Publish, PublishFails, Take, Proceed
    <3>2. ASSUME NEW r \in Senders, Request(r) \/ Send(r) \/ Done(r)
          PROVE  FALSE
      BY <1>1, <2>1, <3>2 DEF Request, Begin, Send, Done, Leave, Proceed, Readers
    <3>3. ASSUME NEW s \in Savers,
                 \/ \E input \in Inputs : Save(s, input)
                 \/ Import(s) \/ Normalize(s) \/ Refuse(s) \/ Commit(s) \/ Invalidate(s)
          PROVE  FALSE
      BY <1>1, <2>1, <3>3
         DEF Save, Import, Begin, Normalize, Refuse, Commit, Invalidate, Leave, Proceed, Readers
    <3>4. ASSUME NEW q \in Readers,
                 Cached(q) \/ FindRows(q) \/ LastSnapshot(q)
          PROVE  q # p
      BY <1>1, <3>4 DEF Cached, FindRows, LastSnapshot, Reading
    <3>5. CASE SaveElsewhere \/ CacheExpires \/ Outage \/ Restart \/ UNCHANGED policyVars
      BY <1>1, <2>1, <3>5
         DEF SaveElsewhere, CacheExpires, Outage, Restart, policyVars, readers
    <3> QED
      BY <1>1, <3>1, <3>2, <3>3, <3>4, <3>5 DEF PolicyNext
  <2> QED
    BY <2>2, <2>3, <2>4
<1>2. PolicyInv /\ PolicyInv' /\ [PolicyNext]_policyVars =>
        [\A p \in Readers : at[p] = "protecting" /\ at'[p] = "deciding" =>
            Effective(db') = Effective(db) /\ (cache'.fresh => ~Legacy(cache'.rows))]_policyVars
  BY <1>1
<1> QED
  BY <1>2, PolicyInvariant, PTL DEF PolicySpec, MigrationKeepsPolicy

-----------------------------------------------------------------------------
(* A policy that demands the proxy turns it on.                            *)
Coherent(policy) == policy.required => policy.on

StoredAreCoherent ==
    /\ lock \in Readers \cup {Nobody}
    /\ saving \in Savers \cup {Nobody}
    /\ \A i \in 2 .. Version : Coherent(history[i])
    /\ \A s \in Savers : at[s] = "committing" => Coherent(result[s])

LEMMA CoherentStays ==
    ASSUME PolicyInv, StoredAreCoherent, NEW policy \in Policies, Coherent(policy),
           Store(policy)
    PROVE  \A i \in 2 .. Version' : Coherent(history'[i])
<1>1. history \in Seq(Policies) /\ Version = Len(history)
  BY DEF PolicyInv, SharedTyped, Version
<1>2. history' = Append(history, policy) /\ Version' = Version + 1
  BY <1>1 DEF Store, Version
<1>3. ASSUME NEW i \in 2 .. Version'
      PROVE  Coherent(history'[i])
  <2>1. CASE i = Version + 1
    BY <1>1, <1>2, <2>1
  <2>2. CASE i \in 2 .. Version
    BY <1>1, <1>2, <2>2 DEF StoredAreCoherent
  <2> QED
    BY <1>1, <1>2, <2>1, <2>2
<1> QED
  BY <1>3

LEMMA CoherentStep ==
    PolicyInv /\ StoredAreCoherent /\ [PolicyNext]_policyVars => StoredAreCoherent'
<1> SUFFICES ASSUME PolicyInv, StoredAreCoherent, [PolicyNext]_policyVars
             PROVE  StoredAreCoherent'
  OBVIOUS
<1>1. SharedTyped /\ DOMAIN at = Readers /\ DOMAIN result = Readers
  BY DEF PolicyInv, SharedTyped
<1>2. ASSUME history' = history, lock' \in {lock} \cup Readers \cup {Nobody},
             saving' \in {saving} \cup Savers \cup {Nobody},
             \A s \in Savers : at'[s] = "committing" =>
                \/ at[s] = "committing" /\ result'[s] = result[s]
                \/ Coherent(result'[s])
      PROVE  StoredAreCoherent'
  BY <1>2 DEF StoredAreCoherent, Version, Coherent
<1>3. ASSUME NEW p \in Readers,
             \/ Cached(p) \/ FindRows(p) \/ LastSnapshot(p)
             \/ Publish(p) \/ PublishFails(p)
      PROVE  StoredAreCoherent'
  <2>1. UNCHANGED <<saving, result, history>> /\ lock' \in {lock, p, Nobody}
    BY <1>3 DEF Cached, FindRows, LastSnapshot, Publish, PublishFails, Take
  <2>2. \E stage \in {"deciding", "protecting"} : at' = [at EXCEPT ![p] = stage]
    BY <1>3 DEF Cached, FindRows, LastSnapshot, Publish, PublishFails, Take, Proceed
  <2>3. \A s \in Savers : at'[s] = "committing" => at[s] = "committing"
    BY <1>1, <2>2 DEF Readers
  <2> QED
    BY <1>2, <2>1, <2>3
<1>4. ASSUME NEW p \in Readers, NEW fields, Begin(p, fields) \/ Leave(p),
             UNCHANGED <<lock, history>>, saving' \in {saving} \cup Savers \cup {Nobody}
      PROVE  StoredAreCoherent'
  <2>1. \E stage \in {"idle", "reading"} : at' = [at EXCEPT ![p] = stage]
    BY <1>4 DEF Begin, Leave, Proceed
  <2>2. result' = result \/ result' = [result EXCEPT ![p] = <<>>]
    BY <1>4 DEF Begin, Leave
  <2>3. \A s \in Savers : at'[s] = "committing" => at[s] = "committing" /\ result'[s] = result[s]
    BY <1>1, <2>1, <2>2 DEF Readers
  <2> QED
    BY <1>2, <1>4, <2>3
<1>5. ASSUME NEW r \in Senders, Request(r) \/ Send(r) \/ Done(r)
      PROVE  StoredAreCoherent'
  <2>1. r \in Readers
    BY DEF Readers
  <2>2. CASE Request(r)
    BY <1>4, <2>1, <2>2 DEF Request
  <2>3. CASE Send(r)
    BY <1>1, <1>2, <2>1, <2>3 DEF Send, Proceed
  <2>4. CASE Done(r)
    BY <1>4, <2>1, <2>4 DEF Done, Leave, Release
  <2> QED
    BY <1>5, <2>2, <2>3, <2>4
<1>6. ASSUME NEW s \in Savers,
             \/ \E input \in Inputs : Save(s, input)
             \/ Import(s) \/ Normalize(s) \/ Refuse(s) \/ Commit(s) \/ Invalidate(s)
      PROVE  StoredAreCoherent'
  <2>1. s \in Readers
    BY DEF Readers
  <2>2. CASE \E input \in Inputs : Save(s, input)
    <3>1. PICK input \in Inputs : Save(s, input)
      BY <2>2
    <3> QED
      BY <1>4, <2>1, <3>1 DEF Save
  <2>3. CASE Import(s)
    BY <1>4, <2>1, <2>3 DEF Import
  <2>4. CASE Normalize(s)
    <3>1. PICK policy \in Normalized(call[s].input, Current(s)) :
            result' = [result EXCEPT ![s] = policy]
      BY <2>4 DEF Normalize
    <3>2. Coherent(policy)
      BY <3>1 DEF Normalized, Coherent
    <3>3. UNCHANGED <<lock, saving, history>> /\ at' = [at EXCEPT ![s] = "committing"]
      BY <2>4 DEF Normalize, Proceed
    <3> QED
      BY <1>1, <1>2, <2>1, <3>1, <3>2, <3>3
  <2>5. CASE Refuse(s)
    BY <1>4, <2>1, <2>5 DEF Refuse, Leave, Release
  <2>6. CASE Commit(s)
    <3>1. at[s] = "committing" /\ result[s] \in Policies /\ Store(result[s])
      BY <2>1, <2>6 DEF Commit, PolicyInv, Holds, SaverHolds
    <3>2. \A i \in 2 .. Version' : Coherent(history'[i])
      BY <3>1, CoherentStays DEF StoredAreCoherent
    <3> QED
      BY <1>1, <2>1, <2>6, <3>2 DEF Commit, Proceed, StoredAreCoherent, Coherent, Version
  <2>7. CASE Invalidate(s)
    BY <1>4, <2>1, <2>7 DEF Invalidate, Leave, Release
  <2> QED
    BY <1>6, <2>2, <2>3, <2>4, <2>5, <2>6, <2>7
<1>7. CASE SaveElsewhere
  <2>1. PICK input \in Inputs : \E policy \in Normalized(input, Effective(db)) : Store(policy)
    BY <1>7 DEF SaveElsewhere
  <2>2. PICK policy \in Normalized(input, Effective(db)) : Store(policy)
    BY <2>1
  <2>3. policy \in Policies /\ Coherent(policy)
    BY <2>2 DEF Normalized, Coherent
  <2>4. \A i \in 2 .. Version' : Coherent(history'[i])
    BY <2>2, <2>3, CoherentStays
  <2> QED
    BY <1>7, <2>4 DEF SaveElsewhere, readers, StoredAreCoherent, Coherent, Version
<1>8. CASE CacheExpires \/ Outage \/ UNCHANGED policyVars
  BY <1>2, <1>8 DEF CacheExpires, Outage, policyVars, readers
<1>9. CASE Restart
  BY <1>2, <1>9 DEF Restart, Readers
<1> QED
  BY <1>3, <1>5, <1>6, <1>7, <1>8, <1>9 DEF PolicyNext

(* What is read is a policy, whatever rows are missing, and a policy that  *)
(* demands the proxy is stored with the proxy turned on, here and by every *)
(* other instance (normalizeGatewayProxyConfig).                           *)
THEOREM PolicyTypeCorrect == PolicySpec => []PolicyTypeOK
<1>1. PolicyInit => StoredAreCoherent
  <2> SUFFICES ASSUME PolicyInit
               PROVE  StoredAreCoherent
    OBVIOUS
  <2>1. Version = 1
    BY DEF PolicyInit, Version
  <2>2. \A s \in Savers : at[s] = "idle"
    BY DEF PolicyInit, Readers
  <2> QED
    BY <2>1, <2>2 DEF PolicyInit, StoredAreCoherent
<1>2. PolicyInv /\ StoredAreCoherent => PolicyTypeOK
  BY EffectiveIsPolicy
     DEF PolicyInv, SharedTyped, StoredAreCoherent, Coherent, PolicyTypeOK, Version
<1>3. PolicySpec => []StoredAreCoherent
  BY <1>1, CoherentStep, PolicyInvariant, PTL DEF PolicySpec
<1> QED
  BY <1>2, <1>3, PolicyInvariant, PTL

===============================================================================
