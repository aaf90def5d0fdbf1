----------------------- MODULE PlatformKeyQuotaProofs -----------------------
(***************************************************************************)
(* The budget of a platform key, for any number of requests, instances,    *)
(* limits, estimates and lifetimes.                                        *)
(*                                                                         *)
(* The step that matters is Reserve. That it raises the sum of the live    *)
(* reservations by its own estimate, and no more, takes two facts: the     *)
(* request had no row yet (RowsAreOwned), and a sum over requests, counted *)
(* in units, grows by n when a summand n joins it (TotalAdds).             *)
(***************************************************************************)
EXTENDS PlatformKeyQuota, FiniteSetTheorems, TLAPS

RowsAreOwned ==
    \A r \in Requests :
        left[r] # NoRow => pc[r] \in {"upstream", "answered", "unsettled", "lost"}

Safe == TypeOK /\ RowsAreOwned /\ WithinLimit

Bound == MaxReserve + Overrun

LEMMA UnitsAreFinite ==
    ASSUME NEW R \in SUBSET Requests, NEW f
    PROVE  /\ IsFiniteSet(Units(R, f)) /\ Total(R, f) \in Nat
           /\ Units(R, f) \in SUBSET (R \X (1 .. Bound))
<1>1. IsFiniteSet(R) /\ IsFiniteSet(1 .. Bound)
  BY FS_Subset, FS_Interval, ConstantsAssumption DEF Bound
<1>2. IsFiniteSet(R \X (1 .. Bound))
  BY <1>1, FS_Product
<1>3. Units(R, f) \in SUBSET (R \X (1 .. Bound))
  BY DEF Units, Bound
<1> QED
  BY <1>2, <1>3, FS_Subset, FS_CardinalityType DEF Total

(* A sum does not grow when summands leave it or shrink.                   *)
LEMMA TotalIsMonotone ==
    ASSUME NEW S \in SUBSET Requests, NEW R \in SUBSET S, NEW f, NEW g,
           \A r \in R : f[r] \in Nat /\ g[r] \in Nat /\ f[r] <= g[r]
    PROVE  Total(R, f) <= Total(S, g)
<1>1. Units(R, f) \in SUBSET Units(S, g)
  <2> SUFFICES ASSUME NEW u \in Units(R, f) PROVE u \in Units(S, g)
    OBVIOUS
  <2>1. u \in R \X (1 .. Bound) /\ u[2] <= f[u[1]]
    BY DEF Units, Bound
  <2>2. u[1] \in R /\ u[2] \in Int
    BY <2>1
  <2>3. u[2] <= g[u[1]]
    BY <2>1, <2>2
  <2> QED
    BY <2>1, <2>3 DEF Units, Bound
<1> QED
  BY <1>1, UnitsAreFinite, FS_Subset DEF Total

(* A new summand n adds n.                                                 *)
LEMMA TotalAdds ==
    ASSUME NEW R \in SUBSET Requests, NEW r \in Requests, r \notin R,
           NEW f, NEW g, NEW n \in 0 .. Bound, g[r] = n,
           \A q \in R : g[q] = f[q]
    PROVE  Total(R \cup {r}, g) = Total(R, f) + n
<1> DEFINE Own == {r} \X (1 .. n)
<1>1. n \in Nat /\ Bound \in Nat
  BY ConstantsAssumption DEF Bound
<1>2. IsFiniteSet(Own) /\ Cardinality(Own) = n
  <2>1. IsFiniteSet({r}) /\ Cardinality({r}) = 1
    BY FS_Singleton
  <2>2. IsFiniteSet(1 .. n) /\ Cardinality(1 .. n) = n
    BY <1>1, FS_Interval
  <2> QED
    BY <1>1, <2>1, <2>2, FS_Product
<1>3. Units(R \cup {r}, g) = Units(R, f) \cup Own
  <2>1. ASSUME NEW u \in Units(R \cup {r}, g) PROVE u \in Units(R, f) \cup Own
    <3>1. u \in (R \cup {r}) \X (1 .. Bound) /\ u[2] <= g[u[1]]
      BY <2>1 DEF Units, Bound
    <3>2. u = <<u[1], u[2]>> /\ u[1] \in R \cup {r} /\ u[2] \in 1 .. Bound
      BY <3>1
    <3>3. CASE u[1] \in R
      <4>1. u[2] <= f[u[1]]
        BY <3>1, <3>3
      <4> QED
        BY <3>2, <3>3, <4>1 DEF Units, Bound
    <3>4. CASE u[1] = r
      <4>1. u[2] \in 1 .. n
        BY <1>1, <3>1, <3>2, <3>4
      <4> QED
        BY <3>2, <3>4, <4>1
    <3> QED
      BY <3>2, <3>3, <3>4
  <2>2. ASSUME NEW u \in Units(R, f) PROVE u \in Units(R \cup {r}, g)
    <3>1. u \in R \X (1 .. Bound) /\ u[2] <= f[u[1]] /\ u[1] \in R
      BY <2>2 DEF Units, Bound
    <3>2. u \in (R \cup {r}) \X (1 .. Bound) /\ u[2] <= g[u[1]]
      BY <3>1
    <3> QED
      BY <3>2 DEF Units, Bound
  <2>3. ASSUME NEW u \in Own PROVE u \in Units(R \cup {r}, g)
    <3>1. u[1] = r /\ u[2] \in 1 .. n /\ u = <<u[1], u[2]>>
      BY <2>3
    <3>2. u[2] \in 1 .. Bound /\ u[2] <= n
      BY <1>1, <3>1
    <3>3. u \in (R \cup {r}) \X (1 .. Bound) /\ u[2] <= g[u[1]]
      BY <3>1, <3>2
    <3> QED
      BY <3>3 DEF Units, Bound
  <2> QED
    BY <2>1, <2>2, <2>3
<1>4. Units(R, f) \cap Own = {}
  BY UnitsAreFinite
<1>5. Cardinality(Units(R, f) \cup Own) = Cardinality(Units(R, f)) + Cardinality(Own)
  <2>1. Cardinality(Units(R, f) \cap Own) = 0
    BY <1>4, FS_EmptySet
  <2>2. Cardinality(Units(R, f)) \in Nat /\ IsFiniteSet(Units(R, f))
    BY UnitsAreFinite DEF Total
  <2> HIDE DEF Own
  <2>3. Cardinality(Units(R, f) \cup Own) =
        Cardinality(Units(R, f)) + Cardinality(Own) - Cardinality(Units(R, f) \cap Own)
    BY <1>2, <2>2, FS_Union
  <2> QED
    BY <1>1, <1>2, <2>1, <2>2, <2>3
<1> QED
  BY <1>2, <1>3, <1>5 DEF Total

-----------------------------------------------------------------------------

LEMMA HeldIsNatural == TypeOK => Held \in Nat /\ Live \in SUBSET Requests
  BY UnitsAreFinite DEF Held, Live

(* Rows that lapse or are dropped give their part of the budget back.      *)
LEMMA HeldShrinks ==
    ASSUME TypeOK, TypeOK', tokens' = tokens, Live' \in SUBSET Live
    PROVE  Held' <= Held /\ Held' \in Nat /\ Held \in Nat
<1>1. Live \in SUBSET Requests /\ Live' \in SUBSET Requests
  BY DEF Live
<1>2. \A q \in Live' : tokens'[q] \in Nat /\ tokens[q] \in Nat /\ tokens'[q] <= tokens[q]
  BY <1>1, ConstantsAssumption DEF TypeOK
<1>3. Total(Live', tokens') <= Total(Live, tokens)
  BY <1>1, <1>2, TotalIsMonotone
<1>4. Total(Live', tokens') \in Nat /\ Total(Live, tokens) \in Nat
  BY <1>1, UnitsAreFinite
<1> QED
  BY <1>3, <1>4 DEF Held

(* A step that charges nothing and reserves nothing keeps the bound.       *)
LEMMA QuietStep ==
    ASSUME TypeOK, TypeOK', WithinLimit,
           used' = used, uncovered' = uncovered, tokens' = tokens,
           Live' \in SUBSET Live
    PROVE  WithinLimit'
<1>1. PICK max \in Limits \cup {0} : used + Held <= max + uncovered
  BY DEF WithinLimit
<1>2. Held' <= Held /\ Held' \in Nat /\ Held \in Nat
  BY HeldShrinks
<1>3. used \in Nat /\ uncovered \in Nat /\ max \in Nat
  BY ConstantsAssumption DEF TypeOK
<1>4. used' + Held' <= max + uncovered'
  BY <1>1, <1>2, <1>3 DEF Held
<1> QED
  BY <1>4 DEF WithinLimit

LEMMA InitIsSafe == Init => Safe
<1> SUFFICES ASSUME Init PROVE Safe
  OBVIOUS
<1> USE DEF Init, NoRow
<1>1. TypeOK
  BY ConstantsAssumption DEF TypeOK, Stages, Usages
<1>2. RowsAreOwned
  BY DEF RowsAreOwned
<1>3. Held = 0
  <2>1. Live = {}
    BY DEF Live
  <2>2. Units({}, tokens) = {}
    BY DEF Units
  <2> QED
    BY <2>1, <2>2, FS_EmptySet DEF Held, Total
<1>4. WithinLimit
  BY <1>1, <1>3, ConstantsAssumption DEF WithinLimit, TypeOK
<1> QED
  BY <1>1, <1>2, <1>4 DEF Safe

LEMMA TypeStep == TypeOK /\ [Next]_vars => TypeOK'
<1> SUFFICES ASSUME TypeOK, [Next]_vars PROVE TypeOK'
  OBVIOUS
<1> USE ConstantsAssumption DEF TypeOK, Stages, quota, past, Goto, NoRow, Unsettled
<1>1. ASSUME NEW r \in Requests, Verify(r) \/ ReserveUnlimited(r) \/ Refuse(r) \/ SettleFails(r)
      PROVE  TypeOK'
  BY <1>1 DEF Verify, ReserveUnlimited, Refuse, SettleFails
<1>2. ASSUME NEW r \in Requests, Reserve(r) PROVE TypeOK'
  BY <1>2 DEF Reserve, DropExpired, Estimates
<1>3. ASSUME NEW r \in Requests, Answer(r) PROVE TypeOK'
  BY <1>3 DEF Answer, Usages
<1>4. ASSUME NEW r \in Requests, Abandon(r) PROVE TypeOK'
  BY <1>4 DEF Abandon, DropRow
<1>5. ASSUME NEW r \in Requests, Settle(r) PROVE TypeOK'
  BY <1>5 DEF Settle, DropRow, MaxOf, Covered, Usages
<1>6. ASSUME NEW i \in Instances, Crash(i) PROVE TypeOK'
  BY <1>6 DEF Crash
<1>7. ASSUME NEW i \in Instances, ReadLogs(i) PROVE TypeOK'
  BY <1>7, UnitsAreFinite DEF ReadLogs, Logged
<1>8. ASSUME NEW i \in Instances, Reconcile(i) \/ ReconcileFails(i) PROVE TypeOK'
  BY <1>8 DEF Reconcile, ReconcileFails, Corrected, MaxOf, DropExpired, StillUncharged
<1>9. CASE ClearLogs \/ Administer \/ Tick
  BY <1>9 DEF ClearLogs, Administer, Tick
<1>10. CASE UNCHANGED vars
  BY <1>10 DEF vars
<1> QED
  BY <1>1, <1>2, <1>3, <1>4, <1>5, <1>6, <1>7, <1>8, <1>9, <1>10 DEF Next, Serve

LEMMA RowsStep == TypeOK /\ RowsAreOwned /\ [Next]_vars => RowsAreOwned'
<1> SUFFICES ASSUME TypeOK, RowsAreOwned, [Next]_vars PROVE RowsAreOwned'
  OBVIOUS
<1> USE ConstantsAssumption DEF TypeOK, RowsAreOwned, quota, past, Goto, NoRow
<1>1. ASSUME NEW r \in Requests, Verify(r) \/ ReserveUnlimited(r) \/ Refuse(r) \/ SettleFails(r)
      PROVE  RowsAreOwned'
  BY <1>1 DEF Verify, ReserveUnlimited, Refuse, SettleFails
<1>2. ASSUME NEW r \in Requests, Reserve(r) PROVE RowsAreOwned'
  BY <1>2 DEF Reserve, DropExpired
<1>3. ASSUME NEW r \in Requests, Answer(r) PROVE RowsAreOwned'
  BY <1>3 DEF Answer
<1>4. ASSUME NEW r \in Requests, Abandon(r) \/ Settle(r) PROVE RowsAreOwned'
  BY <1>4 DEF Abandon, Settle, DropRow
<1>5. ASSUME NEW i \in Instances, Crash(i) \/ ReadLogs(i) PROVE RowsAreOwned'
  BY <1>5 DEF Crash, ReadLogs
<1>6. ASSUME NEW i \in Instances, Reconcile(i) \/ ReconcileFails(i) PROVE RowsAreOwned'
  BY <1>6 DEF Reconcile, ReconcileFails, DropExpired
<1>7. CASE ClearLogs \/ Administer \/ Tick
  BY <1>7 DEF ClearLogs, Administer, Tick
<1>8. CASE UNCHANGED vars
  BY <1>8 DEF vars
<1> QED
  BY <1>1, <1>2, <1>3, <1>4, <1>5, <1>6, <1>7, <1>8 DEF Next, Serve

(* The new row fits beside what is used and what the other rows hold.      *)
LEMMA ReserveKeepsLimit ==
    ASSUME TypeOK, TypeOK', RowsAreOwned, NEW r \in Requests, Reserve(r)
    PROVE  WithinLimit'
<1> USE DEF TypeOK
<1>1. PICK n \in 1 .. MaxReserve : Fits(r, n) /\ tokens' = [tokens EXCEPT ![r] = n]
  BY DEF Reserve, Estimates
<1>2. r \notin Live /\ Live \in SUBSET Requests
  BY DEF Reserve, RowsAreOwned, Live, NoRow
<1>3. Live' = Live \cup {r}
  BY <1>2, ConstantsAssumption DEF Reserve, Live, DropExpired, NoRow
<1>4. tokens'[r] = n /\ \A q \in Live : tokens'[q] = tokens[q]
  BY <1>1, <1>2
<1>5. n \in 0 .. Bound
  BY ConstantsAssumption DEF Bound
<1>6. Total(Live', tokens') = Total(Live, tokens) + n
  BY <1>2, <1>3, <1>4, <1>5, TotalAdds
<1>7. Total(Live, tokens) \in Nat
  BY <1>2, UnitsAreFinite
<1>8. limit[r] \in Limits \cup {0} /\ limit[r] \in Nat /\ n \in Nat
  <2>1. limit[r] \in Limits \cup {0}
    OBVIOUS
  <2>2. n \in Nat
    BY <1>5, ConstantsAssumption DEF Bound
  <2>3. \A x \in Limits \cup {0} : x \in Nat
    BY ConstantsAssumption
  <2> QED
    BY <2>1, <2>2, <2>3
<1>9. n <= limit[r] - used - Total(Live, tokens)
  BY <1>1 DEF Fits, Held
<1>10. used' = used /\ uncovered' = uncovered
  BY DEF Reserve, past
<1>11. used' + Held' <= limit[r] + uncovered'
  BY <1>6, <1>7, <1>8, <1>9, <1>10 DEF Held
<1> QED
  BY <1>8, <1>11 DEF WithinLimit

(* A settlement gives back what its live row covered; the rest of the      *)
(* charge is uncovered.                                                    *)
LEMMA SettleKeepsLimit ==
    ASSUME TypeOK, TypeOK', WithinLimit, NEW r \in Requests, Settle(r)
    PROVE  WithinLimit'
<1> USE DEF TypeOK
<1>1. PICK max \in Limits \cup {0} : used + Held <= max + uncovered
  BY DEF WithinLimit
<1>2. Live' = Live \ {r} /\ Live \in SUBSET Requests
  BY DEF Settle, DropRow, Live, NoRow
<1>3. tokens' = tokens
  BY DEF Settle
<1>4. Total(Live, tokens) \in Nat /\ Total(Live', tokens) \in Nat
  <2>1. Live' \in SUBSET Requests
    BY <1>2
  <2> QED
    BY <1>2, <2>1, UnitsAreFinite
<1>5. Total(Live, tokens) = Total(Live', tokens') + Covered(r)
  <2>1. CASE left[r] > 0
    <3>1. Live = Live' \cup {r} /\ r \notin Live' /\ Live' \in SUBSET Requests
      BY <1>2, <2>1 DEF Live
    <3>2. tokens[r] \in 0 .. Bound
      BY ConstantsAssumption DEF Bound
    <3>3. Total(Live' \cup {r}, tokens) = Total(Live', tokens') + tokens[r]
      BY <1>3, <3>1, <3>2, TotalAdds
    <3> QED
      BY <2>1, <3>1, <3>3 DEF Covered
  <2>2. CASE ~(left[r] > 0)
    <3>1. Live' = Live
      BY <1>2, <2>2 DEF Live
    <3> QED
      BY <1>4, <1>3, <2>2, <3>1 DEF Covered
  <2> QED
    BY <2>1, <2>2
<1>6. Total(Live, tokens) \in Nat /\ Total(Live', tokens') \in Nat /\ Covered(r) \in Nat
  BY <1>4, <1>3, ConstantsAssumption DEF Covered
<1>7. uncovered' >= uncovered + ((used' - used) - Covered(r))
  BY <1>6, ConstantsAssumption DEF Settle, MaxOf
<1>8. max \in Nat
  BY ConstantsAssumption
<1>9. used' + Held' <= max + uncovered'
  BY <1>1, <1>5, <1>6, <1>7, <1>8 DEF Held
<1> QED
  BY <1>9 DEF WithinLimit

(* What the log adds at boot is uncovered.                                 *)
LEMMA ReconcileKeepsLimit ==
    ASSUME TypeOK, TypeOK', WithinLimit, NEW i \in Instances, Reconcile(i)
    PROVE  WithinLimit'
<1> USE DEF TypeOK
<1>1. PICK max \in Limits \cup {0} : used + Held <= max + uncovered
  BY DEF WithinLimit
<1>2. Live' \in SUBSET Live /\ tokens' = tokens
  BY DEF Reconcile, DropExpired, Live, NoRow
<1>3. Held' <= Held /\ Held' \in Nat /\ Held \in Nat
  BY <1>2, HeldShrinks
<1>4. uncovered' = uncovered + (used' - used)
  BY DEF Reconcile
<1>5. max \in Nat
  BY ConstantsAssumption
<1>6. used' + Held' <= max + uncovered'
  BY <1>1, <1>3, <1>4, <1>5 DEF Held
<1> QED
  BY <1>6 DEF WithinLimit

LEMMA LimitStep == Safe /\ [Next]_vars => WithinLimit'
<1> SUFFICES ASSUME Safe, [Next]_vars PROVE WithinLimit'
  OBVIOUS
<1>1. TypeOK /\ TypeOK' /\ RowsAreOwned /\ WithinLimit
  BY TypeStep DEF Safe
<1> DEFINE Quiet == /\ used' = used /\ uncovered' = uncovered
                    /\ tokens' = tokens /\ Live' \in SUBSET Live
<1>2. Quiet => WithinLimit'
  BY <1>1, QuietStep
<1> USE DEF quota, past, Goto, Live
<1>3. ASSUME NEW r \in Requests, Verify(r) \/ ReserveUnlimited(r) \/ Refuse(r) \/ SettleFails(r)
      PROVE  WithinLimit'
  BY <1>2, <1>3 DEF Verify, ReserveUnlimited, Refuse, SettleFails
<1>4. ASSUME NEW r \in Requests, Answer(r) PROVE WithinLimit'
  BY <1>2, <1>4 DEF Answer
<1>5. ASSUME NEW r \in Requests, Abandon(r) PROVE WithinLimit'
  BY <1>1, <1>2, <1>5 DEF Abandon, DropRow, TypeOK, NoRow
<1>6. ASSUME NEW i \in Instances, Crash(i) \/ ReadLogs(i) \/ ReconcileFails(i)
      PROVE  WithinLimit'
  BY <1>2, <1>6 DEF Crash, ReadLogs, ReconcileFails
<1>7. CASE ClearLogs \/ Administer
  BY <1>2, <1>7 DEF ClearLogs, Administer
<1>8. CASE Tick
  BY <1>1, <1>2, <1>8 DEF Tick, TypeOK
<1>9. CASE UNCHANGED vars
  BY <1>2, <1>9 DEF vars
<1> QED
  BY <1>1, <1>3, <1>4, <1>5, <1>6, <1>7, <1>8, <1>9,
     ReserveKeepsLimit, SettleKeepsLimit, ReconcileKeepsLimit DEF Safe, Next, Serve

LEMMA AlwaysSafe == Spec => []Safe
<1>1. Safe /\ [Next]_vars => Safe'
  BY TypeStep, RowsStep, LimitStep DEF Safe
<1> QED
  BY <1>1, InitIsSafe, PTL DEF Spec

(* Every value keeps its shape; usage and what is uncovered are never      *)
(* negative.                                                               *)
THEOREM QuotaTypeCorrect == Spec => []TypeOK
  BY AlwaysSafe, PTL DEF Safe

(* However many requests compete for one key, and whatever their estimates *)
(* and lifetimes, usage and live reservations stay within the largest      *)
(* limit plus what was charged beyond a live reservation.                  *)
THEOREM QuotaWithinLimit == Spec => []WithinLimit
  BY AlwaysSafe, PTL DEF Safe

(* A request that ended with its settlement done has no row left.          *)
THEOREM QuotaSettledHoldNothing == Spec => []SettledHoldNothing
<1>1. Safe => SettledHoldNothing
  BY DEF Safe, RowsAreOwned, SettledHoldNothing
<1> QED
  BY <1>1, AlwaysSafe, PTL

-----------------------------------------------------------------------------
(* The log and the charges. A request is owing from the instant it may be  *)
(* in the log to the instant its usage is charged. An instance that has a  *)
(* sum of the log knows of every row but those of requests answered since; *)
(* so its reconciliation charges whatever else was lost.                   *)

Owing == Unsettled \cup uncharged

ChargedOrOwing == Logged <= used + Total(Owing, actual)

SumsAreCurrent ==
    \A i \in Instances : Summing(i) => Logged <= seen[i] + Total(late[i], actual)

(* What the histories hold of each request.                                *)
Recorded ==
    /\ \A r \in uncharged : pc[r] = "lost"
    /\ \A i \in Instances : \A r \in late[i] :
          pc[r] \in {"answered", "unsettled", "lost", "done"}

ChargeInv ==
    /\ Recorded
    /\ key.state # "deleted" => ChargedOrOwing /\ SumsAreCurrent

LEMMA TotalsAreNatural ==
    ASSUME TypeOK
    PROVE  /\ Logged \in Nat /\ used \in Nat
           /\ Owing \in SUBSET Requests /\ Total(Owing, actual) \in Nat
           /\ \A i \in Instances : /\ late[i] \in SUBSET Requests
                                  /\ Total(late[i], actual) \in Nat
                                  /\ seen[i] \in Nat
<1>1. Owing \in SUBSET Requests /\ logs \in SUBSET Requests
  BY DEF TypeOK, Unsettled, Owing
<1>2. \A i \in Instances : late[i] \in SUBSET Requests
  BY DEF TypeOK
<1> QED
  BY <1>1, <1>2, UnitsAreFinite DEF Logged, TypeOK

(* Fewer rows in the log, nothing answered: its sum does not grow.         *)
LEMMA LogShrinks ==
    ASSUME TypeOK, TypeOK', actual' = actual, logs' \in SUBSET logs
    PROVE  Logged' <= Logged /\ Logged' \in Nat
<1>1. logs \in SUBSET Requests /\ logs' \in SUBSET Requests
  BY DEF TypeOK
<1>2. \A r \in logs' : actual[r] \in Nat /\ actual'[r] \in Nat /\ actual'[r] <= actual[r]
  BY <1>1, ConstantsAssumption DEF TypeOK, Usages
<1> QED
  BY <1>1, <1>2, TotalIsMonotone, UnitsAreFinite DEF Logged

(* More requests owe more.                                                 *)
LEMMA MoreIsOwed ==
    ASSUME TypeOK, TypeOK', actual' = actual,
           NEW R \in SUBSET Requests, NEW S \in SUBSET R
    PROVE  /\ Total(S, actual) <= Total(R, actual')
           /\ Total(S, actual) \in Nat /\ Total(R, actual') \in Nat
<1>1. S \in SUBSET Requests
  OBVIOUS
<1>2. \A r \in S : actual[r] \in Nat /\ actual'[r] \in Nat /\ actual[r] <= actual'[r]
  BY <1>1, ConstantsAssumption DEF TypeOK, Usages
<1> QED
  BY <1>1, <1>2, TotalIsMonotone, UnitsAreFinite

(* A step that answers and charges nothing keeps what is charged or owing. *)
LEMMA QuietCharge ==
    ASSUME TypeOK, TypeOK', ChargedOrOwing, actual' = actual,
           logs' \in SUBSET logs, used' >= used, Owing \in SUBSET Owing'
    PROVE  ChargedOrOwing'
<1>1. Logged' <= Logged /\ Logged' \in Nat
  BY LogShrinks
<1>2. Owing' \in SUBSET Requests
  BY DEF Owing, Unsettled, TypeOK
<1>3. Total(Owing, actual) <= Total(Owing', actual') /\ Total(Owing', actual') \in Nat
  BY <1>2, MoreIsOwed
<1>4. /\ Logged \in Nat /\ used \in Nat /\ used' \in Nat
      /\ Total(Owing, actual) \in Nat
  BY TotalsAreNatural DEF TypeOK
<1>5. Logged <= used + Total(Owing, actual)
  BY DEF ChargedOrOwing
<1>6. Logged' <= used' + Total(Owing', actual')
  BY <1>1, <1>3, <1>4, <1>5
<1> QED
  BY <1>6 DEF ChargedOrOwing

(* A step that answers nothing and starts no sum keeps the sums current.   *)
LEMMA QuietSums ==
    ASSUME TypeOK, TypeOK', SumsAreCurrent, actual' = actual, logs' \in SUBSET logs,
           \A i \in Instances :
               Summing(i)' => Summing(i) /\ seen'[i] = seen[i] /\ late'[i] = late[i]
    PROVE  SumsAreCurrent'
<1> SUFFICES ASSUME NEW i \in Instances, Summing(i)'
             PROVE  Logged' <= seen'[i] + Total(late'[i], actual')
  BY DEF SumsAreCurrent
<1>1. Logged' <= Logged /\ Logged' \in Nat
  BY LogShrinks
<1>2. Logged <= seen[i] + Total(late[i], actual)
  BY DEF SumsAreCurrent
<1>3. /\ Logged \in Nat /\ seen[i] \in Nat /\ Total(late[i], actual) \in Nat
  BY TotalsAreNatural
<1>4. Logged' <= seen[i] + Total(late[i], actual)
  BY <1>1, <1>2, <1>3
<1> QED
  BY <1>4

(* What an answer adds to a set of requests.                               *)
LEMMA AnswerAdds ==
    ASSUME TypeOK, TypeOK', NEW r \in Requests, Answer(r),
           NEW R \in SUBSET Requests, r \notin R
    PROVE  /\ Total(R \cup {r}, actual') = Total(R, actual) + actual'[r]
           /\ Total(R, actual) \in Nat /\ actual'[r] \in Nat
<1> USE DEF TypeOK
<1>1. actual'[r] \in 0 .. Bound
  BY DEF Usages, Bound
<1>2. \A q \in R : actual'[q] = actual[q]
  BY DEF Answer
<1>3. Total(R \cup {r}, actual') = Total(R, actual) + actual'[r]
  BY <1>1, <1>2, TotalAdds
<1>4. actual'[r] \in Nat
  BY <1>1, ConstantsAssumption DEF Bound
<1> QED
  BY <1>3, <1>4, UnitsAreFinite

(* The log gains at most the usage of the request that is answered.        *)
LEMMA AnswerIsLogged ==
    ASSUME TypeOK, TypeOK', NEW r \in Requests, Answer(r)
    PROVE  Logged' <= Logged + actual'[r] /\ Logged' \in Nat
<1> USE DEF TypeOK
<1> DEFINE Others == logs \ {r}
<1>1. Others \in SUBSET Requests /\ r \notin Others
  OBVIOUS
<1>2. Total(Others, actual) <= Total(logs, actual)
  <2>1. \A q \in Others : actual[q] \in Nat /\ actual[q] <= actual[q]
    BY ConstantsAssumption DEF Usages
  <2> QED
    BY <2>1, TotalIsMonotone
<1>3. /\ Total(Others \cup {r}, actual') = Total(Others, actual) + actual'[r]
      /\ Total(Others, actual) \in Nat /\ actual'[r] \in Nat
  <2> HIDE DEF Others
  <2> QED
    BY <1>1, AnswerAdds
<1>4. Total(logs', actual') <= Total(Others \cup {r}, actual')
  <2>1. logs' \in SUBSET (Others \cup {r}) /\ Others \cup {r} \in SUBSET Requests
    BY DEF Answer
  <2>2. \A q \in logs' : actual'[q] \in Nat /\ actual'[q] <= actual'[q]
    BY ConstantsAssumption DEF Usages
  <2> QED
    BY <2>1, <2>2, TotalIsMonotone
<1>5. /\ Total(logs, actual) \in Nat /\ Total(logs', actual') \in Nat
  BY UnitsAreFinite
<1>6. Total(logs', actual') <= Total(logs, actual) + actual'[r]
  <2> HIDE DEF Others
  <2> QED
    BY <1>2, <1>3, <1>4, <1>5
<1> QED
  BY <1>5, <1>6 DEF Logged

LEMMA AnswerKeepsCharge ==
    ASSUME TypeOK, TypeOK', Recorded, ChargedOrOwing, SumsAreCurrent,
           NEW r \in Requests, Answer(r)
    PROVE  ChargedOrOwing' /\ SumsAreCurrent'
<1> USE DEF TypeOK
<1>1. /\ r \notin Owing /\ Owing' = Owing \cup {r}
      /\ Owing \in SUBSET Requests
  BY DEF Answer, Goto, Owing, Unsettled, Recorded
<1>2. /\ Total(Owing \cup {r}, actual') = Total(Owing, actual) + actual'[r]
      /\ Total(Owing, actual) \in Nat /\ actual'[r] \in Nat
  BY <1>1, AnswerAdds
<1>3. Logged' <= Logged + actual'[r] /\ Logged' \in Nat /\ Logged \in Nat
  BY AnswerIsLogged, TotalsAreNatural
<1>4. used' = used /\ used \in Nat /\ seen' = seen /\ boot' = boot
  BY DEF Answer
<1>5. ChargedOrOwing'
  <2>1. Logged <= used + Total(Owing, actual)
    BY DEF ChargedOrOwing
  <2>2. Logged' <= used + (Total(Owing, actual) + actual'[r])
    BY <1>2, <1>3, <1>4, <2>1
  <2> QED
    BY <1>1, <1>2, <1>4, <2>2 DEF ChargedOrOwing
<1>6. ASSUME NEW i \in Instances, Summing(i)'
      PROVE  Logged' <= seen'[i] + Total(late'[i], actual')
  <2>1. Summing(i) /\ late'[i] = late[i] \cup {r}
    BY <1>4, <1>6 DEF Answer, Summing
  <2>2. late[i] \in SUBSET Requests /\ r \notin late[i]
    BY DEF Recorded, Answer
  <2>3. /\ Total(late[i] \cup {r}, actual') = Total(late[i], actual) + actual'[r]
        /\ Total(late[i], actual) \in Nat
    BY <2>2, AnswerAdds
  <2>4. Logged <= seen[i] + Total(late[i], actual) /\ seen[i] \in Nat
    BY <2>1 DEF SumsAreCurrent
  <2>5. Logged' <= seen[i] + (Total(late[i], actual) + actual'[r])
    BY <1>2, <1>3, <2>3, <2>4
  <2> QED
    BY <1>4, <2>1, <2>3, <2>5
<1> QED
  BY <1>5, <1>6 DEF SumsAreCurrent

(* What stops waiting is charged.                                          *)
LEMMA SettleKeepsCharge ==
    ASSUME TypeOK, TypeOK', Recorded, ChargedOrOwing, NEW r \in Requests, Settle(r),
           key.state # "deleted"
    PROVE  ChargedOrOwing'
<1> USE DEF TypeOK
<1>1. /\ r \notin Owing' /\ Owing = Owing' \cup {r}
      /\ Owing' \in SUBSET Requests
  BY DEF Settle, Goto, Owing, Unsettled, Recorded
<1>2. actual[r] \in 0 .. Bound
  BY DEF Usages, Bound
<1>3. actual' = actual /\ logs' = logs /\ used' = used + actual[r]
  BY DEF Settle
<1>4. Total(Owing' \cup {r}, actual) = Total(Owing', actual') + actual[r]
  BY <1>1, <1>2, <1>3, TotalAdds
<1>5. Total(logs, actual) \in Nat /\ Total(Owing', actual') \in Nat
  BY <1>1, <1>3, UnitsAreFinite
<1>6. Total(Owing, actual) = Total(Owing', actual') + actual[r]
  BY <1>1, <1>4
<1>7. Total(logs', actual') = Total(logs, actual)
  BY <1>3
<1>8. actual[r] \in Nat /\ used \in Nat
  BY <1>2, ConstantsAssumption DEF Bound
<1>9. Total(logs, actual) <= used + Total(Owing, actual)
  BY DEF ChargedOrOwing, Logged
<1>10. Total(logs', actual') <= used' + Total(Owing', actual')
  BY <1>3, <1>5, <1>6, <1>7, <1>8, <1>9
<1> QED
  BY <1>10 DEF ChargedOrOwing, Logged

(* A reconciliation charges what its sum has found; what it has not found  *)
(* is owing still, or a lost charge may hide and nothing is taken for      *)
(* charged.                                                                *)
LEMMA ReconcileKeepsCharge ==
    ASSUME TypeOK, TypeOK', ChargedOrOwing, SumsAreCurrent,
           NEW i \in Instances, Reconcile(i), key.state # "deleted"
    PROVE  ChargedOrOwing'
<1>1. actual' = actual /\ logs' = logs /\ pc' = pc
  BY DEF Reconcile
<1>2. used' >= used /\ used' >= seen[i] /\ used' \in Nat
  BY DEF Reconcile, Corrected, MaxOf, TypeOK
<1>3. CASE late[i] \subseteq Unsettled \cup uncharged
  <2>1. late[i] \in SUBSET Owing' /\ Owing' \in SUBSET Requests
    BY <1>1, <1>3 DEF Reconcile, StillUncharged, Owing, Unsettled, TypeOK
  <2>2. /\ Total(late[i], actual) <= Total(Owing', actual')
        /\ Total(late[i], actual) \in Nat /\ Total(Owing', actual') \in Nat
    BY <1>1, <2>1, MoreIsOwed
  <2>3. Logged <= seen[i] + Total(late[i], actual)
    BY DEF SumsAreCurrent, Reconcile
  <2>4. Logged' = Logged /\ Logged \in Nat /\ seen[i] \in Nat
    BY <1>1, TotalsAreNatural DEF Logged
  <2>5. Logged' <= used' + Total(Owing', actual')
    BY <1>2, <2>2, <2>3, <2>4
  <2> QED
    BY <2>5 DEF ChargedOrOwing
<1>4. CASE ~(late[i] \subseteq Unsettled \cup uncharged)
  <2>1. Owing' = Owing
    BY <1>1, <1>4 DEF Reconcile, StillUncharged, Owing, Unsettled
  <2> QED
    BY <1>1, <1>2, <2>1, QuietCharge
<1> QED
  BY <1>3, <1>4

(* The histories stay right: a lost request does nothing any more, and one *)
(* that was answered is not answered again.                                *)
LEMMA RecordedStep == TypeOK /\ Recorded /\ [Next]_vars => Recorded'
<1> SUFFICES ASSUME TypeOK, Recorded, [Next]_vars PROVE Recorded'
  OBVIOUS
<1> USE DEF TypeOK, Recorded, quota, past, Goto
<1>1. ASSUME NEW r \in Requests, Verify(r) \/ ReserveUnlimited(r) \/ Reserve(r) \/ Refuse(r)
      PROVE  Recorded'
  BY <1>1 DEF Verify, ReserveUnlimited, Reserve, Refuse
<1>2. ASSUME NEW r \in Requests, Answer(r) PROVE Recorded'
  BY <1>2 DEF Answer
<1>3. ASSUME NEW r \in Requests, Settle(r) \/ SettleFails(r) \/ Abandon(r)
      PROVE  Recorded'
  BY <1>3 DEF Settle, SettleFails, Abandon
<1>4. ASSUME NEW i \in Instances, Crash(i) PROVE Recorded'
  BY <1>4 DEF Crash, Unsettled
<1>5. ASSUME NEW i \in Instances, ReadLogs(i) \/ Reconcile(i) \/ ReconcileFails(i)
      PROVE  Recorded'
  BY <1>5 DEF ReadLogs, Reconcile, ReconcileFails, StillUncharged
<1>6. CASE ClearLogs \/ Administer \/ Tick \/ UNCHANGED vars
  BY <1>6 DEF ClearLogs, Administer, Tick, vars
<1> QED
  BY <1>1, <1>2, <1>3, <1>4, <1>5, <1>6 DEF Next, Serve

LEMMA ChargeStep == TypeOK /\ TypeOK' /\ ChargeInv /\ [Next]_vars => ChargeInv'
<1> SUFFICES ASSUME TypeOK, TypeOK', ChargeInv, [Next]_vars, key'.state # "deleted"
             PROVE  ChargedOrOwing' /\ SumsAreCurrent'
  BY RecordedStep DEF ChargeInv
<1>1. key.state # "deleted"
  BY DEF Next, Serve, Verify, ReserveUnlimited, Reserve, Refuse, Answer, Settle,
         SettleFails, Abandon, Crash, ReadLogs, Reconcile, ReconcileFails, ClearLogs,
         Administer, Tick, vars, quota
<1>2. Recorded /\ ChargedOrOwing /\ SumsAreCurrent
  BY <1>1 DEF ChargeInv
<1> DEFINE SameSums ==
        /\ actual' = actual /\ logs' \in SUBSET logs
        /\ \A i \in Instances :
              Summing(i)' => Summing(i) /\ seen'[i] = seen[i] /\ late'[i] = late[i]
    SameCharge == used' >= used /\ Owing \in SUBSET Owing'
<1>3. SameSums => SumsAreCurrent'
  BY <1>2, QuietSums
<1>4. SameSums /\ SameCharge => ChargedOrOwing' /\ SumsAreCurrent'
  BY <1>2, <1>3, QuietCharge
<1> USE DEF TypeOK, quota, past, Goto, Summing
<1>5. ASSUME NEW r \in Requests,
             Verify(r) \/ ReserveUnlimited(r) \/ Reserve(r) \/ Refuse(r)
      PROVE  SameSums /\ SameCharge
  BY <1>5 DEF Verify, ReserveUnlimited, Reserve, Refuse, Unsettled, Owing
<1>6. ASSUME NEW r \in Requests, SettleFails(r) \/ Abandon(r)
      PROVE  SameSums /\ SameCharge
  BY <1>6 DEF SettleFails, Abandon, Unsettled, Owing
<1>7. ASSUME NEW r \in Requests, Settle(r) PROVE ChargedOrOwing' /\ SumsAreCurrent'
  <2>1. SameSums
    BY <1>7 DEF Settle
  <2> QED
    BY <1>1, <1>2, <1>3, <1>7, <2>1, SettleKeepsCharge
<1>8. ASSUME NEW i \in Instances, Crash(i) PROVE SameSums /\ SameCharge
  BY <1>8 DEF Crash, Unsettled, Owing
<1>9. ASSUME NEW i \in Instances, ReadLogs(i) PROVE ChargedOrOwing' /\ SumsAreCurrent'
  <2>1. actual' = actual /\ logs' = logs /\ used' = used /\ Owing' = Owing
    BY <1>9 DEF ReadLogs, Unsettled, Owing
  <2>2. Logged' = Logged /\ Logged \in Nat
    BY <2>1, TotalsAreNatural DEF Logged
  <2>3. ASSUME NEW j \in Instances, Summing(j)'
        PROVE  Logged' <= seen'[j] + Total(late'[j], actual')
    <3>1. CASE j = i
      <4>1. seen'[j] = Logged /\ late'[j] = {}
        BY <1>9, <3>1 DEF ReadLogs
      <4>2. Total({}, actual') \in Nat
        BY UnitsAreFinite
      <4> QED
        BY <2>2, <4>1, <4>2
    <3>2. CASE j # i
      <4>1. Summing(j) /\ seen'[j] = seen[j] /\ late'[j] = late[j]
        BY <1>9, <2>3, <3>2 DEF ReadLogs
      <4> QED
        BY <1>2, <2>1, <2>2, <4>1 DEF SumsAreCurrent
    <3> QED
      BY <3>1, <3>2
  <2> QED
    BY <1>2, <2>1, <2>3, QuietCharge DEF SumsAreCurrent
<1>10. ASSUME NEW i \in Instances, Reconcile(i)
       PROVE  ChargedOrOwing' /\ SumsAreCurrent'
  <2>1. SameSums
    BY <1>10 DEF Reconcile
  <2> QED
    BY <1>1, <1>2, <1>3, <1>10, <2>1, ReconcileKeepsCharge
<1>11. ASSUME NEW i \in Instances, ReconcileFails(i) PROVE SameSums /\ SameCharge
  BY <1>11 DEF ReconcileFails, Unsettled, Owing
<1>12. CASE ClearLogs \/ Administer \/ Tick \/ UNCHANGED vars
  <2>1. /\ actual' = actual /\ logs' \in SUBSET logs /\ used' = used /\ pc' = pc
        /\ boot' = boot /\ seen' = seen /\ late' = late /\ uncharged' = uncharged
    BY <1>12 DEF ClearLogs, Administer, Tick, vars
  <2> QED
    BY <1>4, <2>1 DEF Unsettled, Owing
<1> QED
  BY <1>2, <1>4, <1>5, <1>6, <1>7, <1>8, <1>9, <1>10, <1>11, <1>12,
     AnswerKeepsCharge
  DEF Next, Serve

(* Whatever crashes, fails to settle, fails to be reconciled or is cleared *)
(* from the log, on any number of instances: the log shows no more than    *)
(* what the key is charged, is about to be charged, or lost in a crash     *)
(* since the last reconciliation that could tell.                          *)
THEOREM QuotaLogIsCharged == Spec => []LogIsCharged
<1>1. Init => ChargeInv
  <2> SUFFICES ASSUME Init PROVE ChargeInv
    OBVIOUS
  <2>1. Recorded
    BY DEF Init, Recorded
  <2>2. \A i \in Instances : ~Summing(i)
    BY DEF Init, Summing
  <2>3. Logged = 0 /\ used = 0
    <3>1. Units({}, actual) = {}
      BY DEF Units
    <3> QED
      BY <3>1, FS_EmptySet DEF Init, Logged, Total
  <2>4. Total(Owing, actual) \in Nat
    BY InitIsSafe, TotalsAreNatural DEF Safe
  <2> QED
    BY <2>1, <2>2, <2>3, <2>4 DEF ChargeInv, ChargedOrOwing, SumsAreCurrent
<1>2. TypeOK /\ TypeOK' /\ ChargeInv /\ [Next]_vars => ChargeInv'
  BY ChargeStep
<1>3. ChargeInv => LogIsCharged
  BY DEF ChargeInv, LogIsCharged, ChargedOrOwing, Owing
<1> QED
  BY <1>1, <1>2, <1>3, QuotaTypeCorrect, PTL DEF Spec
=============================================================================
