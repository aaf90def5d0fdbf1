--------------------------- MODULE RoutingProofs ---------------------------
(***************************************************************************)
(* What is proved of a request's way to an account: the gate that admits   *)
(* it (RequestGate), the quota rows that decide which accounts are blocked *)
(* (QuotaWindows), and the choice of one of those left (Routing).          *)
(***************************************************************************)
EXTENDS RequestGate, QuotaWindows, Routing, FiniteSetTheorems, WellFoundedInduction, TLAPS

-----------------------------------------------------------------------------
(* The gate is safe for any number of goroutines and any capacities.       *)
(*                                                                         *)
(* The four invariants are inductive together: the count of the holders    *)
(* ties inFlight to the requests, and with it the guard of TakeSlot bounds *)
(* the holders of every smaller capacity; a release wakes every listener.  *)

Safe == TypeOK /\ SlotsAreOwned /\ WithinCapacity /\ NoLostWakeUp

(* The holders that were admitted under a capacity of at most max.         *)
HoldersWithin(max) == {r \in Holders : capacity[r] <= max}

(* Subsets of the requests can be counted.                                 *)
LEMMA HoldersAreCountable ==
    ASSUME NEW max
    PROVE  /\ IsFiniteSet(Holders) /\ Cardinality(Holders) \in Nat
           /\ IsFiniteSet(HoldersWithin(max))
           /\ Cardinality(HoldersWithin(max)) \in Nat
           /\ Cardinality(HoldersWithin(max)) <= Cardinality(Holders)
<1>1. Holders \in SUBSET Requests
  BY DEF Holders
<1>2. IsFiniteSet(Holders)
  BY <1>1, FS_Subset, RequestsAssumption
<1>3. HoldersWithin(max) \in SUBSET Holders
  BY DEF HoldersWithin
<1> QED
  BY <1>2, <1>3, FS_Subset, FS_CardinalityType

(* A step that leaves the holders and their capacities alone keeps what is *)
(* said of them.                                                           *)
LEMMA SameHolders ==
    ASSUME TypeOK, SlotsAreOwned, WithinCapacity,
           Holders' = Holders, inFlight' = inFlight,
           \A h \in Holders : capacity'[h] = capacity[h]
    PROVE  SlotsAreOwned' /\ WithinCapacity'
<1>1. SlotsAreOwned'
  BY DEF SlotsAreOwned
<1>2. \A max : HoldersWithin(max)' = HoldersWithin(max)
  BY DEF HoldersWithin
<1> QED
  BY <1>1, <1>2 DEF WithinCapacity, HoldersWithin

LEMMA InitIsSafe == Init => Safe
<1> SUFFICES ASSUME Init PROVE Safe
  OBVIOUS
<1>1. TypeOK
  BY DEF Init, TypeOK, Stages
<1>2. Holders = {}
  BY DEF Init, Holders
<1>3. \A max : HoldersWithin(max) = {}
  BY <1>2 DEF HoldersWithin
<1>4. SlotsAreOwned
  BY <1>2, FS_EmptySet DEF SlotsAreOwned, Init
<1>5. WithinCapacity
  BY <1>3, FS_EmptySet, CapacityAssumption DEF WithinCapacity, HoldersWithin
<1>6. NoLostWakeUp
  BY DEF Init, NoLostWakeUp, Listening
<1> QED
  BY <1>1, <1>4, <1>5, <1>6 DEF Safe

(* Admission: the new holder is counted once, and for every max at least   *)
(* its own capacity the gate was below max.                                *)
LEMMA TakeSlotIsSafe ==
    ASSUME Safe, NEW r \in Requests, TakeSlot(r)
    PROVE  Safe'
<1> USE DEF Safe
<1>1. TypeOK'
  BY DEF TypeOK, TakeSlot, Goto, Stages
<1>2. Holders' = Holders \cup {r} /\ r \notin Holders
  BY DEF Holders, TakeSlot, Goto, TypeOK
<1>3. SlotsAreOwned'
  BY <1>2, HoldersAreCountable, FS_AddElement DEF SlotsAreOwned, TakeSlot
<1>4. ASSUME NEW max \in Capacities
      PROVE  Cardinality(HoldersWithin(max)') <= max
  <2>1. max \in Nat /\ capacity[r] \in Nat
    BY CapacityAssumption DEF TypeOK
  <2>2. CASE capacity[r] <= max
    <3>1. HoldersWithin(max)' = HoldersWithin(max) \cup {r}
      BY <1>2, <2>2 DEF HoldersWithin, TakeSlot
    <3>2. /\ IsFiniteSet(HoldersWithin(max))
          /\ Cardinality(HoldersWithin(max)) \in Nat
          /\ Cardinality(HoldersWithin(max)) <= inFlight
      BY HoldersAreCountable DEF SlotsAreOwned
    <3>3. \/ Cardinality(HoldersWithin(max)') = Cardinality(HoldersWithin(max))
          \/ Cardinality(HoldersWithin(max)') = Cardinality(HoldersWithin(max)) + 1
      BY <3>1, <3>2, FS_AddElement
    <3>4. inFlight + 1 <= capacity[r]
      BY <2>1 DEF TakeSlot, TypeOK
    <3> QED
      BY <2>1, <2>2, <3>2, <3>3, <3>4 DEF TypeOK
  <2>3. CASE ~(capacity[r] <= max)
    <3>1. HoldersWithin(max)' = HoldersWithin(max)
      BY <1>2, <2>3 DEF HoldersWithin, TakeSlot
    <3> QED
      BY <3>1 DEF WithinCapacity, HoldersWithin
  <2> QED
    BY <2>2, <2>3
<1>5. WithinCapacity'
  BY <1>4 DEF WithinCapacity, HoldersWithin
<1>6. NoLostWakeUp'
  <2> SUFFICES ASSUME NEW q \in Listening', ~closed'[q]
               PROVE  inFlight' >= capacity'[q]
    BY DEF NoLostWakeUp
  <2>1. q \in Listening /\ q \in Requests
    BY DEF Listening, TakeSlot, Goto, TypeOK
  <2>2. inFlight >= capacity[q] /\ capacity[q] \in Nat
    BY <2>1, CapacityAssumption DEF NoLostWakeUp, TakeSlot, TypeOK
  <2> QED
    BY <2>2 DEF TakeSlot, TypeOK
<1> QED
  BY <1>1, <1>3, <1>5, <1>6

(* A release: one holder less, and every listener finds its channel closed.*)
LEMMA ReleaseIsSafe ==
    ASSUME Safe, NEW r \in Requests, Release(r)
    PROVE  Safe'
<1> USE DEF Safe
<1>1. Holders' = Holders \ {r} /\ r \in Holders
  BY DEF Holders, Release, Goto, TypeOK
<1>2. SlotsAreOwned' /\ TypeOK'
  <2>1. Cardinality(Holders') = Cardinality(Holders) - 1
    BY <1>1, HoldersAreCountable, FS_RemoveElement
  <2>2. inFlight > 0
    <3>1. Holders # {}
      BY <1>1
    <3> QED
      BY <3>1, HoldersAreCountable, FS_EmptySet DEF SlotsAreOwned, TypeOK
  <2>3. inFlight' = inFlight - 1
    BY <2>2 DEF Release
  <2>4. TypeOK'
    BY <2>2, <2>3 DEF TypeOK, Release, Goto, Stages
  <2> QED
    BY <2>1, <2>3, <2>4 DEF SlotsAreOwned
<1>3. ASSUME NEW max \in Capacities
      PROVE  Cardinality(HoldersWithin(max)') <= max
  <2>1. HoldersWithin(max)' \in SUBSET HoldersWithin(max)
    BY <1>1 DEF HoldersWithin, Release
  <2>2. /\ Cardinality(HoldersWithin(max)') <= Cardinality(HoldersWithin(max))
        /\ Cardinality(HoldersWithin(max)) \in Nat
        /\ Cardinality(HoldersWithin(max)') \in Nat
    BY <2>1, HoldersAreCountable, FS_Subset, FS_CardinalityType
  <2>3. Cardinality(HoldersWithin(max)) <= max
    BY DEF WithinCapacity, HoldersWithin
  <2> QED
    BY <2>2, <2>3, CapacityAssumption
<1>4. WithinCapacity'
  BY <1>3 DEF WithinCapacity, HoldersWithin
<1>5. NoLostWakeUp'
  BY DEF NoLostWakeUp, Listening, Release, Goto, TypeOK
<1> QED
  BY <1>2, <1>4, <1>5

(* Every other step leaves the holders and the counter alone.              *)
LEMMA StepIsSafe == Safe /\ [Next]_vars => Safe'
<1> SUFFICES ASSUME Safe, [Next]_vars PROVE Safe'
  OBVIOUS
<1> USE DEF Safe
<1>1. ASSUME NEW r \in Requests, Arrive(r) PROVE Safe'
  <2>1. TypeOK'
    BY <1>1 DEF TypeOK, Arrive, Goto, Stages
  <2>2. Holders' = Holders /\ r \notin Holders
    BY <1>1 DEF Holders, Arrive, Goto, TypeOK
  <2>3. \A h \in Holders : capacity'[h] = capacity[h]
    BY <1>1, <2>2 DEF Arrive, Holders, TypeOK
  <2>4. SlotsAreOwned' /\ WithinCapacity'
    BY <1>1, <2>2, <2>3, SameHolders DEF Arrive
  <2>5. NoLostWakeUp'
    BY <1>1 DEF NoLostWakeUp, Listening, Arrive, Goto, TypeOK
  <2> QED
    BY <2>1, <2>4, <2>5
<1>2. ASSUME NEW r \in Requests, TakeChannel(r) PROVE Safe'
  <2>1. TypeOK'
    BY <1>2 DEF TypeOK, TakeChannel, Goto, Stages
  <2>2. Holders' = Holders
    BY <1>2 DEF Holders, TakeChannel, Goto, TypeOK
  <2>3. SlotsAreOwned' /\ WithinCapacity'
    BY <1>2, <2>2, SameHolders DEF TakeChannel
  <2>4. NoLostWakeUp'
    BY <1>2 DEF NoLostWakeUp, Listening, TakeChannel, Goto, TypeOK
  <2> QED
    BY <2>1, <2>3, <2>4
<1>3. ASSUME NEW r \in Requests, DecideToWait(r) \/ GiveUp(r) \/ WakeUp(r)
      PROVE  Safe'
  <2> USE DEF DecideToWait, GiveUp, WakeUp, Goto
  <2>1. TypeOK'
    BY <1>3 DEF TypeOK, Stages
  <2>2. Holders' = Holders
    BY <1>3 DEF Holders, TypeOK
  <2>3. SlotsAreOwned' /\ WithinCapacity'
    BY <1>3, <2>2, SameHolders
  <2>4. NoLostWakeUp'
    BY <1>3 DEF NoLostWakeUp, Listening, TypeOK
  <2> QED
    BY <2>1, <2>3, <2>4
<1>4. ASSUME NEW r \in Requests, Expire(r) \/ Disconnect(r) PROVE Safe'
  <2>1. TypeOK'
    BY <1>4 DEF TypeOK, Expire, Disconnect
  <2>2. Holders' = Holders
    BY <1>4 DEF Holders, Expire, Disconnect
  <2>3. SlotsAreOwned' /\ WithinCapacity'
    BY <1>4, <2>2, SameHolders DEF Expire, Disconnect
  <2>4. NoLostWakeUp'
    BY <1>4 DEF NoLostWakeUp, Listening, Expire, Disconnect
  <2> QED
    BY <2>1, <2>3, <2>4
<1>5. CASE UNCHANGED vars
  <2>1. TypeOK' /\ Holders' = Holders
    BY <1>5 DEF vars, TypeOK, Holders
  <2>2. SlotsAreOwned' /\ WithinCapacity'
    BY <1>5, <2>1, SameHolders DEF vars
  <2>3. NoLostWakeUp'
    BY <1>5 DEF vars, NoLostWakeUp, Listening
  <2> QED
    BY <2>1, <2>2, <2>3
<1> QED
  BY <1>1, <1>2, <1>3, <1>4, <1>5, TakeSlotIsSafe, ReleaseIsSafe
     DEF Next, Proceed

LEMMA AlwaysSafe == Spec => []Safe
  BY InitIsSafe, StepIsSafe, PTL DEF Spec

(* The counter of requests in flight is a natural number.                  *)
THEOREM GateTypeCorrect == Spec => []TypeOK
  BY AlwaysSafe, PTL DEF Safe

(* For any number of requests no slot leaks or is given back twice.        *)
THEOREM GateSlotsAreOwned == Spec => []SlotsAreOwned
  BY AlwaysSafe, PTL DEF Safe

(* For any set of configured capacities the requests admitted under at     *)
(* most max of them are never more than max.                               *)
THEOREM GateWithinCapacity == Spec => []WithinCapacity
  BY AlwaysSafe, PTL DEF Safe

(* No release is missed between the look at the counter and the select.    *)
THEOREM GateNoLostWakeUp == Spec => []NoLostWakeUp
  BY AlwaysSafe, PTL DEF Safe
-----------------------------------------------------------------------------
(* The quota rows.                                                         *)

(* A set of numbers has a least one.                                       *)
LEMMA LeastExists ==
    ASSUME NEW S \in SUBSET Nat, S # {}
    PROVE  Min(S) \in S /\ \A n \in S : Min(S) <= n
<1> DEFINE Less == OpToRel(<, Nat)
<1>1. IsWellFoundedOn(Less, Nat)
  BY NatLessThanWellFounded
<1>2. \A m, n \in Nat : m < n => <<m, n>> \in Less
  BY DEF OpToRel
<1> HIDE DEF Less
<1>3. PICK least \in S : \A n \in S : ~(<<n, least>> \in Less)
  BY <1>1, WFMin
<1>4. ASSUME NEW n \in S PROVE least <= n
  <2>1. n \in Nat /\ least \in Nat
    OBVIOUS
  <2>2. ~(n < least)
    BY <1>2, <1>3, <2>1, Zenon
  <2> QED
    BY <2>1, <2>2
<1> QED
  BY <1>4 DEF Min

Calls == [source : {"wham", "sample"}, answer : Limits, todo : SUBSET Windows,
          found : 0 .. MaxRows]

QuotaRows == [window : Windows, source : {"wham", "sample"}, answer : Limits,
              reset : {"known", "none", "past"}, fresh : BOOLEAN]

TableTyped ==
    /\ DOMAIN rows \subseteq 1 .. MaxRows
    /\ \A i \in DOMAIN rows : rows[i] \in QuotaRows

WritersTyped ==
    /\ step \in [Writers -> {"idle", "finding", "writing", "reconciling"}]
    /\ work \in [Writers -> {<<>>} \cup Calls]
    /\ \A p \in Writers : step[p] # "idle" => work[p] \in Calls

(* Whatever happens to the table after a writer has found a row, the row   *)
(* is still of the source it was looked for, or gone: an id that is held   *)
(* is not given out again, and an update keeps the source.                 *)
HeldRowsKeepSource ==
    \A p \in Writers : step[p] # "idle" /\ work[p].found \in DOMAIN rows =>
        rows[work[p].found].source = work[p].source

WindowsInv == TableTyped /\ WritersTyped /\ HeldRowsKeepSource

USE LimitsAssumption, ResetsAssumption, MaxRowsAssumption

(* What Upsert finds has the source it looks for.                          *)
LEMMA FirstHasSource ==
    ASSUME TableTyped, NEW s, NEW w
    PROVE  /\ First(s, w) \in 0 .. MaxRows
           /\ First(s, w) \in DOMAIN rows => rows[First(s, w)].source = s
<1> DEFINE found == {i \in DOMAIN rows : rows[i].window = w /\ rows[i].source = s}
<1>1. CASE found = {}
  BY <1>1 DEF First, NoRow, TableTyped
<1>2. CASE found # {}
  <2>1. found \in SUBSET Nat
    BY DEF TableTyped
  <2>2. Min(found) \in found
    BY <1>2, <2>1, LeastExists
  <2>3. First(s, w) = Min(found)
    BY <1>2 DEF First
  <2> QED
    BY <2>2, <2>3 DEF TableTyped
<1> QED
  BY <1>1, <1>2

LEMMA InputIsTyped ==
    ASSUME NEW p \in Writers, work[p] \in Calls, NEW reset \in Resets
    PROVE  /\ Input(p, reset) \in QuotaRows
           /\ Input(p, reset).source = work[p].source
BY DEF Input, Calls, Current, FirstOf, Windows, QuotaRows

(* The rows that a write leaves: one is of the writer's source and was so  *)
(* or is new, the others are as they were.                                 *)
WrittenAt(i, p) ==
    /\ \A j \in DOMAIN rows' : j # i => j \in DOMAIN rows /\ rows'[j] = rows[j]
    /\ i \in DOMAIN rows' => rows'[i].source = work[p].source
    /\ \/ /\ DOMAIN rows' = DOMAIN rows
          /\ i \in DOMAIN rows => rows[i].source = work[p].source
       \/ i \in FreeIds /\ DOMAIN rows' = DOMAIN rows \cup {i}

LEMMA RowIsWritten ==
    ASSUME WindowsInv, NEW p \in Writers, WriteRow(p)
    PROVE  TableTyped' /\ \E i : WrittenAt(i, p)
<1>1. work[p] \in Calls /\ step[p] # "idle"
  BY DEF WindowsInv, WritersTyped, WriteRow
<1>2. PICK reset \in Resets :
        IF work[p].found = NoRow
        THEN \E new \in FreeIds : rows' = [i \in DOMAIN rows \cup {new} |->
                                          IF i = new THEN Input(p, reset) ELSE rows[i]]
        ELSE rows' = [i \in DOMAIN rows |->
                        IF i = work[p].found THEN Input(p, reset) ELSE rows[i]]
  BY DEF WriteRow
<1>3. CASE work[p].found = NoRow
  <2>1. PICK new \in FreeIds : rows' = [i \in DOMAIN rows \cup {new} |->
                                          IF i = new THEN Input(p, reset) ELSE rows[i]]
    BY <1>2, <1>3
  <2>2. new \in 1 .. MaxRows
    BY DEF FreeIds
  <2>3. TableTyped'
    BY <1>1, <2>1, <2>2, InputIsTyped DEF WindowsInv, TableTyped
  <2>4. WrittenAt(new, p)
    BY <1>1, <2>1, InputIsTyped DEF WrittenAt
  <2> QED
    BY <2>3, <2>4
<1>4. CASE work[p].found # NoRow
  <2>1. rows' = [i \in DOMAIN rows |-> IF i = work[p].found THEN Input(p, reset) ELSE rows[i]]
    BY <1>2, <1>4
  <2>2. TableTyped'
    BY <1>1, <2>1, InputIsTyped DEF WindowsInv, TableTyped
  <2>3. work[p].found \in DOMAIN rows => rows[work[p].found].source = work[p].source
    BY <1>1 DEF WindowsInv, HeldRowsKeepSource
  <2>4. \A j \in DOMAIN rows' : j # work[p].found => j \in DOMAIN rows /\ rows'[j] = rows[j]
    BY <2>1
  <2>5. work[p].found \in DOMAIN rows' => rows'[work[p].found].source = work[p].source
    BY <1>1, <2>1, InputIsTyped
  <2>6. WrittenAt(work[p].found, p)
    BY <2>1, <2>3, <2>4, <2>5 DEF WrittenAt
  <2> QED
    BY <2>2, <2>6
<1> QED
  BY <1>3, <1>4

LEMMA WriteKeepsWindows ==
    ASSUME WindowsInv, NEW p \in Writers, WriteRow(p)
    PROVE  WindowsInv'
<1>1. work[p] \in Calls /\ step[p] # "idle"
  BY DEF WindowsInv, WritersTyped, WriteRow
<1>2. /\ WritersTyped'
      /\ step'[p] # "idle" => work'[p].found = NoRow
      /\ \A q \in Writers \ {p} : step'[q] = step[q] /\ work'[q] = work[q]
  <2> DEFINE left == work[p].todo \ {Current(p)}
             Next1 == [work[p] EXCEPT !.todo = left, !.found = NoRow]
             Last1 == [work[p] EXCEPT !.todo = {}, !.found = NoRow]
  <2>1. Next1 \in Calls /\ Last1 \in Calls /\ Next1.found = NoRow /\ Last1.found = NoRow
    <3>1. /\ left \in SUBSET Windows /\ {} \in SUBSET Windows
          /\ NoRow \in 0 .. MaxRows
      BY <1>1 DEF Calls, NoRow
    <3> HIDE DEF left
    <3> QED
      BY <1>1, <3>1 DEF Calls
  <2>2. \/ step' = [step EXCEPT ![p] = "finding"] /\ work' = [work EXCEPT ![p] = Next1]
        \/ step' = [step EXCEPT ![p] = "reconciling"] /\ work' = [work EXCEPT ![p] = Last1]
        \/ step' = [step EXCEPT ![p] = "idle"] /\ work' = [work EXCEPT ![p] = <<>>]
    BY DEF WriteRow, StepTo
  <2> HIDE DEF Next1, Last1
  <2> QED
    BY <2>1, <2>2 DEF WindowsInv, WritersTyped
<1>3. PICK i : WrittenAt(i, p)
  BY RowIsWritten
<1>4. NoRow \notin DOMAIN rows'
  BY RowIsWritten DEF TableTyped, NoRow
<1>5. ASSUME NEW q \in Writers \ {p}, step[q] # "idle", work[q].found \in DOMAIN rows'
      PROVE  rows'[work[q].found].source = work[q].source
  <2>1. i \in FreeIds => work[q].found # i
    BY <1>5 DEF FreeIds
  <2>2. work[q].found \in DOMAIN rows => rows[work[q].found].source = work[q].source
    BY <1>5 DEF WindowsInv, HeldRowsKeepSource
  <2> QED
    BY <1>3, <1>5, <2>1, <2>2 DEF WrittenAt
<1>6. HeldRowsKeepSource'
  BY <1>2, <1>4, <1>5 DEF HeldRowsKeepSource
<1> QED
  BY <1>2, <1>6, RowIsWritten DEF WindowsInv

LEMMA WindowsStart == WindowsInit => WindowsInv
BY DEF WindowsInit, WindowsInv, TableTyped, WritersTyped, HeldRowsKeepSource

(* Rows go, or are marked; what is left keeps its source.                  *)
LEMMA FewerRows ==
    ASSUME WindowsInv, UNCHANGED <<step, work>>, TableTyped',
           DOMAIN rows' \subseteq DOMAIN rows,
           \A i \in DOMAIN rows' : rows'[i].source = rows[i].source
    PROVE  WindowsInv'
BY DEF WindowsInv, WritersTyped, HeldRowsKeepSource

LEMMA FindKeepsWindows ==
    ASSUME WindowsInv, NEW p \in Writers,
           FindRow(p) \/ \E s \in {"wham", "sample"}, l \in Limits : Sync(p, s, l)
    PROVE  WindowsInv'
<1>1. PICK c \in Calls :
        /\ step' = [step EXCEPT ![p] = "writing"]
        /\ work' = [work EXCEPT ![p] = c]
        /\ \E w : c.found = First(c.source, w)
  <2>1. CASE FindRow(p)
    <3> DEFINE c == [work[p] EXCEPT !.found = First(work[p].source, Current(p))]
    <3>1. work[p] \in Calls
      BY <2>1 DEF FindRow, WindowsInv, WritersTyped
    <3>2. First(work[p].source, Current(p)) \in 0 .. MaxRows
      BY FirstHasSource DEF WindowsInv
    <3>3. c \in Calls /\ c.source = work[p].source /\ c.found = First(work[p].source, Current(p))
      BY <3>1, <3>2 DEF Calls
    <3>4. step' = [step EXCEPT ![p] = "writing"] /\ work' = [work EXCEPT ![p] = c]
      BY <2>1 DEF FindRow, StepTo
    <3> HIDE DEF c
    <3> QED
      BY <3>3, <3>4
  <2>2. ASSUME NEW s \in {"wham", "sample"}, NEW l \in Limits, Sync(p, s, l)
        PROVE  \E c \in Calls : /\ step' = [step EXCEPT ![p] = "writing"]
                               /\ work' = [work EXCEPT ![p] = c]
                               /\ \E w : c.found = First(c.source, w)
    <3> DEFINE w == FirstOf(Shown(l))
               c == [source |-> s, answer |-> l, todo |-> Shown(l), found |-> First(s, w)]
    <3>1. First(s, w) \in 0 .. MaxRows
      BY FirstHasSource DEF WindowsInv
    <3>2. Shown(l) \in SUBSET Windows
      BY DEF Shown
    <3>3. c \in Calls
      BY <3>1, <3>2 DEF Calls
    <3>4. step' = [step EXCEPT ![p] = "writing"] /\ work' = [work EXCEPT ![p] = c]
      BY <2>2 DEF Sync, StepTo
    <3>5. c.found = First(c.source, w)
      OBVIOUS
    <3> HIDE DEF c
    <3> QED
      BY <3>3, <3>4, <3>5
  <2> QED
    BY <2>1, <2>2
<1>2. UNCHANGED rows
  BY DEF FindRow, Sync
<1>3. WritersTyped'
  BY <1>1 DEF WindowsInv, WritersTyped
<1>4. c.found \in DOMAIN rows => rows[c.found].source = c.source
  BY <1>1, FirstHasSource DEF WindowsInv
<1>5. HeldRowsKeepSource'
  BY <1>1, <1>2, <1>4 DEF WindowsInv, WritersTyped, HeldRowsKeepSource
<1> QED
  BY <1>2, <1>3, <1>5 DEF WindowsInv, TableTyped

LEMMA WindowsStep == WindowsInv /\ [WindowsNext]_windowsVars => WindowsInv'
<1> SUFFICES ASSUME WindowsInv, [WindowsNext]_windowsVars PROVE WindowsInv'
  OBVIOUS
<1>1. ASSUME NEW p \in Writers, Fail(p) PROVE WindowsInv'
  BY <1>1 DEF Fail, StepTo, WindowsInv, TableTyped, WritersTyped, HeldRowsKeepSource
<1>2. ASSUME NEW p \in Writers, Reconcile(p) PROVE WindowsInv'
  BY <1>2 DEF Reconcile, StepTo, WindowsInv, TableTyped, WritersTyped, HeldRowsKeepSource
<1>3. CASE Sweep
  <2>1. TableTyped'
    BY <1>3 DEF Sweep, WindowsInv, TableTyped
  <2> QED
    BY <1>3, <2>1, FewerRows DEF Sweep
<1>4. CASE Age
  <2>1. TableTyped'
    <3>1. \A q \in QuotaRows : [q EXCEPT !.fresh = FALSE] \in QuotaRows
      BY DEF QuotaRows
    <3> QED
      BY <1>4, <3>1 DEF Age, WindowsInv, TableTyped
  <2>2. ASSUME NEW i \in DOMAIN rows' PROVE rows'[i].source = rows[i].source
    BY <1>4 DEF Age, WindowsInv, TableTyped, QuotaRows
  <2> QED
    BY <1>4, <2>1, <2>2, FewerRows DEF Age
<1>5. ASSUME NEW i \in DOMAIN rows, ResetComes(i) PROVE WindowsInv'
  <2>1. TableTyped'
    <3>1. \A q \in QuotaRows : [q EXCEPT !.reset = "past"] \in QuotaRows
      BY DEF QuotaRows
    <3> QED
      BY <1>5, <3>1 DEF ResetComes, WindowsInv, TableTyped
  <2>2. ASSUME NEW j \in DOMAIN rows' PROVE rows'[j].source = rows[j].source
    BY <1>5 DEF ResetComes, WindowsInv, TableTyped, QuotaRows
  <2> QED
    BY <1>5, <2>1, <2>2, FewerRows DEF ResetComes
<1>6. CASE UNCHANGED windowsVars
  BY <1>6 DEF windowsVars, WindowsInv, TableTyped, WritersTyped, HeldRowsKeepSource
<1> QED
  BY <1>1, <1>2, <1>3, <1>4, <1>5, <1>6, FindKeepsWindows, WriteKeepsWindows DEF WindowsNext

LEMMA AlwaysWindowsInv == WindowsSpec => []WindowsInv
BY WindowsStart, WindowsStep, PTL DEF WindowsSpec

(* The official rows decide alone on a window that has one.                *)
LEMMA OfficialDecide ==
    ASSUME NEW w \in OfficialWindows
    PROVE  BlockedOn(w) <=>
             \E i \in OfficialRow(w) : Exhausts(rows[i].answer, w)
BY DEF BlockedOn, Blocking, Counted, Blocks, OfficialRow

(* A sample that is written leaves every official row as it was.           *)
LEMMA SampleSparesOfficial ==
    ASSUME WindowsInv, NEW p \in Writers, WriteRow(p), work[p].source = "sample", NEW w
    PROVE  /\ OfficialRow(w)' = OfficialRow(w)
           /\ \A i \in OfficialRow(w) : rows'[i] = rows[i]
<1>1. PICK i : WrittenAt(i, p)
  BY RowIsWritten
<1>2. i \notin OfficialRow(w)
  BY <1>1 DEF WrittenAt, OfficialRow, Official, FreeIds
<1>3. i \notin OfficialRow(w)'
  BY <1>1 DEF WrittenAt, OfficialRow, Official
<1>4. ASSUME NEW j, j # i
      PROVE  /\ j \in DOMAIN rows' <=> j \in DOMAIN rows
             /\ j \in DOMAIN rows => rows'[j] = rows[j]
  BY <1>1, <1>4 DEF WrittenAt
<1> QED
  BY <1>2, <1>3, <1>4 DEF OfficialRow, Live, Official

LEMMA SampleStep ==
    ASSUME WindowsInv, [WindowsNext]_windowsVars, NEW p \in Writers, Samples(p)
    PROVE  WriteRow(p) \/ UNCHANGED rows
<1>1. step'[p] # step[p]
  BY DEF Samples
<1>2. ASSUME NEW q \in Writers, WriteRow(q) PROVE q = p
  BY <1>1, <1>2 DEF WriteRow, StepTo, WindowsInv, WritersTyped
<1>3. ASSUME NEW q \in Writers, Reconcile(q) PROVE FALSE
  BY <1>1, <1>3 DEF Reconcile, StepTo, Samples, WindowsInv, WritersTyped
<1>4. ~Sweep /\ ~Age /\ (\A i \in DOMAIN rows : ~ResetComes(i))
  BY <1>1 DEF Sweep, Age, ResetComes
<1> QED
  BY <1>2, <1>3, <1>4 DEF WindowsNext, windowsVars, Sync, FindRow, Fail

(* However refreshes and samples interleave, and whatever rows are swept   *)
(* or created twice in between, a sample changes nothing in what routing   *)
(* makes of a window that has an official row.                             *)
THEOREM SamplesOverrideNothing == WindowsSpec => SampleOverridesNothing
<1>1. ASSUME WindowsInv, [WindowsNext]_windowsVars,
             NEW p \in Writers, NEW w \in OfficialWindows, Samples(p)
      PROVE  w \in OfficialWindows' /\ (BlockedOn(w)' <=> BlockedOn(w))
  <2>1. /\ OfficialRow(w)' = OfficialRow(w)
        /\ \A i \in OfficialRow(w) : rows'[i] = rows[i]
    <3>1. CASE WriteRow(p)
      BY <1>1, <3>1, SampleSparesOfficial DEF Samples
    <3>2. CASE UNCHANGED rows
      BY <3>2 DEF OfficialRow, Live, Official
    <3> QED
      BY <1>1, <3>1, <3>2, SampleStep
  <2>2. OfficialRow(w) # {}
    BY <1>1 DEF OfficialWindows, OfficialRow
  <2>3. w \in OfficialWindows'
    BY <2>1, <2>2 DEF OfficialWindows, OfficialRow
  <2>4. BlockedOn(w)' <=> \E i \in OfficialRow(w)' : Exhausts(rows'[i].answer, w)
    BY <2>3 DEF BlockedOn, Blocking, Counted, Blocks, OfficialRow
  <2> QED
    BY <1>1, <2>1, <2>3, <2>4, OfficialDecide
<1>2. WindowsInv /\ [WindowsNext]_windowsVars =>
        [\A p \in Writers, w \in OfficialWindows :
          Samples(p) =>
              /\ w \in OfficialWindows'
              /\ BlockedOn(w)' <=> BlockedOn(w)]_windowsVars
  BY <1>1
<1> QED
  BY <1>2, AlwaysWindowsInv, PTL DEF WindowsSpec, SampleOverridesNothing

(* Whatever answer the official rows keep: it takes out at least one       *)
(* window when its group is exhausted, and no window that it calls good    *)
(* while it calls the other one full.                                      *)
THEOREM BlamesAreExact == WindowsSpec => []BlameIsExact
<1>1. WindowsInv => BlameIsExact
  <2> SUFFICES ASSUME WindowsInv, NEW l \in Limits, Shown(l) # {},
                      \A w \in Windows :
                         IF w \in Shown(l)
                         THEN /\ OfficialRow(w) # {}
                              /\ \A i \in OfficialRow(w) : rows[i].answer = l
                         ELSE \A i \in DOMAIN rows : rows[i].window # w
               PROVE  /\ l.exhausted => Blocked
                      /\ \A w \in Shown(l) :
                            l[w] = "ok" /\ l[Other(w)] = "full" => ~BlockedOn(w)
    BY DEF BlameIsExact
  <2>1. ASSUME NEW w \in Shown(l)
        PROVE  /\ w \in OfficialWindows
               /\ BlockedOn(w) <=> Exhausts(l, w)
    <3>1. w \in Windows /\ OfficialRow(w) # {}
      BY DEF Shown
    <3>2. w \in OfficialWindows
      BY <3>1 DEF OfficialWindows, OfficialRow
    <3> QED
      BY <3>1, <3>2, OfficialDecide
  <2>2. ASSUME l.exhausted PROVE Blocked
    <3>1. \E w \in Shown(l) : Flagged(l, w)
      BY DEF Shown, Flagged, Windows, Other, Uses
    <3> QED
      BY <2>1, <2>2, <3>1 DEF Exhausts, BlockedOn, Blocked
  <2>3. ASSUME NEW w \in Shown(l), l[w] = "ok", l[Other(w)] = "full"
        PROVE  ~Exhausts(l, w)
    <3>1. Other(w) \in Shown(l) /\ Other(w) # w
      BY <2>3 DEF Shown, Windows, Other
    <3> QED
      BY <2>3, <3>1 DEF Exhausts, Flagged
  <2> QED
    BY <2>1, <2>2, <2>3
<1> QED
  BY <1>1, AlwaysWindowsInv, PTL

(* The table never holds more rows than its ids allow, nor a row that no   *)
(* answer explains.                                                        *)
THEOREM WindowsTypeCorrect == WindowsSpec => []WindowsTypeOK
<1>1. WindowsInv => WindowsTypeOK
  BY DEF WindowsInv, TableTyped, WritersTyped, QuotaRows, WindowsTypeOK
<1> QED
  BY <1>1, AlwaysWindowsInv, PTL

-----------------------------------------------------------------------------
(* The choice of an account.                                               *)

(* The slots of an account and the attempts that hold them go up and down  *)
(* together; there are never infinitely many.                              *)
SlotsCounted ==
    /\ slots \in [Accounts -> Nat]
    /\ DOMAIN at = Routed /\ DOMAIN call = Routed
    /\ \A a \in Accounts :
          IsFiniteSet(Attempts(a)) /\ slots[a] = Cardinality(Attempts(a))

LEMMA GreaterOfTwo ==
    ASSUME NEW m \in Int, NEW n \in Int, m >= n
    PROVE  Max({m, n}) = m
BY DEF Max

(* A step of a request that takes and gives back no slot.                  *)
LEMMA NoSlotMoves ==
    ASSUME SlotsCounted, NEW r \in Routed, UNCHANGED slots,
           DOMAIN at' = Routed, DOMAIN call' = Routed,
           \A q \in Routed \ {r} : at'[q] = at[q] /\ call'[q] = call[q],
           ~(at[r] = "attempting" /\ call[r].acquired),
           ~(at'[r] = "attempting" /\ call'[r].acquired)
    PROVE  SlotsCounted'
<1>1. \A a \in Accounts : Attempts(a)' = Attempts(a)
  BY DEF Attempts
<1> QED
  BY <1>1 DEF SlotsCounted

LEMMA SlotIsTaken ==
    ASSUME SlotsCounted, NEW r \in Routed, ChooseAdaptive(r)
    PROVE  SlotsCounted'
<1>1. PICK b : /\ call' = [call EXCEPT ![r] = [account |-> b, acquired |-> TRUE]]
               /\ slots' = [slots EXCEPT ![b] = @ + 1]
  BY DEF ChooseAdaptive, Select
<1>2. at[r] = "choosing" /\ at' = [at EXCEPT ![r] = "attempting"]
  BY DEF ChooseAdaptive, Go
<1>3. slots' \in [Accounts -> Nat] /\ DOMAIN at' = Routed /\ DOMAIN call' = Routed
  <2>1. b \in Accounts => slots[b] + 1 \in Nat
    BY DEF SlotsCounted
  <2>2. DOMAIN slots = Accounts /\ \A a \in Accounts : slots[a] \in Nat
    BY DEF SlotsCounted
  <2>3. slots' \in [Accounts -> Nat]
    BY <1>1, <2>1, <2>2
  <2> QED
    BY <1>1, <1>2, <2>3 DEF SlotsCounted
<1>4. ASSUME NEW a \in Accounts
      PROVE  IsFiniteSet(Attempts(a))' /\ slots'[a] = Cardinality(Attempts(a))'
  <2>1. IsFiniteSet(Attempts(a)) /\ slots[a] = Cardinality(Attempts(a))
    BY DEF SlotsCounted
  <2>2. CASE a = b
    <3>1. r \notin Attempts(a) /\ Attempts(a)' = Attempts(a) \cup {r}
      BY <1>1, <1>2, <2>2 DEF SlotsCounted, Attempts
    <3>2. slots'[a] = slots[a] + 1
      BY <1>1, <2>2 DEF SlotsCounted
    <3> QED
      BY <2>1, <3>1, <3>2, FS_AddElement
  <2>3. CASE a # b
    <3>1. Attempts(a)' = Attempts(a)
      BY <1>1, <1>2, <2>3 DEF SlotsCounted, Attempts
    <3>2. slots'[a] = slots[a]
      BY <1>1, <2>3 DEF SlotsCounted
    <3> QED
      BY <2>1, <3>1, <3>2
  <2> QED
    BY <2>2, <2>3
<1> QED
  BY <1>3, <1>4 DEF SlotsCounted

(* What was taken is given back, whatever the strategy is by then.         *)
LEMMA SlotIsGivenBack ==
    ASSUME SlotsCounted, NEW r \in Routed, Observe(r)
    PROVE  SlotsCounted'
<1>1. /\ at[r] = "attempting" /\ at' = [at EXCEPT ![r] = "idle"]
      /\ call' = [call EXCEPT ![r] = <<>>]
      /\ slots' = [a \in Accounts |->
            IF a \in Released(r) THEN Max({slots[a] - 1, 0}) ELSE slots[a]]
  BY DEF Observe, Go
<1>2. ASSUME NEW a \in Accounts
      PROVE  /\ slots'[a] \in Nat
             /\ IsFiniteSet(Attempts(a))' /\ slots'[a] = Cardinality(Attempts(a))'
  <2>1. /\ IsFiniteSet(Attempts(a)) /\ slots[a] = Cardinality(Attempts(a))
        /\ slots[a] \in Nat
    BY DEF SlotsCounted
  <2>2. Attempts(a)' = Attempts(a) \ {r}
    BY <1>1 DEF SlotsCounted, Attempts
  <2>3. r \in Attempts(a) <=> a \in Released(r)
    BY <1>1 DEF Attempts, Released
  <2>4. CASE r \in Attempts(a)
    <3>1. /\ IsFiniteSet(Attempts(a)) /\ IsFiniteSet(Attempts(a) \ {r})
          /\ Cardinality(Attempts(a) \ {r}) = slots[a] - 1
          /\ Cardinality(Attempts(a) \ {r}) \in Nat
      BY <2>1, <2>4, FS_RemoveElement, FS_CardinalityType
    <3>2. slots'[a] = slots[a] - 1
      BY <1>1, <2>1, <2>3, <2>4, <3>1, GreaterOfTwo
    <3> QED
      BY <2>2, <3>1, <3>2
  <2>5. CASE r \notin Attempts(a)
    <3>1. Attempts(a)' = Attempts(a) /\ slots'[a] = slots[a]
      BY <1>1, <2>2, <2>3, <2>5
    <3> QED
      BY <2>1, <3>1
  <2> QED
    BY <2>4, <2>5
<1> QED
  BY <1>1, <1>2 DEF SlotsCounted

LEMMA SlotsStayCounted == SlotsCounted /\ [RoutingNext]_routingVars => SlotsCounted'
<1> SUFFICES ASSUME SlotsCounted, [RoutingNext]_routingVars PROVE SlotsCounted'
  OBVIOUS
<1>1. ASSUME NEW r \in Routed, Begin(r) PROVE SlotsCounted'
  <2>1. CASE UNCHANGED <<at, call>>
    BY <1>1, <2>1 DEF Begin, SlotsCounted, Attempts
  <2>2. CASE ~UNCHANGED <<at, call>>
    BY <1>1, <2>2, NoSlotMoves DEF Begin, Go, SlotsCounted
  <2> QED
    BY <2>1, <2>2
<1>2. ASSUME NEW r \in Routed, NEW a,
             Select(r, a, FALSE), Go(r, "attempting"), UNCHANGED slots,
             at[r] \in {"choosing", "locked"}
      PROVE  SlotsCounted'
  BY <1>2, NoSlotMoves DEF Select, Go, SlotsCounted
<1>3. ASSUME NEW r \in Routed, ChooseSorted(r) \/ ChooseAffine(r) PROVE SlotsCounted'
  BY <1>2, <1>3 DEF ChooseSorted, ChooseAffine
<1>4. ASSUME NEW r \in Routed, ChooseByRedis(r) \/ SaveCursor(r) \/ CursorFails(r)
      PROVE  SlotsCounted'
  BY <1>2, <1>4 DEF ChooseByRedis, SaveCursor, CursorFails, TakeTurn, GiveTurn
<1>5. ASSUME NEW r \in Routed, ChooseByRow(r) \/ ReadCursor(r) PROVE SlotsCounted'
  BY <1>5, NoSlotMoves DEF ChooseByRow, ReadCursor, Go, SlotsCounted, history
<1>6. CASE Configure \/ UNCHANGED routingVars
  BY <1>6 DEF Configure, routingVars, SlotsCounted, Attempts
<1>7. CASE Restart
  <2>1. \A a \in Accounts : Attempts(a)' = {} /\ slots'[a] = 0
    BY <1>7 DEF Restart, Attempts
  <2> QED
    BY <1>7, <2>1, FS_EmptySet DEF Restart, SlotsCounted
<1> QED
  BY <1>1, <1>3, <1>4, <1>5, <1>6, <1>7, SlotIsTaken, SlotIsGivenBack DEF RoutingNext

(* Any number of requests, whatever strategies they were routed by: the    *)
(* slots of an account are its adaptive attempts that are under way.       *)
THEOREM SlotsAreHeld == RoutingSpec => []SlotsAreAttempts
<1>1. RoutingInit => SlotsCounted
  <2> SUFFICES ASSUME RoutingInit PROVE SlotsCounted
    OBVIOUS
  <2>1. \A a \in Accounts : Attempts(a) = {} /\ slots[a] = 0
    BY DEF RoutingInit, Attempts
  <2> QED
    BY <2>1, FS_EmptySet DEF RoutingInit, SlotsCounted
<1>2. SlotsCounted => SlotsAreAttempts
  BY DEF SlotsCounted, SlotsAreAttempts
<1> QED
  BY <1>1, <1>2, SlotsStayCounted, PTL DEF RoutingSpec

(* A bounded set of numbers has a greatest one.                            *)
LEMMA GreatestExists ==
    ASSUME NEW B \in Nat, NEW S \in SUBSET (0 .. B), S # {}
    PROVE  Max(S) \in S /\ \A n \in S : Max(S) >= n
<1> DEFINE T == {B - n : n \in S}
<1>1. T \in SUBSET Nat /\ T # {}
  <2>1. \A n \in S : B - n \in Nat
    OBVIOUS
  <2> QED
    BY <2>1
<1>2. Min(T) \in T /\ \A n \in T : Min(T) <= n
  BY <1>1, LeastExists
<1>3. PICK greatest \in S : Min(T) = B - greatest
  BY <1>2
<1>4. ASSUME NEW n \in S PROVE greatest >= n
  <2>1. B - greatest <= B - n
    BY <1>2, <1>3
  <2> QED
    BY <2>1
<1> QED
  BY <1>4 DEF Max

(* Of the accounts of a list one has the highest score.                    *)
LEMMA HighestExists ==
    ASSUME NEW list \in Seq(Accounts), list # <<>>, NEW score \in [Accounts -> Nat]
    PROVE  \E best \in Range(list) : \A a \in Range(list) : score[a] <= score[best]
<1> DEFINE Highest(m, k) == \A j \in 1 .. k : score[list[j]] <= score[list[m]]
           bad == {k \in 1 .. Len(list) : ~\E m \in 1 .. k : Highest(m, k)}
<1>1. /\ DOMAIN list = 1 .. Len(list) /\ Len(list) \in Nat \ {0}
      /\ \A j \in 1 .. Len(list) : score[list[j]] \in Nat
  OBVIOUS
<1>2. ASSUME bad # {} PROVE FALSE
  <2>1. PICK k \in bad : \A j \in bad : k <= j
    <3>1. bad \in SUBSET Nat
      OBVIOUS
    <3> HIDE DEF bad
    <3> QED
      BY <1>2, <3>1, LeastExists
  <2>2. k # 1
    <3>1. ASSUME k = 1 PROVE Highest(1, k) /\ 1 \in 1 .. k
      BY <1>1, <3>1
    <3> QED
      BY <2>1, <3>1
  <2>3. k - 1 \in 1 .. Len(list) /\ k - 1 \notin bad
    <3>1. k \in 1 .. Len(list) /\ k - 1 \in 1 .. Len(list) /\ ~(k <= k - 1)
      BY <1>1, <2>1, <2>2
    <3> HIDE DEF bad
    <3> QED
      BY <2>1, <3>1
  <2>4. PICK m \in 1 .. k - 1 : Highest(m, k - 1)
    BY <2>3
  <2>5. /\ \A j \in 1 .. k : j = k \/ j \in 1 .. k - 1
        /\ k \in 1 .. k /\ m \in 1 .. k /\ k \in 1 .. Len(list) /\ m \in 1 .. Len(list)
        /\ \A j \in 1 .. k : j \in 1 .. Len(list)
    <3>1. k \in Nat /\ k \in 1 .. Len(list) /\ m \in 1 .. k - 1
      BY <2>1, <2>4
    <3> HIDE DEF bad, Highest
    <3> QED
      BY <1>1, <3>1
  <2>6. CASE score[list[k]] <= score[list[m]]
    <3>1. Highest(m, k)
      BY <2>4, <2>5, <2>6
    <3> QED
      BY <2>1, <2>5, <3>1
  <2>7. CASE ~(score[list[k]] <= score[list[m]])
    <3>1. ASSUME NEW j \in 1 .. k PROVE score[list[j]] <= score[list[k]]
      <4>1. score[list[j]] \in Nat /\ score[list[k]] \in Nat /\ score[list[m]] \in Nat
        BY <1>1, <2>5
      <4>2. j = k \/ score[list[j]] <= score[list[m]]
        BY <2>4, <2>5
      <4>3. ASSUME NEW x \in Nat, NEW y \in Nat, NEW z \in Nat,
                   x = y \/ x <= z, ~(y <= z)
            PROVE  x <= y
        BY <4>3
      <4>4. CASE j = k
        <5>1. score[list[j]] = score[list[k]]
          BY <4>4, Zenon
        <5>2. score[list[k]] <= score[list[k]]
          <6>1. \A x \in Nat : x <= x
            OBVIOUS
          <6> QED
            BY <4>1, <6>1, Zenon
        <5> QED
          BY <5>1, <5>2, Zenon
      <4>5. CASE score[list[j]] <= score[list[m]]
        BY <2>7, <4>1, <4>3, <4>5
      <4> QED
        BY <4>2, <4>4, <4>5
    <3> QED
      BY <2>1, <2>5, <3>1
  <2> QED
    BY <2>6, <2>7
<1>3. Len(list) \in 1 .. Len(list)
  BY <1>1
<1>4. PICK m \in 1 .. Len(list) : Highest(m, Len(list))
  BY <1>2, <1>3
<1> QED
  BY <1>1, <1>4 DEF Range

(* The comment on pickSessionAffinityAccount, for candidates listed in any *)
(* orders, with or without one another, and any scores: as long as the     *)
(* account of a session is among the candidates, and no account that was   *)
(* none comes in, the session stays with it.                               *)
THEOREM AffinityIsStable ==
    ASSUME NEW before \in Seq(Accounts), NEW after \in Seq(Accounts),
           NEW score \in [Accounts -> Nat], after # <<>>, Range(after) \subseteq Range(before),
           Affine(before, score) \in Range(after)
    PROVE  Affine(after, score) = Affine(before, score)
<1> USE AccountsAssumption
<1> DEFINE Scored(accounts) == {score[a] : a \in Range(accounts)}
           Firsts(accounts) == {a \in Range(accounts) : score[a] = Max(Scored(accounts))}
<1>1. Range(before) \in SUBSET Accounts /\ Range(after) \in SUBSET Accounts
  BY DEF Range
<1>2. Range(after) # {} /\ Range(before) # {}
  BY DEF Range
<1>0. PICK B \in Nat : \A a \in Range(before) : score[a] <= B
  <2>1. before # <<>>
    BY <1>2 DEF Range
  <2>2. PICK best \in Range(before) : \A a \in Range(before) : score[a] <= score[best]
    BY <2>1, HighestExists
  <2> QED
    BY <1>1, <2>2
<1>3. ASSUME NEW accounts \in {before, after}
      PROVE  /\ Max(Scored(accounts)) \in Scored(accounts)
             /\ \A a \in Range(accounts) : Max(Scored(accounts)) >= score[a]
             /\ Firsts(accounts) \in SUBSET Nat /\ Firsts(accounts) # {}
             /\ Affine(accounts, score) = Min(Firsts(accounts))
  <2>1. Range(accounts) \in SUBSET Accounts /\ Range(accounts) # {}
    BY <1>1, <1>2
  <2>2. Scored(accounts) \in SUBSET (0 .. B) /\ Scored(accounts) # {}
    <3>1. ASSUME NEW a \in Range(accounts) PROVE score[a] \in 0 .. B
      <4>1. a \in Accounts /\ a \in Range(before)
        BY <1>1
      <4>2. score[a] \in Nat /\ score[a] <= B
        BY <1>0, <4>1
      <4> QED
        BY <1>0, <4>2
    <3> QED
      BY <2>1, <3>1
  <2>3. /\ Max(Scored(accounts)) \in Scored(accounts)
        /\ \A n \in Scored(accounts) : Max(Scored(accounts)) >= n
    BY <2>2, GreatestExists
  <2> QED
    BY <2>1, <2>3 DEF Affine
<1> DEFINE kept == Affine(before, score)
<1>4. /\ kept \in Range(before) /\ score[kept] = Max(Scored(before))
      /\ \A a \in Firsts(before) : kept <= a
  <2>1. Firsts(before) \in SUBSET Nat /\ Firsts(before) # {} /\ kept = Min(Firsts(before))
    BY <1>3
  <2> HIDE DEF Firsts
  <2>2. kept \in Firsts(before) /\ \A a \in Firsts(before) : kept <= a
    BY <2>1, LeastExists
  <2> QED
    BY <2>2 DEF Firsts
<1>5. Max(Scored(after)) = Max(Scored(before))
  <2>1. score[kept] \in Scored(after)
    OBVIOUS
  <2>2. Max(Scored(after)) >= score[kept]
    BY <1>3
  <2>3. Max(Scored(before)) >= Max(Scored(after))
    BY <1>3
  <2>4. Max(Scored(before)) \in Int /\ Max(Scored(after)) \in Int
    <3>1. ASSUME NEW accounts \in {before, after}
          PROVE  Max(Scored(accounts)) \in Nat
      BY <1>1, <1>3
    <3> QED
      BY <3>1
  <2> QED
    BY <1>4, <2>2, <2>3, <2>4
<1>6. Firsts(after) \subseteq Firsts(before) /\ kept \in Firsts(after)
  BY <1>4, <1>5
<1>7. Min(Firsts(after)) \in Firsts(after) /\ \A a \in Firsts(after) : Min(Firsts(after)) <= a
  BY <1>3, LeastExists
<1>8. Min(Firsts(after)) <= kept /\ kept <= Min(Firsts(after))
  BY <1>4, <1>6, <1>7
<1>9. kept \in Nat /\ Min(Firsts(after)) \in Nat
  BY <1>3, <1>6, <1>7
<1> QED
  BY <1>3, <1>8, <1>9

(* The rotation. The cursors below n that are a turn of a.                 *)
TurnsBelow(n, a) == {k \in 0 .. n - 1 : TurnOf(Listed, k) = a}
CursorsOf(a) ==
    Cardinality(TurnsBelow(redis.counter, a)) + Cardinality(TurnsBelow(cursor, a))

(* What the rotation has given to an account are the cursors that are its  *)
(* turns, up to one for each slip. This is what SharesAreFair has to know  *)
(* of the concurrent requests; the rest is how many of the cursors of a    *)
(* source are turns of an account.                                         *)
TurnsAreCursors ==
    \A a \in Accounts :
        turns[a] - CursorsOf(a) <= slips /\ CursorsOf(a) - turns[a] <= slips

RotationTyped ==
    /\ redis \in [on : BOOLEAN, counter : Nat] /\ cursor \in Nat
    /\ turns \in [Accounts -> Nat] /\ slips \in Nat
    /\ DOMAIN at = Routed /\ DOMAIN call = Routed
    /\ \A r \in Routed : at[r] \in {"choosing", "locking", "locked"} =>
          call[r] = [candidates |-> call[r].candidates, cursor |-> call[r].cursor]

(* The cursor of the row is what the holder of the mutex has read.         *)
CursorIsLocked ==
    \A r \in Routed : at[r] = "locked" => lock = r /\ call[r].cursor = cursor

RotationInv == RotationTyped /\ CursorIsLocked /\ TurnsAreCursors

LEMMA CountedAfter ==
    ASSUME NEW a
    PROVE  CursorsOf(a)' = Cardinality(TurnsBelow(redis'.counter, a))
                             + Cardinality(TurnsBelow(cursor', a))
BY DEF CursorsOf, TurnsBelow, Listed, TurnOf

LEMMA TurnsAreCountable ==
    ASSUME NEW n \in Nat, NEW a
    PROVE  /\ Cardinality(TurnsBelow(n, a)) \in Nat
           /\ Cardinality(TurnsBelow(n + 1, a)) =
                 Cardinality(TurnsBelow(n, a)) + IF TurnOf(Listed, n) = a THEN 1 ELSE 0
<1>1. IsFiniteSet(TurnsBelow(n, a))
  <2>1. IsFiniteSet(0 .. n - 1)
    BY FS_Interval
  <2>2. TurnsBelow(n, a) \in SUBSET (0 .. n - 1)
    BY DEF TurnsBelow
  <2> QED
    BY <2>1, <2>2, FS_Subset
<1>2. 0 .. (n + 1) - 1 = (0 .. n - 1) \cup {n} /\ n \notin 0 .. n - 1
  OBVIOUS
<1>3. CASE TurnOf(Listed, n) = a
  <2>1. TurnsBelow(n + 1, a) = TurnsBelow(n, a) \cup {n} /\ n \notin TurnsBelow(n, a)
    BY <1>2, <1>3 DEF TurnsBelow
  <2> QED
    BY <1>1, <1>3, <2>1, FS_AddElement, FS_CardinalityType
<1>4. CASE TurnOf(Listed, n) # a
  <2>1. TurnsBelow(n + 1, a) = TurnsBelow(n, a)
    BY <1>2, <1>4 DEF TurnsBelow
  <2>2. Cardinality(TurnsBelow(n, a)) \in Nat
    BY <1>1, FS_CardinalityType
  <2> QED
    BY <1>4, <2>1, <2>2
<1> QED
  BY <1>3, <1>4

(* What a step does to the count of an account: a cursor and its turn, or  *)
(* a slip with at most one of the two.                                     *)
LEMMA OneTurnOrSlip ==
    ASSUME RotationTyped, TurnsAreCursors, NEW d \in {0, 1}, slips' = slips + d,
           \A a \in Accounts : \E c, u \in {0, 1} :
              /\ CursorsOf(a)' = CursorsOf(a) + c
              /\ turns'[a] = turns[a] + u
              /\ d = 0 => c = u
    PROVE  TurnsAreCursors'
<1> SUFFICES ASSUME NEW a \in Accounts
             PROVE  /\ turns'[a] - CursorsOf(a)' <= slips'
                    /\ CursorsOf(a)' - turns'[a] <= slips'
  BY DEF TurnsAreCursors
<1>1. PICK c \in {0, 1}, u \in {0, 1} :
        CursorsOf(a)' = CursorsOf(a) + c /\ turns'[a] = turns[a] + u /\ (d = 0 => c = u)
  OBVIOUS
<1>2. turns[a] \in Nat /\ CursorsOf(a) \in Nat /\ slips \in Nat
  BY TurnsAreCountable DEF RotationTyped, CursorsOf
<1>3. turns[a] - CursorsOf(a) <= slips /\ CursorsOf(a) - turns[a] <= slips
  BY DEF TurnsAreCursors
<1> QED
  BY <1>1, <1>2, <1>3

(* What GiveTurn does for an account, given the cursor it takes.           *)
LEMMA GivenTurn ==
    ASSUME RotationTyped, NEW r \in Routed, NEW n, NEW b, b = TurnOf(call[r].candidates, n),
           GiveTurn(r, b)
    PROVE  /\ turns' \in [Accounts -> Nat]
           /\ \A a \in Accounts : turns'[a] =
                 turns[a] + IF Regular(r) /\ TurnOf(Listed, n) = a THEN 1 ELSE 0
<1>1. CASE Regular(r)
  <2>1. turns' = [turns EXCEPT ![b] = @ + 1] /\ b = TurnOf(Listed, n)
    BY <1>1 DEF GiveTurn, Regular
  <2>2. DOMAIN turns = Accounts /\ \A a \in Accounts : turns[a] \in Nat
    BY DEF RotationTyped
  <2>3. \A a \in Accounts : turns'[a] = turns[a] + IF b = a THEN 1 ELSE 0
    BY <2>1, <2>2
  <2>4. \A a \in Accounts : turns'[a] \in Nat
    BY <2>2, <2>3
  <2>5. turns' \in [Accounts -> Nat]
    BY <2>1, <2>2, <2>4
  <2> QED
    BY <1>1, <2>1, <2>3, <2>5
<1>2. CASE ~Regular(r)
  BY <1>2 DEF GiveTurn, RotationTyped
<1> QED
  BY <1>1, <1>2


(* A choice that takes its turn from no cursor that is under way.          *)
LEMMA TurnIsGiven ==
    ASSUME RotationTyped, NEW r \in Routed, NEW b, GiveTurn(r, b) \/ Select(r, b, FALSE),
           Go(r, "attempting")
    PROVE  /\ DOMAIN at' = Routed /\ DOMAIN call' = Routed /\ at'[r] = "attempting"
           /\ \A q \in Routed \ {r} : at'[q] = at[q] /\ call'[q] = call[q]
BY DEF GiveTurn, Select, Go, RotationTyped

LEMMA OthersStayTyped ==
    ASSUME RotationTyped, NEW r \in Routed,
           redis' \in [on : BOOLEAN, counter : Nat], cursor' \in Nat,
           turns' \in [Accounts -> Nat], slips' \in Nat,
           DOMAIN at' = Routed, DOMAIN call' = Routed,
           \A q \in Routed \ {r} : at'[q] = at[q] /\ call'[q] = call[q],
           at'[r] \in {"choosing", "locking", "locked"} =>
              call'[r] = [candidates |-> call'[r].candidates, cursor |-> call'[r].cursor]
    PROVE  RotationTyped'
BY DEF RotationTyped

LEMMA RedisTurn ==
    ASSUME RotationInv, NEW r \in Routed, ChooseByRedis(r)
    PROVE  RotationInv'
<1> DEFINE n == redis.counter
           b == TurnOf(call[r].candidates, n)
<1>1. /\ redis' = [redis EXCEPT !.counter = @ + 1] /\ UNCHANGED <<cursor, lock>>
      /\ GiveTurn(r, b) /\ Go(r, "attempting")
      /\ slips' = IF Regular(r) THEN slips ELSE slips + 1
  BY DEF ChooseByRedis, TakeTurn
<1>2. /\ n \in Nat /\ cursor \in Nat /\ slips \in Nat
      /\ redis' \in [on : BOOLEAN, counter : Nat] /\ redis'.counter = n + 1
  BY <1>1 DEF RotationInv, RotationTyped
<1> HIDE DEF b
<1>3. RotationTyped /\ TurnsAreCursors /\ CursorIsLocked
  BY DEF RotationInv
<1>4. /\ turns' \in [Accounts -> Nat]
      /\ \A a \in Accounts : turns'[a] =
            turns[a] + IF Regular(r) /\ TurnOf(Listed, n) = a THEN 1 ELSE 0
  BY <1>1, <1>3, GivenTurn DEF b
<1>5. /\ DOMAIN at' = Routed /\ DOMAIN call' = Routed /\ at'[r] = "attempting"
      /\ \A q \in Routed \ {r} : at'[q] = at[q] /\ call'[q] = call[q]
  BY <1>1, <1>3, TurnIsGiven
<1>6. RotationTyped'
  BY <1>1, <1>2, <1>3, <1>4, <1>5, OthersStayTyped
<1>7. CursorIsLocked'
  BY <1>1, <1>3, <1>5 DEF CursorIsLocked
<1>8. ASSUME NEW a \in Accounts
      PROVE  CursorsOf(a)' = CursorsOf(a) + IF TurnOf(Listed, n) = a THEN 1 ELSE 0
  BY <1>1, <1>2, CountedAfter, TurnsAreCountable DEF CursorsOf
<1>9. TurnsAreCursors'
  BY <1>1, <1>2, <1>3, <1>4, <1>8, OneTurnOrSlip
<1> QED
  BY <1>6, <1>7, <1>9 DEF RotationInv

LEMMA RowTurn ==
    ASSUME RotationInv, NEW r \in Routed, SaveCursor(r)
    PROVE  RotationInv'
<1> DEFINE b == TurnOf(call[r].candidates, cursor)
<1>1. at[r] = "locked" /\ lock = r /\ call[r].cursor = cursor
  BY DEF SaveCursor, RotationInv, CursorIsLocked
<1>2. /\ cursor' = cursor + 1 /\ lock' = "free" /\ UNCHANGED redis
      /\ GiveTurn(r, b) /\ Go(r, "attempting")
      /\ slips' = IF Regular(r) THEN slips ELSE slips + 1
  BY <1>1 DEF SaveCursor, TakeTurn
<1>3. /\ redis.counter \in Nat /\ cursor \in Nat /\ slips \in Nat
      /\ redis' \in [on : BOOLEAN, counter : Nat]
  BY <1>2 DEF RotationInv, RotationTyped
<1> HIDE DEF b
<1>4. RotationTyped /\ TurnsAreCursors /\ CursorIsLocked
  BY DEF RotationInv
<1>5. /\ turns' \in [Accounts -> Nat]
      /\ \A a \in Accounts : turns'[a] =
            turns[a] + IF Regular(r) /\ TurnOf(Listed, cursor) = a THEN 1 ELSE 0
  BY <1>2, <1>4, GivenTurn DEF b
<1>6. /\ DOMAIN at' = Routed /\ DOMAIN call' = Routed /\ at'[r] = "attempting"
      /\ \A q \in Routed \ {r} : at'[q] = at[q] /\ call'[q] = call[q]
  BY <1>2, <1>4, TurnIsGiven
<1>7. RotationTyped'
  BY <1>2, <1>3, <1>4, <1>5, <1>6, OthersStayTyped
<1>8. CursorIsLocked'
  BY <1>1, <1>4, <1>6 DEF CursorIsLocked
<1>9. ASSUME NEW a \in Accounts
      PROVE  CursorsOf(a)' = CursorsOf(a) + IF TurnOf(Listed, cursor) = a THEN 1 ELSE 0
  BY <1>2, <1>3, CountedAfter, TurnsAreCountable DEF CursorsOf
<1>10. TurnsAreCursors'
  BY <1>2, <1>3, <1>4, <1>5, <1>9, OneTurnOrSlip
<1> QED
  BY <1>7, <1>8, <1>10 DEF RotationInv

LEMMA FailedTurn ==
    ASSUME RotationInv, NEW r \in Routed, CursorFails(r)
    PROVE  RotationInv'
<1>1. PICK n \in {0, call[r].cursor} : GiveTurn(r, TurnOf(call[r].candidates, n))
  BY DEF CursorFails
<1> DEFINE b == TurnOf(call[r].candidates, n)
<1>2. /\ at[r] = "locked" /\ lock' = "free" /\ UNCHANGED <<redis, cursor>>
      /\ Go(r, "attempting") /\ slips' = slips + 1
  BY DEF CursorFails
<1>3. RotationTyped /\ TurnsAreCursors /\ CursorIsLocked
  BY DEF RotationInv
<1>4. GiveTurn(r, b)
  BY <1>1
<1> HIDE DEF b
<1>5. /\ turns' \in [Accounts -> Nat]
      /\ \A a \in Accounts : turns'[a] =
            turns[a] + IF Regular(r) /\ TurnOf(Listed, n) = a THEN 1 ELSE 0
  BY <1>3, <1>4, GivenTurn DEF b
<1>6. /\ DOMAIN at' = Routed /\ DOMAIN call' = Routed /\ at'[r] = "attempting"
      /\ \A q \in Routed \ {r} : at'[q] = at[q] /\ call'[q] = call[q]
  BY <1>2, <1>3, <1>4, TurnIsGiven
<1>7. /\ redis' \in [on : BOOLEAN, counter : Nat] /\ cursor' \in Nat
      /\ slips \in Nat /\ slips' \in Nat
  BY <1>2 DEF RotationInv, RotationTyped
<1>8. RotationTyped'
  BY <1>3, <1>5, <1>6, <1>7, OthersStayTyped
<1>9. CursorIsLocked'
  BY <1>2, <1>3, <1>6 DEF CursorIsLocked
<1>10. ASSUME NEW a \in Accounts PROVE CursorsOf(a)' = CursorsOf(a) + 0
  <2>1. CursorsOf(a)' = CursorsOf(a)
    BY <1>2 DEF CursorsOf, Listed, TurnOf, TurnsBelow
  <2>2. CursorsOf(a) \in Nat
    BY <1>3, TurnsAreCountable DEF CursorsOf, RotationTyped
  <2> QED
    BY <2>1, <2>2
<1>11. TurnsAreCursors'
  BY <1>2, <1>3, <1>5, <1>10, OneTurnOrSlip
<1> QED
  BY <1>8, <1>9, <1>11 DEF RotationInv

(* A step that leaves the cursors, the turns and the mutex alone.          *)
LEMMA NoTurn ==
    ASSUME RotationInv, NEW r \in Routed, UNCHANGED <<redis, cursor, lock, turns, slips>>,
           DOMAIN at' = Routed, DOMAIN call' = Routed, at'[r] # "locked",
           \A q \in Routed \ {r} : at'[q] = at[q] /\ call'[q] = call[q],
           at'[r] \in {"choosing", "locking"} =>
              call'[r] = [candidates |-> call'[r].candidates, cursor |-> call'[r].cursor]
    PROVE  RotationInv'
<1>1. RotationTyped'
  BY OthersStayTyped DEF RotationInv, RotationTyped
<1>2. CursorIsLocked'
  BY DEF RotationInv, CursorIsLocked
<1>3. \A a \in Accounts : CursorsOf(a)' = CursorsOf(a)
  BY DEF CursorsOf, Listed, TurnOf, TurnsBelow
<1>4. TurnsAreCursors'
  BY <1>3 DEF RotationInv, TurnsAreCursors
<1> QED
  BY <1>1, <1>2, <1>4 DEF RotationInv

LEMMA GoneForTheMutex ==
    ASSUME RotationInv, NEW r \in Routed, ChooseByRow(r)
    PROVE  RotationInv'
<1>1. /\ at[r] = "choosing" /\ at' = [at EXCEPT ![r] = "locking"]
      /\ UNCHANGED <<cursor, lock, call, turns>>
  BY DEF ChooseByRow, Go
<1>2. RotationTyped /\ TurnsAreCursors /\ CursorIsLocked
  BY DEF RotationInv
<1>3. CASE UNCHANGED <<redis, slips>>
  BY <1>1, <1>2, <1>3, NoTurn DEF RotationTyped
<1>4. CASE redis' = [redis EXCEPT !.counter = @ + 1] /\ slips' = slips + 1
  <2>1. /\ redis' \in [on : BOOLEAN, counter : Nat] /\ redis'.counter = redis.counter + 1
        /\ redis.counter \in Nat /\ cursor \in Nat /\ slips \in Nat
    BY <1>2, <1>4 DEF RotationTyped
  <2>2. RotationTyped'
    BY <1>1, <1>2, <1>4, <2>1, OthersStayTyped DEF RotationTyped
  <2>3. CursorIsLocked'
    BY <1>1, <1>2 DEF RotationTyped, CursorIsLocked
  <2>4. ASSUME NEW a \in Accounts
        PROVE  /\ CursorsOf(a)' = CursorsOf(a)
                     + IF TurnOf(Listed, redis.counter) = a THEN 1 ELSE 0
               /\ turns'[a] = turns[a] + 0
    BY <1>1, <1>2, <2>1, CountedAfter, TurnsAreCountable DEF RotationTyped, CursorsOf
  <2>5. TurnsAreCursors'
    BY <1>2, <1>4, <2>4, OneTurnOrSlip
  <2> QED
    BY <2>2, <2>3, <2>5 DEF RotationInv
<1> QED
  BY <1>3, <1>4 DEF ChooseByRow

LEMMA MutexIsTaken ==
    ASSUME RotationInv, NEW r \in Routed, ReadCursor(r)
    PROVE  RotationInv'
<1>1. /\ at[r] = "locking" /\ lock = "free" /\ lock' = r
      /\ at' = [at EXCEPT ![r] = "locked"]
      /\ call' = [call EXCEPT ![r].cursor = cursor]
      /\ UNCHANGED <<redis, cursor, turns, slips>>
  BY DEF ReadCursor, Go, history
<1>2. RotationTyped /\ TurnsAreCursors /\ CursorIsLocked
  BY DEF RotationInv
<1>3. call'[r] = [candidates |-> call[r].candidates, cursor |-> cursor]
  <2>1. call[r] = [candidates |-> call[r].candidates, cursor |-> call[r].cursor]
    BY <1>1, <1>2 DEF RotationTyped
  <2>2. call'[r] = [call[r] EXCEPT !.cursor = cursor]
    BY <1>1, <1>2 DEF RotationTyped
  <2> QED
    BY <2>1, <2>2
<1>4. \A q \in Routed \ {r} : at'[q] = at[q] /\ call'[q] = call[q]
  BY <1>1, <1>2 DEF RotationTyped
<1>5. RotationTyped'
  BY <1>1, <1>2, <1>3, <1>4, OthersStayTyped DEF RotationTyped
<1>6. \A q \in Routed : at[q] # "locked"
  BY <1>1, <1>2, RoutedAssumption DEF CursorIsLocked
<1>7. CursorIsLocked'
  BY <1>1, <1>3, <1>4, <1>6 DEF CursorIsLocked
<1>8. \A a \in Accounts : CursorsOf(a)' = CursorsOf(a)
  BY <1>1 DEF CursorsOf, Listed, TurnOf, TurnsBelow
<1>9. TurnsAreCursors'
  BY <1>1, <1>2, <1>8 DEF TurnsAreCursors
<1> QED
  BY <1>5, <1>7, <1>9 DEF RotationInv

LEMMA RotationStep == RotationInv /\ [RoutingNext]_routingVars => RotationInv'
<1> SUFFICES ASSUME RotationInv, [RoutingNext]_routingVars PROVE RotationInv'
  OBVIOUS
<1>1. ASSUME UNCHANGED <<redis, cursor, lock, turns, slips, at, call>> PROVE RotationInv'
  <2>1. \A a \in Accounts : CursorsOf(a)' = CursorsOf(a)
    BY <1>1 DEF CursorsOf, Listed, TurnOf, TurnsBelow
  <2>2. TurnsAreCursors'
    BY <1>1, <2>1 DEF RotationInv, TurnsAreCursors
  <2> QED
    BY <1>1, <2>2 DEF RotationInv, RotationTyped, CursorIsLocked
<1>2. ASSUME NEW r \in Routed, Begin(r) PROVE RotationInv'
  <2>1. CASE Without(tried[r]) = <<>>
    BY <1>1, <1>2, <2>1 DEF Begin, history
  <2>2. CASE Without(tried[r]) # <<>>
    <3>1. /\ at' = [at EXCEPT ![r] = "choosing"]
          /\ call' = [call EXCEPT ![r] = [candidates |-> Without(tried[r]), cursor |-> 0]]
          /\ UNCHANGED <<redis, cursor, lock, turns, slips>>
      BY <1>2, <2>2 DEF Begin, Go, history
    <3> QED
      BY <3>1, NoTurn DEF RotationInv, RotationTyped
  <2> QED
    BY <2>1, <2>2
<1>3. ASSUME NEW r \in Routed, ChooseSorted(r) \/ ChooseAffine(r) \/ ChooseAdaptive(r)
      PROVE  RotationInv'
  <2>1. PICK b, s : Select(r, b, s)
    BY <1>3 DEF ChooseSorted, ChooseAffine, ChooseAdaptive
  <2>2. Go(r, "attempting") /\ UNCHANGED <<redis, cursor, lock, turns, slips>>
    BY <1>3 DEF ChooseSorted, ChooseAffine, ChooseAdaptive, history
  <2> QED
    BY <2>1, <2>2, NoTurn DEF Select, Go, RotationInv, RotationTyped
<1>4. ASSUME NEW r \in Routed, Observe(r) PROVE RotationInv'
  BY <1>4, NoTurn DEF Observe, Go, history, RotationInv, RotationTyped
<1>5. CASE Configure \/ UNCHANGED routingVars
  BY <1>1, <1>5 DEF Configure, routingVars, history
<1>6. CASE Restart
  <2>1. \A a \in Accounts : CursorsOf(a)' = CursorsOf(a)
    BY <1>6 DEF Restart, CursorsOf, Listed, TurnOf, TurnsBelow
  <2>2. TurnsAreCursors'
    BY <1>6, <2>1 DEF Restart, history, RotationInv, TurnsAreCursors
  <2> QED
    BY <1>6, <2>2 DEF Restart, history, RotationInv, RotationTyped, CursorIsLocked
<1> QED
  BY <1>2, <1>3, <1>4, <1>5, <1>6, RedisTurn, RowTurn, FailedTurn, GoneForTheMutex, MutexIsTaken
  DEF RoutingNext

LEMMA RotationStarts == RoutingInit => RotationInv
<1> SUFFICES ASSUME RoutingInit PROVE RotationInv
  OBVIOUS
<1>1. RotationTyped /\ CursorIsLocked
  BY DEF RoutingInit, RotationTyped, CursorIsLocked
<1>2. ASSUME NEW a \in Accounts PROVE CursorsOf(a) = 0 /\ turns[a] = 0 /\ slips = 0
  <2>1. TurnsBelow(0, a) = {} /\ redis.counter = 0 /\ cursor = 0
    BY DEF RoutingInit, TurnsBelow
  <2>2. turns[a] = 0 /\ slips = 0
    BY DEF RoutingInit
  <2> QED
    BY <2>1, <2>2, FS_EmptySet DEF CursorsOf
<1> QED
  BY <1>1, <1>2 DEF RotationInv, TurnsAreCursors

(* Requests may race for both cursors, and Redis, the row and the process  *)
(* fail at any point: each cursor that is used up is one turn, but for one *)
(* turn or cursor at each slip.                                            *)
THEOREM RotationIsCounted == RoutingSpec => []TurnsAreCursors
<1>1. RotationInv => TurnsAreCursors
  BY DEF RotationInv
<1> QED
  BY <1>1, RotationStarts, RotationStep, PTL DEF RoutingSpec

(* How many of the cursors of a source are turns of an account: of every   *)
(* TotalWeight in a row as many as its weight, a stretch of them after the *)
(* accounts before it in the list.                                         *)
LEMMA RouteWeightIsPositive ==
    ASSUME NEW a \in Accounts
    PROVE  RouteWeight(a) \in Nat /\ 1 <= RouteWeight(a) /\ RouteWeight(a) <= 1000
<1>1. Weight[a] \in Nat
  BY WeightAssumption
<1>2. Min({Weight[a], 1000}) \in {Weight[a], 1000} /\ Min({Weight[a], 1000}) <= 1000
  <2>1. {Weight[a], 1000} \in SUBSET Nat
    BY <1>1
  <2> HIDE DEF Min
  <2> QED
    BY <2>1, LeastExists
<1> HIDE DEF Min
<1> QED
  BY <1>1, <1>2 DEF RouteWeight

LEMMA CountedUpTo ==
    ASSUME NEW n \in Nat
    PROVE  IsFiniteSet(1 .. n) /\ Cardinality(1 .. n) = n
<1>1. IsFiniteSet(1 .. n) /\ Cardinality(1 .. n) = IF 1 > n THEN 0 ELSE n - 1 + 1
  BY FS_Interval
<1> QED
  BY <1>1

UnitsOf(accounts) == UNION {{a} \X (1 .. RouteWeight(a)) : a \in accounts}

LEMMA UnitsAreCountable ==
    ASSUME NEW S \in SUBSET Accounts, IsFiniteSet(S)
    PROVE  IsFiniteSet(UnitsOf(S)) /\ Cardinality(UnitsOf(S)) \in Nat
<1>1. PICK most \in Nat : most = 1000
  OBVIOUS
<1>2. IsFiniteSet(S \X (1 .. most))
  BY CountedUpTo, FS_Product
<1>3. \A a \in S : 1 .. RouteWeight(a) \subseteq 1 .. most
  BY <1>1, RouteWeightIsPositive
<1>4. UnitsOf(S) \in SUBSET (S \X (1 .. most))
  BY <1>3 DEF UnitsOf
<1> QED
  BY <1>2, <1>4, FS_Subset, FS_CardinalityType

LEMMA AddedWeight ==
    ASSUME NEW S \in SUBSET Accounts, IsFiniteSet(S), NEW a \in Accounts, a \notin S
    PROVE  /\ IsFiniteSet(UnitsOf(S)) /\ WeightOf(S) \in Nat
           /\ WeightOf(S \cup {a}) = WeightOf(S) + RouteWeight(a)
<1> DEFINE own == {a} \X (1 .. RouteWeight(a))
<1>1. IsFiniteSet(own) /\ Cardinality(own) = RouteWeight(a)
  <2>1. RouteWeight(a) \in Nat
    BY RouteWeightIsPositive
  <2>2. IsFiniteSet({a}) /\ Cardinality({a}) = 1
    BY FS_Singleton
  <2>3. PICK units : units = 1 .. RouteWeight(a)
    OBVIOUS
  <2>4. IsFiniteSet(units) /\ Cardinality(units) = RouteWeight(a)
    BY <2>1, <2>3, CountedUpTo
  <2>5. /\ IsFiniteSet({a} \X units)
        /\ Cardinality({a} \X units) = Cardinality({a}) * Cardinality(units)
    BY <2>2, <2>4, FS_Product
  <2>6. Cardinality({a} \X units) = RouteWeight(a)
    BY <2>1, <2>2, <2>4, <2>5
  <2> QED
    BY <2>3, <2>5, <2>6
<1>2. IsFiniteSet(UnitsOf(S))
  BY UnitsAreCountable
<1>3. UnitsOf(S \cup {a}) = UnitsOf(S) \cup own
  BY DEF UnitsOf
<1>4. UnitsOf(S) \cap own = {}
  BY DEF UnitsOf
<1>5. Cardinality(UnitsOf(S) \cup own)
        = Cardinality(UnitsOf(S)) + Cardinality(own) - Cardinality(UnitsOf(S) \cap own)
  BY <1>1, <1>2, FS_Union
<1>6. Cardinality(UnitsOf(S)) \in Nat
  BY <1>2, FS_CardinalityType
<1>7. RouteWeight(a) \in Nat
  BY RouteWeightIsPositive
<1> HIDE DEF own
<1>8. Cardinality(UnitsOf(S \cup {a})) = Cardinality(UnitsOf(S)) + RouteWeight(a)
  <2>1. Cardinality(UnitsOf(S) \cap own) = 0
    BY <1>4, FS_EmptySet
  <2>2. Cardinality(UnitsOf(S) \cup own) = Cardinality(UnitsOf(S)) + RouteWeight(a) - 0
    BY <1>1, <1>5, <2>1
  <2>3. Cardinality(UnitsOf(S) \cup own) = Cardinality(UnitsOf(S)) + RouteWeight(a)
    BY <1>6, <1>7, <2>2
  <2> QED
    BY <1>3, <2>3
<1> QED
  BY <1>2, <1>6, <1>8 DEF WeightOf, UnitsOf

(* The accounts up to a place in the list, and the weight they have.       *)
UpTo(i) == {Listed[j] : j \in 1 .. i}
Share(i) == WeightOf(UpTo(i))

LEMMA ListedIsAnOrder ==
    /\ Listed \in Seq(Accounts) /\ Range(Listed) = Accounts
    /\ \A i, j \in DOMAIN Listed : Listed[i] = Listed[j] => i = j
    /\ IsFiniteSet(Accounts)
<1>1. Listed \in Orders
  BY OrdersAssumption DEF Listed
<1>2. Listed \in Seq(Accounts) /\ Range(Listed) = Accounts /\ IsInjective(Listed)
  BY <1>1, OrdersAssumption
<1>3. IsFiniteSet(Accounts)
  <2>1. IsFiniteSet(1 .. Len(Listed)) /\ DOMAIN Listed = 1 .. Len(Listed)
    BY <1>2, FS_Interval
  <2>2. Listed \in Surjection(1 .. Len(Listed), Accounts)
    BY <1>2, <2>1 DEF Surjection, Range
  <2> QED
    BY <2>1, <2>2, FS_Surjection
<1> QED
  BY <1>2, <1>3 DEF IsInjective

LEMMA SharesFollow ==
    /\ Share(0) = 0 /\ Share(Len(Listed)) = TotalWeight
    /\ \A i \in 0 .. Len(Listed) : Share(i) \in Nat
    /\ \A i \in 1 .. Len(Listed) : Share(i) = Share(i - 1) + RouteWeight(Listed[i])
    /\ \A i, j \in 0 .. Len(Listed) : i <= j => Share(i) <= Share(j)
<1> USE ListedIsAnOrder
<1>1. DOMAIN Listed = 1 .. Len(Listed) /\ Len(Listed) \in Nat
  OBVIOUS
<1>2. \A i \in 0 .. Len(Listed) : UpTo(i) \in SUBSET Accounts /\ IsFiniteSet(UpTo(i))
  <2> TAKE i \in 0 .. Len(Listed)
  <2>1. UpTo(i) \in SUBSET Accounts
    BY <1>1 DEF UpTo
  <2> QED
    BY <2>1, FS_Subset
<1>3. ASSUME NEW i \in 0 .. Len(Listed)
      PROVE  IsFiniteSet(UnitsOf(UpTo(i))) /\ Share(i) = Cardinality(UnitsOf(UpTo(i)))
  BY <1>2, UnitsAreCountable DEF Share, WeightOf, UnitsOf
<1>4. Share(0) = 0
  <2>1. UpTo(0) = {}
    BY DEF UpTo
  <2>2. UnitsOf(UpTo(0)) = {}
    BY <2>1 DEF UnitsOf
  <2> QED
    BY <1>1, <1>3, <2>2, FS_EmptySet
<1>5. Share(Len(Listed)) = TotalWeight
  <2>1. UpTo(Len(Listed)) = Accounts
    BY <1>1 DEF UpTo, Range
  <2> QED
    BY <2>1 DEF Share, TotalWeight
<1>6. \A i \in 0 .. Len(Listed) : Share(i) \in Nat
  BY <1>3, FS_CardinalityType
<1>7. ASSUME NEW i \in 1 .. Len(Listed)
      PROVE  Share(i) = Share(i - 1) + RouteWeight(Listed[i])
  <2>1. UpTo(i) = UpTo(i - 1) \cup {Listed[i]}
    <3>1. 1 .. i = (1 .. i - 1) \cup {i}
      OBVIOUS
    <3> QED
      BY <3>1 DEF UpTo
  <2>2. Listed[i] \notin UpTo(i - 1)
    <3>1. \A j \in 1 .. i - 1 : j \in DOMAIN Listed /\ j # i
      BY <1>1
    <3> QED
      BY <1>1, <3>1 DEF UpTo
  <2>3. i - 1 \in 0 .. Len(Listed) /\ Listed[i] \in Accounts
    BY <1>1
  <2> QED
    BY <1>2, <2>1, <2>2, <2>3, AddedWeight DEF Share
<1>8. ASSUME NEW i \in 0 .. Len(Listed), NEW j \in 0 .. Len(Listed), i <= j
      PROVE  Share(i) <= Share(j)
  <2>1. 1 .. i \subseteq 1 .. j
    BY <1>8
  <2>2. UpTo(i) \subseteq UpTo(j)
    BY <2>1 DEF UpTo
  <2>3. UnitsOf(UpTo(i)) \in SUBSET UnitsOf(UpTo(j))
    BY <2>2 DEF UnitsOf
  <2> QED
    BY <1>3, <2>3, FS_Subset
<1> QED
  BY <1>4, <1>5, <1>6, <1>7, <1>8

LEMMA TurnIsWithin ==
    ASSUME NEW n \in Nat, NEW i \in 1 .. Len(Listed)
    PROVE  /\ TotalWeight \in Nat \ {0} /\ n % TotalWeight \in 0 .. TotalWeight - 1
           /\ TurnOf(Listed, n) = Listed[i]
                <=> Share(i - 1) <= n % TotalWeight /\ n % TotalWeight < Share(i)
<1> USE ListedIsAnOrder
<1>1. DOMAIN Listed = 1 .. Len(Listed) /\ Len(Listed) \in Nat
  OBVIOUS
<1>2. TotalWeight \in Nat \ {0}
  <2>1. Listed[1] \in Accounts /\ 1 \in 1 .. Len(Listed) /\ Len(Listed) \in 0 .. Len(Listed)
    BY <1>1
  <2>2. RouteWeight(Listed[1]) \in Nat /\ RouteWeight(Listed[1]) >= 1
    BY <2>1, RouteWeightIsPositive
  <2>3. Share(1) = 0 + RouteWeight(Listed[1])
    <3>1. Share(1) = Share(1 - 1) + RouteWeight(Listed[1])
      BY <2>1, SharesFollow
    <3>2. 1 - 1 = 0
      OBVIOUS
    <3> QED
      BY <3>1, <3>2, SharesFollow
  <2>4. 1 \in 0 .. Len(Listed) /\ 1 <= Len(Listed)
    BY <2>1
  <2>5. Share(1) <= Share(Len(Listed)) /\ Share(Len(Listed)) \in Nat
    BY <2>1, <2>4, SharesFollow
  <2>6. TotalWeight = Share(Len(Listed))
    BY SharesFollow
  <2>7. Share(1) >= 1 /\ Share(1) \in Nat
    BY <2>2, <2>3
  <2>8. Share(Len(Listed)) >= 1
    BY <2>5, <2>7
  <2> QED
    BY <2>5, <2>6, <2>8
<1> DEFINE o == n % TotalWeight
           past == {j \in DOMAIN Listed : o < Share(j)}
<1>3. o \in 0 .. TotalWeight - 1
  BY <1>2
<1>4. TurnOf(Listed, n) = Listed[Min(past)]
  <2>1. WeightOf(Range(Listed)) = TotalWeight
    BY DEF TotalWeight
  <2> QED
    BY <2>1 DEF TurnOf, Share, UpTo
<1> HIDE DEF o
<1>5. past \in SUBSET Nat /\ past # {}
  <2>1. Len(Listed) \in DOMAIN Listed /\ o < Share(Len(Listed))
    BY <1>1, <1>2, <1>3, SharesFollow
  <2> QED
    BY <1>1, <2>1
<1>6. Min(past) \in past /\ \A j \in past : Min(past) <= j
  BY <1>5, LeastExists
<1>7. PICK m \in DOMAIN Listed : m = Min(past) /\ o < Share(m) /\ \A j \in past : m <= j
  BY <1>6
<1> HIDE DEF past
<1>8. TurnOf(Listed, n) = Listed[i] <=> m = i
  BY <1>1, <1>4, <1>7
<1>9. ASSUME m = i PROVE Share(i - 1) <= o /\ o < Share(i)
  <2>1. CASE i = 1
    BY <1>3, <1>7, <1>9, <2>1, SharesFollow
  <2>2. CASE i # 1
    <3>1. i - 1 \in DOMAIN Listed /\ ~(m <= i - 1) /\ i - 1 \in 0 .. Len(Listed)
      BY <1>1, <1>9, <2>2
    <3>2. ~(o < Share(i - 1)) /\ Share(i - 1) \in Nat
      BY <1>7, <3>1, SharesFollow DEF past
    <3> QED
      BY <1>3, <1>7, <1>9, <3>2
  <2> QED
    BY <2>1, <2>2
<1>10. ASSUME Share(i - 1) <= o, o < Share(i) PROVE m = i
  <2>1. m <= i
    BY <1>1, <1>7, <1>10 DEF past
  <2>2. ASSUME m < i PROVE FALSE
    <3>1. m \in 0 .. Len(Listed) /\ i - 1 \in 0 .. Len(Listed) /\ m <= i - 1
      BY <1>1, <1>7, <2>2
    <3>2. Share(m) <= Share(i - 1) /\ Share(m) \in Nat /\ Share(i - 1) \in Nat
      BY <3>1, SharesFollow
    <3> QED
      BY <1>3, <1>7, <1>10, <3>2
  <2> QED
    BY <1>1, <1>7, <2>1, <2>2
<1> QED
  BY <1>2, <1>3, <1>8, <1>9, <1>10 DEF o

LEMMA Division ==
    ASSUME NEW W \in Nat \ {0}, NEW n \in Nat
    PROVE  /\ n \div W \in Nat /\ n % W \in 0 .. W - 1
           /\ n = W * (n \div W) + (n % W)
<1>1. n \div W \in Int /\ n \div W >= 0
  OBVIOUS
<1>2. n % W \in 0 .. W - 1
  OBVIOUS
<1>3. W \in Nat /\ W > 0
  OBVIOUS
<1>4. n = W * (n \div W) + (n % W)
  BY <1>3, SMT
<1> QED
  BY <1>1, <1>2, <1>3, <1>4

LEMMA QuotientIsUnique ==
    ASSUME NEW W \in Nat \ {0}, NEW p \in Nat, NEW q \in Nat,
           NEW r \in 0 .. W - 1, NEW s \in 0 .. W - 1, W * p + r = W * q + s
    PROVE  p = q /\ r = s
<1>1. ASSUME NEW x \in Nat, NEW y \in Nat, x < y PROVE W * x + W <= W * y
  <2>1. W * (y - x) >= W
    BY <1>1, Z3
  <2>2. W * (y - x) = W * y - W * x
    BY Z3
  <2>3. W * x \in Int /\ W * y \in Int /\ W * (y - x) \in Int
    OBVIOUS
  <2> QED
    BY <2>1, <2>2, <2>3
<1>2. W * p \in Int /\ W * q \in Int
  OBVIOUS
<1>3. ~(p < q)
  BY <1>1, <1>2
<1>4. ~(q < p)
  BY <1>1, <1>2
<1>5. p = q
  BY <1>3, <1>4
<1> QED
  BY <1>2, <1>5

LEMMA NextCursor ==
    ASSUME NEW W \in Nat \ {0}, NEW n \in Nat
    PROVE  IF n % W = W - 1
           THEN (n + 1) \div W = (n \div W) + 1 /\ (n + 1) % W = 0
           ELSE (n + 1) \div W = n \div W /\ (n + 1) % W = (n % W) + 1
<1> DEFINE p == (n + 1) \div W
           r == (n + 1) % W
           q == n \div W
           s == n % W
<1>1. p \in Nat /\ r \in 0 .. W - 1 /\ n + 1 = W * p + r
  <2>1. n + 1 \in Nat
    OBVIOUS
  <2> QED
    BY <2>1, Division
<1>2. q \in Nat /\ s \in 0 .. W - 1 /\ n = W * q + s
  BY Division
<1> HIDE DEF p, r, q, s
<1>3. CASE s = W - 1
  <2>1. W * (q + 1) = W * q + W
    BY <1>2, Z3
  <2>2. W * q \in Int /\ W * p \in Int
    BY <1>1, <1>2
  <2>3. W * p + r = W * q + W
    BY <1>1, <1>2, <1>3, <2>2
  <2>4. PICK next \in Nat : next = q + 1
    BY <1>2
  <2>5. W * p + r = W * next + 0 /\ 0 \in 0 .. W - 1
    BY <2>1, <2>2, <2>3, <2>4
  <2>6. p = next /\ r = 0
    BY <1>1, <2>5, QuotientIsUnique
  <2> QED
    BY <1>3, <2>4, <2>6 DEF p, q, r, s
<1>4. CASE s # W - 1
  <2>1. W * q \in Int /\ W * p \in Int /\ s + 1 \in 0 .. W - 1
    BY <1>1, <1>2, <1>4
  <2>2. W * p + r = W * q + (s + 1)
    BY <1>1, <1>2, <2>1
  <2>3. p = q /\ r = s + 1
    BY <1>1, <1>2, <2>1, <2>2, QuotientIsUnique
  <2> QED
    BY <1>4, <2>3 DEF p, q, r, s
<1> QED
  BY <1>3, <1>4

(* The turns of the i-th account among n cursors: those of the whole       *)
(* rounds, and those of the round that has begun.                          *)
InRound(i, offset) ==
    IF offset <= Share(i - 1) THEN 0
    ELSE IF offset < Share(i) THEN offset - Share(i - 1) ELSE RouteWeight(Listed[i])
TurnsDue(i, n) ==
    RouteWeight(Listed[i]) * (n \div TotalWeight) + InRound(i, n % TotalWeight)

LEMMA RoundsAreTyped ==
    ASSUME NEW i \in 1 .. Len(Listed)
    PROVE  /\ RouteWeight(Listed[i]) \in Nat /\ 1 <= RouteWeight(Listed[i])
           /\ Share(i - 1) \in Nat /\ Share(i) = Share(i - 1) + RouteWeight(Listed[i])
           /\ Share(i) <= TotalWeight /\ TotalWeight \in Nat \ {0}
<1> USE ListedIsAnOrder
<1>1. Listed[i] \in Accounts /\ i - 1 \in 0 .. Len(Listed) /\ i \in 0 .. Len(Listed)
      /\ Len(Listed) \in 0 .. Len(Listed) /\ i <= Len(Listed)
  OBVIOUS
<1>2. Share(i) <= Share(Len(Listed))
  BY <1>1, SharesFollow
<1>3. Share(i - 1) \in Nat /\ Share(i) = Share(i - 1) + RouteWeight(Listed[i])
  BY <1>1, SharesFollow
<1>4. RouteWeight(Listed[i]) \in Nat /\ 1 <= RouteWeight(Listed[i])
  BY <1>1, RouteWeightIsPositive
<1>5. TotalWeight \in Nat \ {0} /\ Share(Len(Listed)) = TotalWeight
  BY TurnIsWithin, SharesFollow
<1> QED
  BY <1>2, <1>3, <1>4, <1>5

LEMMA NextTurnIsDue ==
    ASSUME NEW i \in 1 .. Len(Listed), NEW n \in Nat
    PROVE  TurnsDue(i, n + 1) =
             TurnsDue(i, n) + IF TurnOf(Listed, n) = Listed[i] THEN 1 ELSE 0
<1> DEFINE W == TotalWeight
           w == RouteWeight(Listed[i])
           q == n \div W
           o == n % W
<1>1. /\ W \in Nat \ {0} /\ w \in Nat /\ 1 <= w
      /\ Share(i - 1) \in Nat /\ Share(i) = Share(i - 1) + w /\ Share(i) <= W
  BY RoundsAreTyped
<1>2. q \in Nat /\ o \in 0 .. W - 1
  BY <1>1, Division
<1>3. TurnOf(Listed, n) = Listed[i] <=> Share(i - 1) <= o /\ o < Share(i)
  BY TurnIsWithin
<1>4. IF o = W - 1 THEN (n + 1) \div W = q + 1 /\ (n + 1) % W = 0
                   ELSE (n + 1) \div W = q /\ (n + 1) % W = o + 1
  BY <1>1, NextCursor
<1>5. TurnsDue(i, n) = w * q + InRound(i, o)
  BY DEF TurnsDue
<1>6. TurnsDue(i, n + 1) = w * ((n + 1) \div W) + InRound(i, (n + 1) % W)
  BY DEF TurnsDue
<1>7. w * q \in Int
  BY <1>1, <1>2
<1> HIDE DEF W, w, q, o
<1>8. CASE o = W - 1
  <2>1. TurnsDue(i, n + 1) = w * (q + 1) + InRound(i, 0)
    BY <1>4, <1>6, <1>8
  <2>2. w * (q + 1) = w * q + w
    BY <1>1, <1>2, Z3
  <2>3. InRound(i, 0) = 0
    BY <1>1 DEF InRound
  <2>4. w * q + InRound(i, o) + (IF Share(i - 1) <= o /\ o < Share(i) THEN 1 ELSE 0) = w * q + w
    <3>1. InRound(i, o) + (IF Share(i - 1) <= o /\ o < Share(i) THEN 1 ELSE 0) = w
      <4>1. CASE Share(i) = W
        BY <1>1, <1>2, <1>8, <4>1 DEF InRound, w
      <4>2. CASE Share(i) # W
        <5>1. Share(i) <= o /\ ~(o < Share(i)) /\ ~(o <= Share(i - 1))
          BY <1>1, <1>2, <1>8, <4>2
        <5> QED
          BY <1>1, <5>1 DEF InRound, w
      <4> QED
        BY <4>1, <4>2
    <3>2. InRound(i, o) \in Int
      BY <1>1, <1>2 DEF InRound, w
    <3> QED
      BY <1>1, <1>7, <3>1, <3>2
  <2> QED
    BY <1>1, <1>3, <1>5, <1>7, <2>1, <2>2, <2>3, <2>4
<1>9. CASE o # W - 1
  <2>1. TurnsDue(i, n + 1) = w * q + InRound(i, o + 1)
    BY <1>4, <1>6, <1>9
  <2>2. InRound(i, o + 1) =
           InRound(i, o) + (IF Share(i - 1) <= o /\ o < Share(i) THEN 1 ELSE 0)
    BY <1>1, <1>2 DEF InRound, w
  <2>3. InRound(i, o) \in Int
    BY <1>1, <1>2 DEF InRound, w
  <2> QED
    BY <1>3, <1>5, <1>7, <2>1, <2>2, <2>3
<1> QED
  BY <1>8, <1>9

(* If the count were wrong at some cursor it would be at a least one.      *)
LEMMA TurnsAreDue ==
    ASSUME NEW i \in 1 .. Len(Listed)
    PROVE  \A n \in Nat : Cardinality(TurnsBelow(n, Listed[i])) = TurnsDue(i, n)
<1> DEFINE wrong == {n \in Nat : Cardinality(TurnsBelow(n, Listed[i])) # TurnsDue(i, n)}
<1> SUFFICES ASSUME wrong # {} PROVE FALSE
  OBVIOUS
<1>1. PICK n \in wrong : \A m \in wrong : n <= m
  BY LeastExists
<1>2. n \in Nat /\ Cardinality(TurnsBelow(n, Listed[i])) # TurnsDue(i, n)
  OBVIOUS
<1>3. n # 0
  <2>1. TurnsBelow(0, Listed[i]) = {}
    BY DEF TurnsBelow
  <2>2. TurnsDue(i, 0) = 0
    <3>1. 0 \div TotalWeight = 0 /\ 0 % TotalWeight = 0
      <4>1. TotalWeight \in Nat \ {0}
        BY RoundsAreTyped
      <4> QED
        BY <4>1
    <3> QED
      BY <3>1, RoundsAreTyped DEF TurnsDue, InRound
  <2> QED
    BY <1>2, <2>1, <2>2, FS_EmptySet
<1>4. PICK p \in Nat : n = p + 1
  <2>1. n - 1 \in Nat /\ n = (n - 1) + 1
    BY <1>2, <1>3
  <2> QED
    BY <2>1
<1>5. p \notin wrong
  BY <1>1, <1>4
<1>6. Cardinality(TurnsBelow(p, Listed[i])) = TurnsDue(i, p)
  BY <1>5
<1>7. Cardinality(TurnsBelow(p + 1, Listed[i])) = TurnsDue(i, p + 1)
  <2>1. Cardinality(TurnsBelow(p + 1, Listed[i])) = Cardinality(TurnsBelow(p, Listed[i]))
          + IF TurnOf(Listed, p) = Listed[i] THEN 1 ELSE 0
    BY TurnsAreCountable
  <2>2. TurnsDue(i, p + 1) = TurnsDue(i, p) + IF TurnOf(Listed, p) = Listed[i] THEN 1 ELSE 0
    BY NextTurnIsDue
  <2> QED
    BY <1>6, <2>1, <2>2
<1> QED
  BY <1>2, <1>4, <1>7

(* Of n cursors of a source an account gets its weight for every round     *)
(* that is whole, and no more than that for every round that has begun.    *)
LEMMA RoundsAreFair ==
    ASSUME NEW a \in Accounts, NEW n \in Nat
    PROVE  /\ RouteWeight(a) * Whole(n) <= Cardinality(TurnsBelow(n, a))
           /\ Cardinality(TurnsBelow(n, a)) <= RouteWeight(a) * Begun(n)
           /\ Whole(n) \in Nat /\ Begun(n) \in Nat
<1>1. PICK i \in 1 .. Len(Listed) : a = Listed[i]
  BY ListedIsAnOrder DEF Range
<1> DEFINE W == TotalWeight
           w == RouteWeight(Listed[i])
           q == n \div W
           o == n % W
           b == (n + W - 1) \div W
           s == (n + W - 1) % W
<1>2. /\ W \in Nat \ {0} /\ w \in Nat /\ 1 <= w
      /\ Share(i - 1) \in Nat /\ Share(i) = Share(i - 1) + w /\ Share(i) <= W
  BY RoundsAreTyped
<1>3. q \in Nat /\ o \in 0 .. W - 1 /\ n = W * q + o
  BY <1>2, Division
<1>4. b \in Nat /\ s \in 0 .. W - 1 /\ n + W - 1 = W * b + s
  <2>1. n + W - 1 \in Nat
    BY <1>2
  <2> HIDE DEF W
  <2> QED
    BY <1>2, <2>1, Division
<1>5. Cardinality(TurnsBelow(n, a)) = w * q + InRound(i, o)
  BY <1>1, TurnsAreDue DEF TurnsDue
<1>6. Whole(n) = q /\ Begun(n) = b
  BY DEF Whole, Begun
<1> HIDE DEF W, w, q, o, b, s
<1>7. w * q \in Int /\ W * q \in Int /\ W * b \in Int
  BY <1>2, <1>3, <1>4
<1>8. InRound(i, o) \in Int /\ 0 <= InRound(i, o) /\ InRound(i, o) <= w
      /\ (o = 0 => InRound(i, o) = 0)
  BY <1>2, <1>3 DEF InRound, w
<1>9. IF o = 0 THEN b = q ELSE b = q + 1
  <2>1. CASE o = 0
    <3>1. W * b + s = W * q + (W - 1) /\ W - 1 \in 0 .. W - 1
      BY <1>2, <1>3, <1>4, <1>7, <2>1
    <3> QED
      BY <1>2, <1>3, <1>4, <2>1, <3>1, QuotientIsUnique
  <2>2. CASE o # 0
    <3>1. W * (q + 1) = W * q + W
      BY <1>2, <1>3, Z3
    <3>2. W * b + s = W * (q + 1) + (o - 1) /\ o - 1 \in 0 .. W - 1 /\ q + 1 \in Nat
      BY <1>2, <1>3, <1>4, <1>7, <2>2, <3>1
    <3>3. PICK rest \in 0 .. W - 1 : rest = o - 1
      BY <3>2
    <3>4. PICK next \in Nat : next = q + 1
      BY <3>2
    <3>5. W * b + s = W * next + rest
      BY <3>2, <3>3, <3>4
    <3>6. b = next
      BY <1>2, <1>4, <3>5, QuotientIsUnique
    <3> QED
      BY <2>2, <3>4, <3>6
  <2> QED
    BY <2>1, <2>2
<1>10. w * (q + 1) = w * q + w
  BY <1>2, <1>3, Z3
<1>11. w * q + InRound(i, o) <= w * b
  BY <1>2, <1>7, <1>8, <1>9, <1>10
<1>12. w * q <= w * q + InRound(i, o)
  BY <1>7, <1>8
<1>13. RouteWeight(a) = w
  BY <1>1 DEF w
<1> QED
  BY <1>3, <1>4, <1>5, <1>6, <1>11, <1>12, <1>13

(* For any accounts, weights, orders and numbers of requests: over the     *)
(* cursors of both sources, whoever races for them and whatever fails,     *)
(* each account gets its weight of every round, up to one turn for each    *)
(* slip.                                                                   *)
THEOREM RotationIsFair == RoutingSpec => []SharesAreFair
<1>1. ASSUME RotationInv PROVE SharesAreFair
  <2> SUFFICES ASSUME NEW a \in Accounts
               PROVE  /\ turns[a] >= RouteWeight(a) * (Whole(redis.counter) + Whole(cursor)) - slips
                      /\ turns[a] <= RouteWeight(a) * (Begun(redis.counter) + Begun(cursor)) + slips
    BY DEF SharesAreFair
  <2>1. redis.counter \in Nat /\ cursor \in Nat /\ turns[a] \in Nat /\ slips \in Nat
    BY <1>1 DEF RotationInv, RotationTyped
  <2>2. turns[a] - CursorsOf(a) <= slips /\ CursorsOf(a) - turns[a] <= slips
    BY <1>1 DEF RotationInv, TurnsAreCursors
  <2> DEFINE w == RouteWeight(a)
             c == Cardinality(TurnsBelow(redis.counter, a))
             d == Cardinality(TurnsBelow(cursor, a))
  <2>3. c \in Nat /\ d \in Nat /\ CursorsOf(a) = c + d
    BY <2>1, TurnsAreCountable DEF CursorsOf
  <2>4. /\ w * Whole(redis.counter) <= c /\ c <= w * Begun(redis.counter)
        /\ w * Whole(cursor) <= d /\ d <= w * Begun(cursor)
        /\ Whole(redis.counter) \in Nat /\ Begun(redis.counter) \in Nat
        /\ Whole(cursor) \in Nat /\ Begun(cursor) \in Nat /\ w \in Nat
    BY <2>1, RoundsAreFair, RouteWeightIsPositive
  <2> HIDE DEF w, c, d
  <2>5. ASSUME NEW x \in Nat, NEW y \in Nat
        PROVE  /\ w * (x + y) = w * x + w * y
               /\ w * x \in Nat /\ w * y \in Nat
    BY <2>4, Z3
  <2>6. /\ w * (Whole(redis.counter) + Whole(cursor)) <= c + d
        /\ c + d <= w * (Begun(redis.counter) + Begun(cursor))
        /\ w * (Whole(redis.counter) + Whole(cursor)) \in Nat
        /\ w * (Begun(redis.counter) + Begun(cursor)) \in Nat
    <3>1. /\ w * (Whole(redis.counter) + Whole(cursor))
               = w * Whole(redis.counter) + w * Whole(cursor)
          /\ w * (Begun(redis.counter) + Begun(cursor))
               = w * Begun(redis.counter) + w * Begun(cursor)
      BY <2>4, <2>5
    <3>2. /\ w * Whole(redis.counter) \in Nat /\ w * Whole(cursor) \in Nat
          /\ w * Begun(redis.counter) \in Nat /\ w * Begun(cursor) \in Nat
      BY <2>4, <2>5
    <3> QED
      BY <2>3, <2>4, <3>1, <3>2
  <2> QED
    BY <2>1, <2>2, <2>3, <2>6 DEF w
<1>2. RoutingInit => RotationInv
  BY RotationStarts
<1> QED
  BY <1>1, <1>2, RotationStep, PTL DEF RoutingSpec

(* What a list keeps of its members, when some are left out: all the       *)
(* others. The rank of a place that stays is the number of the places that *)
(* stay up to it; ranks are distinct, so that every number is a rank.      *)
LEMMA OthersAreKept ==
    ASSUME NEW S, NEW list \in Seq(S), NEW out
    PROVE  /\ Kept(list, out) \in Seq(S)
           /\ Range(Kept(list, out)) = Range(list) \ out
<1> DEFINE places == {i \in DOMAIN list : list[i] \notin out}
           n == Cardinality(places)
           rank == [i \in places |-> Cardinality(places \cap (1 .. i))]
           place(k) == CHOOSE i \in places : Cardinality(places \cap (1 .. i)) = k
           kept == Kept(list, out)
<1>1. DOMAIN list = 1 .. Len(list) /\ Len(list) \in Nat /\ places \in SUBSET Nat
  OBVIOUS
<1>2. IsFiniteSet(places) /\ n \in Nat
  <2>1. IsFiniteSet(1 .. Len(list)) /\ places \in SUBSET (1 .. Len(list))
    BY <1>1, FS_Interval
  <2> QED
    BY <2>1, FS_Subset, FS_CardinalityType
<1> HIDE DEF places
<1>3. ASSUME NEW i \in places
      PROVE  /\ IsFiniteSet(places \cap (1 .. i)) /\ i \in places \cap (1 .. i)
             /\ rank[i] \in 1 .. n
  <2>1. i \in 1 .. i
    BY <1>1 DEF places
  <2>2. places \cap (1 .. i) \in SUBSET places /\ places \cap (1 .. i) # {}
    BY <2>1
  <2>3. /\ IsFiniteSet(places \cap (1 .. i)) /\ Cardinality(places \cap (1 .. i)) <= n
        /\ Cardinality(places \cap (1 .. i)) \in Nat
        /\ Cardinality(places \cap (1 .. i)) # 0
    BY <1>2, <2>2, FS_Subset, FS_CardinalityType, FS_EmptySet
  <2> QED
    BY <1>2, <2>1, <2>3
<1>4. ASSUME NEW i \in places, NEW j \in places, rank[i] = rank[j], i < j PROVE FALSE
  <2>1. i \in Nat /\ j \in Nat
    BY <1>1
  <2>2. 1 .. i \subseteq 1 .. j /\ j \notin 1 .. i
    BY <1>4, <2>1
  <2>3. places \cap (1 .. i) \in SUBSET (places \cap (1 .. j))
    BY <2>2
  <2>4. places \cap (1 .. i) = places \cap (1 .. j)
    BY <1>3, <1>4, <2>3, FS_Subset
  <2> QED
    BY <1>3, <2>2, <2>4
<1>5. ASSUME NEW i \in places, NEW j \in places, rank[i] = rank[j] PROVE i = j
  <2>1. i \in Nat /\ j \in Nat
    BY <1>1
  <2>2. i < j \/ j < i \/ i = j
    BY <2>1
  <2> QED
    BY <1>4, <1>5, <2>2
<1>6. rank \in Surjection(places, 1 .. n)
  <2>1. rank \in [places -> 1 .. n]
    BY <1>3
  <2>2. rank \in Injection(places, 1 .. n)
    BY <1>5, <2>1 DEF Injection, IsInjective
  <2>3. IsFiniteSet(1 .. n) /\ Cardinality(1 .. n) = n
    BY <1>2, CountedUpTo
  <2> HIDE DEF rank, n
  <2>4. Cardinality(places) = Cardinality(1 .. n)
    BY <2>3 DEF n
  <2> QED
    BY <2>2, <2>3, <2>4, FS_Injection
<1>7. ASSUME NEW k \in 1 .. n PROVE place(k) \in places /\ rank[place(k)] = k
  <2>1. PICK i \in places : Cardinality(places \cap (1 .. i)) = k
    BY <1>6 DEF Surjection
  <2> QED
    BY <2>1
<1>8. kept = [k \in 1 .. n |-> list[place(k)]]
  BY DEF Kept, places
<1> HIDE DEF kept, place, rank, n
<1>9. kept \in Seq(S)
  <2>1. \A k \in 1 .. n : list[place(k)] \in S
    BY <1>1, <1>7 DEF places
  <2> QED
    BY <1>2, <1>8, <2>1
<1>10. ASSUME NEW a \in Range(kept) PROVE a \in Range(list) \ out
  <2>1. PICK k \in 1 .. n : a = list[place(k)]
    BY <1>8 DEF Range
  <2> QED
    BY <1>7, <2>1 DEF Range, places
<1>11. ASSUME NEW a \in Range(list) \ out PROVE a \in Range(kept)
  <2>1. PICK i \in places : a = list[i]
    BY DEF Range, places
  <2>2. rank[i] \in 1 .. n /\ place(rank[i]) = i
    BY <1>3, <1>5, <1>7
  <2> QED
    BY <1>8, <2>1, <2>2 DEF Range
<1> QED
  BY <1>9, <1>10, <1>11 DEF kept

(* Both choices are one of the candidates.                                 *)
LEMMA AffineIsListed ==
    ASSUME NEW list \in Seq(Accounts), list # <<>>, NEW score \in [Accounts -> Nat]
    PROVE  Affine(list, score) \in Range(list)
<1> DEFINE scored == {score[a] : a \in Range(list)}
           firsts == {a \in Range(list) : score[a] = Max(scored)}
<1>1. PICK best \in Range(list) : \A a \in Range(list) : score[a] <= score[best]
  BY HighestExists
<1>2. Range(list) \in SUBSET Accounts
  BY DEF Range
<1>3. Max(scored) \in scored
  <2>1. score[best] \in scored /\ \A n \in scored : score[best] >= n
    BY <1>1, <1>2
  <2> QED
    BY <2>1 DEF Max
<1>4. firsts \in SUBSET Nat /\ firsts # {}
  BY <1>2, <1>3, AccountsAssumption
<1>5. Affine(list, score) = Min(firsts)
  BY DEF Affine
<1> HIDE DEF firsts
<1>6. Min(firsts) \in firsts
  BY <1>4, LeastExists
<1> QED
  BY <1>5, <1>6 DEF firsts

LEMMA TurnIsListed ==
    ASSUME NEW list \in Seq(Accounts), list # <<>>, NEW n \in Nat
    PROVE  TurnOf(list, n) \in Range(list)
<1> DEFINE W == WeightOf(Range(list))
           offset == n % W
           upTo(i) == WeightOf({list[j] : j \in 1 .. i})
           past == {i \in DOMAIN list : offset < upTo(i)}
<1>1. DOMAIN list = 1 .. Len(list) /\ Len(list) \in Nat \ {0}
  OBVIOUS
<1>2. Range(list) \in SUBSET Accounts /\ list[1] \in Range(list) /\ 1 \in DOMAIN list
  BY <1>1 DEF Range
<1>3. W \in Nat \ {0}
  <2>1. IsFiniteSet(Range(list))
    BY <1>2, ListedIsAnOrder, FS_Subset
  <2>2. IsFiniteSet(UnitsOf(Range(list))) /\ Cardinality(UnitsOf(Range(list))) \in Nat
    BY <1>2, <2>1, UnitsAreCountable
  <2>3. <<list[1], 1>> \in UnitsOf(Range(list))
    <3>1. 1 \in 1 .. RouteWeight(list[1])
      BY <1>2, RouteWeightIsPositive
    <3> QED
      BY <1>2, <3>1 DEF UnitsOf
  <2>4. Cardinality(UnitsOf(Range(list))) # 0
    BY <2>2, <2>3, FS_EmptySet
  <2> QED
    BY <2>2, <2>4 DEF WeightOf, UnitsOf
<1>4. TurnOf(list, n) = list[Min(past)]
  BY DEF TurnOf
<1>5. upTo(Len(list)) = W
  <2>1. {list[j] : j \in 1 .. Len(list)} = Range(list)
    BY <1>1 DEF Range
  <2> QED
    BY <2>1
<1> HIDE DEF upTo, W
<1>6. offset \in Nat /\ offset < W
  BY <1>3
<1>7. past \in SUBSET Nat /\ Len(list) \in past
  BY <1>1, <1>5, <1>6
<1> HIDE DEF past
<1>8. Min(past) \in past
  BY <1>7, LeastExists
<1> QED
  BY <1>4, <1>8 DEF past, Range

(* The lists that are made are of accounts.                                *)
EnvironmentTyped == strategy \in Strategies /\ order \in Orders /\ down \subseteq Accounts

LEMMA WithoutIsListed ==
    ASSUME EnvironmentTyped, NEW out
    PROVE  Without(out) \in Seq(Accounts) /\ Range(Without(out)) = Accounts \ (down \cup out)
<1>1. order \in Seq(Accounts) /\ Range(order) = Accounts
  BY OrdersAssumption DEF EnvironmentTyped
<1> QED
  BY <1>1, OthersAreKept DEF Without

LEMMA EnvironmentStaysTyped ==
    ASSUME EnvironmentTyped, [RoutingNext]_routingVars
    PROVE  EnvironmentTyped'
<1> USE DEF EnvironmentTyped
<1>1. CASE UNCHANGED environment
  BY <1>1 DEF environment
<1>2. CASE Configure
  BY <1>2, OutagesAssumption DEF Configure
<1>3. CASE UNCHANGED routingVars
  BY <1>3 DEF routingVars
<1>4. CASE RoutingNext /\ ~Configure
  <2>1. UNCHANGED environment
    BY <1>4 DEF RoutingNext, Begin, Observe, ChooseSorted, ChooseAffine, ChooseAdaptive,
           ChooseByRedis, ChooseByRow, ReadCursor, SaveCursor, CursorFails, Restart
  <2> QED
    BY <1>1, <2>1
<1> QED
  BY <1>2, <1>3, <1>4

(* Whatever the orders, the outages and the scores: a session changes its  *)
(* account when that drops out, or when another comes in.                  *)
THEOREM SessionsStay == RoutingSpec => SessionStays
<1>1. RoutingInit => EnvironmentTyped
  <2>1. Listed \in Orders
    BY OrdersAssumption DEF Listed
  <2> QED
    BY <2>1 DEF RoutingInit, EnvironmentTyped
<1>2. EnvironmentTyped /\ [RoutingNext]_routingVars => EnvironmentTyped'
  BY EnvironmentStaysTyped
<1> DEFINE before == Candidates
           after == Candidates'
           Stays == <<order, down>>' # <<order, down>> =>
              ((after # before /\ Range(after) \subseteq Range(before)) =>
                 \A score \in Scores :
                    Affine(before, score) \in Range(after)
                    => Affine(after, score) = Affine(before, score))
<1>3. EnvironmentTyped /\ EnvironmentTyped' => Stays
  <2> SUFFICES ASSUME EnvironmentTyped, EnvironmentTyped', NEW score \in Scores,
                      Range(after) \subseteq Range(before),
                      Affine(before, score) \in Range(after)
               PROVE  Affine(after, score) = Affine(before, score)
    OBVIOUS
  <2>1. before \in Seq(Accounts)
    BY WithoutIsListed DEF Candidates
  <2>2. after \in Seq(Accounts)
    <3>1. order' \in Seq(Accounts)
      BY OrdersAssumption DEF EnvironmentTyped
    <3>2. after = Kept(order', down' \cup {})
      BY DEF Candidates, Without
    <3> QED
      BY <3>1, <3>2, OthersAreKept
  <2>3. after # <<>>
    BY DEF Range
  <2>4. score \in [Accounts -> Nat]
    BY DEF Scores
  <2> HIDE DEF before, after
  <2> QED
    BY <2>1, <2>2, <2>3, <2>4, AffinityIsStable
<1>4. Stays => [<<order, down>>' # <<order, down>> =>
          LET b == Candidates
              a == Candidates'
              left == Range(a)
          IN  (a # b /\ left \subseteq Range(b)) =>
                 \A score \in Scores :
                    LET chosen == Affine(b, score)
                    IN  chosen \in left => Affine(a, score) = chosen]_routingVars
  OBVIOUS
<1> QED
  BY <1>1, <1>2, <1>3, <1>4, PTL DEF RoutingSpec, SessionStays

(* A request that has candidates, until it has picked one.                 *)
Prepared(r) ==
    Choosing(r) =>
        /\ call[r] = [candidates |-> call[r].candidates, cursor |-> call[r].cursor]
        /\ call[r].candidates \in Seq(Accounts) /\ call[r].candidates # <<>>
        /\ Range(call[r].candidates) \cap tried[r] = {}
        /\ call[r].cursor \in Nat

RequestsInv ==
    /\ RoutingTypeOK
    /\ DOMAIN call = Routed
    /\ \A r \in Routed : Prepared(r)

(* What RetriesGoElsewhere says of one request.                            *)
GoesElsewhere(r) ==
    Choosing(r) /\ at'[r] = "attempting"
    => tried'[r] = tried[r] \cup {call'[r].account} /\ tried'[r] # tried[r]

LEMMA OneMoves ==
    ASSUME RequestsInv, NEW r \in Routed, RoutingTypeOK', DOMAIN call' = Routed,
           \A q \in Routed \ {r} : at'[q] = at[q] /\ call'[q] = call[q] /\ tried'[q] = tried[q],
           Prepared(r)', GoesElsewhere(r)
    PROVE  RequestsInv' /\ \A q \in Routed : GoesElsewhere(q)
<1>1. ASSUME NEW q \in Routed \ {r} PROVE Prepared(q)' /\ GoesElsewhere(q)
  <2>1. Prepared(q)
    BY DEF RequestsInv
  <2> QED
    BY <2>1 DEF Prepared, GoesElsewhere, Choosing
<1> QED
  BY <1>1 DEF RequestsInv

(* A request that picks one of its candidates.                             *)
LEMMA OnePicks ==
    ASSUME RequestsInv, NEW r \in Routed, Choosing(r), NEW a \in Range(call[r].candidates),
           NEW acquired, Select(r, a, acquired), Go(r, "attempting"), UNCHANGED environment,
           redis' \in [on : BOOLEAN, counter : Nat], cursor' \in Nat,
           lock' \in Routed \cup {"free"},
           slots' \in [Accounts -> Nat], turns' \in [Accounts -> Nat], slips' \in Nat
    PROVE  RequestsInv' /\ \A q \in Routed : GoesElsewhere(q)
<1>1. a \in Accounts /\ a \notin tried[r]
  BY DEF RequestsInv, Prepared, Range
<1>2. /\ at' = [at EXCEPT ![r] = "attempting"]
      /\ tried' = [tried EXCEPT ![r] = @ \cup {a}]
      /\ call' = [call EXCEPT ![r] = [account |-> a, acquired |-> acquired]]
  BY DEF Go, Select
<1>3. DOMAIN at = Routed /\ DOMAIN tried = Routed /\ DOMAIN call = Routed
  BY DEF RequestsInv, RoutingTypeOK
<1>4. tried[r] \subseteq Accounts /\ tried'[r] = tried[r] \cup {a}
  BY <1>2, <1>3 DEF RequestsInv, RoutingTypeOK
<1>5. tried' \in [Routed -> SUBSET Accounts]
  BY <1>1, <1>2, <1>4 DEF RequestsInv, RoutingTypeOK
<1>6. at' \in [Routed -> {"idle", "choosing", "locking", "locked", "attempting"}]
  BY <1>2 DEF RequestsInv, RoutingTypeOK
<1>7. RoutingTypeOK'
  BY <1>5, <1>6 DEF RequestsInv, RoutingTypeOK, environment
<1>8. at'[r] = "attempting" /\ call'[r].account = a
  BY <1>2, <1>3
<1>9. Prepared(r)' /\ GoesElsewhere(r)
  BY <1>1, <1>4, <1>8 DEF Prepared, GoesElsewhere, Choosing
<1>10. /\ DOMAIN call' = Routed
       /\ \A q \in Routed \ {r} :
             at'[q] = at[q] /\ call'[q] = call[q] /\ tried'[q] = tried[q]
  BY <1>2, <1>3
<1> QED
  BY <1>7, <1>9, <1>10, OneMoves

LEMMA TurnsStayTyped ==
    ASSUME turns \in [Accounts -> Nat], NEW r, NEW a, GiveTurn(r, a)
    PROVE  turns' \in [Accounts -> Nat]
<1>1. CASE turns' = [turns EXCEPT ![a] = @ + 1]
  <2>1. \A b \in Accounts : turns'[b] \in Nat
    BY <1>1
  <2> QED
    BY <1>1, <2>1
<1>2. CASE turns' = turns
  BY <1>2
<1> QED
  BY <1>1, <1>2 DEF GiveTurn

LEMMA RequestBegins ==
    ASSUME RequestsInv, NEW r \in Routed, Begin(r)
    PROVE  RequestsInv' /\ \A q \in Routed : GoesElsewhere(q)
<1>1. EnvironmentTyped /\ DOMAIN at = Routed /\ DOMAIN tried = Routed /\ DOMAIN call = Routed
  BY DEF RequestsInv, RoutingTypeOK, EnvironmentTyped
<1>2. CASE Without(tried[r]) = <<>>
  <2>1. /\ at[r] = "idle" /\ UNCHANGED <<at, call, environment, redis, cursor, lock, slots, history>>
        /\ tried' = [tried EXCEPT ![r] = {}]
    BY <1>2 DEF Begin
  <2>2. RoutingTypeOK'
    BY <2>1 DEF RequestsInv, RoutingTypeOK, environment, history
  <2>3. Prepared(r)' /\ GoesElsewhere(r)
    BY <2>1 DEF Prepared, GoesElsewhere, Choosing
  <2> QED
    BY <1>1, <2>1, <2>2, <2>3, OneMoves DEF RequestsInv
<1>3. CASE Without(tried[r]) # <<>>
  <2> DEFINE list == Without(tried[r])
  <2>1. /\ at[r] = "idle" /\ UNCHANGED <<tried, environment, redis, cursor, lock, slots, history>>
        /\ at' = [at EXCEPT ![r] = "choosing"]
        /\ call' = [call EXCEPT ![r] = [candidates |-> list, cursor |-> 0]]
    BY <1>3 DEF Begin, Go
  <2>2. list \in Seq(Accounts) /\ Range(list) \cap tried[r] = {} /\ list # <<>>
    BY <1>1, <1>3, WithoutIsListed
  <2> HIDE DEF list
  <2>3. RoutingTypeOK'
    BY <2>1 DEF RequestsInv, RoutingTypeOK, environment, history
  <2>4. call'[r] = [candidates |-> list, cursor |-> 0] /\ tried'[r] = tried[r]
    BY <1>1, <2>1
  <2>5. Prepared(r)'
    BY <2>2, <2>4 DEF Prepared
  <2>6. GoesElsewhere(r)
    BY <2>1 DEF GoesElsewhere, Choosing
  <2> QED
    BY <1>1, <2>1, <2>3, <2>5, <2>6, OneMoves
<1> QED
  BY <1>2, <1>3

LEMMA RequestChooses ==
    ASSUME RequestsInv, NEW r \in Routed,
           ChooseSorted(r) \/ ChooseAffine(r) \/ ChooseAdaptive(r)
    PROVE  RequestsInv' /\ \A q \in Routed : GoesElsewhere(q)
<1>1. /\ at[r] = "choosing" /\ Go(r, "attempting")
      /\ UNCHANGED <<environment, redis, cursor, lock, turns, slips>>
  BY DEF ChooseSorted, ChooseAffine, ChooseAdaptive, history
<1>2. Choosing(r) /\ Prepared(r) /\ RoutingTypeOK
  BY <1>1 DEF Choosing, RequestsInv
<1>3. PICK a \in Range(call[r].candidates), acquired \in BOOLEAN : Select(r, a, acquired)
  <2>1. CASE ChooseAffine(r)
    <3>1. Affine(call[r].candidates, Score) \in Range(call[r].candidates)
      BY <1>2, AffineIsListed, ScoreAssumption DEF Prepared
    <3> QED
      BY <2>1, <3>1 DEF ChooseAffine
  <2>2. CASE ChooseSorted(r) \/ ChooseAdaptive(r)
    BY <2>2 DEF ChooseSorted, ChooseAdaptive
  <2> QED
    BY <2>1, <2>2
<1>4. slots' \in [Accounts -> Nat]
  <2>1. CASE UNCHANGED slots
    BY <1>2, <2>1 DEF RoutingTypeOK
  <2>2. CASE \E b : slots' = [slots EXCEPT ![b] = @ + 1]
    <3>1. PICK b : slots' = [slots EXCEPT ![b] = @ + 1]
      BY <2>2
    <3>2. slots \in [Accounts -> Nat] /\ \A c \in Accounts : slots[c] \in Nat
      BY <1>2 DEF RoutingTypeOK
    <3>3. \A c \in Accounts : slots'[c] \in Nat
      BY <3>1, <3>2
    <3> QED
      BY <3>1, <3>2, <3>3
  <2> QED
    BY <2>1, <2>2 DEF ChooseSorted, ChooseAffine, ChooseAdaptive
<1>5. /\ redis' \in [on : BOOLEAN, counter : Nat] /\ cursor' \in Nat
      /\ lock' \in Routed \cup {"free"} /\ turns' \in [Accounts -> Nat] /\ slips' \in Nat
      /\ UNCHANGED environment
  BY <1>1, <1>2 DEF RoutingTypeOK
<1> QED
  BY <1>1, <1>2, <1>3, <1>4, <1>5, OnePicks

LEMMA RequestTakesTurn ==
    ASSUME RequestsInv, NEW r \in Routed, ChooseByRedis(r) \/ SaveCursor(r) \/ CursorFails(r)
    PROVE  RequestsInv' /\ \A q \in Routed : GoesElsewhere(q)
<1>1. /\ at[r] \in {"choosing", "locked"} /\ Go(r, "attempting")
      /\ UNCHANGED <<environment, slots>>
  BY DEF ChooseByRedis, SaveCursor, CursorFails
<1>2. Choosing(r) /\ Prepared(r) /\ RoutingTypeOK
  BY <1>1 DEF Choosing, RequestsInv
<1>3. call[r].cursor \in Nat /\ redis.counter \in Nat /\ cursor \in Nat /\ slips \in Nat
  BY <1>2 DEF Prepared, RoutingTypeOK
<1>4. PICK n \in Nat : GiveTurn(r, TurnOf(call[r].candidates, n))
  BY <1>3 DEF ChooseByRedis, SaveCursor, CursorFails, TakeTurn
<1>5. TurnOf(call[r].candidates, n) \in Range(call[r].candidates)
  BY <1>2, TurnIsListed DEF Prepared
<1>6. /\ redis' \in [on : BOOLEAN, counter : Nat] /\ cursor' \in Nat
      /\ lock' \in Routed \cup {"free"} /\ slips' \in Nat /\ slots' \in [Accounts -> Nat]
  <2>1. slips' \in {slips, slips + 1}
    BY DEF ChooseByRedis, SaveCursor, CursorFails, TakeTurn
  <2>2. redis' \in {redis, [redis EXCEPT !.counter = @ + 1]}
    BY DEF ChooseByRedis, SaveCursor, CursorFails
  <2>3. cursor' \in {cursor, call[r].cursor + 1} /\ lock' \in {lock, "free"}
    BY DEF ChooseByRedis, SaveCursor, CursorFails
  <2>4. redis' \in [on : BOOLEAN, counter : Nat]
    BY <1>2, <1>3, <2>2 DEF RoutingTypeOK
  <2> QED
    BY <1>1, <1>2, <1>3, <2>1, <2>3, <2>4 DEF RoutingTypeOK
<1>7. turns' \in [Accounts -> Nat]
  BY <1>2, <1>4, TurnsStayTyped DEF RoutingTypeOK
<1> QED
  BY <1>1, <1>2, <1>4, <1>5, <1>6, <1>7, OnePicks DEF GiveTurn

LEMMA RequestGoesForMutex ==
    ASSUME RequestsInv, NEW r \in Routed, ChooseByRow(r) \/ ReadCursor(r)
    PROVE  RequestsInv' /\ \A q \in Routed : GoesElsewhere(q)
<1>1. Choosing(r) /\ Prepared(r) /\ RoutingTypeOK
  BY DEF Choosing, RequestsInv, ChooseByRow, ReadCursor
<1>2. /\ UNCHANGED <<environment, tried, slots, turns>>
      /\ at' \in {[at EXCEPT ![r] = "locking"], [at EXCEPT ![r] = "locked"]}
      /\ call' \in {call, [call EXCEPT ![r].cursor = cursor]}
      /\ redis' \in {redis, [redis EXCEPT !.counter = @ + 1]}
      /\ cursor' = cursor /\ lock' \in {lock, r} /\ slips' \in {slips, slips + 1}
  BY DEF ChooseByRow, ReadCursor, Go, history
<1>3. DOMAIN at = Routed /\ DOMAIN call = Routed /\ redis.counter \in Nat /\ cursor \in Nat
  BY DEF RequestsInv, RoutingTypeOK
<1>4. RoutingTypeOK'
  <2>1. redis' \in [on : BOOLEAN, counter : Nat]
    BY <1>1, <1>2, <1>3 DEF RoutingTypeOK
  <2>2. at' \in [Routed -> {"idle", "choosing", "locking", "locked", "attempting"}]
    BY <1>1, <1>2 DEF RoutingTypeOK
  <2> QED
    BY <1>1, <1>2, <2>1, <2>2 DEF RoutingTypeOK, environment
<1>5. at'[r] \in {"locking", "locked"} /\ GoesElsewhere(r)
  BY <1>2, <1>3 DEF GoesElsewhere
<1>6. Prepared(r)'
  <2>1. call[r] = [candidates |-> call[r].candidates, cursor |-> call[r].cursor]
    BY <1>1 DEF Prepared
  <2>2. call'[r] \in {call[r], [call[r] EXCEPT !.cursor = cursor]}
    BY <1>2, <1>3
  <2>3. \E n \in Nat : call'[r] = [candidates |-> call[r].candidates, cursor |-> n]
    BY <1>1, <1>3, <2>1, <2>2 DEF Prepared
  <2>4. tried'[r] = tried[r]
    BY <1>2
  <2> QED
    BY <1>1, <2>3, <2>4 DEF Prepared
<1>7. /\ DOMAIN call' = Routed
      /\ \A q \in Routed \ {r} :
            at'[q] = at[q] /\ call'[q] = call[q] /\ tried'[q] = tried[q]
  BY <1>2, <1>3
<1> QED
  BY <1>4, <1>5, <1>6, <1>7, OneMoves

LEMMA RequestIsObserved ==
    ASSUME RequestsInv, NEW r \in Routed, Observe(r)
    PROVE  RequestsInv' /\ \A q \in Routed : GoesElsewhere(q)
<1>1. RoutingTypeOK /\ DOMAIN at = Routed /\ DOMAIN call = Routed
  BY DEF RequestsInv, RoutingTypeOK
<1>2. /\ at[r] = "attempting" /\ at' = [at EXCEPT ![r] = "idle"]
      /\ call' = [call EXCEPT ![r] = <<>>]
      /\ tried' \in {tried, [tried EXCEPT ![r] = {}]}
      /\ UNCHANGED <<environment, redis, cursor, lock, history>>
  BY DEF Observe, Go
<1>3. slots' \in [Accounts -> Nat]
  <2>1. slots' = [a \in Accounts |->
            IF a \in Released(r) THEN Max({slots[a] - 1, 0}) ELSE slots[a]]
    BY DEF Observe
  <2>2. ASSUME NEW a \in Accounts PROVE Max({slots[a] - 1, 0}) \in Nat
    <3>1. slots[a] \in Nat
      BY <1>1 DEF RoutingTypeOK
    <3>2. CASE slots[a] = 0
      <4>1. {slots[a] - 1, 0} = {0, slots[a] - 1} /\ Max({0, slots[a] - 1}) = 0
        BY <3>1, <3>2, GreaterOfTwo
      <4> QED
        BY <4>1
    <3>3. CASE slots[a] # 0
      BY <3>1, <3>3, GreaterOfTwo
    <3> QED
      BY <3>2, <3>3
  <2> HIDE DEF Max
  <2> QED
    BY <1>1, <2>1, <2>2 DEF RoutingTypeOK
<1>4. RoutingTypeOK'
  BY <1>1, <1>2, <1>3 DEF RoutingTypeOK, environment, history
<1>5. Prepared(r)' /\ GoesElsewhere(r)
  BY <1>1, <1>2 DEF Prepared, GoesElsewhere, Choosing
<1>6. /\ DOMAIN call' = Routed
      /\ \A q \in Routed \ {r} :
            at'[q] = at[q] /\ call'[q] = call[q] /\ tried'[q] = tried[q]
  BY <1>1, <1>2 DEF RoutingTypeOK
<1> QED
  BY <1>4, <1>5, <1>6, OneMoves

LEMMA RequestsStep ==
    ASSUME RequestsInv, [RoutingNext]_routingVars
    PROVE  RequestsInv' /\ \A q \in Routed : GoesElsewhere(q)
<1>1. CASE Configure
  <2>1. EnvironmentTyped /\ EnvironmentTyped'
    BY EnvironmentStaysTyped DEF RequestsInv, RoutingTypeOK, EnvironmentTyped
  <2>2. UNCHANGED <<redis, cursor, lock, at, tried, call, slots, turns, slips>>
    BY <1>1 DEF Configure, history
  <2>3. RoutingTypeOK'
    BY <2>1, <2>2 DEF RequestsInv, RoutingTypeOK, EnvironmentTyped
  <2> QED
    BY <2>2, <2>3 DEF RequestsInv, Prepared, GoesElsewhere, Choosing
<1>2. CASE Restart
  <2>1. RoutingTypeOK'
    BY <1>2 DEF Restart, RequestsInv, RoutingTypeOK, environment, history
  <2> QED
    BY <1>2, <2>1 DEF Restart, RequestsInv, Prepared, GoesElsewhere, Choosing
<1>3. CASE UNCHANGED routingVars
  BY <1>3 DEF RequestsInv, RoutingTypeOK, Prepared, GoesElsewhere, Choosing, routingVars
<1> QED
  BY <1>1, <1>2, <1>3, RequestBegins, RequestChooses, RequestTakesTurn, RequestGoesForMutex,
     RequestIsObserved DEF RoutingNext

LEMMA RequestsStart == RoutingInit => RequestsInv
<1>1. Listed \in Orders
  BY OrdersAssumption DEF Listed
<1> QED
  BY <1>1 DEF RoutingInit, RequestsInv, RoutingTypeOK, Prepared, Choosing

(* The variables keep their types, for any strategies, orders and outages. *)
THEOREM RoutingTypeCorrect == RoutingSpec => []RoutingTypeOK
<1>1. RequestsInv => RoutingTypeOK
  BY DEF RequestsInv
<1>2. RequestsInv /\ [RoutingNext]_routingVars => RequestsInv'
  BY RequestsStep
<1> QED
  BY <1>1, <1>2, RequestsStart, PTL DEF RoutingSpec

(* For any requests, accounts, orders, outages and weights: by whatever    *)
(* strategy it is picked, and whatever has changed since the candidates    *)
(* were listed, a further attempt goes to an account that is not excluded. *)
THEOREM RetriesLeave == RoutingSpec => RetriesGoElsewhere
<1>1. RequestsInv /\ [RoutingNext]_routingVars =>
        RequestsInv' /\ \A q \in Routed : GoesElsewhere(q)
  BY RequestsStep
<1>2. (\A q \in Routed : GoesElsewhere(q)) =>
        [\A r \in Routed : Choosing(r) /\ at'[r] = "attempting"
          => tried'[r] = tried[r] \cup {call'[r].account} /\ tried'[r] # tried[r]]_routingVars
  BY DEF GoesElsewhere
<1> QED
  BY <1>1, <1>2, RequestsStart, PTL DEF RoutingSpec, RetriesGoElsewhere

(* The weights. A bounded value stays where it is within its bounds.       *)
LEMMA Clamped ==
    ASSUME NEW value \in Int, NEW least \in Int, NEW most \in Int, least <= most
    PROVE  Clamp(value, least, most) =
              IF value <= least THEN least ELSE IF value <= most THEN value ELSE most
<1> DEFINE lesser == IF value <= most THEN value ELSE most
<1>1. Min({value, most}) = lesser
  BY DEF Min
<1>2. Max({least, lesser}) = IF lesser <= least THEN least ELSE lesser
  BY DEF Max
<1> HIDE DEF Min, Max
<1> QED
  BY <1>1, <1>2 DEF Clamp

LEMMA QuotientsAreOrdered ==
    ASSUME NEW x \in Nat, NEW y \in Nat, x <= y, NEW v \in Nat \ {0}, NEW w \in Nat \ {0}, v <= w
    PROVE  x \div w \in Nat /\ y \div v \in Nat /\ x \div w <= y \div v
<1> DEFINE s == x \div w
           t == y \div v
<1>1. /\ s \in Nat /\ x % w \in 0 .. w - 1 /\ x = w * s + (x % w)
      /\ t \in Nat /\ y % v \in 0 .. v - 1 /\ y = v * t + (y % v)
  BY Division
<1>2. PICK f \in Nat : f = x % w
  BY <1>1
<1>3. PICK g \in Nat : g = y % v /\ g < v
  BY <1>1
<1>4. x = w * s + f /\ y = v * t + g
  BY <1>1, <1>2, <1>3
<1> HIDE DEF s, t
<1>5. ASSUME t < s PROVE FALSE
  <2>1. PICK d \in Nat : s = t + 1 + d
    <3>1. s - t - 1 \in Nat /\ s = t + 1 + (s - t - 1)
      BY <1>1, <1>5
    <3> QED
      BY <3>1
  <2>2. PICK e \in Nat : w = v + e
    <3>1. w - v \in Nat /\ w = v + (w - v)
      OBVIOUS
    <3> QED
      BY <3>1
  <2>3. w * s = v * t + v + (v * d + e * s)
    BY <1>1, <2>1, <2>2, Z3
  <2>4. v * d \in Nat /\ e * s \in Nat /\ v * t \in Nat /\ w * s \in Nat
    BY <1>1, <2>1, <2>2, Z3
  <2> QED
    BY <1>3, <1>4, <2>3, <2>4
<1> QED
  BY <1>1, <1>5 DEF s, t

(* For any load: more requests in flight never raise the weight of an      *)
(* account, more quota never lowers it, and it is never below 1.           *)
LEMMA WeightsAreOrdered ==
    ASSUME NEW a \in Accounts, NEW latency \in Nat, NEW overload \in 0 .. 100,
           NEW few \in Nat, NEW many \in Nat, few <= many,
           NEW poor \in Nat, NEW rich \in Nat, poor <= rich
    PROVE  /\ 1 <= AdaptiveWeight(a, latency, overload, many, poor)
           /\ AdaptiveWeight(a, latency, overload, many, poor)
                <= AdaptiveWeight(a, latency, overload, few, rich)
<1> DEFINE load == RouteWeight(a) * Clamp(latency, 50, 150)
                     * Max({10, 100 - (90 * overload) \div 100})
           effective(n, quota) == (load * quota) \div (1 + n)
           rounded(n, quota) == (effective(n, quota) + 5000) \div 10000
<1>1. load \in Nat
  <2>1. Clamp(latency, 50, 150) \in Nat
    BY Clamped
  <2>2. Max({10, 100 - (90 * overload) \div 100}) \in Nat
    <3>1. 100 - (90 * overload) \div 100 \in Int
      OBVIOUS
    <3>2. PICK loaded \in Int : loaded = 100 - (90 * overload) \div 100
      BY <3>1
    <3>3. Max({10, loaded}) \in Nat
      BY DEF Max
    <3> QED
      BY <3>2, <3>3
  <2>3. RouteWeight(a) \in Nat
    BY RouteWeightIsPositive
  <2>4. PICK x \in Nat, y \in Nat, z \in Nat :
          x = RouteWeight(a) /\ y = Clamp(latency, 50, 150)
          /\ z = Max({10, 100 - (90 * overload) \div 100})
    BY <2>1, <2>2, <2>3
  <2>5. x * y * z \in Nat
    BY Z3
  <2> QED
    BY <2>4, <2>5
<1>2. \A n \in Nat, quota \in Nat :
        AdaptiveWeight(a, latency, overload, n, quota) = Max({1, rounded(n, quota)})
  BY DEF AdaptiveWeight
<1> HIDE DEF load
<1>3. load * poor \in Nat /\ load * rich \in Nat /\ load * poor <= load * rich
  <2>1. PICK d \in Nat : rich = poor + d
    <3>1. rich - poor \in Nat /\ rich = poor + (rich - poor)
      OBVIOUS
    <3> QED
      BY <3>1
  <2>2. load * rich = load * poor + load * d /\ load * d \in Nat /\ load * poor \in Nat
    BY <1>1, <2>1, Z3
  <2> QED
    BY <2>2
<1>4. /\ effective(many, poor) \in Nat /\ effective(few, rich) \in Nat
      /\ effective(many, poor) <= effective(few, rich)
  <2>1. 1 + few \in Nat \ {0} /\ 1 + many \in Nat \ {0} /\ 1 + few <= 1 + many
    OBVIOUS
  <2> QED
    BY <1>3, <2>1, QuotientsAreOrdered
<1> HIDE DEF effective
<1>5. /\ rounded(many, poor) \in Nat /\ rounded(few, rich) \in Nat
      /\ rounded(many, poor) <= rounded(few, rich)
  <2>1. PICK unit \in Nat \ {0} : unit = 10000
    OBVIOUS
  <2>2. /\ effective(many, poor) + 5000 \in Nat /\ effective(few, rich) + 5000 \in Nat
        /\ effective(many, poor) + 5000 <= effective(few, rich) + 5000
    BY <1>4
  <2>3. unit <= unit
    OBVIOUS
  <2>4. PICK x \in Nat, y \in Nat :
          x = effective(many, poor) + 5000 /\ y = effective(few, rich) + 5000 /\ x <= y
    BY <2>2
  <2>5. x \div unit \in Nat /\ y \div unit \in Nat /\ x \div unit <= y \div unit
    <3>1. x <= y
      BY <2>4
    <3> HIDE <2>4
    <3> QED
      BY <2>3, <3>1, QuotientsAreOrdered
  <2>6. rounded(many, poor) = x \div unit /\ rounded(few, rich) = y \div unit
    BY <2>1, <2>4
  <2> HIDE DEF rounded
  <2> QED
    BY <2>5, <2>6
<1> HIDE DEF rounded
<1>6. \A x \in Nat : Max({1, x}) = IF x <= 1 THEN 1 ELSE x
  BY DEF Max
<1>7. /\ AdaptiveWeight(a, latency, overload, many, poor) = Max({1, rounded(many, poor)})
      /\ AdaptiveWeight(a, latency, overload, few, rich) = Max({1, rounded(few, rich)})
  BY <1>2, Zenon
<1> HIDE DEF Max
<1>8. PICK x \in Nat, y \in Nat :
        x = rounded(many, poor) /\ y = rounded(few, rich) /\ x <= y
  BY <1>5
<1>9. 1 <= Max({1, x}) /\ Max({1, x}) <= Max({1, y})
  <2>1. /\ Max({1, x}) = IF x <= 1 THEN 1 ELSE x
        /\ Max({1, y}) = IF y <= 1 THEN 1 ELSE y
    BY <1>6
  <2> QED
    BY <1>8, <2>1
<1> QED
  BY <1>7, <1>8, <1>9, Zenon

(* A least remaining of the windows, and of those with it one that resets. *)
LEMMA TightestIsOne ==
    ASSUME NEW windows \in SUBSET [remaining : Nat, reset : Nat], windows # {}
    PROVE  Tightest(windows) \in windows
           /\ \A w \in windows : Tightest(windows).remaining <= w.remaining
<1> DEFINE least == Min({w.remaining : w \in windows})
           tight == {w \in windows : w.remaining = least}
           timed == {w \in tight : w.reset > 0}
<1>1. least \in {w.remaining : w \in windows} /\ \A w \in windows : least <= w.remaining
  <2>1. {w.remaining : w \in windows} \in SUBSET Nat /\ {w.remaining : w \in windows} # {}
    OBVIOUS
  <2> HIDE DEF Min
  <2>2. /\ least \in {w.remaining : w \in windows}
        /\ \A n \in {w.remaining : w \in windows} : least <= n
    BY <2>1, LeastExists
  <2> QED
    BY <2>2
<1> HIDE DEF least
<1>2. tight # {}
  BY <1>1
<1>3. ASSUME timed # {} PROVE \E w \in timed : \A v \in timed : w.reset <= v.reset
  <2> DEFINE resets == {w.reset : w \in timed}
  <2>1. resets \in SUBSET Nat /\ resets # {}
    BY <1>3
  <2> HIDE DEF resets
  <2>2. Min(resets) \in resets /\ \A n \in resets : Min(resets) <= n
    BY <2>1, LeastExists
  <2> HIDE DEF timed
  <2>3. PICK w \in timed : w.reset = Min(resets)
    BY <2>2 DEF resets
  <2>4. \A v \in timed : w.reset <= v.reset
    BY <2>2, <2>3 DEF resets
  <2> QED
    BY <2>4
<1> DEFINE any == CHOOSE w \in tight : TRUE
           first == CHOOSE w \in timed : \A v \in timed : w.reset <= v.reset
<1>4. Tightest(windows) = IF timed = {} THEN any ELSE first
  BY DEF Tightest, least
<1>5. any \in tight
  BY <1>2
<1>6. timed # {} => first \in tight
  BY <1>3
<1> HIDE DEF any, first
<1>7. Tightest(windows) \in tight
  BY <1>4, <1>5, <1>6
<1> QED
  BY <1>1, <1>7

(* The factor of an account stays within bounds; with a used-up window it  *)
(* is at most 48, however much the others have left and however near the   *)
(* resets are, and with 9 per cent in all of the windows at least 50.      *)
LEMMA UsedUpWindowCounts ==
    ASSUME NEW windows \in SUBSET [remaining : 0 .. 100, reset : Nat], windows # {},
           NEW period \in Nat \ {0}
    PROVE  /\ QuotaFactor(windows, period) \in 35 .. 170
           /\ (\E w \in windows : w.remaining = 0) => QuotaFactor(windows, period) <= 48
           /\ (\A w \in windows : w.remaining >= 9) => QuotaFactor(windows, period) >= 50
<1> DEFINE w == Tightest(windows)
           passed == IF w.reset = 0 THEN 0 ELSE 100 - Clamp((100 * w.reset) \div period, 0, 100)
           raw == ((400 + 12 * w.remaining) * (500 + passed)) \div 5000
<1>1. w \in windows /\ \A v \in windows : w.remaining <= v.remaining
  BY TightestIsOne
<1>2. w.remaining \in 0 .. 100 /\ w.reset \in Nat
  BY <1>1
<1>3. QuotaFactor(windows, period) = Clamp(raw, 35, 170)
  BY DEF QuotaFactor
<1> HIDE DEF w
<1>4. passed \in 0 .. 100
  <2>1. (100 * w.reset) \div period \in Int
    BY <1>2, Division
  <2>2. PICK due \in Int : due = (100 * w.reset) \div period
    BY <2>1
  <2>3. Clamp(due, 0, 100) \in 0 .. 100
    <3>1. Clamp(due, 0, 100) = IF due <= 0 THEN 0 ELSE IF due <= 100 THEN due ELSE 100
      BY Clamped
    <3> QED
      BY <3>1
  <2> QED
    BY <2>2, <2>3
<1>5. PICK left \in 0 .. 100, near \in 0 .. 100 : left = w.remaining /\ near = passed
  BY <1>2, <1>4
<1> DEFINE points == (400 + 12 * left) * (500 + near)
<1>6. points \in Nat
  BY Z3
<1>7. left = 0 => points <= 240000
  BY Z3
<1>8. left >= 9 => points >= 254000
  <2>1. ASSUME NEW x \in Nat, NEW y \in Nat, x >= 508, y >= 500 PROVE x * y >= 254000
    BY <2>1, Z3
  <2> QED
    BY <2>1
<1>9. raw = points \div 5000
  BY <1>5
<1> HIDE DEF points, raw
<1>10. raw \in Nat /\ (left = 0 => raw <= 48) /\ (left >= 9 => raw >= 50)
  BY <1>6, <1>7, <1>8, <1>9
<1>11. Clamp(raw, 35, 170) = IF raw <= 35 THEN 35 ELSE IF raw <= 170 THEN raw ELSE 170
  BY <1>10, Clamped
<1>12. (\E v \in windows : v.remaining = 0) => left = 0
  BY <1>1, <1>5
<1>13. (\A v \in windows : v.remaining >= 9) => left >= 9
  BY <1>1, <1>5
<1> QED
  BY <1>3, <1>10, <1>11, <1>12, <1>13

(* The comments on adaptiveRouteWeights and quotaRouteFactor, for every    *)
(* account and load: nothing takes an account out of the traffic, as its   *)
(* weight is at least 1; and one with a used-up window never weighs more   *)
(* than the same account with at least 9 per cent left in all its windows  *)
(* and as many requests in flight or fewer. That it weighs less, which     *)
(* WeightsKeepOrder says of its instance, is a matter of the rounding.     *)
THEOREM WeightsFollowQuota ==
    ASSUME NEW a \in Accounts, NEW latency \in Nat, NEW overload \in 0 .. 100,
           NEW few \in Nat, NEW many \in Nat, few <= many,
           NEW period \in Nat \ {0},
           NEW used \in SUBSET [remaining : 0 .. 100, reset : Nat],
           \E w \in used : w.remaining = 0,
           NEW left \in SUBSET [remaining : 0 .. 100, reset : Nat],
           \A w \in left : w.remaining >= 9
    PROVE  /\ 1 <= AdaptiveWeight(a, latency, overload, many, QuotaFactor(used, period))
           /\ AdaptiveWeight(a, latency, overload, many, QuotaFactor(used, period))
                <= AdaptiveWeight(a, latency, overload, few, QuotaFactor(left, period))
<1>1. QuotaFactor(used, period) \in 35 .. 170 /\ QuotaFactor(used, period) <= 48
  BY UsedUpWindowCounts
<1>2. QuotaFactor(left, period) \in 35 .. 170 /\ QuotaFactor(left, period) >= 50
  <2>1. CASE left = {}
    BY <2>1 DEF QuotaFactor
  <2>2. CASE left # {}
    BY <2>2, UsedUpWindowCounts
  <2> QED
    BY <2>1, <2>2
<1>3. /\ QuotaFactor(used, period) \in Nat /\ QuotaFactor(left, period) \in Nat
      /\ QuotaFactor(used, period) <= QuotaFactor(left, period)
  BY <1>1, <1>2
<1> QED
  BY <1>3, WeightsAreOrdered

===============================================================================
