-------------------------- MODULE ResetCreditProofs --------------------------
(***************************************************************************)
(* Proofs about ResetCredit, for any callers, accounts, keys and credits:  *)
(* whatever is repeated, lost or cut by a crash, a key that is used with   *)
(* one account is settled once.                                            *)
(***************************************************************************)
EXTENDS ResetCredit, TLAPS

Inside(p) == pc[p] \notin Unlocked

(* Who is busy has asked something; only a listing may have no key.        *)
Asked ==
    \A p \in Callers :
        /\ pc[p] # "idle" => req[p] \in Requests
        /\ Inside(p) /\ pc[p] # "listing" => req[p].key \in Keys

(* The mutex.                                                              *)
OneInside ==
    \A p, q \in Callers :
        Inside(p) /\ Inside(q) /\ req[p].account = req[q].account => p = q

(* The row is written before the upstream is called, and stays.            *)
WrittenAhead ==
    \A p \in Callers :
        /\ pc[p] \in {"calling", "failing", "completing", "applying", "telling"}
              => row[req[p].key] # None
        /\ pc[p] \in {"completing", "applying", "telling"} => result[p] \in Outcomes
        /\ pc[p] = "listing" /\ req[p].key # None
              => row[req[p].key] # None /\ result[p] \in Outcomes

(* What a caller inside knows of the row of its private key.               *)
RowIsMine ==
    \A p \in Callers :
        Inside(p) /\ req[p].key \in Private =>
            LET k == req[p].key
            IN  /\ pc[p] = "creating" => row[k] = None
                /\ pc[p] \in {"calling", "failing", "completing"} => row[k].outcome = None
                /\ pc[p] = "completing" /\ result[p] \in Success
                      => <<Owner[k], k>> \in taken
                /\ pc[p] \in {"applying", "listing", "telling"} => row[k].outcome = result[p]
                /\ pc[p] = "applying" => reduced[k] = 0

(* A key is settled as redeemed only after the upstream has redeemed.      *)
Truthful ==
    \A k \in Private :
        row[k] # None /\ row[k].outcome \in Success => <<Owner[k], k>> \in taken

(* Only a completed row has reduced a snapshot.                            *)
CountedOnce ==
    \A k \in Private :
        \/ reduced[k] = 0
        \/ reduced[k] = 1 /\ row[k] # None /\ row[k].outcome # None

Protocol ==
    TypeOK /\ Asked /\ OneInside /\ WrittenAhead /\ RowIsMine /\ Truthful /\ CountedOnce

-----------------------------------------------------------------------------
(* Types.                                                                  *)

LEMMA RequestParts ==
    \A r \in Requests :
        /\ r.account \in Accounts
        /\ r.key \in Keys \cup {None}
        /\ r.credit \in Credits \cup {None}
        /\ r.key \in Private => Owner[r.key] = r.account
  BY NoneAssumption DEF Requests, Private

LEMMA RowParts ==
    ASSUME NEW k \in Keys, TypeOK, row[k] # None
    PROVE  row[k] \in Redemptions /\ row[k].outcome \in Outcomes \cup {None}
  BY DEF TypeOK, Redemptions

LEMMA TypesStep == TypeOK /\ Asked /\ WrittenAhead /\ [Next]_vars => TypeOK'
  <1> SUFFICES ASSUME TypeOK, Asked, WrittenAhead, [Next]_vars PROVE TypeOK'
    OBVIOUS
  <1>1. CASE UNCHANGED vars
    BY <1>1 DEF vars, caller, TypeOK
  <1>2. CASE Crash
    BY <1>2 DEF Crash, TypeOK, Stages, Unlocked
  <1>3. ASSUME NEW p \in Callers, NEW r \in Requests, Ask(p, r) PROVE TypeOK'
    BY <1>3 DEF Ask, Goto, TypeOK, Stages, Unlocked
  <1>4. ASSUME NEW p \in Callers, Enter(p) PROVE TypeOK'
    BY <1>4 DEF Enter, Goto, TypeOK, Stages
  <1>5. ASSUME NEW p \in Callers, Work(p) PROVE TypeOK'
    <2> DEFINE k == req[p].key
    <2>1. CASE Refuse(p) \/ Tell(p)
      BY <2>1 DEF Refuse, Tell, Leave, Goto, TypeOK, Stages, Unlocked
    <2>2. CASE FindNone(p)
      BY <2>2 DEF FindNone, Goto, TypeOK, Stages
    <2>3. CASE Find(p) \/ Adopt(p)
      <3>1. k \in Keys /\ row[k] # None /\ Proceed(p)
        BY <2>3 DEF Find, Adopt, Asked, Inside, Unlocked
      <3>2. row[k].outcome \in Outcomes \cup {None}
        BY <3>1, RowParts
      <3> QED
        BY <3>1, <3>2 DEF Proceed, Goto, TypeOK, Stages
    <2>4. CASE Create(p)
      <3>1. k \in Keys /\ req[p] \in Requests
        BY <2>4 DEF Create, Asked, Inside, Unlocked
      <3>2. [account |-> req[p].account, credit |-> req[p].credit,
             outcome |-> None] \in Redemptions
        BY <3>1, RequestParts DEF Redemptions
      <3>3. row' \in [Keys -> Redemptions \cup {None}]
        BY <2>4, <3>1, <3>2 DEF Create, TypeOK
      <3> QED
        BY <2>4, <3>3 DEF Create, Goto, TypeOK, Stages
    <2>5. CASE Call(p)
      <3>1. k \in Keys /\ req[p] \in Requests
        BY <2>5 DEF Call, Asked, Inside, Unlocked
      <3>2. <<req[p].account, k>> \in Accounts \X Keys
        BY <3>1, RequestParts
      <3>3. taken' \in SUBSET (Accounts \X Keys)
        BY <2>5, <3>2 DEF Call, Redeem, TypeOK
      <3> QED
        BY <2>5, <3>3 DEF Call, Goto, TypeOK, Stages
    <2>6. CASE Fail(p)
      <3>1. k \in Keys /\ row[k] # None
        BY <2>6 DEF Fail, Asked, Inside, Unlocked, WrittenAhead
      <3>2. [row[k] EXCEPT !.outcome = None] \in Redemptions
        BY <3>1, RowParts DEF Redemptions
      <3>3. row' \in [Keys -> Redemptions \cup {None}]
        BY <2>6, <3>1, <3>2 DEF Fail, TypeOK
      <3> QED
        BY <2>6, <3>3 DEF Fail, Leave, Goto, TypeOK, Stages, Unlocked
    <2>7. CASE Complete(p)
      <3>1. k \in Keys /\ row[k] # None /\ result[p] \in Outcomes /\ req[p] \in Requests
        BY <2>7 DEF Complete, Asked, Inside, Unlocked, WrittenAhead
      <3>2. PICK credit \in Credits \cup {req[p].credit} :
               row' = [row EXCEPT ![k].credit = credit, ![k].outcome = result[p]]
        BY <2>7 DEF Complete
      <3>3. row' = [row EXCEPT ![k] =
                       [row[k] EXCEPT !.credit = credit, !.outcome = result[p]]]
        BY <3>1, <3>2 DEF TypeOK
      <3>4. [row[k] EXCEPT !.credit = credit, !.outcome = result[p]] \in Redemptions
        BY <3>1, RowParts, RequestParts DEF Redemptions
      <3>5. row' \in [Keys -> Redemptions \cup {None}]
        BY <3>1, <3>3, <3>4 DEF TypeOK
      <3> QED
        BY <2>7, <3>5 DEF Complete, Goto, TypeOK, Stages
    <2>8. CASE Apply(p)
      <3>1. req[p] \in Requests
        BY <2>8 DEF Apply, Asked, Inside, Unlocked
      <3>2. snapshots' \in SUBSET Accounts
        BY <2>8, <3>1, RequestParts DEF Apply, TypeOK
      <3>3. reduced' \in [Private -> 0 .. 2]
        BY <2>8 DEF Apply, CountReduction, TypeOK
      <3> QED
        BY <2>8, <3>2, <3>3 DEF Apply, Goto, TypeOK, Stages
    <2>9. CASE ListUnlocked(p)
      <3>1. snapshots' \in SUBSET Accounts
        BY <2>9, RequestParts DEF ListUnlocked, Listed, Asked, Inside, Unlocked, TypeOK
      <3> QED
        BY <2>9, <3>1 DEF ListUnlocked, Listed, Leave, Goto, TypeOK, Stages, Unlocked
    <2> QED
      BY <1>5, <2>1, <2>2, <2>3, <2>4, <2>5, <2>6, <2>7, <2>8, <2>9 DEF Work
  <1> QED
    BY <1>1, <1>2, <1>3, <1>4, <1>5 DEF Next

-----------------------------------------------------------------------------
(* Who is inside.                                                          *)

(* Only Enter brings a caller inside, and nobody changes what he asks.     *)
LEMMA InsideStep ==
    ASSUME TypeOK, [Next]_vars, NEW q \in Callers, Inside(q)'
    PROVE  /\ req'[q] = req[q]
           /\ Inside(q) \/ Enter(q)
  <1>1. CASE UNCHANGED vars \/ Crash
    BY <1>1 DEF vars, caller, Crash, Inside, Unlocked
  <1>2. ASSUME NEW p \in Callers, \E r \in Requests : Ask(p, r)
        PROVE  req'[q] = req[q] /\ Inside(q)
    BY <1>2 DEF Ask, Goto, Inside, Unlocked, TypeOK
  <1>3. ASSUME NEW p \in Callers, Enter(p)
        PROVE  req'[q] = req[q] /\ (Inside(q) \/ Enter(q))
    BY <1>3 DEF Enter, Goto, Inside, TypeOK
  <1>4. ASSUME NEW p \in Callers, Work(p)
        PROVE  req'[q] = req[q] /\ Inside(q)
    <2>1. CASE Refuse(p) \/ Tell(p) \/ Fail(p)
      BY <2>1 DEF Refuse, Tell, Fail, Leave, Goto, Inside, Unlocked, TypeOK
    <2>2. CASE Find(p) \/ Adopt(p)
      BY <2>2 DEF Find, Adopt, Proceed, Goto, Inside, Unlocked, TypeOK
    <2>3. CASE FindNone(p) \/ Create(p)
      BY <2>3 DEF FindNone, Create, Goto, Inside, Unlocked, TypeOK
    <2>4. CASE Call(p) \/ Complete(p)
      BY <2>4 DEF Call, Complete, Goto, Inside, Unlocked, TypeOK
    <2>5. CASE Apply(p)
      BY <2>5 DEF Apply, Goto, Inside, Unlocked, TypeOK
    <2>6. CASE ListUnlocked(p)
      BY <2>6 DEF ListUnlocked, Listed, Leave, Goto, Inside, Unlocked, TypeOK
    <2> QED
      BY <1>4, <2>1, <2>2, <2>3, <2>4, <2>5, <2>6 DEF Work
  <1> QED
    BY <1>1, <1>2, <1>3, <1>4 DEF Next

LEMMA OneInsideStep == TypeOK /\ OneInside /\ [Next]_vars => OneInside'
  <1> SUFFICES ASSUME TypeOK, OneInside, [Next]_vars,
                      NEW p \in Callers, NEW q \in Callers, Inside(p)', Inside(q)',
                      req'[p].account = req'[q].account
               PROVE  p = q
    BY DEF OneInside
  <1>1. /\ req[p].account = req[q].account
        /\ Inside(p) \/ Enter(p)
        /\ Inside(q) \/ Enter(q)
    BY InsideStep
  <1>2. CASE Inside(p) /\ Inside(q)
    BY <1>1, <1>2 DEF OneInside
  <1>3. CASE Enter(p)
    BY <1>1, <1>3 DEF Enter, Goto, Inside, TypeOK
  <1>4. CASE Enter(q)
    BY <1>1, <1>4 DEF Enter, Goto, Inside, TypeOK
  <1> QED
    BY <1>1, <1>2, <1>3, <1>4

LEMMA AskedStep == TypeOK /\ Asked /\ [Next]_vars => Asked'
  <1> SUFFICES ASSUME TypeOK, Asked, [Next]_vars, NEW q \in Callers
               PROVE  /\ pc'[q] # "idle" => req'[q] \in Requests
                      /\ Inside(q)' /\ pc'[q] # "listing" => req'[q].key \in Keys
    BY DEF Asked
  <1>0. /\ pc[q] # "idle" => req[q] \in Requests
        /\ Inside(q) /\ pc[q] # "listing" => req[q].key \in Keys
    BY DEF Asked
  <1>1. CASE UNCHANGED vars \/ Crash
    BY <1>0, <1>1 DEF vars, caller, Crash, Inside, Unlocked
  <1>2. ASSUME NEW p \in Callers, NEW r \in Requests, Ask(p, r)
        PROVE  /\ pc'[q] # "idle" => req'[q] \in Requests
               /\ Inside(q)' /\ pc'[q] # "listing" => req'[q].key \in Keys
    BY <1>0, <1>2 DEF Ask, Goto, Inside, Unlocked, TypeOK
  <1>3. ASSUME NEW p \in Callers, Enter(p)
        PROVE  /\ pc'[q] # "idle" => req'[q] \in Requests
               /\ Inside(q)' /\ pc'[q] # "listing" => req'[q].key \in Keys
    BY <1>0, <1>3, RequestParts DEF Enter, Goto, Inside, Unlocked, TypeOK
  <1>4. ASSUME NEW p \in Callers, Work(p)
        PROVE  /\ pc'[q] # "idle" => req'[q] \in Requests
               /\ Inside(q)' /\ pc'[q] # "listing" => req'[q].key \in Keys
    <2>1. CASE Refuse(p) \/ Tell(p) \/ Fail(p)
      BY <1>0, <2>1 DEF Refuse, Tell, Fail, Leave, Goto, Inside, Unlocked, TypeOK
    <2>2. CASE Find(p) \/ Adopt(p)
      BY <1>0, <2>2 DEF Find, Adopt, Proceed, Goto, Inside, Unlocked, TypeOK
    <2>3. CASE FindNone(p) \/ Create(p)
      BY <1>0, <2>3 DEF FindNone, Create, Goto, Inside, Unlocked, TypeOK
    <2>4. CASE Call(p) \/ Complete(p)
      BY <1>0, <2>4 DEF Call, Complete, Goto, Inside, Unlocked, TypeOK
    <2>5. CASE Apply(p)
      BY <1>0, <2>5 DEF Apply, Goto, Inside, Unlocked, TypeOK
    <2>6. CASE ListUnlocked(p)
      BY <1>0, <2>6, RequestParts DEF ListUnlocked, Listed, Leave, Goto, Inside, Unlocked, TypeOK
    <2> QED
      BY <1>4, <2>1, <2>2, <2>3, <2>4, <2>5, <2>6 DEF Work
  <1> QED
    BY <1>1, <1>2, <1>3, <1>4 DEF Next

-----------------------------------------------------------------------------
(* The rows.                                                               *)

(* Rows are only added: one that is there stays.                           *)
LEMMA RowsStay ==
    ASSUME TypeOK, Asked, WrittenAhead, [Next]_vars, NEW k \in Keys, row[k] # None
    PROVE  row'[k] # None
  <1>0. TypeOK'
    BY TypesStep
  <1>1. CASE UNCHANGED row
    BY <1>1
  <1>2. ASSUME NEW p \in Callers, Create(p) PROVE row'[k] # None
    BY <1>2, NoneAssumption DEF Create, TypeOK
  <1>3. ASSUME NEW p \in Callers, Fail(p) PROVE row'[k] # None
    <2>1. row[k] \in Redemptions
      BY RowParts
    <2>2. [row[k] EXCEPT !.outcome = None] \in Redemptions
      BY <2>1 DEF Redemptions
    <2> QED
      BY <1>3, <2>1, <2>2, NoneAssumption DEF Fail, TypeOK
  <1>4. ASSUME NEW p \in Callers, Complete(p) PROVE row'[k] # None
    <2>1. row[k] \in Redemptions
      BY RowParts
    <2>2. PICK credit \in Credits \cup {req[p].credit} :
             row' = [row EXCEPT ![req[p].key].credit = credit,
                                ![req[p].key].outcome = result[p]]
      BY <1>4 DEF Complete
    <2>3. /\ req[p] \in Requests
          /\ result[p] \in Outcomes
      BY <1>4 DEF Complete, Asked, WrittenAhead, Inside, Unlocked
    <2>4. [row[k] EXCEPT !.credit = credit, !.outcome = result[p]] \in Redemptions
      BY <2>1, <2>3, RequestParts DEF Redemptions
    <2> QED
      BY <2>1, <2>2, <2>4, NoneAssumption DEF TypeOK
  <1> QED
    BY <1>1, <1>2, <1>3, <1>4
    DEF Next, Work, vars, Crash, Ask, Enter, Refuse, Find, FindNone, Adopt,
        Proceed, Call, Apply, ListUnlocked, Listed, Tell

(* A step of one caller leaves the others where they are.                  *)
LEMMA Bystanders ==
    ASSUME TypeOK, NEW p \in Callers, NEW q \in Callers, q # p,
           (\E r \in Requests : Ask(p, r)) \/ Enter(p) \/ Work(p)
    PROVE  pc'[q] = pc[q] /\ req'[q] = req[q] /\ result'[q] = result[q]
  BY DEF TypeOK, Work, Ask, Enter, Refuse, Find, FindNone, Create, Adopt, Proceed,
         Call, Fail, Complete, Apply, ListUnlocked, Listed, Tell, Leave, Goto

LEMMA WrittenAheadStep == TypeOK /\ Asked /\ WrittenAhead /\ [Next]_vars => WrittenAhead'
  <1> SUFFICES ASSUME TypeOK, Asked, WrittenAhead, [Next]_vars, NEW q \in Callers
               PROVE  /\ pc'[q] \in {"calling", "failing", "completing", "applying", "telling"}
                           => row'[req'[q].key] # None
                      /\ pc'[q] \in {"completing", "applying", "telling"}
                           => result'[q] \in Outcomes
                      /\ pc'[q] = "listing" /\ req'[q].key # None
                           => row'[req'[q].key] # None /\ result'[q] \in Outcomes
    BY DEF WrittenAhead
  <1> DEFINE Ahead ==
        /\ pc'[q] \in {"calling", "failing", "completing", "applying", "telling"}
              => row'[req'[q].key] # None
        /\ pc'[q] \in {"completing", "applying", "telling"} => result'[q] \in Outcomes
        /\ pc'[q] = "listing" /\ req'[q].key # None
              => row'[req'[q].key] # None /\ result'[q] \in Outcomes
  <1> SUFFICES Ahead
    OBVIOUS
  <1>0. pc[q] \in Stages
    BY DEF TypeOK
  <1>1. CASE Crash
    BY <1>1 DEF Crash
  <1>2. CASE pc'[q] = pc[q] /\ req'[q] = req[q] /\ result'[q] = result[q]
    <2>1. pc[q] \in {"calling", "failing", "completing", "applying", "telling"}
            => req[q].key \in Keys
      BY DEF Asked, Inside, Unlocked
    <2>2. pc[q] = "listing" => req[q].key \in Keys \cup {None}
      BY RequestParts DEF Asked
    <2>3. row[req[q].key] # None /\ req[q].key \in Keys => row'[req[q].key] # None
      BY RowsStay
    <2> QED
      BY <1>2, <2>1, <2>2, <2>3 DEF WrittenAhead
  <1>3. CASE UNCHANGED vars
    BY <1>2, <1>3 DEF vars, caller
  <1>4. CASE (\E r \in Requests : Ask(q, r)) \/ Enter(q)
    BY <1>4 DEF Ask, Enter, Goto, TypeOK
  <1>5. CASE Work(q)
    <2> DEFINE k == req[q].key
    <2>1. CASE Refuse(q) \/ Tell(q) \/ Fail(q)
      BY <2>1 DEF Refuse, Tell, Fail, Leave, Goto, TypeOK
    <2>2. CASE Find(q) \/ Adopt(q)
      <3>1. k \in Keys /\ row[k] # None /\ Proceed(q)
        BY <2>2 DEF Find, Adopt, Asked, Inside, Unlocked
      <3>2. row[k].outcome \in Outcomes \cup {None}
        BY <3>1, RowParts
      <3> QED
        BY <3>1, <3>2 DEF Proceed, Goto, TypeOK
    <2>3. CASE FindNone(q)
      BY <2>3 DEF FindNone, Goto, TypeOK
    <2>4. CASE Create(q)
      <3>1. k \in Keys /\ req[q] \in Requests
        BY <2>4 DEF Create, Asked, Inside, Unlocked
      <3>2. [account |-> req[q].account, credit |-> req[q].credit,
             outcome |-> None] \in Redemptions
        BY <3>1, RequestParts DEF Redemptions
      <3> QED
        BY <2>4, <3>1, <3>2, NoneAssumption DEF Create, Goto, TypeOK
    <2>5. CASE Call(q)
      BY <2>5 DEF Call, Goto, TypeOK, WrittenAhead
    <2>6. CASE Complete(q)
      <3>1. k \in Keys /\ row[k] # None /\ result[q] \in Outcomes
        BY <2>6 DEF Complete, Asked, Inside, Unlocked, WrittenAhead
      <3>2. row'[k] # None
        BY <3>1, RowsStay
      <3> QED
        BY <2>6, <3>1, <3>2 DEF Complete, Goto, TypeOK
    <2>7. CASE Apply(q)
      BY <2>7 DEF Apply, Goto, TypeOK, WrittenAhead
    <2>8. CASE ListUnlocked(q)
      BY <2>8 DEF ListUnlocked, Listed, Leave, Goto, TypeOK, WrittenAhead
    <2> QED
      BY <1>5, <2>1, <2>2, <2>3, <2>4, <2>5, <2>6, <2>7, <2>8 DEF Work
  <1> QED
    BY <1>1, <1>2, <1>3, <1>4, <1>5, Bystanders DEF Next

(* Two callers inside do not have the same private key.                    *)
LEMMA SoleUser ==
    ASSUME Asked, OneInside, NEW p \in Callers, NEW q \in Callers,
           Inside(p), Inside(q), req[p].key \in Private, req[q].key = req[p].key
    PROVE  p = q
  <1>1. req[p] \in Requests /\ req[q] \in Requests
    BY DEF Asked, Inside, Unlocked
  <1>2. req[p].account = req[q].account
    BY <1>1, RequestParts
  <1> QED
    BY <1>2 DEF OneInside

(* Rows and counts change at the key of the caller that steps.             *)
LEMMA RowsOfOthers ==
    ASSUME TypeOK, NEW p \in Callers, Work(p), NEW k \in Private, k # req[p].key
    PROVE  row'[k] = row[k] /\ reduced'[k] = reduced[k]
  <1>1. k \in Keys
    BY DEF Private
  <1> QED
    BY <1>1 DEF TypeOK, Work, Refuse, Find, FindNone, Create, Adopt, Proceed, Call,
         Fail, Complete, Apply, CountReduction, ListUnlocked, Listed, Tell

LEMMA TakenStays == [Next]_vars => taken \subseteq taken'
  BY DEF Next, Work, vars, Crash, Ask, Enter, Refuse, Find, FindNone, Create, Adopt,
         Proceed, Call, Redeem, Fail, Complete, Apply, ListUnlocked, Listed, Tell

(* The facts of RowIsMine about one caller.                                *)
MineOf(q) ==
    LET k == req[q].key
    IN  /\ pc[q] = "creating" => row[k] = None
        /\ pc[q] \in {"calling", "failing", "completing"} => row[k].outcome = None
        /\ pc[q] = "completing" /\ result[q] \in Success => <<Owner[k], k>> \in taken
        /\ pc[q] \in {"applying", "listing", "telling"} => row[k].outcome = result[q]
        /\ pc[q] = "applying" => reduced[k] = 0

LEMMA RowIsMineStep == Protocol /\ [Next]_vars => RowIsMine'
  <1> SUFFICES ASSUME Protocol, [Next]_vars, NEW q \in Callers,
                      Inside(q)', req'[q].key \in Private
               PROVE  MineOf(q)'
    BY DEF RowIsMine, MineOf
  <1> USE DEF Protocol
  <1> DEFINE k == req[q].key
  <1>0. /\ req'[q] = req[q] /\ k \in Private /\ k \in Keys /\ k # None
        /\ Inside(q) \/ Enter(q)
    BY InsideStep, NoneAssumption DEF Private
  <1>1. Inside(q) => MineOf(q)
    BY <1>0 DEF RowIsMine, MineOf
  <1>2. CASE Crash
    BY <1>2 DEF Crash, Inside, Unlocked
  <1>3. CASE UNCHANGED vars
    BY <1>0, <1>1, <1>3 DEF vars, caller, MineOf, Enter, Goto, Inside, TypeOK
  <1>4. ASSUME NEW p \in Callers, p # q,
               (\E r \in Requests : Ask(p, r)) \/ Enter(p) \/ Work(p)
        PROVE  MineOf(q)'
    <2>1. pc'[q] = pc[q] /\ result'[q] = result[q]
      BY <1>4, Bystanders
    <2>2. Inside(q)
      BY <2>1 DEF Inside
    <2>3. row'[k] = row[k] /\ reduced'[k] = reduced[k]
      <3>1. CASE Work(p)
        <4>1. Inside(p)
          BY <3>1 DEF Work, Refuse, Find, FindNone, Create, Adopt, Call, Fail,
                      Complete, Apply, ListUnlocked, Tell, Inside, Unlocked
        <4>2. req[p].key # k
          BY <1>0, <1>4, <2>2, <4>1, SoleUser
        <4> QED
          BY <1>0, <3>1, <4>2, RowsOfOthers
      <3> QED
        BY <1>4, <3>1 DEF Ask, Enter
    <2> QED
      BY <1>0, <1>1, <2>1, <2>2, <2>3, TakenStays DEF MineOf
  <1>5. CASE \E r \in Requests : Ask(q, r)
    BY <1>5 DEF Ask, Goto, Inside, Unlocked, TypeOK
  <1>6. CASE Enter(q)
    BY <1>0, <1>6 DEF Enter, Goto, MineOf, TypeOK
  <1>7. CASE Work(q)
    <2>0. Inside(q) /\ MineOf(q)
      BY <1>0, <1>1, <1>7 DEF Work, Refuse, Find, FindNone, Create, Adopt, Call, Fail,
                  Complete, Apply, ListUnlocked, Tell, Inside, Unlocked
    <2>1. CASE Refuse(q) \/ Tell(q) \/ Fail(q)
      BY <2>1 DEF Refuse, Tell, Fail, Leave, Goto, Inside, Unlocked, TypeOK
    <2>2. CASE Find(q) \/ Adopt(q)
      BY <1>0, <2>2 DEF Find, Adopt, Proceed, Goto, MineOf, TypeOK
    <2>3. CASE FindNone(q)
      BY <1>0, <2>3 DEF FindNone, Goto, MineOf, TypeOK
    <2>4. CASE Create(q)
      BY <1>0, <2>4 DEF Create, Goto, MineOf, TypeOK
    <2>5. CASE Call(q)
      <3>1. req[q] \in Requests
        BY <2>0 DEF Asked, Inside, Unlocked
      <3>2. req[q].account = Owner[k]
        BY <1>0, <3>1, RequestParts
      <3> QED
        BY <1>0, <2>0, <2>5, <3>2 DEF Call, Redeem, Goto, MineOf, TypeOK
    <2>6. CASE Complete(q)
      <3>1. row[k] \in Redemptions /\ row[k].outcome = None
        BY <1>0, <2>0, <2>6, RowParts DEF Complete, MineOf, WrittenAhead
      <3>2. reduced[k] = 0
        BY <1>0, <3>1 DEF CountedOnce
      <3>3. row'[k].outcome = result[q]
        BY <1>0, <2>6, <3>1 DEF Complete, TypeOK, Redemptions
      <3> QED
        BY <1>0, <2>6, <3>2, <3>3 DEF Complete, Goto, MineOf, TypeOK
    <2>7. CASE Apply(q)
      BY <1>0, <2>0, <2>7 DEF Apply, Goto, MineOf, TypeOK
    <2>8. CASE ListUnlocked(q)
      BY <1>0, <2>0, <2>8 DEF ListUnlocked, Listed, Goto, MineOf, TypeOK
    <2> QED
      BY <1>7, <2>1, <2>2, <2>3, <2>4, <2>5, <2>6, <2>7, <2>8 DEF Work
  <1> QED
    BY <1>2, <1>3, <1>4, <1>5, <1>6, <1>7 DEF Next

(* A private row that is completed is not written again.                   *)
LEMMA SettledStays ==
    ASSUME Protocol, [Next]_vars, NEW k \in Private
    PROVE  \/ Settled(k)' = Settled(k)
           \/ \E p \in Callers :
                 /\ Complete(p) /\ req[p].key = k
                 /\ Settled(k) = None /\ Settled(k)' = result[p]
  <1> USE DEF Protocol
  <1>0. k \in Keys
    BY DEF Private
  <1>1. CASE row'[k] = row[k]
    BY <1>1 DEF Settled
  <1>2. ASSUME NEW p \in Callers, Work(p), req[p].key = k
        PROVE  \/ Settled(k)' = Settled(k)
               \/ /\ Complete(p)
                  /\ Settled(k) = None /\ Settled(k)' = result[p]
    <2>1. CASE Create(p)
      BY <1>0, <1>2, <2>1 DEF Create, Settled, TypeOK
    <2>2. CASE Fail(p)
      <3>1. row[k] \in Redemptions /\ row[k] # None /\ row[k].outcome = None
        BY <1>0, <1>2, <2>2, RowParts DEF Fail, WrittenAhead, RowIsMine, Inside, Unlocked
      <3>2. row'[k] # None
        BY <1>0, <3>1, RowsStay
      <3> QED
        BY <1>0, <1>2, <2>2, <3>1, <3>2 DEF Fail, Settled, TypeOK, Redemptions
    <2>3. CASE Complete(p)
      <3>1. row[k] \in Redemptions /\ row[k] # None /\ row[k].outcome = None
        BY <1>0, <1>2, <2>3, RowParts DEF Complete, WrittenAhead, RowIsMine, Inside, Unlocked
      <3>2. row'[k] # None
        BY <1>0, <3>1, RowsStay
      <3>3. PICK credit : row' = [row EXCEPT ![k].credit = credit, ![k].outcome = result[p]]
        BY <1>2, <2>3 DEF Complete
      <3>4. row'[k].outcome = result[p]
        BY <1>0, <3>1, <3>3 DEF TypeOK, Redemptions
      <3>5. Settled(k) = None /\ Settled(k)' = result[p]
        BY <3>1, <3>2, <3>4 DEF Settled
      <3> QED
        BY <2>3, <3>5
    <2>4. CASE row' = row
      BY <2>4 DEF Settled
    <2>5. \/ Create(p) \/ Fail(p) \/ Complete(p)
          \/ row' = row
      BY <1>2 DEF Work, Refuse, Find, FindNone, Adopt, Proceed, Call, Apply,
                  ListUnlocked, Listed, Tell
    <2> QED
      BY <2>1, <2>2, <2>3, <2>4, <2>5
  <1>3. ASSUME NEW p \in Callers, Work(p), req[p].key # k PROVE row'[k] = row[k]
    BY <1>3, RowsOfOthers
  <1>4. ASSUME NEW p \in Callers, (\E r \in Requests : Ask(p, r)) \/ Enter(p)
        PROVE  row'[k] = row[k]
    BY <1>4 DEF Ask, Enter
  <1>5. CASE UNCHANGED vars \/ Crash
    BY <1>1, <1>5 DEF vars, Crash
  <1> QED
    BY <1>1, <1>2, <1>3, <1>4, <1>5 DEF Next

LEMMA TruthfulStep == Protocol /\ [Next]_vars => Truthful'
  <1> SUFFICES ASSUME Protocol, [Next]_vars, NEW k \in Private,
                      row'[k] # None, row'[k].outcome \in Success
               PROVE  <<Owner[k], k>> \in taken'
    BY DEF Truthful
  <1>1. Settled(k)' \in Success
    BY DEF Settled
  <1>2. CASE Settled(k) \in Success
    BY <1>2, TakenStays, NoneAssumption DEF Settled, Truthful, Protocol, Outcomes
  <1>3. ASSUME NEW p \in Callers, Complete(p), req[p].key = k, result[p] \in Success
        PROVE  <<Owner[k], k>> \in taken'
    BY <1>3, TakenStays DEF Complete, RowIsMine, Inside, Unlocked, Protocol
  <1> QED
    BY <1>1, <1>2, <1>3, SettledStays

LEMMA CountedOnceStep == Protocol /\ [Next]_vars => CountedOnce'
  <1> SUFFICES ASSUME Protocol, [Next]_vars, NEW k \in Private
               PROVE  \/ reduced'[k] = 0
                      \/ reduced'[k] = 1 /\ row'[k] # None /\ row'[k].outcome # None
    BY DEF CountedOnce
  <1> USE DEF Protocol
  <1>0. k \in Keys
    BY DEF Private
  <1>1. CASE reduced'[k] = reduced[k]
    <2>1. Settled(k) # None => Settled(k)' # None
      BY SettledStays
    <2> QED
      BY <1>1, <2>1 DEF CountedOnce, Settled
  <1>2. ASSUME NEW p \in Callers, Apply(p), req[p].key = k
        PROVE  \/ reduced'[k] = 0
               \/ reduced'[k] = 1 /\ row'[k] # None /\ row'[k].outcome # None
    <2>1. /\ reduced[k] = 0 /\ row[k] # None
          /\ row[k].outcome = result[p] /\ result[p] \in Outcomes
      BY <1>2 DEF Apply, RowIsMine, WrittenAhead, Inside, Unlocked
    <2> QED
      BY <1>0, <1>2, <2>1, NoneAssumption DEF Apply, CountReduction, TypeOK
  <1>3. ASSUME NEW p \in Callers, Work(p), req[p].key # k PROVE reduced'[k] = reduced[k]
    BY <1>3, RowsOfOthers
  <1> QED
    BY <1>1, <1>2, <1>3
    DEF Next, Work, vars, Crash, Ask, Enter, Refuse, Find, FindNone, Create, Adopt,
        Proceed, Call, Fail, Complete, ListUnlocked, Listed, Tell

-----------------------------------------------------------------------------
(* The theorems.                                                           *)

LEMMA ProtocolInit == Init => Protocol
  <1> SUFFICES ASSUME Init PROVE Protocol
    OBVIOUS
  <1>1. TypeOK
    BY DEF Init, TypeOK, Stages, Unlocked
  <1>2. \A p \in Callers : pc[p] = "idle"
    BY DEF Init
  <1>3. Asked /\ OneInside /\ WrittenAhead /\ RowIsMine
    BY <1>2 DEF Asked, OneInside, WrittenAhead, RowIsMine, Inside, Unlocked
  <1>4. Truthful /\ CountedOnce
    BY DEF Init, Truthful, CountedOnce, Private
  <1> QED
    BY <1>1, <1>3, <1>4 DEF Protocol

LEMMA ResetProtocol == Spec => []Protocol
  <1>1. Protocol /\ [Next]_vars => Protocol'
    BY TypesStep, AskedStep, OneInsideStep, WrittenAheadStep, RowIsMineStep,
       TruthfulStep, CountedOnceStep DEF Protocol
  <1> QED
    BY <1>1, ProtocolInit, PTL DEF Spec

(* The variables keep their types.                                         *)
THEOREM ResetTypeCorrect == Spec => []TypeOK
  <1>1. Protocol => TypeOK
    BY DEF Protocol
  <1> QED
    BY <1>1, ResetProtocol, PTL

(* A private key takes one credit off the displayed snapshot at most.      *)
THEOREM ResetReducedOnce == Spec => []ReducedOnce
  <1>1. Protocol => ReducedOnce
    BY DEF Protocol, CountedOnce, ReducedOnce
  <1> QED
    BY <1>1, ResetProtocol, PTL

(* What is told for a private key is what its row says.                    *)
THEOREM ResetToldAsSettled == Spec => ToldAsSettled
  <1>1. Protocol =>
          [\A p \in Callers :
              Tell(p) /\ req[p].key \in Private => result[p] = Settled(req[p].key)]_vars
    BY DEF Protocol, RowIsMine, WrittenAhead, Tell, Inside, Unlocked, Settled
  <1> QED
    BY <1>1, ResetProtocol, PTL DEF ToldAsSettled

(* ResetCredit implements ResetAnswer on the private keys: they are        *)
(* settled once, and as redeemed only when the upstream redeemed.          *)
THEOREM ResetSettledOnce == Spec => SettledOnce
  <1>1. Init => Answer!Init
    BY DEF Init, Settled, Private, Answer!Init
  <1>2. Protocol /\ [Next]_vars => [Answer!Next]_(Answer!vars)
    <2> SUFFICES ASSUME Protocol, [Next]_vars PROVE [Answer!Next]_(Answer!vars)
      OBVIOUS
    <2> USE DEF Protocol
    <2> DEFINE Spent == {k \in Private : <<Owner[k], k>> \in taken}
               Answers == [k \in Private |-> Settled(k)]
    <2>1. ASSUME NEW p \in Callers, Complete(p), req[p].key \in Private
          PROVE  Answer!Next
      <3>0. PICK k \in Private : k = req[p].key
        BY <2>1
      <3>1. taken' = taken /\ result[p] \in Outcomes
        BY <2>1 DEF Complete, WrittenAhead
      <3>2. Settled(k) = None
        BY <2>1, <3>0 DEF Complete, RowIsMine, WrittenAhead, Inside, Unlocked, Settled
      <3>3. Settled(k)' = result[p]
        <4>1. row[k] \in Redemptions /\ k \in Keys /\ row[k] # None
          BY <2>1, <3>0, RowParts DEF Complete, WrittenAhead, Private
        <4>2. row'[k] # None
          BY <4>1, RowsStay
        <4> QED
          BY <2>1, <3>0, <4>1, <4>2 DEF Complete, Settled, TypeOK, Redemptions
      <3>4. \A j \in Private : j # k => Settled(j)' = Settled(j)
        BY <2>1, <3>0, RowsOfOthers DEF Work, Settled
      <3>5. Answers' = [Answers EXCEPT ![k] = result[p]]
        BY <3>3, <3>4 DEF Settled
      <3>6. result[p] \in Success => k \in Spent
        BY <2>1, <3>0 DEF Complete, RowIsMine, Inside, Unlocked
      <3>7. Answer!Settle(k, result[p])
        BY <3>1, <3>2, <3>5, <3>6 DEF Answer!Settle
      <3> QED
        BY <3>1, <3>7 DEF Answer!Next
    <2>2. ASSUME NEW p \in Callers, Call(p)
          PROVE  Answer!Next \/ UNCHANGED Answer!vars
      <3> DEFINE k == req[p].key
      <3>1. Answers' = Answers
        BY <2>2 DEF Call, Settled
      <3>2. req[p] \in Requests /\ k \in Keys
        BY <2>2 DEF Call, Asked, Inside, Unlocked
      <3>3. CASE Spent' = Spent
        BY <3>1, <3>3 DEF Answer!vars
      <3>4. CASE Spent' # Spent
        <4>1. taken' = taken \cup {<<req[p].account, k>>}
          BY <2>2, <3>4 DEF Call, Redeem
        <4>2. k \in Private /\ req[p].account = Owner[k]
          BY <3>2, <3>4, <4>1, RequestParts
        <4>3. k \notin Spent /\ Spent' = Spent \cup {k}
          BY <3>4, <4>1, <4>2
        <4>4. PICK j \in Private : j = k
          BY <4>2
        <4>5. Answer!Spend(j)
          BY <3>1, <4>3, <4>4 DEF Answer!Spend
        <4> QED
          BY <4>5 DEF Answer!Next
      <3> QED
        BY <3>3, <3>4
    <2>3. CASE \A k \in Private : Settled(k)' = Settled(k)
      <3>1. Answers' = Answers
        BY <2>3
      <3>2. CASE taken' = taken
        BY <3>1, <3>2 DEF Answer!vars
      <3>3. taken' = taken \/ \E p \in Callers : Call(p)
        BY DEF Next, Work, vars, Crash, Ask, Enter, Refuse, Find, FindNone, Create,
               Adopt, Proceed, Fail, Complete, Apply, ListUnlocked, Listed, Tell
      <3> QED
        BY <2>2, <3>2, <3>3
    <2>4. CASE \E k \in Private : Settled(k)' # Settled(k)
      BY <2>1, <2>4, SettledStays
    <2> QED
      BY <2>3, <2>4
  <1> QED
    BY <1>1, <1>2, ResetProtocol, PTL DEF Spec, SettledOnce, Answer!Spec

=============================================================================
