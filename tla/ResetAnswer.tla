----------------------------- MODULE ResetAnswer -----------------------------
(***************************************************************************)
(* What an idempotency key promises to the administrator who consumes a    *)
(* rate-limit reset credit with it: the key is settled once, for good, and *)
(* it is settled as redeemed only if the upstream has redeemed a credit.   *)
(***************************************************************************)
CONSTANTS
    Keys,           \* the idempotency keys
    Outcomes,       \* what a key may be settled with
    Redeemed,       \* the outcomes that say a credit was redeemed
    Unsettled

VARIABLES
    spent,          \* the keys a credit was redeemed with
    answer          \* answer[k]: the outcome of k, or Unsettled

vars == <<spent, answer>>

Init ==
    /\ spent = {}
    /\ answer = [k \in Keys |-> Unsettled]

Spend(k) ==
    /\ k \notin spent
    /\ spent' = spent \cup {k}
    /\ UNCHANGED answer

Settle(k, o) ==
    /\ answer[k] = Unsettled
    /\ o \in Redeemed => k \in spent
    /\ answer' = [answer EXCEPT ![k] = o]
    /\ UNCHANGED spent

Next == \E k \in Keys : Spend(k) \/ \E o \in Outcomes : Settle(k, o)

Spec == Init /\ [][Next]_vars

=============================================================================
