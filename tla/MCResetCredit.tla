-------------------------- MODULE MCResetCredit ---------------------------
(* Two callers and two accounts; a key of the first account and a key that *)
(* is used with both.                                                      *)
EXTENDS ResetCredit, TLC

CONSTANTS p1, p2, a1, a2, k1, k2

MCCallers == {p1, p2}
MCAccounts == {a1, a2}
MCKeys == {k1, k2}
MCShared == {k2}
MCOwner == [k \in MCKeys |-> a1]
MCCredits == {}
=============================================================================
