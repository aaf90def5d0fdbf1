------------------------------ MODULE MCRouting -----------------------------
(* Two accounts of the weights 2 and none (which is 1), with the same       *)
(* score, listed in either order; the second may go out; two requests.      *)
EXTENDS Routing

CONSTANTS r1, r2

MCAccounts == {1, 2}
MCWeight == <<2, 0>>
MCScore == <<7, 7>>
MCOrders == {<<1, 2>>, <<2, 1>>}
MCOutages == {{}, {2}}
MCRouted == {r1, r2}
MCSymmetry == Permutations(MCRouted)
=============================================================================
