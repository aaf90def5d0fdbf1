------------------------- MODULE MCPlatformKeyQuota -------------------------
(* Two requests of one key, served by one instance. The limits, estimates  *)
(* and the lifetime of a reservation are small enough that two requests    *)
(* fit the budget only one after the other.                                *)
EXTENDS PlatformKeyQuota, TLC

CONSTANTS r1, r2, i1

MCRequests == {r1, r2}
OneInstance == {i1}
SameHome == [r \in MCRequests |-> i1]
MCLimits == {0, 2}
RequestSymmetry == Permutations(MCRequests)
=============================================================================
