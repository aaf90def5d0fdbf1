--------------------------- MODULE MCRequestGate ---------------------------
(* Three requests and the capacities one and two: a request is refused at  *)
(* once, waits for one slot of two, or meets requests that were admitted   *)
(* under the larger capacity before the configuration was lowered.         *)
EXTENDS RequestGate

CONSTANTS r1, r2, r3

MCRequests == {r1, r2, r3}
MCCapacities == {1, 2}
=============================================================================
