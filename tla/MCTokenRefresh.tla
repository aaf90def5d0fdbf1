-------------------------- MODULE MCTokenRefresh ---------------------------
(* Two requests and one usage refresh on one account; three generations.   *)
EXTENDS TokenRefresh

CONSTANTS r1, r2, s1

MCRequests == {r1, r2}
MCSweeps == {s1}
=============================================================================
