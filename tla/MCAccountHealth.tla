-------------------------- MODULE MCAccountHealth --------------------------
(* Two requests, at most one usage refresh, the token refresh, the         *)
(* recovery task and a call that adds the account again, around one row.   *)
(* The two requests are interchangeable.                                   *)
EXTENDS AccountHealth, TLC

CONSTANTS r1, r2, u1, flight, recovery, d1

MCRequests == {r1, r2}
OneRefresh == {u1}
OneAdder == {d1}
Interchangeable == Permutations(MCRequests)
=============================================================================
