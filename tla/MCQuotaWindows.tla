-------------------------- MODULE MCQuotaWindows ---------------------------
(* Two writers and the answers that differ in whom they blame.             *)
EXTENDS QuotaWindows

CONSTANTS p1, p2

MCWriters == {p1, p2}

Limit(p, s, x) == [primary |-> p, secondary |-> s, exhausted |-> x]
MCLimits == {Limit("ok", "full", TRUE), Limit("unknown", "ok", TRUE),
             Limit("ok", "absent", FALSE)}
=============================================================================
