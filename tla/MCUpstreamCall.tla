--------------------------- MODULE MCUpstreamCall ---------------------------
(* Handle with two accounts and two attempts, and both timeouts on.        *)
EXTENDS UpstreamCall

CONSTANTS a1, a2

TwoAccounts == {a1, a2}
=============================================================================
