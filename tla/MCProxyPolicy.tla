---------------------------- MODULE MCProxyPolicy ----------------------------
(* One request, two savers, and inputs that differ in what they keep, clear *)
(* and replace. The file has credentials of its own.                        *)
EXTENDS ProxyPolicy, TLC

CONSTANTS r1, s1, s2, h1, h2

MCSenders == {r1}
MCSavers == {s1, s2}
MCHosts == {h1, h2}

MCBase == [on |-> TRUE, required |-> FALSE, host |-> h1, auth |-> h1]

Input(on, required, host, auth) ==
    [on |-> on, required |-> required, host |-> host, auth |-> auth]
MCInputs == {Input(TRUE, "yes", h2, "new"), Input(TRUE, "keep", h1, "keep"),
             Input(FALSE, "keep", NoHost, "keep")}

MCSymmetry == Permutations(MCSavers)
=============================================================================
