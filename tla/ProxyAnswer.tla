----------------------------- MODULE ProxyAnswer -----------------------------
(***************************************************************************)
(* What a proxied request promises to its client and to its platform key,  *)
(* whatever is retried behind it: the body begins at most once, nothing is *)
(* sent after the end, and the reservation is released with the end.       *)
(***************************************************************************)
EXTENDS Naturals

VARIABLES
    begun,          \* how many calls have sent content to the client
    over,           \* Handle has returned
    reserved        \* the reservation of the platform key is held

vars == <<begun, over, reserved>>

Init == begun = 0 /\ over = FALSE /\ reserved = TRUE

(* The first content of an answer goes to the client.                      *)
Begin ==
    /\ ~over /\ begun = 0
    /\ begun' = 1
    /\ UNCHANGED <<over, reserved>>

(* The request ends, and its reservation with it.                          *)
End ==
    /\ ~over
    /\ over' = TRUE /\ reserved' = FALSE
    /\ UNCHANGED begun

Next == Begin \/ End

Spec == Init /\ [][Next]_vars

=============================================================================
