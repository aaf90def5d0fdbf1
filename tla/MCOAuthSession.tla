-------------------------- MODULE MCOAuthSession ---------------------------
(* A browser and a device login of two users of one ChatGPT account id,    *)
(* and two callbacks for the browser one; an account of the first user     *)
(* from before subjects were, and an import of a file of that user, which  *)
(* the login may meet, or of a file of the second user without a subject.  *)
EXTENDS OAuthSession

CONSTANTS b1, d1, c1, c2, u1, u2, i1

MCSessions == {b1, d1}
MCDevice == {d1}
MCCallbacks == {c1, c2}
MCUsers == {u1, u2}
MCUser == [s \in MCSessions |-> IF s = b1 THEN u1 ELSE u2]
MCMail == [u \in MCUsers |-> u]
MCLegacy == {<<u1>>}
MCImports == {i1}
MCBatches == {<<[user |-> u1, named |-> TRUE]>>, <<[user |-> u2, named |-> FALSE]>>}
=============================================================================
