--------------------------- MODULE MCUsageLedger ----------------------------
(* Two requests that are older than costs, of a model only the built-in    *)
(* snapshot and one live document price, the first with a long input; a    *)
(* new one of the priority tier; and one whose model is given with a blank *)
(* before it, which is refused. The old ones fill the list of a backfill.  *)
(* A day has two hours, so that every window has two buckets.              *)
EXTENDS UsageLedger, TLC

CONSTANTS o1, o2, r1, x1, a, b, s1

MCRequests == {o1, o2, r1, x1}
MCOld == {o1, o2}
MCRefused == {x1}
MCFailing == {x1}

MCAsked == [r \in MCRequests |-> IF r = x1 THEN " b" ELSE IF r = r1 THEN "a" ELSE "b"]
MCTrimmed == [m \in {"a", " b", "b"} |-> IF m = " b" THEN "b" ELSE m]
MCModel == [r \in MCRequests \ MCRefused |-> IF r = r1 THEN a ELSE b]
MCTier == [r \in MCRequests \ MCRefused |-> IF r = r1 THEN "priority" ELSE "standard"]
MCContext == [r \in MCRequests \ MCRefused |-> IF r = o1 THEN "long" ELSE "short"]
Plain(m) == <<m, "standard", "short">>
Priority == <<a, "priority", "short">>
MCIdentities == {Plain(b), Priority}
MCSnapshots ==
    {[source |-> "live", lines |-> <<<<Priority, 3>>, <<Plain(b), -1>>, <<Priority, 1>>>>],
     [source |-> "builtin", lines |-> <<<<Priority, 2>>, <<Plain(b), 1>>>>],
     [source |-> "live", lines |-> <<<<Plain(b), 2>>>>],
     [source |-> "live", lines |-> <<>>]}
MCSyncs == {s1}
OneOrTwoDays == {1, 2}

(* A summary looks at no price and no cost, and a synchronisation logs and *)
(* deletes no request, so that it does not matter in what order their      *)
(* steps come. Here summaries are asked for before the first price is      *)
(* stored, without the new request; the refused one is logged then, and    *)
(* the clock moves.                                                        *)
Unsynchronised ==
    /\ pc[r1] = "idle"
    /\ prices = [i \in Identities |-> NoPrice]
    /\ \A s \in Syncs : sync[s].stage = "idle"

MCNext ==
    /\ Next
    /\ report' # Nowhere \/ pc'[x1] # "idle" \/ now' # MaxDays * Day + 1 =>
          Unsynchronised /\ Unsynchronised'

MCSpec == Init /\ [][MCNext]_vars /\ Fairness
=============================================================================
