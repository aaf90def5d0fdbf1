----------------------------- MODULE QuotaWindows ------------------------------
(***************************************************************************)
(* The quota rows of one account (services/quota_service). A usage refresh *)
(* writes the official answer, source "wham", window by window and then    *)
(* reconciles the snapshot; response headers and probes write samples.     *)
(* Upsert looks a row up and then updates or creates it: nothing makes a   *)
(* window and a source unique, so two writers can both create.             *)
(*                                                                         *)
(* Of an answer the model keeps what its windows say of themselves and     *)
(* whether their group is exhausted; of the clock, whether the reset of a  *)
(* row has come and whether a sample is younger than 15 minutes. The       *)
(* columns that routing reads, the status included, are functions of the   *)
(* answer (normalizeQuotaInput), so a row keeps the answer.                *)
(***************************************************************************)
EXTENDS Integers, FiniteSetsExt

CONSTANTS
    Writers,        \* refreshes and requests that bring an answer
    Limits,         \* the answers upstream gives
    Resets,         \* "known", "none": does a window say when it resets?
    MaxRows         \* bound on the rows of the table

Windows == {"primary", "secondary"}
Uses == {"ok", "full", "unknown", "absent"}

ASSUME LimitsAssumption ==
    Limits \subseteq [primary : Uses, secondary : Uses, exhausted : BOOLEAN]
ASSUME ResetsAssumption == Resets \subseteq {"known", "none"}
ASSUME MaxRowsAssumption == MaxRows \in Nat

VARIABLES
    rows,           \* the table: row ids to rows
    step,           \* step[p]: "idle", "finding", "writing" or "reconciling"
    work            \* work[p]: what p brings, and the row it has found

windowsVars == <<rows, step, work>>

NoRow == 0
Shown(l) == {w \in Windows : l[w] # "absent"}
Other(w) == IF w = "primary" THEN "secondary" ELSE "primary"

\* mutant: the flags of the group are copied to each of its windows
FlaggedEverywhere(l, w) == TRUE

(* quotaInputFromWindow: does the row of w keep the flags of its group?    *)
Flagged(l, w) ==
    \/ Shown(l) = {w}
    \/ l[w] = "full"
    \/ w = "primary" /\ l[Other(w)] # "full"

(* Do the numbers and flags stored for w say that it is exhausted?         *)
Exhausts(l, w) == l[w] = "full" \/ (l.exhausted /\ Flagged(l, w))

(* A row counts until its reset comes.                                     *)
Live(i) == rows[i].reset # "past"
Official(i) == rows[i].source = "wham"
OfficialWindows == {rows[i].window : i \in {j \in DOMAIN rows : Live(j) /\ Official(j)}}

(* quotaBlocksRouting: a sample counts for 15 minutes.                     *)
Blocks(i) ==
    /\ Official(i) \/ rows[i].fresh
    /\ Exhausts(rows[i].answer, rows[i].window)

(* quotaBlockDetails: an official row silences the samples of its window.  *)
Counted(i) == Live(i) /\ (Official(i) \/ rows[i].window \notin OfficialWindows)

Blocking == {i \in DOMAIN rows : Counted(i) /\ Blocks(i)}
BlockedOn(w) == \E i \in Blocking : rows[i].window = w
Blocked == Blocking # {}

WindowsInit ==
    /\ rows = <<>>
    /\ step = [p \in Writers |-> "idle"]
    /\ work = [p \in Writers |-> <<>>]

StepTo(p, stage) == step' = [step EXCEPT ![p] = stage]

(* The primary window goes first.                                          *)
FirstOf(todo) == IF "primary" \in todo THEN "primary" ELSE "secondary"
Current(p) == FirstOf(work[p].todo)

\* mutant: the rows of all the sources are one
FirstOfAnySource(s, w) ==
    LET found == {i \in DOMAIN rows : rows[i].window = w}
    IN  IF found = {} THEN NoRow ELSE Min(found)

(* Upsert looks for the row of a window and a source: the first, or none.  *)
First(s, w) ==
    LET found == {i \in DOMAIN rows : rows[i].window = w /\ rows[i].source = s}
    IN  IF found = {} THEN NoRow ELSE Min(found)

(* SyncRateLimit is called with an answer and looks for the row of its     *)
(* first window; an answer without windows is nothing.                     *)
Sync(p, s, l) ==
    /\ step[p] = "idle"
    /\ Shown(l) # {}
    /\ work' = [work EXCEPT ![p] = [source |-> s, answer |-> l, todo |-> Shown(l),
                                    found |-> First(s, FirstOf(Shown(l)))]]
    /\ StepTo(p, "writing")
    /\ UNCHANGED rows

(* Upsert looks for the row of the next window.                            *)
FindRow(p) ==
    /\ step[p] = "finding"
    /\ work' = [work EXCEPT ![p].found = First(work[p].source, Current(p))]
    /\ StepTo(p, "writing")
    /\ UNCHANGED rows

(* The row of the current window as the answer has it.                     *)
Input(p, reset) ==
    [window |-> Current(p), source |-> work[p].source, answer |-> work[p].answer,
     reset |-> reset, fresh |-> work[p].source = "sample"]

\* a new row comes before or after those there are; an id that a writer
\* still holds is not given out again
FreeIds ==
    1 .. MaxRows \ (DOMAIN rows \cup {work[p].found : p \in {q \in Writers : step[q] # "idle"}})

(* Upsert writes: an update of the row it found, which is nothing when     *)
(* that row is gone, or a new row. After the last window a refresh goes on *)
(* to reconcile and a sample is done.                                      *)
WriteRow(p) ==
    /\ step[p] = "writing"
    /\ \E reset \in Resets :
          IF work[p].found = NoRow
          THEN \E new \in FreeIds :
                  rows' = [i \in DOMAIN rows \cup {new} |->
                             IF i = new THEN Input(p, reset) ELSE rows[i]]
          ELSE rows' = [i \in DOMAIN rows |->
                             IF i = work[p].found THEN Input(p, reset) ELSE rows[i]]
    /\ LET left == work[p].todo \ {Current(p)} IN
       IF left # {}
       THEN /\ StepTo(p, "finding")
            /\ work' = [work EXCEPT ![p].todo = left, ![p].found = NoRow]
       ELSE IF work[p].source = "wham"
       THEN /\ StepTo(p, "reconciling")
            /\ work' = [work EXCEPT ![p].todo = {}, ![p].found = NoRow]
       ELSE StepTo(p, "idle") /\ work' = [work EXCEPT ![p] = <<>>]

(* An upsert or the transaction fails: the caller gives up.                *)
Fail(p) ==
    /\ step[p] # "idle"
    /\ work' = [work EXCEPT ![p] = <<>>]
    /\ StepTo(p, "idle")
    /\ UNCHANGED rows

(* ReconcileSnapshot: the official rows of windows that the answer does    *)
(* not show are dropped. The status it derives anew is the one they have.  *)
Reconcile(p) ==
    /\ step[p] = "reconciling"
    /\ rows' = [i \in {j \in DOMAIN rows : ~Official(j)
                         \/ rows[j].window \in Shown(work[p].answer)} |-> rows[i]]
    /\ work' = [work EXCEPT ![p] = <<>>]
    /\ StepTo(p, "idle")

(* RefreshExpiredWindows deletes the rows whose reset has come.            *)
Sweep ==
    /\ \E i \in DOMAIN rows : ~Live(i)
    /\ rows' = [i \in {j \in DOMAIN rows : Live(j)} |-> rows[i]]
    /\ UNCHANGED <<step, work>>

ResetComes(i) ==
    /\ rows[i].reset = "known"
    /\ rows' = [rows EXCEPT ![i].reset = "past"]
    /\ UNCHANGED <<step, work>>

(* Time: the samples get older than 15 minutes.                            *)
Age ==
    /\ \E i \in DOMAIN rows : rows[i].fresh
    /\ rows' = [i \in DOMAIN rows |-> [rows[i] EXCEPT !.fresh = FALSE]]
    /\ UNCHANGED <<step, work>>

WindowsNext ==
    \/ \E p \in Writers :
          \/ \E s \in {"wham", "sample"}, l \in Limits : Sync(p, s, l)
          \/ FindRow(p) \/ WriteRow(p) \/ Fail(p) \/ Reconcile(p)
    \/ Sweep \/ Age
    \/ \E i \in DOMAIN rows : ResetComes(i)

WindowsSpec == WindowsInit /\ [][WindowsNext]_windowsVars

-----------------------------------------------------------------------------

WindowsTypeOK ==
    /\ DOMAIN rows \subseteq 1 .. MaxRows
    /\ \A i \in DOMAIN rows :
          rows[i] \in [window : Windows, source : {"wham", "sample"}, answer : Limits,
                       reset : {"known", "none", "past"}, fresh : BOOLEAN]
    /\ step \in [Writers -> {"idle", "finding", "writing", "reconciling"}]

\* p writes a sample
Samples(p) == step[p] = "writing" /\ work[p].source = "sample" /\ step'[p] # "writing"

(* The comments on Upsert and quotaSetBlocksRouting: a sample neither      *)
(* overwrites nor overrides the official snapshot. However refreshes and   *)
(* samples interleave, the sample of a request changes nothing in routing's*)
(* verdict on a window that has an official row.                           *)
SampleOverridesNothing ==
    [][\A p \in Writers, w \in OfficialWindows :
          Samples(p) =>
              /\ w \in OfficialWindows'
              /\ BlockedOn(w)' <=> BlockedOn(w)]_windowsVars

OfficialRow(w) == {i \in DOMAIN rows : Live(i) /\ Official(i) /\ rows[i].window = w}

(* The comment in quotaInputFromWindow: an answer that blames one window   *)
(* does not take the other one out with it, and an exhausted group takes   *)
(* at least one window out, so that the account is blocked.                *)
BlameIsExact ==
    \A l \in {m \in Limits : Shown(m) # {}} :
       (\A w \in Windows :
           IF w \in Shown(l)
           THEN OfficialRow(w) # {} /\ \A i \in OfficialRow(w) : rows[i].answer = l
           ELSE \A i \in DOMAIN rows : rows[i].window # w)
       =>
       /\ l.exhausted => Blocked
       /\ \A w \in Shown(l) : l[w] = "ok" /\ l[Other(w)] = "full" => ~BlockedOn(w)

=============================================================================
