----------------------------- MODULE UsageLedger ------------------------------
(***************************************************************************)
(* What requests cost and what the usage pages report: the price table and *)
(* the synchronisation that fills it (services/model_pricing_service), the *)
(* request log, and the summary made of it in several queries              *)
(* (services/request_log_service).                                         *)
(*                                                                         *)
(* A statement or a transaction is one action. One vendor and one scope;   *)
(* the price of an identity is what one of these requests costs by it, so  *)
(* tokens, their kinds and the rounding are left out. Image requests are   *)
(* left out too: they are logged without a cost and never backfilled. A    *)
(* summary for one account is the same over that account's log.            *)
(***************************************************************************)
EXTENDS Integers, Sequences, FiniteSets, FiniteSetsExt, Functions

CONSTANTS
    Requests,       \* request ids
    Old,            \* those logged before costs were
    OldAt,          \* when
    Refused,        \* those logged without tokens: refused before an attempt
    Asked,          \* Asked[r]: the name it gives its model, as it is logged
    Trimmed,        \* Trimmed[m]: that name without the blanks around it
    Model,          \* Model[r]: the upstream model of one that is not refused
    Tier,           \* Tier[r]: its service tier
    Context,        \* Context[r]: "long" when its input passes 272000 tokens
    Failing,        \* those with a status >= 400 or an error type
    Identities,     \* <<model, service tier, context tier>>: what has a price
    Snapshots,      \* what the price source may answer
    Syncs,          \* callers of SyncOfficial: at boot, on schedule, by hand
    Limit,          \* requests one backfill lists, 10000
    Hour, Day,      \* in ticks
    Days,           \* the windows summaries are asked for, in days
    MaxDays,        \* MaxUsageRetentionDays
    MaxSeries,      \* models with a series of their own
    MaxNow          \* bound on the clock

ASSUME RequestsAssumption ==
    /\ Old \subseteq Requests /\ IsFiniteSet(Old) /\ Failing \subseteq Requests
    /\ OldAt \in Nat /\ Limit \in Nat \ {0}
    /\ Tier \in [Requests \ Refused -> {"standard", "batch", "flex", "priority"}]
    /\ Context \in [Requests \ Refused -> {"short", "long"}]
ASSUME SnapshotsAssumption == \A s \in Snapshots :
    /\ s.source \in {"live", "builtin"}
    /\ s.lines \in Seq(Identities \X (Nat \cup {-1}))
ASSUME TimeAssumption ==
    /\ Hour \in Nat \ {0} /\ Day \in Nat \ {0} /\ MaxDays \in Nat \ {0}
    /\ Days \subseteq 1 .. MaxDays
    /\ MaxNow > MaxDays * Day

VARIABLES
    prices,         \* the price table: a row, active or not, or NoPrice
    sync,           \* sync[s]: where s stands in SyncOfficial
    pc,             \* pc[r]: where r stands in Handle
    left,           \* left[r]: the lookups of EstimateCost still to be tried
    cost,           \* cost[r]: the estimate, until r is logged
    log,            \* the log: its time and its cost by request
    now,            \* the clock
    report,         \* a summary under way
    moved,          \* history: what came to or left its window while it was read
    lastLive        \* history: the prices of the last live snapshot stored

vars == <<prices, sync, pc, left, cost, log, now, report, moved, lastLive>>

NoPrice == [cost |-> 0, source |-> "none", active |-> FALSE]
Unmatched == -1
Nowhere == [stage |-> "idle"]

Init ==
    /\ prices = [i \in Identities |-> NoPrice]
    /\ sync = [s \in Syncs |-> Nowhere]
    /\ pc = [r \in Requests |-> IF r \in Old THEN "logged" ELSE "idle"]
    /\ left = [r \in Requests |-> <<>>]
    /\ cost = [r \in Requests |-> Unmatched]
    /\ log = [r \in Old |-> [at |-> OldAt, cost |-> Unmatched]]
    /\ now = MaxDays * Day + 1
    /\ report = Nowhere
    /\ moved = {}
    /\ lastLive = <<>>

-----------------------------------------------------------------------------
(* EstimateCost.                                                           *)

(* The prices it looks for, each when those before it are not active. The  *)
(* last one is tried again for the standard tier.                          *)
Lookups(r) ==
    LET long == Context[r] = "long" IN
    << <<Model[r], Tier[r], Context[r]>> >>
    \o (IF long THEN << <<Model[r], Tier[r], "short">> >> ELSE <<>>)
    \o (IF Tier[r] # "standard" THEN << <<Model[r], "standard", Context[r]>> >> ELSE <<>>)
    \o (IF long THEN << <<Model[r], "standard", "short">> >> ELSE <<>>)

Active(i) == i \in Identities /\ prices[i].active

(* The estimate when no synchronisation commits meanwhile.                 *)
Estimate(r) ==
    LET found == SelectSeq(Lookups(r), Active) IN
    IF found = <<>> THEN Unmatched ELSE prices[Head(found)].cost

(* The attempts of r are over and it has used tokens.                      *)
Answer(r) ==
    /\ r \notin Refused
    /\ pc[r] = "idle"
    /\ pc' = [pc EXCEPT ![r] = "pricing"]
    /\ left' = [left EXCEPT ![r] = Lookups(r)]
    /\ UNCHANGED <<prices, sync, cost, log, now, report, lastLive>>

(* One query of findActivePrice.                                           *)
LookUp(r) ==
    /\ pc[r] = "pricing"
    /\ left[r] # <<>>
    /\ IF Active(Head(left[r]))
       THEN /\ cost' = [cost EXCEPT ![r] = prices[Head(left[r])].cost]
            /\ left' = [left EXCEPT ![r] = <<>>]
       ELSE /\ left' = [left EXCEPT ![r] = Tail(left[r])]
            /\ UNCHANGED cost
    /\ UNCHANGED <<prices, sync, pc, log, now, report, lastLive>>

(* RequestLogService.Record, at once for a request that is refused; Handle *)
(* ignores an insert that fails.                                           *)
Record(r) ==
    /\ pc[r] = IF r \in Refused THEN "idle" ELSE "pricing"
    /\ left[r] = <<>>
    /\ pc' = [pc EXCEPT ![r] = "logged"]
    /\ \/ UNCHANGED log
       \/ log' = [q \in DOMAIN log \cup {r} |->
                     IF q = r THEN [at |-> now, cost |-> cost[r]] ELSE log[q]]
    /\ cost' = [cost EXCEPT ![r] = Unmatched]
    /\ UNCHANGED <<prices, sync, left, now, report, lastLive>>

-----------------------------------------------------------------------------
(* SyncOfficial.                                                           *)

(* A live document, or the snapshot that is built in.                      *)
Fetch(s) ==
    /\ sync[s].stage = "idle"
    /\ \E snapshot \in Snapshots :
          sync' = [sync EXCEPT ![s] = [stage |-> "fetched", snapshot |-> snapshot]]
    /\ UNCHANGED <<prices, pc, left, cost, log, now, report, lastLive>>

(* normalizeModelPrices: lines without a price are left out, and of two    *)
(* lines with the same identity the later one counts.                      *)
Priced(line) == line[2] # Unmatched
Normalized(snapshot) ==
    LET lines == snapshot.lines
        priced == {n \in DOMAIN lines : Priced(lines[n])}
        linesOf(i) == {n \in priced : lines[n][1] = i}
    IN  [i \in {lines[n][1] : n \in priced} |-> lines[Max(linesOf(i))][2]]
Usable(snapshot) == DOMAIN Normalized(snapshot) # {}

\* mutant: the built-in snapshot is stored over a live price
KeptNever(row, snapshot) == FALSE

(* An active live price is not overwritten from the built-in snapshot.     *)
Kept(row, snapshot) ==
    snapshot.source = "builtin" /\ row.source = "live" /\ row.active

(* persistSnapshot: what it lists becomes active; a live one deactivates   *)
(* what it no longer lists.                                                *)
Persisted(i, snapshot) ==
    IF i \in DOMAIN Normalized(snapshot)
    THEN IF Kept(prices[i], snapshot) THEN prices[i]
         ELSE [cost |-> Normalized(snapshot)[i], source |-> snapshot.source, active |-> TRUE]
    ELSE IF snapshot.source = "live" THEN [prices[i] EXCEPT !.active = FALSE]
    ELSE prices[i]

Persist(s) ==
    /\ sync[s].stage = "fetched"
    /\ LET snapshot == sync[s].snapshot IN
       /\ Usable(snapshot)
       /\ prices' = [i \in Identities |-> Persisted(i, snapshot)]
       /\ lastLive' = IF snapshot.source = "live" THEN Normalized(snapshot) ELSE lastLive
    /\ sync' = [sync EXCEPT ![s] = [stage |-> "stored"]]
    /\ UNCHANGED <<pc, left, cost, log, now, report>>

(* syncSnapshot rejects a snapshot without a price.                        *)
Reject(s) ==
    /\ sync[s].stage = "fetched"
    /\ ~Usable(sync[s].snapshot)
    /\ sync' = [sync EXCEPT ![s] = Nowhere]
    /\ UNCHANGED <<prices, pc, left, cost, log, now, report, lastLive>>

(* The transaction or an update of BackfillRequestCosts fails, or the      *)
(* process dies.                                                           *)
BreakOff(s) ==
    /\ sync[s].stage # "idle"
    /\ sync' = [sync EXCEPT ![s] = Nowhere]
    /\ UNCHANGED <<prices, pc, left, cost, log, now, report, lastLive>>

Unpriced(r) == r \in DOMAIN log \ Refused /\ log[r].cost = Unmatched

(* BackfillRequestCosts lists the first requests that used tokens and have *)
(* no cost, in the order of their rows; here those of a tick in any order. *)
ListUnpriced(s) ==
    /\ sync[s].stage = "stored"
    /\ LET unpriced == {r \in DOMAIN log : Unpriced(r)} IN
       \E todo \in SUBSET unpriced :
          /\ Cardinality(todo) = Min({Limit, Cardinality(unpriced)})
          /\ \A r \in todo, q \in unpriced \ todo : log[r].at <= log[q].at
          /\ sync' = [sync EXCEPT ![s] = [stage |-> "listed", todo |-> todo]]
    /\ UNCHANGED <<prices, pc, left, cost, log, now, report, lastLive>>

\* mutant: the loop ends at a request that has no price
NextTodoUnlessPriced(s, r) ==
    IF Estimate(r) = Unmatched THEN {} ELSE sync[s].todo \ {r}

(* The requests left in the list; one without a price is skipped.          *)
NextTodo(s, r) == sync[s].todo \ {r}

(* In the order of their rows.                                             *)
First(S) == {r \in S : \A q \in S \cap DOMAIN log :
                r \in DOMAIN log => log[r].at <= log[q].at}

(* The lookups and the update of one request, in one step. A row that is   *)
(* gone is not updated.                                                    *)
Backfill(s, r) ==
    /\ sync[s].stage = "listed"
    /\ r \in First(sync[s].todo)
    /\ log' = IF r \in DOMAIN log /\ Estimate(r) # Unmatched
              THEN [log EXCEPT ![r].cost = Estimate(r)] ELSE log
    /\ sync' = [sync EXCEPT ![s].todo = NextTodo(s, r)]
    /\ UNCHANGED <<prices, pc, left, cost, now, report, lastLive>>

(* The list is done; what is left, as after a failed update, is the        *)
(* reconciliation of the keys (PlatformKeyQuota).                          *)
EndSync(s) ==
    /\ sync[s].stage = "listed"
    /\ sync[s].todo = {}
    /\ sync' = [sync EXCEPT ![s] = Nowhere]
    /\ UNCHANGED <<prices, pc, left, cost, log, now, report, lastLive>>

-----------------------------------------------------------------------------
(* usageSummary for the last days, by the hour for one day and by the day  *)
(* for more.                                                               *)

InWindow(l, w) == {r \in DOMAIN l : w.since <= l[r].at /\ l[r].at <= w.until}
Failures(S) == Cardinality(S \cap Failing)

(* The window of OpsApi.Usage and AccountApi.Usage.                        *)
Window(days) ==
    [since |-> now - days * Day, until |-> now,
     bucket |-> IF days = 1 THEN Hour ELSE Day]

(* The totals.                                                             *)
SumTotals ==
    /\ report.stage = "idle"
    /\ \E days \in Days : LET w == Window(days) IN
          report' = [stage |-> "totals", window |-> w,
                     requests |-> Cardinality(InWindow(log, w)),
                     failures |-> Failures(InWindow(log, w))]
    /\ UNCHANGED <<prices, sync, pc, left, cost, log, now, lastLive>>

(* queryUsageDimensions of the models as they are logged, the most used    *)
(* first, and the series newModelUsageTimeline makes: of the first ones,   *)
(* and one for the others.                                                 *)
RankModels ==
    /\ report.stage = "totals"
    /\ LET logged == InWindow(log, report.window)
           models == {Asked[r] : r \in logged}
           uses(m) == Cardinality({r \in logged : Asked[r] = m})
       IN \E top \in SUBSET models :
             /\ Cardinality(top) = Min({MaxSeries, Cardinality(models)})
             /\ \A m \in top, n \in models \ top : uses(m) >= uses(n)
             /\ report' = [stage |-> "models", window |-> report.window,
                           requests |-> report.requests, failures |-> report.failures,
                           top |-> top, others |-> models # top]
    /\ UNCHANGED <<prices, sync, pc, left, cost, log, now, lastLive>>

(* usageTimelineBuckets; such a window never has more than it may have.    *)
Buckets(w) == (w.until - w.since + w.bucket - 1) \div w.bucket

\* mutant: the request at the very end falls behind the last bucket
BucketUnclamped(at, w) == (at - w.since) \div w.bucket

(* The bucket of a request; one at the end of the window joins the last.   *)
BucketOf(at, w) == Min({(at - w.since) \div w.bucket, Buckets(w) - 1})

(* The series r is counted in, if any. It is looked for by the trimmed     *)
(* name, while the series have the names that are logged.                  *)
SeriesOf(r) ==
    LET m == Trimmed[Asked[r]] IN
    IF m \in report.top THEN {m} ELSE IF report.others THEN {"others"} ELSE {}

(* queryUsageTimeline.                                                     *)
Draw ==
    /\ report.stage = "models"
    /\ LET w == report.window
           logged == InWindow(log, w)
           point(i) == {r \in logged : BucketOf(log[r].at, w) = i}
       IN report' = [stage |-> "done", requests |-> report.requests,
                     failures |-> report.failures,
                     points |-> [i \in 0 .. Buckets(w) - 1 |->
                        [requests |-> Cardinality(point(i)), failures |-> Failures(point(i))]],
                     series |-> [m \in report.top \cup {"others"} |->
                        Cardinality({r \in logged : m \in SeriesOf(r)})]]
    /\ UNCHANGED <<prices, sync, pc, left, cost, log, now, lastLive>>

Respond ==
    /\ report.stage = "done"
    /\ report' = Nowhere
    /\ UNCHANGED <<prices, sync, pc, left, cost, log, now, lastLive>>

-----------------------------------------------------------------------------

(* ClearBefore, by hand or daily by CleanupExpired.                        *)
ClearBefore ==
    /\ \E cutoff \in 1 .. now + 1 : LET kept == {r \in DOMAIN log : log[r].at >= cutoff} IN
          /\ kept # DOMAIN log
          /\ log' = Restrict(log, kept)
    /\ UNCHANGED <<prices, sync, pc, left, cost, now, report, lastLive>>

(* DeleteByGuid.                                                           *)
Delete(r) ==
    /\ r \in DOMAIN log
    /\ log' = Restrict(log, DOMAIN log \ {r})
    /\ UNCHANGED <<prices, sync, pc, left, cost, now, report, lastLive>>

Tick ==
    /\ now < MaxNow
    /\ now' = now + 1
    /\ UNCHANGED <<prices, sync, pc, left, cost, log, report, lastLive>>

SyncStep(s) ==
    \/ Fetch(s) \/ Persist(s) \/ Reject(s) \/ ListUnpriced(s)
    \/ (\E r \in Requests : Backfill(s, r))
    \/ EndSync(s) \/ BreakOff(s)

Step ==
    \/ \E r \in Requests : Answer(r) \/ LookUp(r) \/ Record(r) \/ Delete(r)
    \/ \E s \in Syncs : SyncStep(s)
    \/ SumTotals \/ RankModels \/ Draw \/ Respond
    \/ ClearBefore \/ Tick

Next ==
    /\ Step
    /\ moved' = IF report.stage \in {"totals", "models"}
                THEN LET w == report.window IN
                     moved \cup (InWindow(log, w) \ InWindow(log', w))
                           \cup (InWindow(log', w) \ InWindow(log, w))
                ELSE {}

(* The synchronisation is scheduled every six hours; the source has prices *)
(* now and then, and neither the database nor the process fails at the     *)
(* same place every time.                                                  *)
FetchUsable(s) == Fetch(s) /\ Usable(sync'[s].snapshot)

Fairness ==
    \A s \in Syncs :
       /\ SF_sync(FetchUsable(s)) /\ WF_sync(Reject(s)) /\ WF_sync(EndSync(s))
       /\ SF_sync(Persist(s)) /\ SF_sync(ListUnpriced(s))
       /\ \A r \in Requests : SF_sync(Backfill(s, r))

Spec == Init /\ [][Next]_vars /\ Fairness

-----------------------------------------------------------------------------

(* persistSnapshot: whatever is synchronised after it, the active live     *)
(* prices are those of the last live document stored; an outage, in which  *)
(* the older built-in snapshot comes back, takes none of them away.        *)
LiveSurvivesOutage ==
    /\ {i \in Identities : prices[i].active /\ prices[i].source = "live"} = DOMAIN lastLive
    /\ \A i \in DOMAIN lastLive : prices[i].cost = lastLive[i]

(* r can be priced, and so can every request before it in the list, but    *)
(* those of A.                                                             *)
InReach(r, A) ==
    /\ Unpriced(r) /\ Estimate(r) # Unmatched
    /\ \A q \in Requests \ A :
          (Unpriced(q) /\ log[q].at <= log[r].at) => Estimate(q) # Unmatched

(* BackfillRequestCosts: a request logged without a cost, because it is    *)
(* older than costs, because the table had no price yet or because it      *)
(* changed between two lookups, gets one if it can be priced for long      *)
(* enough and fewer requests than the limit of the list stand before it    *)
(* that cannot be priced.                                                  *)
UnpricedIsPriced ==
    \A r \in Requests \ Refused : \A A \in SUBSET (Requests \ (Refused \cup {r})) :
        Cardinality(A) < Limit => (InReach(r, A) ~> ~InReach(r, A))

\* the sum of its values, counted out
Sum(f) == Cardinality(UNION {{i} \X (1 .. f[i]) : i \in DOMAIN f})

\* n and m differ by no more than the size of S
Within(n, m, S) == n <= m + Cardinality(S) /\ m <= n + Cardinality(S)

Untrimmed(r) == Trimmed[Asked[r]] # Asked[r]

\* what the points of summary u have
Drawn(u) == Sum([i \in DOMAIN u.points |-> u.points[i].requests])
DrawnFailures(u) == Sum([i \in DOMAIN u.points |-> u.points[i].failures])

DrawnAddsUp ==
    /\ Within(Drawn(report'), report'.requests, moved)
    /\ Within(DrawnFailures(report'), report'.failures, moved \cap Failing)
    /\ Sum(report'.series) <= Drawn(report')
    /\ Drawn(report') <= Sum(report'.series) + Cardinality(
          moved \cup {r \in InWindow(log, report.window) : Untrimmed(r)})

(* usageSummary and queryUsageTimeline: the points of the timeline, made   *)
(* by a later query, add up to the totals but for the requests logged or   *)
(* deleted in between, and the series of the models to the points but for  *)
(* those and the requests whose model is logged with blanks around it.     *)
ReportAddsUp == [][Draw => DrawnAddsUp]_vars

=============================================================================
