# FreeAiGo: specifications

TLA+ specifications of the gateway: what happens to a proxied request between
its arrival and its settlement, to the upstream accounts it is served by, and to
the tables that decide where it may go and what it costs. TLC checks them on small
instances; TLAPS proves every safety property of the passing runs but one, for every value of
the constants.

    tlc -workers 2 -config RequestGate.cfg MCRequestGate
    tlapm RoutingProofs.tla

Line numbers below are of the Go sources at the repository's root.

## 1. The system

The gateway accepts OpenAI-style requests that carry a *platform key*, picks one
of a pool of *upstream accounts* (ChatGPT OAuth accounts or OpenAI API keys),
forwards the request, retries it on other accounts, and settles the tokens that
were used against the platform key. Its state is in a database (SQLite by
default; several instances may share another one, with Redis), in a few
process-wide variables, and upstream.

| Component | State it keeps | Operations | Interacts with |
|---|---|---|---|
| overload gate (`apis/proxy_api.go`) | `inFlight`, one broadcast channel | acquire, release | configuration (capacity, wait), every proxied request |
| platform key policy (`platform_key_service.go`) | key row, per-minute window, concurrency counts | create, update, enable, delete, `Verify`, `ModelAllowed`, `TrackConcurrentRequest` | `Handle`, administrator, Redis |
| platform key quota (`platform_key_quota_service.go`) | `used_tokens`, reservation rows with `expires_at` | `ReserveTokens`, `FinalizeTokens`, `ReconcileUsageFromLogs` | `Handle`, boot, price synchronisation, request log |
| proxy loop (`proxy_service.go`, `proxy_retry.go`, `stream_timeout.go`) | one request's locals, its context and timer | `Handle` | all of the above and below |
| routing (`router_service.go`, `quota_aware_routing.go`, `adaptive_route_metrics.go`, `session_affinity.go`) | rotation cursors, in-memory metrics | `SelectForKeyWithAffinity`, `ObserveAttempt` | account rows, quota windows, catalog |
| account health (`account_service.go`, `quota_service.go`) | `status`, `failure_count`, `cooldown_until`, `enabled`, `token_status`, `health_version` | `MarkUsedIfCurrent`, `MarkFailureWithPolicy`, `recordSyncFailure`, `recordTokenRefreshFailure`, `RefreshUsage`, `RecoverCooldownAccounts`, `MarkExpiredSubscriptions`, `SetEnabled` | requests, scheduled tasks, administrator |
| token refresh (`account_service.go`) | encrypted OAuth file, single-flight group | `ActiveAccountFile`, `persistAccountFile` | requests, usage refresh, OAuth issuer |
| quota windows (`quota_service.go`) | usage percentage and reset time per window | `Upsert`, `SyncRateLimit`, `ReconcileSnapshot`, `SampleHeaders`, `RefreshExpiredWindows` | requests, usage refresh, routing |
| OAuth login (`account_oauth_service.go`) | sessions under a mutex, callback server | start, complete (browser, device), cancel, expire | administrator, OAuth issuer, account rows |
| reset credits (`account_reset_credit_service.go`) | redemption rows, snapshot | `Consume`, `List` | administrator, upstream, usage refresh |
| model catalog (`model_service.go`) | model rows, what each account offers, policies (public name, aliases) | `SyncRemoteModels`, `Update`, `SetEnabled`, `DeleteByGuid`, `Find` | account synchronisations, administrator, routing |
| pricing (`model_pricing_service.go`) | price table, costs in the log | `SyncOfficial`, `EstimateCost`, `BackfillRequestCosts` | schedule, `Handle`, request log |
| account pool (`account_service.go`, `account_group_service.go`, `account_import.go`) | account and group rows | add, import, delete, reorder, group | administrator |
| configuration (`config.go`, `system_config_service.go`, `proxy_credentials.go`) | rows, cached snapshot, shared HTTP client | get, set, invalidate, migrate credentials | everything |
| backup (`backup_service.go`) | none | export, import | every table |
| upstream call (`proxyapi_client.go`, `stream_timeout.go`) | one call's timers and error | `Do`, `Stream` | proxy loop, token refresh |
| request log (`request_log_service.go`) | log rows | record, summarise, clear | `Handle`, reconciliation, pricing |
| boot and schedule (`scheduleds/`) | none | `Bootstrap`, five periodic tasks | the components above |

What is hard in it, and which property of a component makes it correct:

* **gate** – waiters, releases, deadlines and disconnections interleave, and the
  capacity may change meanwhile. No slot leaks, no wake-up is lost, every request
  is decided.
* **quota** – the check and the charge are minutes apart, with other requests, a
  crash, a lapse of the reservation or a failing write in between. Together the
  requests stay within the limit, nothing is charged twice, nothing is held for
  ever.
* **health** – requests, tasks and administrators update one row without a lock, most of them from
  what they read earlier, some with a version and some without. An older observation must not undo
  a newer one.
* **token refresh** – the refresh token can be used once. It must be exchanged once
  and its successor stored before anything else happens.
* **proxy loop** – the retry timer, the client and the upstream race with the first
  content, and accounts come and go between attempts. The client sees one answer,
  the request ends, and the reservation ends with it.
* **upstream call** – the first-response and idle timers race with the events they wait
  for, and one upstream error arrives in three forms. A timer cuts off nothing but
  silence, silence is cut off, and an error means the same in every form.
* **routing** – cursors, slots and candidates change between the steps of a selection.
  Shares stay fair, slots are given back, sessions stay where they are.
* **quota windows** – samples of requests and official answers write rows of the same
  windows. A sample overrides nothing official, and an answer takes out what it blames.
* **login, reset credits** – an external step that cannot be repeated lies between two
  local ones. It is done once, its result is kept, and a login that has ended stays ended.
* **account pool** – an account is looked for and written in two statements. Users who
  share a ChatGPT account id keep accounts of their own, and each has one unless two writes overtake
  each other.
* **catalog** – synchronisations, operators and deletions meet. Routing goes by the last
  answer of each account and by unambiguous public names.
* **configuration** – reads are cached and a read may migrate what it has read. A saved
  policy is obeyed, and credentials stay with their proxy.
* **pricing, log** – prices come and go with their source, and a summary is made of several
  queries. An outage loses no live price, a request is priced once it can be and fewer than a listful
  before it cannot, and a summary adds up but for what the log gained or lost meanwhile.

`PROJECT.json` lists the hazards line by line, with the properties that cover them.

## 2. The modules

Each module is one component. Reading shared state and writing it are separate
actions wherever the code releases a lock or ends a transaction between them; a
transaction or a critical section is one action. Properties stand at the end of a
module; the alternatives marked `mutant` are faulty versions of the definition
below them and belong to no specification.

### RequestGate (`apis/proxy_api.go` 22-28, 146-165, 335-388)

`pc[r]` is where a goroutine stands: `entering` is the head of the loop, `queued`
after the unlock, `selecting` in the `select`. A channel is represented by what a
waiter can see of it, `closed[r]`: a release closes the current channel, and every
older one is closed already. Every request has its own `capacity[r]`, because
`forwardProxy` reads the configuration anew. `Proceed` is what a goroutine does by
itself, and is fair; arrivals, ends and disconnections are not.

### PlatformKeyQuota (`platform_key_quota_service.go`, parts of `Handle`, `platform_key_service.go`, `request_log_service.go`)

One platform key. `Verify`, `Reserve`/`Refuse`, `Answer` (the log row), `Settle` are
the stages of a request; `Abandon` is the deferred settlement of an early return,
`SettleFails` the ignored error. `Crash`, `ReadLogs` and `Reconcile` are an
instance's life: the log is summed outside the transaction that uses the sum. `ReconcileFails` is its
error, which `Bootstrap` and `SyncOfficial` drop: the instance serves all the same. Time
is the number of ticks a reservation row has left. Three variables are history: `uncovered`, what was
charged beyond a live reservation; `uncharged`, the answered requests that a crash kept from being
charged; and `late[i]`, the requests answered since `i` summed the log. `StillUncharged` says which losses
a reconciliation makes up for: all of them, unless a request of `late[i]` has been settled before its
comparison.

### AccountHealth (`account_service.go`, `quota_service.go` 429-455)

One account row `acct`, with a `copy[a]` of it for each actor between its read and its
write: requests (`Select` ... `Commit`; `Probe` is one an administrator sends), usage refreshes, the
token refresh, the recovery task. An `image` account has an API key: its usage refresh is the
synchronisation of its models (`ModelsSynced`), and it has no tokens to refresh. Adding an account that
is there (`Add`) resets it; `AddAPIKey` goes on with the models of the key and writes the status once
more (`AddEnds`, `AddFails`). `health_version` is in the row; whether a write compares it, bumps it or
ignores it is as in the code: `RefreshSucceeds`, `ModelsSynced`, `Add`, `AddEnds` and `MarkExpired` ignore it. Three history variables feed the properties: `first`
(the version seen in a request's first round), `stale` (readers overtaken by a recorded
failure), `swept` (readers overtaken by a write that keeps the version). Whether a
quota window blocks is a free choice.

### TokenRefresh (`account_service.go` 858-937, 1558-1624)

One account in one process. A file is its *generation*; the issuer takes only the
newest refresh token. `phase` is the single flight: `Reread`, `StartCall`, `Exchange`,
`Persist`, or `Fail`, which stands for every error exit. `StoreUsage` is the usage
refresh writing back the file it holds. `unsaved` and `overwritten` are history
variables that tell when the rotation was lost.

### ProxyAnswer and ProxyHandle (`proxy_service.go` 145-409, `proxy_retry.go`, `stream_timeout.go`, `proxyapi_client.go` 190-289)

`ProxyAnswer` is the promise of a proxied request: content of at most one upstream
call reaches the client, nothing follows the end, and the reservation is released
with the end. `ProxyHandle` is the loop behind it: `OutOfTime` is its head, the next
actions the outcomes of routing, then the call and the judging of its result. The
router's candidates are `eligible \ excluded`, and `eligible` changes at will, which is
all that AccountHealth lets happen and more. A call ends with a *kind* of error, which
is all the loop looks at. `Fire` is the five-minute timer, which `StreamBegins` stops.
What the loop records about accounts on the way is in AccountHealth, and what its
settlement does to the key in PlatformKeyQuota.

### UpstreamCall (`proxyapi_client.go` 85-459, 725-1038, `stream_timeout.go`)

The call that ProxyHandle takes for one step: `Load`, `Unauthorized`, `Rejected` and
`Answered` are `Do`, `Connected`, `Receive`, `Noted`, ... `StreamEnds` are `Stream` and
`consumeProxyStream`, event by event. `Arm`, `Expire` and `FireTimer` are the timer: it
expires (its callback is then `firing`) and takes the mutex later, when an event may have
been noted and the timer armed anew. `armed` is what the current generation would report,
so a callback of an older one finds another. An upstream error has a meaning (`what`),
a channel (`how`: an HTTP status, an event, an event that the library folds into an error without a
status) and a text, which names the meaning or does not (`named`). `Known` is the status
that `upstreamAPIErrorStatus` makes of it, and `TypeOfEvent`, `TypeOfStatus`, `StatusOf`, `Transient` and
`KindOf` are the functions that classify it. A call returns what its context makes of an error
(`Cut`) and what a completed stream makes of that (`Closed`). `response.completed` is taken for the last
event of a stream. Everything outside
the call is ProxyHandle's, and `RefinesHandle` says that the two together behave as ProxyHandle
does: what is proved of the loop holds with the call in detail.

### ResetAnswer and ResetCredit (`account_reset_credit_service.go`)

`ResetAnswer` is what an idempotency key promises: it is settled once, for good, and as
redeemed only if the upstream has redeemed a credit with it. `ResetCredit` is the
service: callers of `Consume` and `List` wait for the account's mutex (`Enter`), look the
redemption row up (`Find`, `FindNone`, `Create`, `Adopt`), call the upstream (`Call`,
answered or not), and store the outcome (`Complete`) or the failure (`Fail`), then reduce
the snapshot (`Apply`), list again where the code does, and answer (`Tell`). `Crash` may
come between any two of these; rows and upstream stay. The unique index on the key makes
`Create` and `Adopt` exclusive. The upstream is external: a key redeems at most one
credit of an account, and its repetition is answered as a success. Of a snapshot only
its existence is kept, and `reduced`, a history of how often a key has reduced one.

The mutex is per account, the key unique over all of them. A key in `Shared` is sent for
several accounts, and for it the code keeps none of the promises: the caller that loses
the insertion adopts the row of the other account (line 230), without the comparison of
line 214, and may complete it with its own outcome or set it back to pending. The
properties are stated for the other keys while those interfere.

### AccountPool and OAuthSession (`account_service.go` 356-460, `account_import.go`, `account_oauth_service.go`)

`AccountPool` is the rows of one ChatGPT account id, which several users may share. A file
names its user (the subject of its tokens) or does not. `Found` is the search, `Written` the
statement that follows it, with other searches and statements in between (`FindImported`,
`WriteImported`). `Refresh` is what a token refresh stores of the subject, in any row, without
looking whether that user has another one. `Legacy` gives the accounts from before subjects were
stored. Of a row the history keeps whose tokens have been in it and whether it was ever written by
a file that names nobody.

`OAuthSession` extends it with the login sessions. Every step under the service's mutex is
one action. A browser session is completed by callbacks (`Begin`, `Exchange`), a device
session by its goroutine (`Exchange`, which polls, then `BeginDevice`); both go on to `Find`,
`Match`, `Store` and `Close`. Cancelling, expiry, a denial, the sweep of `Start` and a crash
may fall between any two of them. The age of a session stands for the clock: up to
`expiresAt`, after it, and an hour after it. `overlooked` is history: the users of whom a search may
have missed a row (`Seekers`, `Overlooks`), because another write came between the search and its
statement, or who were given a second row by a refresh.

### QuotaWindows (`quota_service.go`)

The rows of one account, each of a window and a source (`wham`, the official answer, or a
sample of response headers). A row keeps the answer it was made of; `Flagged` says which flags of
the group `quotaInputFromWindow` gives to a window and `Exhausts` what they amount to.
`Sync`, `FindRow`, `WriteRow` and `Reconcile` are the steps of `SyncRateLimit`, each a statement or a
transaction, with other writers in between; `Counted` and `Blocking` are what routing makes of
the rows. Samples age, resets come, and `Sweep` deletes what is over.

### ProxyPolicy (`config.go`, `system_config_service.go`, `proxy_credentials.go`, `backup_service.go`)

The upstream proxy as it is stored (`db`), cached (`cache`) and obeyed. A read is `Begin`,
then the cache (`Cached`), the rows (`FindRows`) or, in an outage, the last snapshot
(`LastSnapshot`); reading may migrate credentials that are stored in the clear (`Publish`,
`PublishFails`). `Save` and `Import` take the lock, read, complete their input
(`Normalize`: `Current`, `Auths`), commit and then invalidate. `SaveElsewhere` is another instance,
which invalidates nothing here. Of a reader, `call` is what it was asked, `seen` the rows or the
snapshot it goes on with and `result` what comes of it. `history` is the policies that were stored, with which a request
compares where it was sent. Credentials are named by the proxy for which an operator supplied
them.

### ModelCatalog (`model_service.go`, `account_service.go` 247-325, 414-460, 721-856)

Models, what each account has of them (`relation`), which are deprecated, and the policies
that give them names. A synchronisation asks upstream (`Ask`), commits (`Commit`) and refreshes the
deprecation in two statements (`Undeprecate`, `Deprecate`); `SyncFails` is its failure. An operator's
`Update` is `Validate`, `FindPolicy` and `WritePolicy`, which is what the code does: the names are
compared first and the unique indexes decide at the end. `promised` is history: the last answer of
each account, less what operators have deleted. `Resolves` is `Find`.

### Routing (`router_service.go`, `adaptive_route_metrics.go`, `quota_aware_routing.go`, `session_affinity.go`)

One model, one instance. `Begin` lists the candidates and reads the strategy; one of the
`Choose` actions selects; `Observe` ends the attempt. The rotation takes its cursor from Redis
(`ChooseByRedis`) or from a row, under a mutex (`ChooseByRow`, `ReadCursor`, `SaveCursor`,
`CursorFails`). `turns` and `slips` are history: what the rotation gave to each account, and how
often it lost or repeated a cursor or spent it among other candidates. `AdaptiveWeight`,
`QuotaFactor` and `Affine` are the pure parts, in percentages. Strategies that sort by columns the
model leaves out choose any candidate.

### UsageLedger (`model_pricing_service.go`, `request_log_service.go`)

The price table, the log and the summary. A price of an identity (model, service tier, context
tier) is what one request costs by it. `Fetch`, `Persist` (or `Reject`), `ListUnpriced`, `Backfill`
and `EndSync` are a synchronisation, whose backfill lists the first `Limit` requests without a
cost; `LookUp` is one of the lookups of `EstimateCost`, which other
steps may come between; `SumTotals`, `RankModels`, `Draw` and `Respond` are the queries of a summary.
`Asked` is the name of the model as it is logged and `Trimmed` that name without blanks, by which alone
`SeriesOf` looks a row up. A request in `Refused` is logged without tokens. The clock moves within the
bounds that the log's retention needs. Two variables are history: `lastLive`, the prices of the last
live snapshot, and `moved`, the requests that came to or left the window of a summary since its
totals were counted.

## 3. The runs

| Run | Instance | Shows |
|---|---|---|
| `gate` | 3 requests, capacities 1 and 2 | `SlotsAreOwned`, `NoLostWakeUp`, `EveryRequestIsDecided` |
| `quota` | 2 requests, 1 instance, limits 0 and 2, TTL 1, overrun 1 | `WithinLimit`, `LogIsCharged` |
| `health` | 2 requests or probes, 1 usage refresh, token refresh, recovery, 1 call that adds the account again | `SameVersionSameRow`, `StaleWritesAreDropped` |
| `token_refresh` | 2 requests, 1 usage refresh, 3 generations | `RotationIsStored`, `WaitersGetNewer`, `WaitersAreAnswered` |
| `proxy_handle` | `UpstreamCall`: 2 accounts, 2 attempts, both timers | `ErrorsKeepTheirMeaning`, `SuccessIsCompletion`, `DeadlineSparesStreams`, `OvertakenTimersAreVoid`, `AnswersOnce`, `EndsOrStreams`, `SilentStreamsEnd`, `RefinesHandle` |
| `reset_credit` | 2 callers, 2 accounts, 1 key of one account, 1 shared key | `SettledOnce`, `ReducedOnce`, `CallsEnd` |
| `oauth_session` | 1 browser and 1 device login of 2 users, 2 callbacks, 1 legacy account, 1 file, with a subject or without | `StoredOnce`, `UsersApart`, `EndedGetsNoTokens`, `LoginEnds` |
| `quota_windows` | 2 writers, 3 kinds of answer, resets known and not | `BlameIsExact`, `SampleOverridesNothing` |
| `proxy_policy` | 1 request, 2 savers, 2 proxies, 3 inputs, 3 versions | `SavedIsObeyed`, `AuthStaysHome`, `MigrationKeepsPolicy` |
| `catalog` | 1 OAuth account, 1 API key, 2 models, one of which comes back, 1 operator | `OffersLastAnswer`, `ServedIsNotDeprecated`, `PublicNameWins` |
| `routing` | 2 requests, 2 accounts of weights 2 and 1 and equal scores, 3 turns | `SharesAreFair`, `SlotsAreAttempts`, `WeightsKeepOrder`, `SessionStays` |
| `usage_ledger` | 4 requests, 4 snapshots, 1 synchronisation, lists of 2, windows of 1 and 2 days, 1 series | `LiveSurvivesOutage`, `ReportAddsUp`, `UnpricedIsPriced` |

The type invariants are proved instead (section 4). Each property has a mutant in `PROJECT.json`: a version of the code with a
plausible mistake, under which TLC finds the property violated.

**Where the code and its documentation part.** Six sentences that the repository states do not
hold. The modules take the steps that refute them; the properties above are stated so that they
hold beside them, by an exception (`unsaved`, `overwritten`, `uncovered`, `uncharged`, `swept`,
`overlooked`) or by asking less.

* *Importing the same `account_id` again updates the account and creates no duplicate*
  (`README.md:74`). The code goes by the user a file
  names, too (`account_service.go:389`), so another user of the same ChatGPT account id gets an account of
  their own, which is what its search is for. In run `oauth_session` the two logins do just that. The sentence fails for one user as well: two calls that both
  find no account both create one, since search and statement are separate and no index is unique; and a
  token refresh stores the subject of its tokens in the row it has (`:1741`), even if that user has another.
  `UsersApart` is what holds: one account for each user but those.
* *The reservations keep concurrent requests from passing the limit*
  (`platform_key_quota_service.go:26`). A reservation counts for its TTL (1800 s by default), while a
  stream has no total deadline (`proxy_service.go:528`). After the lapse another request may
  reserve the same tokens, and both are charged. `WithinLimit` counts what was charged beyond a
  live reservation in `uncovered`.
* *The reconciliation adds only what is missing* (`:98-99`; `:73` for the settlement). It takes
  `used_tokens` up to the log's sum. A request that is logged (`proxy_service.go:359`) and not yet
  settled (`:406`) is in that sum, and its settlement adds it again. This needs no second
  instance: the reconciliation also runs after each price synchronisation
  (`model_pricing_service.go:155`). `LogIsCharged` is the half that holds, for any number of instances,
  and with two exceptions. A failed reconciliation is ignored, at boot (`scheduleds/bootstrap.go:17`) and
  after a price synchronisation, so that the instance serves while a crash has left the key undercharged. And
  while one instance holds a sum of the log, another may log and settle a request: the first then takes
  `used_tokens` up to a sum it has reached meanwhile, and what a crash had left uncharged stays so until the
  next reconciliation.
* *The last available account is exempt from the automatic cooldown* (`account_service.go:1364`). The
  account is `limited` with its timer elapsed, hence routable. Its third transient failure under
  `PreserveLastAvailable` clears `cooldown_until` but keeps the status:
  `accountAvailabilityReason` (`:1516`) takes a timer of 0 for a running one and
  `RecoverCooldownAccounts` (`quota_service.go:432`) looks only for timers above 0. The
  exemption takes the pool's last account out of it.
* *A rotated refresh token is stored* (`README.md:35`, `account_service.go:1558`). A usage refresh loads
  the account, a request rotates the refresh token and stores it, and the usage refresh stores the
  file it has loaded (`:935`). `RotationIsStored` excepts it by `overwritten`.
* *The real usage is settled on completion* (`README.md:44`). A non-streaming answer is
  complete when the context ends; `proxy_service.go:230` discards it, and the request is settled with no
  usage.

Two more are promises by implication, and the properties name their limits:

* An upstream error that was folded into one without a status has its meaning recovered from its text
  (`proxyapi_client.go:1018-1019`). A text that is not among those looked for means something else
  in each channel: folded it is internal and not retried (`:993`), as an event it is a failed upstream and fails
  over (status 502), and with a status of its own it keeps that. An overload is waited for only if its text
  says so; a bare 503 fails over. `ErrorsKeepTheirMeaning` is about what the text names or the status says.
* A log row without a cost is priced by a later synchronisation (comment at
  `model_pricing_service.go:159`). The list has the first 10000 rows by id (`:154`), so 10000 rows that have no
  price keep every newer row without a cost. `UnpricedIsPriced` is about fewer than that; TLC finds it
  violated for as many as the limit.

Smaller ones met on the way, which no property states: a window without a reset hides the retry time
of those before it but not of those after it (`quota_service.go:366`); the relations of an account that
is deleted during its first synchronisation keep a model from being deprecated; the answer that
`AddAPIKey` has waited for may overwrite that of a newer synchronisation; a discontinued price comes
back with the built-in snapshot (`LiveSurvivesOutage` is about the active ones); the statistics and the
usage summary count client disconnections differently; a model logged with a blank around its name is
in no series of a timeline of at most five models (`request_log_service.go:459`, `:538`); the gateway's totals of a group are refreshed
for the new group of an account only.

**Bounds.** `gate`: with two waiters and one holder every pair of steps that can
interfere does, and two capacities let a smaller one meet a counter above it.
`quota`: two requests suffice for one to reserve what the other uses; a limit equal to
the largest reservation makes the boundary happen; a TTL of one tick lets a row
lapse in every stage. `health`: the writes race pairwise, so `MaxReaders` = 2 actors
stand between a read and a write at a time while all kinds of actor take part;
`MaxVersion` = 2 versioned writes are enough for a read, an overtaking write and a late one,
and for `MaxTries` = 2 lost rounds; eight rounds as in the code are covered by the proof.
`token_refresh`: a stale caller is at most two rotations behind, which is
enough for it to hold a token that was exchanged and whose successor was too.
`proxy_handle`: two accounts, by `PoolChanges` fewer, and two attempts let a request fail over,
wait and run out of attempts; the events of a stream are unbounded, and the counters of calls and answers
stop one above the largest value a property asks about. `reset_credit`: two
callers are a caller and the one it meets at the mutex or, with the shared key, at the
unique index; repetitions and crashes are unbounded. Its requests name no credit: naming
one only adds a refusal, which `Refuse` takes anyway.
`oauth_session`: a second callback is what a first one can meet, and a device login of another user and
the import of a file of the same one what a browser login can meet in the pool; the same import may have
a file of the other user without a subject instead, which makes a row that is nobody's. Batches of several
files are covered by `UsersStayApart`. `quota_windows`: two writers race for a row of the same or of different sources;
`MaxRows` = 2 holds the two rows that matter to each other, two windows of a source or two sources of a
window. `proxy_policy`: the inputs differ in whether they require, keep or clear; three stored policies
let a snapshot be two saves behind. `catalog`: two rows of one model distinguish it from the one it
replaces, and two models can have each other's names. `routing`: weights 2 and 1 (configured as none) make
a cycle of three turns, and two requests meet at the mutex and in a slot. `usage_ledger`: two old requests
without a price fill a list of two, and keep the new one out of it until a snapshot prices them; the old
ones need the built-in snapshot or one live document, and one of them falls back over its context tier,
the new one over its service tier. A day of two hours and windows of one and two days have two points each, of an hour or a day, with
an edge on either side; two names, one of which is the other with a blank, share one series and that of the
others, so that a request is counted, misplaced or lost. Summaries read nothing that a synchronisation
writes, so `MCNext` takes them before the first price is stored, as it does the steps of the clock and of
the refused request; `ReportsAddUp` has no such order. The other numeric constants
bound data only. Requests or savers that differ in nothing are symmetric; no run with a liveness property uses symmetry.

**Deadlock** is checked, except where the system may stop: one request's `Handle` and its calls
end (`proxy_handle`), a login is not started again (`oauth_session`), and the quota windows have nothing to
do when the table is full and everything in it is old (`quota_windows`).

**Fairness.** RequestGate: goroutines run and timers fire (`Proceed`, `Expire`); nothing
makes a served request end, and `EveryRequestIsDecided` does not need it. TokenRefresh: the flight
goes on, since its database calls return and `Refresh` has the deadline of the leader's context.
UpstreamCall: `Handle` and the steps of the gateway within a call are scheduled, armed timers fire, and a
call whose context has ended returns, after what it has buffered (strong fairness of `GiveUp`,
since events may come in between); a call whose context lives may hang. ResetCredit:
the calls of database and upstream end, and a Go mutex does not starve who waits for it
(strong fairness of `Enter`). OAuthSession: a worker goes on, for its exchange has the deadline of the
session's context and its database calls return. UsageLedger: the synchronisation is scheduled every
six hours, its source has a usable document again and again, and neither the database nor the process
fails at the same place every time (strong fairness of the steps that may fail).
The client, the upstream and the administrator owe nothing.

## 4. The proofs

Every theorem is proved for every value of the parameters, from the assumptions on
constants in the modules (`CapacityAssumption`, `ConstantsAssumption`,
`ActorsAssumption`, ...), which say no more than that counts are natural numbers, that
capacities are positive, that the requests of a gate or a key are finitely many, that
sets of actors do not overlap, that a mark for "nothing" or "nobody" is none of the values it
stands beside, that an order of the accounts lists each of them once, and that the proxy credentials of the YAML file are those of its proxy.
Any number of requests, writers, accounts, rows, versions and events is allowed; the
invariants were checked by TLC on the runs' instances first. A module of proofs extends the modules
it is about:

| Module | About | Theorems |
|---|---|---|
| `RoutingProofs` | RequestGate | `GateTypeCorrect`, `GateSlotsAreOwned`, `GateWithinCapacity`, `GateNoLostWakeUp` |
| | QuotaWindows | `WindowsTypeCorrect`, `SamplesOverrideNothing`, `BlamesAreExact` |
| | Routing | `RoutingTypeCorrect`, `SlotsAreHeld`, `RotationIsCounted`, `RotationIsFair`, `AffinityIsStable`, `SessionsStay`, `RetriesLeave`, `WeightsFollowQuota` |
| `PlatformKeyQuotaProofs` | PlatformKeyQuota | `QuotaTypeCorrect`, `QuotaWithinLimit`, `QuotaSettledHoldNothing`, `QuotaLogIsCharged` |
| `AccountHealthProofs` | AccountHealth | `HealthTypeCorrect`, `HealthVersionIsALock`, `HealthLostOnlyUnderContention`, `HealthStaleWritesAreDropped`, `HealthCooldownsAreEarned` |
| `CredentialProofs` | TokenRefresh | `RefreshTypeCorrect`, `RefreshRotationIsStored`, `RefreshNewestIsExchanged`, `RefreshWaitersGetNewer` |
| | ProxyPolicy | `PolicyTypeCorrect`, `SavedPoliciesAreObeyed`, `CredentialsStayHome`, `MigrationsKeepPolicies` |
| `ProxyHandleProofs` | ProxyHandle | `HandleTypeCorrect`, `HandleRetriesAreBounded`, `HandleDeadlineSparesStreams`, `HandleAnswersOnce` |
| | UpstreamCall | `CallIsSteps`, `CallErrorsKeepTheirMeaning`, `CallSuccessIsCompletion`, `CallOvertakenTimersAreVoid`, `CallAnswersOnce`, `CallDeadlineSparesStreams` |
| `ResetCreditProofs` | ResetCredit | `ResetTypeCorrect`, `ResetSettledOnce`, `ResetToldAsSettled`, `ResetReducedOnce` |
| `OAuthSessionProofs` | OAuthSession, AccountPool | `TypesHold`, `StoredAtMostOnce`, `EndsOnce`, `NoTokensAfterTheEnd`, `UsersStayApart` |
| `CatalogProofs` | UsageLedger | `LivePricesSurvive`, `PointsCoverTheWindow`, `ReportsAddUp` |
| | ModelCatalog | `CatalogTypeCorrect`, `OffersAreTheLastAnswer`, `NothingServedIsDeprecated`, `PublicNamesWin` |

The arguments, each with the invariant it needs:

* **RequestGate.** The slots are the inductive core: `inFlight` is the number of
  serving requests, so an admission below `capacity[r]` leaves at most that many holders,
  and those admitted under a smaller capacity are among them. For the wake-ups the
  invariant is that an open channel was taken when the gate was full and that the
  counter has not fallen since, as every release closes it.
* **QuotaWindows.** `HeldRowsKeepSource`: the row a writer has found is of the source it looked for, or
  gone, whatever happens to the table before the write, since an id that is held is not given out again
  and an update keeps the source. So a sample only ever writes over samples
  (`SampleSparesOfficial`), and the official rows of a window decide alone (`OfficialDecide`).
  `BlameIsExact` follows from how the flags of a group are shared out, for every answer that shows a
  window; the proof found it false of an answer without windows, which `SyncRateLimit`
  ignores, and it is now stated without that one.
* **Routing.** `SlotsCounted`: the slots of an account are the number of its adaptive attempts. It
  is the attempt that remembers whether it holds a slot, so a change of strategy
  disturbs nothing.

  *The rotation.* `RotationInv` is the part of `SharesAreFair` that concurrency could break: who is
  between reading the row's cursor and saving it holds the mutex, and the cursor is still what it has read
  (`CursorIsLocked`); hence each cursor of either source is one turn of the account it
  falls to, up to one for each slip (`TurnsAreCursors`). The rest of `RotationIsFair` is how many of the
  cursors of a source fall to an account. A sum of weights is the cardinality of a set of units, so that it
  grows by one account at a time (`AddedWeight`) although the prover has no induction over sums; the
  share of an account is then the stretch of a cycle between the weights before it and after it in the list
  (`TurnIsWithin`). The `n`-th cursor is due `w` turns for each whole round and as many as its
  offset has passed of the stretch (`TurnsAreDue`, by the least `n` of which it does not hold, as each
  cursor adds to both sides alike: `NextTurnIsDue`).

  *The candidates.* `OthersAreKept`: leaving accounts out of a list loses no other, because the ranks
  of the places that stay are distinct and no more than there are places. With it `SessionsStay`
  is a fact about `Affine` (`AffinityIsStable`), that the greatest score, and among equal scores the least
  guid, is still that when others have gone; and `RetriesLeave` needs that the candidates a request holds are
  none it has tried (`Prepared`), which is so from the listing on whatever is configured meanwhile, and
  that each of the pickers returns a candidate (`TurnIsListed`, `AffineIsListed`).

  *The weights.* `WeightsFollowQuota`: a product and a quotient of ordered factors are ordered
  (`QuotientsAreOrdered`), rounding included, and a used-up window puts the quota's factor at 48 at
  most, while 9 per cent in all windows put it at 50 at least (`UsedUpWindowCounts`).
* **PlatformKeyQuota.** `used + Held` grows only by `Reserve`, which compares it with
  the limit, or by a charge beyond the released reservation, which `uncovered` counts.
  The steps need how sums over requests change with one summand; those are lemmas on the
  cardinality of `Units`. For
  `QuotaLogIsCharged` the invariant (`ChargeInv`) says that what is logged is charged, waits at a request
  that has yet to settle or was lost with one (`ChargedOrOwing`), and that the log shows no more than the sum
  an instance holds and the requests answered since (`SumsAreCurrent`). A reconciliation then makes up for
  every loss if all those have still to be charged; otherwise the losses stay in `uncharged`. A failed one
  changes neither.
* **AccountHealth.** The invariant says that no copy is newer than the row, that
  a copy with the row's version has its health unless `swept` (by the usage refresh, an image account's
  models, adding the account again or the expiry task, which keep the version), and that a reader in
  `stale` has an older version. The action properties follow: a compare-and-set by a stale
  reader misses, and a count that was compared is the row's own.
* **TokenRefresh.** As long as no exchange went unsaved
  and nothing was overwritten, no caller's file is newer than the row's, and the row is
  behind the issuer exactly while an answer waits to be stored.
* **ProxyPolicy.** `PolicyInv` has a part about what is shared and one about each reader, so that a step has
  to be looked at for its reader and what is shared only (`OthersHold`). The cache, while it is
  fresh, is a stored policy no older than the last save that returned; so is what a reader has found while it
  holds the lock of the snapshot, because an invalidation waits for that lock, and without that nobody
  could know what is published after the invalidation. A saver holds `global.Lock` until it has invalidated,
  so its version is not overtaken by that of another one here. What a request decides on
  is then no older than what was saved when it came. Credentials are at home in every copy of a
  policy: the rows, the cache, what a reader has found and what a saver has completed. The migration
  writes what it has found only where it still is (`PublishKeeps`).
* **ProxyHandle.** `Bounded` strengthens the bound with what holds
  at the head of the loop: attempts are left, or the context has ended. `Marked` says
  that content marks its call (`started`), that a marked call has stopped the timer or
  come after it, and that a marked call is never followed by another. With it every
  step is a step of `ProxyAnswer` or stutters.
* **UpstreamCall.** Every step of the call is a step of ProxyHandle or leaves it alone (`CallIsSteps`,
  which is `RefinesHandle` but for its fairness), so what is proved of the loop holds with the calls in detail.
  `CallInv` says what a call may hand to the loop: a failure that means what the upstream meant
  (`KindOfFailures` goes through the channels), and no success but that of a completed stream, from which only
  the client's leaving is taken away (`Closed`). For the timers it
  is enough that a first-response timer that is armed, or firing and not overtaken, belongs to a call whose
  content has not begun (`FirstTimers`).
* **ResetCredit.** The mutex gives a private key one user at a time (`SoleUser`), so what
  a caller has read of the row still holds when it writes (`RowIsMine`): pending until
  it completes it, and completed with the outcome it holds from then on. A credit taken
  off the snapshot is counted only by the caller that completed the row. Hence every
  step is a step of `ResetAnswer` or stutters, that of the shared keys included.
* **OAuthSession, AccountPool.**
  A worker that has claimed its session (a callback from `Begin` on, a device's goroutine
  once its poll has been taken) excludes a second claim, because a claimed session is not
  pending and a session that has left `pending` does not come back to it; so nobody else stores its
  account. For `UsersStayApart` the invariant says that a row written only from files
  that name their subject has one owner, and that what a search has found stays right
  until the statement that uses it, whatever is written in between: rows are never removed, an
  owner's row keeps its owner, and a legacy row that is taken is taken by the user
  whose e-mail it has. The first row of a user is the least element of a set of numbers.
  That a user has one row is a second invariant (`OneRowEach`): outside `overlooked` a search has found the
  only row of its user or none (`FoundIsSole`), and a row becomes the user's by the statement that follows
  a search that saw it.
* **UsageLedger.** The rows that are live and active are those of the
  last live snapshot stored: a live snapshot replaces them, a built-in one adds and changes only rows
  that are not live. Of a summary, each request of the
  window has one point of the timeline (`PointsCoverTheWindow`: none falls before the first point or
  behind the last) so the points
  are a partition of the requests that are drawn (`PartsAddUp`, `TimelineAddsUp`), and the series one of those
  that are in one. What is drawn differs from what the totals counted by requests of `moved` only
  (`MovedIsRecorded`, `SizesDiffer`, `ReportStaysRead`), and a drawn request is in no series only if it is in
  `moved` or its name has blanks around it: any other one has the name it was ranked by.
* **ModelCatalog.** `OfferInv`: the relations are the last answers (`OffersPromised`), and a model that is offered
  is not deprecated (`NoneServedIsDeprecated`): the statement that deprecates looks at the relations itself, and
  the transaction that adds a relation undeprecates its model. `NameInv`: public names are
  unique among the policies, and a lookup tries them before the aliases.

The theorems about properties that are not in a run (`GateWithinCapacity`, `QuotaSettledHoldNothing`,
`HealthLostOnlyUnderContention`, `HealthCooldownsAreEarned`, `RefreshNewestIsExchanged`,
`ResetToldAsSettled`, `HandleRetriesAreBounded`, `EndsOnce`, `RotationIsCounted`, `AffinityIsStable`,
`RetriesLeave`, `WeightsFollowQuota`, `PointsCoverTheWindow`, `CallIsSteps` and the type invariants) need
none: they are proved for the instances, too.

Only model-checked:

* the liveness properties (`EveryRequestIsDecided`, `WaitersAreAnswered`, `EndsOrStreams`,
  `SilentStreamsEnd`, `CallsEnd`, `LoginEnds`, `UnpricedIsPriced`) and the fairness that `RefinesHandle` states,
  since liveness is beyond the prover;
* `WeightsKeepOrder`, which compares weights of its instance: with other weights or more requests in flight the
  rounding can make a drained account weigh as much as a rich one, at the least weight of 1. What holds of all
  weights is `WeightsFollowQuota`.

## 5. What is not modelled

* Formats: conversion between APIs, headers, log lines, traces, network probes. Errors are the
  meanings and channels that the control flow tells apart, prices what a request costs.
* Image requests: they take the same way through `Handle`, are logged without a cost and never
  backfilled.
* Redis beyond the rotation's counter: per-minute limits and concurrency counts of keys.
* The model rules of a key (`allowedByRules`), a predicate on names, and the width of
  `EffectiveTokenLimit`, which multiplies two inputs and is checked nowhere.
* Several processes, except for the configuration, which another instance may save: the single
  flight, the gate, the mutexes and the login sessions are per process. Two instances without
  Redis repeat each other's cursors, and may exchange one refresh token twice.
* A restored backup, which turns `used_tokens` and `health_version` back: it rewrites rows that
  AccountHealth and PlatformKeyQuota take as given.
  AccountPool leaves deletions to ModelCatalog.
* Account groups, their order and summaries: single statements and sums that are read before they are
  written.
* Secrets, audit, readiness, the HTTP handlers and the generated API description: no protocol of their
  own.

## 6. Order of the work

RequestGate, PlatformKeyQuota, AccountHealth, TokenRefresh, ProxyAnswer/ProxyHandle and
ResetAnswer/ResetCredit came first, each with its proofs; then AccountPool/OAuthSession, QuotaWindows,
ProxyPolicy, ModelCatalog, Routing, UpstreamCall (which refines ProxyHandle) and UsageLedger, with the
proofs of OAuthSession and UsageLedger; then the proofs of UpstreamCall, ModelCatalog, QuotaWindows,
ProxyPolicy, Routing (its shares, sessions, retries and weights last) and of the summaries. What would
add most from here: the token refresh with two processes; the account groups' summaries; and a restored backup meeting requests that are under way.
