-------------------------------- MODULE Routing --------------------------------
(***************************************************************************)
(* How one instance spreads the requests for a model over its accounts     *)
(* (services/router_service, adaptive_route_metrics, quota_aware_routing,  *)
(* session_affinity). An attempt lists the candidates, reads the strategy, *)
(* picks, and reports when it is over; a failed request tries again        *)
(* without the accounts it has tried.                                      *)
(*                                                                         *)
(* The rotation takes its cursor from a Redis counter or, without one or   *)
(* when that fails, from a row of the database under a mutex. The adaptive *)
(* strategies hash their cursor, so that it selects any point of the total *)
(* weight; they reserve a slot on the account they pick. Percentages stand *)
(* for the factors they multiply.                                          *)
(***************************************************************************)
EXTENDS Integers, FiniteSets, FiniteSetsExt, SequencesExt

CONSTANTS
    Accounts,       \* the guids of the accounts that offer the model
    Weight,         \* Weight[a]: the configured weight
    Score,          \* Score[a]: its hash with the session's key
    Orders,         \* orders in which the accounts may be listed
    Outages,        \* sets of accounts that may be out together
    Routed,         \* requests
    MaxTurns        \* bound on the turns of the rotation

ASSUME AccountsAssumption == Accounts \subseteq Nat
ASSUME WeightAssumption == Weight \in [Accounts -> Nat]
ASSUME ScoreAssumption == Score \in [Accounts -> Nat]
ASSUME OrdersAssumption ==
    /\ Orders # {}
    /\ \A o \in Orders : o \in Seq(Accounts) /\ IsInjective(o) /\ Range(o) = Accounts
ASSUME OutagesAssumption == Outages \subseteq SUBSET Accounts
ASSUME RoutedAssumption == "free" \notin Routed
ASSUME MaxTurnsAssumption == MaxTurns \in Nat

VARIABLES
    strategy,       \* Config().RoutingStrategy
    order,          \* the accounts by priority
    down,           \* accounts that are not routable
    redis,          \* [on, counter]: is there a Redis, and its counter
    cursor,         \* the cursor of the route's row
    lock,           \* the request that holds the route's mutex, or "free"
    at,             \* at[r]: where the request r stands
    tried,          \* tried[r]: accounts it has tried
    call,           \* call[r]: candidates, cursor and selection of its attempt
    slots,          \* slots[a]: InFlight of a
    turns,          \* history: turns[a]: what the rotation gave to a
    slips           \* history: cursors that went to no such turn, or to two

routingVars == <<strategy, order, down, redis, cursor, lock, at, tried, call, slots,
                 turns, slips>>

Strategies == {"rotation", "adaptive", "affinity", "sorted"}
Listed == CHOOSE o \in Orders : TRUE

RoutingInit ==
    /\ strategy \in Strategies
    /\ order = Listed
    /\ down = {}
    /\ redis \in [on : BOOLEAN, counter : {0}]
    /\ cursor = 0
    /\ lock = "free"
    /\ at = [r \in Routed |-> "idle"]
    /\ tried = [r \in Routed |-> {}]
    /\ call = [r \in Routed |-> <<>>]
    /\ slots = [a \in Accounts |-> 0]
    /\ turns = [a \in Accounts |-> 0]
    /\ slips = 0

Go(r, stage) == at' = [at EXCEPT ![r] = stage]
environment == <<strategy, order, down>>
history == <<turns, slips>>

-----------------------------------------------------------------------------
(* The algorithms.                                                         *)

RouteWeight(a) == IF Weight[a] = 0 THEN 1 ELSE Min({Weight[a], 1000})
\* the sum of their weights, counted out
WeightOf(accounts) == Cardinality(UNION {{a} \X (1 .. RouteWeight(a)) : a \in accounts})
TotalWeight == WeightOf(Accounts)

(* pickRoundRobinAccount: the account whose share the cursor falls into.   *)
(* The equal rotation is the weighted one with weights of 1.               *)
TurnOf(accounts, n) ==
    LET offset == n % WeightOf(Range(accounts))
        upTo(i) == WeightOf({accounts[j] : j \in 1 .. i})
    IN  accounts[Min({i \in DOMAIN accounts : offset < upTo(i)})]

\* mutant: of two equal scores the first of the list wins
AffineFirstOfTie(accounts, score) ==
    LET best == Max({score[a] : a \in Range(accounts)})
    IN  accounts[Min({i \in DOMAIN accounts : score[accounts[i]] = best})]

(* pickSessionAffinityAccount: the highest score, then the least guid.     *)
Affine(accounts, score) ==
    LET members == Range(accounts)
        best == Max({score[a] : a \in members})
    IN  Min({a \in members : score[a] = best})

Clamp(value, least, most) == Max({least, Min({value, most})})

\* mutant: the window with most left speaks for the account
Loosest(windows) ==
    CHOOSE w \in windows : \A v \in windows : v.remaining <= w.remaining

(* quotaRouteSnapshots: of the windows that count, the one with the least  *)
(* remaining, of equal ones the one that resets first (0 is never).        *)
Tightest(windows) ==
    LET least == Min({w.remaining : w \in windows})
        tight == {w \in windows : w.remaining = least}
        timed == {w \in tight : w.reset > 0}
    IN  IF timed = {} THEN CHOOSE w \in tight : TRUE
        ELSE CHOOSE w \in timed : \A v \in timed : w.reset <= v.reset

(* quotaRouteFactor: what remains counts most, a reset that is near more.  *)
QuotaFactor(windows, period) ==
    IF windows = {} THEN 100
    ELSE LET w == Tightest(windows)
             passed == IF w.reset = 0 THEN 0 ELSE 100 - Clamp((100 * w.reset) \div period, 0, 100)
         IN  Clamp(((400 + 12 * w.remaining) * (500 + passed)) \div 5000, 35, 170)

(* adaptiveRouteWeightsWithQuota: the configured weight, in hundredths, by *)
(* the latency, the overloads, the requests in flight and the quota.       *)
AdaptiveWeight(a, latency, overload, inFlight, quota) ==
    LET slow == Clamp(latency, 50, 150)
        loaded == Max({10, 100 - (90 * overload) \div 100})
        effective == (RouteWeight(a) * slow * loaded * quota) \div (1 + inFlight)
    IN  Max({1, (effective + 5000) \div 10000})

-----------------------------------------------------------------------------
(* An attempt.                                                             *)

(* What a list keeps when accounts are left out: it has at k the k-th of   *)
(* the places that stay.                                                   *)
Kept(list, out) ==
    LET places == {i \in DOMAIN list : list[i] \notin out}
        place(k) == CHOOSE i \in places : Cardinality(places \cap (1 .. i)) = k
    IN  [k \in 1 .. Cardinality(places) |-> list[place(k)]]

Without(accounts) == Kept(order, down \cup accounts)

(* SelectForKeyWithAffinity lists the candidates in the order of priority. *)
(* Without one the request is refused.                                     *)
Begin(r) ==
    /\ at[r] = "idle"
    /\ LET candidates == Without(tried[r]) IN
       IF candidates = <<>>
       THEN UNCHANGED <<at, call>> /\ tried' = [tried EXCEPT ![r] = {}]
       ELSE /\ call' = [call EXCEPT ![r] = [candidates |-> candidates, cursor |-> 0]]
            /\ Go(r, "choosing")
            /\ UNCHANGED tried
    /\ UNCHANGED <<environment, redis, cursor, lock, slots, history>>

\* the account of the attempt, and whether it has a slot there
Select(r, a, acquired) ==
    /\ call' = [call EXCEPT ![r] = [account |-> a, acquired |-> acquired]]
    /\ tried' = [tried EXCEPT ![r] = @ \cup {a}]

(* The other strategies take the first by priority, by last use or by the  *)
(* quota left, columns the model leaves out: any candidate.                *)
ChooseSorted(r) ==
    /\ at[r] = "choosing" /\ strategy = "sorted"
    /\ \E a \in Range(call[r].candidates) : Select(r, a, FALSE)
    /\ Go(r, "attempting")
    /\ UNCHANGED <<environment, redis, cursor, lock, slots, history>>

ChooseAffine(r) ==
    /\ at[r] = "choosing" /\ strategy = "affinity"
    /\ Select(r, Affine(call[r].candidates, Score), FALSE)
    /\ Go(r, "attempting")
    /\ UNCHANGED <<environment, redis, cursor, lock, slots, history>>

(* pickAndAcquire: the slot is taken with the pick.                        *)
ChooseAdaptive(r) ==
    /\ at[r] = "choosing" /\ strategy = "adaptive"
    /\ \E a \in Range(call[r].candidates) :
          /\ AdaptiveWeight(a, 100, 0, slots[a], 100) > 0
          /\ Select(r, a, TRUE)
          /\ slots' = [slots EXCEPT ![a] = @ + 1]
    /\ Go(r, "attempting")
    /\ UNCHANGED <<environment, redis, cursor, lock, history>>

-----------------------------------------------------------------------------
(* The rotation.                                                           *)

\* is this a turn among all the accounts, as they were listed at first?
Regular(r) == tried[r] = {} /\ call[r].candidates = Listed
Bounded == redis.counter + cursor + slips < MaxTurns

GiveTurn(r, a) ==
    /\ Select(r, a, FALSE)
    /\ turns' = IF Regular(r) THEN [turns EXCEPT ![a] = @ + 1] ELSE turns

(* The cursor n decides, and goes to a turn among other candidates when    *)
(* the request has tried an account or the accounts have changed.          *)
TakeTurn(r, n) ==
    /\ GiveTurn(r, TurnOf(call[r].candidates, n))
    /\ slips' = IF Regular(r) THEN slips ELSE slips + 1

(* redisRouteCursor: the counter is shared and incremented atomically.     *)
ChooseByRedis(r) ==
    /\ at[r] = "choosing" /\ strategy = "rotation" /\ redis.on /\ Bounded
    /\ redis' = [redis EXCEPT !.counter = @ + 1]
    /\ TakeTurn(r, redis.counter)
    /\ Go(r, "attempting")
    /\ UNCHANGED <<environment, cursor, lock, slots>>

(* Without Redis, or when the increment fails or its answer is lost, the   *)
(* request goes for the mutex.                                             *)
ChooseByRow(r) ==
    /\ at[r] = "choosing" /\ strategy = "rotation" /\ Bounded
    /\ \/ UNCHANGED <<redis, slips>>
       \/ redis.on /\ redis' = [redis EXCEPT !.counter = @ + 1] /\ slips' = slips + 1
    /\ Go(r, "locking")
    /\ UNCHANGED <<environment, cursor, lock, tried, call, slots, turns>>

\* mutant: the cursor is read without the mutex
ReadCursorUnlocked(r) ==
    /\ at[r] = "locking"
    /\ lock' = "free"
    /\ call' = [call EXCEPT ![r].cursor = cursor]
    /\ Go(r, "locked")
    /\ UNCHANGED <<environment, redis, cursor, tried, slots, history>>

(* pickRoundRobin takes the mutex and reads the row.                       *)
ReadCursor(r) ==
    /\ at[r] = "locking" /\ lock = "free"
    /\ lock' = r
    /\ call' = [call EXCEPT ![r].cursor = cursor]
    /\ Go(r, "locked")
    /\ UNCHANGED <<environment, redis, cursor, tried, slots, history>>

(* It picks and saves the next cursor; the error of that is ignored.       *)
SaveCursor(r) ==
    /\ at[r] = "locked"
    /\ cursor' = call[r].cursor + 1
    /\ TakeTurn(r, call[r].cursor)
    /\ lock' = "free"
    /\ Go(r, "attempting")
    /\ UNCHANGED <<environment, redis, slots>>

(* The row is not read, and its cursor taken for 0, which is saved to a    *)
(* row of no route; or it is read and not saved. The turn is given again.  *)
CursorFails(r) ==
    /\ at[r] = "locked"
    /\ \E n \in {0, call[r].cursor} : GiveTurn(r, TurnOf(call[r].candidates, n))
    /\ slips' = slips + 1
    /\ lock' = "free"
    /\ Go(r, "attempting")
    /\ UNCHANGED <<environment, redis, cursor, slots>>

-----------------------------------------------------------------------------
(* The end of an attempt.                                                  *)

\* mutant: the strategy of the day decides whether a slot is given back
ReleasedByStrategy(r) ==
    IF strategy = "adaptive" THEN {call[r].account} ELSE {}

(* observe gives the slot back that was acquired.                          *)
Released(r) == IF call[r].acquired THEN {call[r].account} ELSE {}

(* ObserveAttempt; the request is over, or it goes on without the account. *)
(* The averages of latency and overload it updates are arguments of        *)
(* AdaptiveWeight, which any values may be given.                          *)
Observe(r) ==
    /\ at[r] = "attempting"
    /\ slots' = [a \in Accounts |->
          IF a \in Released(r) THEN Max({slots[a] - 1, 0}) ELSE slots[a]]
    /\ call' = [call EXCEPT ![r] = <<>>]
    /\ \/ tried' = [tried EXCEPT ![r] = {}]
       \/ UNCHANGED tried
    /\ Go(r, "idle")
    /\ UNCHANGED <<environment, redis, cursor, lock, history>>

(* An operator changes the strategy or reorders the accounts, accounts go  *)
(* out or come back.                                                       *)
Configure ==
    /\ \/ strategy' \in Strategies \ {strategy} /\ UNCHANGED <<order, down>>
       \/ order' \in Orders \ {order} /\ UNCHANGED <<strategy, down>>
       \/ down' \in Outages \ {down} /\ UNCHANGED <<strategy, order>>
    /\ UNCHANGED <<redis, cursor, lock, at, tried, call, slots, history>>

(* A restart: the mutex, the slots and the requests live in memory.        *)
Restart ==
    /\ lock' = "free"
    /\ at' = [r \in Routed |-> "idle"]
    /\ tried' = [r \in Routed |-> {}]
    /\ call' = [r \in Routed |-> <<>>]
    /\ slots' = [a \in Accounts |-> 0]
    /\ UNCHANGED <<environment, redis, cursor, history>>

RoutingNext ==
    \/ \E r \in Routed :
          \/ Begin(r) \/ Observe(r)
          \/ ChooseSorted(r) \/ ChooseAffine(r) \/ ChooseAdaptive(r)
          \/ ChooseByRedis(r) \/ ChooseByRow(r)
          \/ ReadCursor(r) \/ SaveCursor(r) \/ CursorFails(r)
    \/ Configure
    \/ Restart

RoutingSpec == RoutingInit /\ [][RoutingNext]_routingVars

-----------------------------------------------------------------------------

RoutingTypeOK ==
    /\ strategy \in Strategies /\ order \in Orders /\ down \subseteq Accounts
    /\ redis \in [on : BOOLEAN, counter : Nat] /\ cursor \in Nat
    /\ lock \in Routed \cup {"free"}
    /\ at \in [Routed -> {"idle", "choosing", "locking", "locked", "attempting"}]
    /\ tried \in [Routed -> SUBSET Accounts]
    /\ slots \in [Accounts -> Nat]
    /\ turns \in [Accounts -> Nat] /\ slips \in Nat

Whole(n) == n \div TotalWeight
Begun(n) == (n + TotalWeight - 1) \div TotalWeight

(* Each account gets its share: an account of weight w among the total W   *)
(* gets w of every W cursors of a source. A cursor that is lost, repeated  *)
(* (a failed read or save, a lost answer of Redis) or spent among other    *)
(* candidates puts a share off by one at most, whatever requests run side  *)
(* by side.                                                                *)
SharesAreFair ==
    \A a \in Accounts :
       /\ turns[a] >= RouteWeight(a) * (Whole(redis.counter) + Whole(cursor)) - slips
       /\ turns[a] <= RouteWeight(a) * (Begun(redis.counter) + Begun(cursor)) + slips

Attempts(a) ==
    {r \in Routed : at[r] = "attempting" /\ call[r].acquired /\ call[r].account = a}

(* The comment on pickAndAcquire: selections observe one another by the    *)
(* slots. A slot is taken exactly as long as an adaptive attempt lasts,    *)
(* also when the strategy is changed while it does.                        *)
SlotsAreAttempts == \A a \in Accounts : slots[a] = Cardinality(Attempts(a))

Choosing(r) == at[r] \in {"choosing", "locking", "locked"}

(* Handle excludes the accounts it has tried, until none is left and it    *)
(* starts over: whatever is decided between the listing and the pick, the  *)
(* account of a further attempt is none of those excluded.                 *)
RetriesGoElsewhere ==
    [][\A r \in Routed : Choosing(r) /\ at'[r] = "attempting"
          => tried'[r] = tried[r] \cup {call'[r].account} /\ tried'[r] # tried[r]]_routingVars

Scores == [Accounts -> 0 .. 1]
Candidates == Without({})

(* The comment on pickSessionAffinityAccount: the order of the candidates  *)
(* is of no account, and while others drop out a session stays where it is.*)
SessionStays ==
    [][<<order, down>>' # <<order, down>> =>
          LET before == Candidates
              after == Candidates'
              left == Range(after)
          IN  (after # before /\ left \subseteq Range(before)) =>
                 \A score \in Scores :
                    LET chosen == Affine(before, score)
                    IN  chosen \in left => Affine(after, score) = chosen]_routingVars

Spent == {[remaining |-> 0, reset |-> 9]}
Fit == {[remaining |-> 50, reset |-> 0], [remaining |-> 90, reset |-> 5]}
Drained == QuotaFactor(Spent \cup Fit, 10)
Rich == QuotaFactor(Fit, 10)

(* The comments on adaptiveRouteWeights and quotaRouteFactor: a least      *)
(* weight keeps an account in the traffic however slow, overloaded, busy   *)
(* and short of quota it is when the requests in flight change, and a      *)
(* window that is used up counts, whatever the other windows have left.    *)
WeightsKeepOrder ==
    [][\A a \in Accounts : slots'[a] > slots[a] =>
          \A latency \in {1, 1000}, overload \in {0, 100} :
             LET W(quota, n) == AdaptiveWeight(a, latency, overload, slots'[a] + n, quota)
             IN  1 <= W(Drained, 3) /\ W(Drained, 0) < W(Rich, 0)]_routingVars

=============================================================================
