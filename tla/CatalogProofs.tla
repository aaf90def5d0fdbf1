--------------------------- MODULE CatalogProofs ----------------------------
(***************************************************************************)
(* What is proved of the prices of models (UsageLedger) and of the models  *)
(* that are offered (ModelCatalog), for any number of synchronisations,    *)
(* accounts, models and operators.                                         *)
(***************************************************************************)
EXTENDS UsageLedger, ModelCatalog, FiniteSetTheorems, TLAPS

-----------------------------------------------------------------------------
(* The live prices survive any outage, for any documents the source may    *)
(* answer and any number of synchronisations side by side.                 *)
(*                                                                         *)
(* The invariant is inductive once it is known what is being stored: one   *)
(* of the snapshots, with prices for known identities only. The step that  *)
(* matters is Persist; it has a case for each kind of snapshot.            *)

(* What a synchronisation has fetched is one of the snapshots.             *)
FetchedIsSnapshot ==
    \A s \in Syncs : sync[s].stage = "fetched" => sync[s].snapshot \in Snapshots

Costs ==
    {0} \cup UNION {{Normalized(s)[i] : i \in DOMAIN Normalized(s)} : s \in Snapshots}

PricesAreTyped ==
    /\ prices \in [Identities -> [cost : Costs, source : {"none", "live", "builtin"},
                                 active : BOOLEAN]]
    /\ DOMAIN sync = Syncs

Safe == PricesAreTyped /\ FetchedIsSnapshot /\ LiveSurvivesOutage

USE SnapshotsAssumption

LEMMA InitIsSafe == Init => Safe
<1> SUFFICES ASSUME Init PROVE Safe
  OBVIOUS
<1>1. PricesAreTyped
  BY DEF Init, PricesAreTyped, NoPrice, Costs
<1>2. FetchedIsSnapshot
  BY DEF Init, FetchedIsSnapshot, Nowhere
<1>3. LiveSurvivesOutage
  BY DEF Init, LiveSurvivesOutage, NoPrice
<1> QED
  BY <1>1, <1>2, <1>3 DEF Safe

(* A snapshot only lists known identities.                                 *)
LEMMA OnlyKnown ==
    ASSUME NEW snapshot \in Snapshots
    PROVE  DOMAIN Normalized(snapshot) \subseteq Identities
BY DEF Normalized

LEMMA LiveIsStored ==
    ASSUME Safe, NEW snapshot \in Snapshots, snapshot.source = "live",
           prices' = [i \in Identities |-> Persisted(i, snapshot)],
           lastLive' = Normalized(snapshot)
    PROVE  LiveSurvivesOutage'
<1> DEFINE listed == Normalized(snapshot)
<1>1. DOMAIN listed \subseteq Identities
  BY OnlyKnown
<1>2. ASSUME NEW i \in DOMAIN listed
      PROVE  prices'[i] = [cost |-> listed[i], source |-> "live", active |-> TRUE]
  BY <1>1 DEF Persisted, Kept
<1>3. ASSUME NEW i \in Identities, i \notin DOMAIN listed
      PROVE  ~prices'[i].active
  BY <1>3 DEF Persisted, Safe, PricesAreTyped
<1>4. lastLive' = listed
  OBVIOUS
<1> HIDE DEF listed
<1>5. ASSUME NEW i \in DOMAIN listed
      PROVE  prices'[i].cost = listed[i] /\ prices'[i].source = "live" /\ prices'[i].active
  <2> DEFINE stored == [cost |-> listed[i], source |-> "live", active |-> TRUE]
  <2>1. stored.cost = listed[i] /\ stored.source = "live" /\ stored.active
    OBVIOUS
  <2> HIDE DEF stored
  <2>2. prices'[i] = stored
    BY <1>2 DEF stored
  <2> QED
    BY <2>1, <2>2
<1>6. ASSUME NEW i \in Identities
      PROVE  (prices'[i].active /\ prices'[i].source = "live") <=> i \in DOMAIN listed
  BY <1>3, <1>5
<1>7. {i \in Identities : prices'[i].active /\ prices'[i].source = "live"} = DOMAIN listed
  BY <1>1, <1>6
<1> QED
  BY <1>4, <1>5, <1>7 DEF LiveSurvivesOutage

LEMMA BuiltinSparesLive ==
    ASSUME Safe, NEW snapshot \in Snapshots, snapshot.source = "builtin",
           prices' = [i \in Identities |-> Persisted(i, snapshot)], UNCHANGED lastLive
    PROVE  LiveSurvivesOutage'
BY DEF Safe, PricesAreTyped, LiveSurvivesOutage, Persisted, Kept

LEMMA PersistIsSafe ==
    ASSUME Safe, NEW s \in Syncs, Persist(s)
    PROVE  Safe'
<1>1. PICK snapshot \in Snapshots : snapshot = sync[s].snapshot
  BY DEF Persist, Safe, FetchedIsSnapshot
<1>2. /\ prices' = [i \in Identities |-> Persisted(i, snapshot)]
      /\ lastLive' = IF snapshot.source = "live" THEN Normalized(snapshot) ELSE lastLive
      /\ sync' = [sync EXCEPT ![s] = [stage |-> "stored"]]
  BY <1>1 DEF Persist
<1>3. PricesAreTyped'
  <2>1. ASSUME NEW i \in Identities
        PROVE  Persisted(i, snapshot) \in [cost : Costs, source : {"none", "live", "builtin"},
                                           active : BOOLEAN]
    <3>1. i \in DOMAIN Normalized(snapshot) => Normalized(snapshot)[i] \in Costs
      BY DEF Costs
    <3>2. prices[i] \in [cost : Costs, source : {"none", "live", "builtin"}, active : BOOLEAN]
      BY DEF Safe, PricesAreTyped
    <3> QED
      BY <3>1, <3>2 DEF Persisted
  <2> QED
    BY <1>2, <2>1 DEF Safe, PricesAreTyped
<1>4. FetchedIsSnapshot'
  BY <1>2 DEF Safe, PricesAreTyped, FetchedIsSnapshot
<1>5. LiveSurvivesOutage'
  BY <1>2, LiveIsStored, BuiltinSparesLive
<1> QED
  BY <1>3, <1>4, <1>5 DEF Safe

(* The other steps of a synchronisation leave the prices alone.            *)
LEMMA SyncIsSafe ==
    ASSUME Safe, NEW s \in Syncs, SyncStep(s)
    PROVE  Safe'
<1>1. CASE Persist(s)
  BY <1>1, PersistIsSafe
<1>2. CASE ~Persist(s)
  <2>1. UNCHANGED <<prices, lastLive>>
    BY <1>2 DEF SyncStep, Fetch, Reject, ListUnpriced, Backfill, EndSync, BreakOff
  <2>2. PricesAreTyped' /\ FetchedIsSnapshot'
    <3>1. CASE Fetch(s)
      BY <2>1, <3>1 DEF Safe, PricesAreTyped, FetchedIsSnapshot, Fetch
    <3>2. CASE Reject(s) \/ EndSync(s) \/ BreakOff(s)
      BY <2>1, <3>2 DEF Safe, PricesAreTyped, FetchedIsSnapshot, Reject, EndSync, BreakOff, Nowhere
    <3>3. CASE ListUnpriced(s)
      BY <2>1, <3>3 DEF Safe, PricesAreTyped, FetchedIsSnapshot, ListUnpriced
    <3>4. ASSUME NEW r \in Requests, Backfill(s, r) PROVE PricesAreTyped' /\ FetchedIsSnapshot'
      <4>1. sync' = [sync EXCEPT ![s].todo = NextTodo(s, r)] /\ sync[s].stage = "listed"
        BY <3>4 DEF Backfill
      <4>2. sync'[s].stage = "listed" \/ s \notin DOMAIN sync
        BY <4>1
      <4> QED
        BY <2>1, <4>1, <4>2 DEF Safe, PricesAreTyped, FetchedIsSnapshot
    <3> QED
      BY <1>2, <3>1, <3>2, <3>3, <3>4 DEF SyncStep
  <2>3. LiveSurvivesOutage'
    BY <2>1 DEF Safe, LiveSurvivesOutage
  <2> QED
    BY <2>2, <2>3 DEF Safe
<1> QED
  BY <1>1, <1>2

LEMMA StepIsSafe == Safe /\ [Next]_vars => Safe'
<1> SUFFICES ASSUME Safe, [Next]_vars PROVE Safe'
  OBVIOUS
<1>1. ASSUME UNCHANGED <<prices, sync, lastLive>> PROVE Safe'
  BY <1>1 DEF Safe, PricesAreTyped, FetchedIsSnapshot, LiveSurvivesOutage
<1>2. ASSUME NEW r \in Requests, Answer(r) \/ LookUp(r) \/ Record(r) \/ Delete(r)
      PROVE  UNCHANGED <<prices, sync, lastLive>>
  BY <1>2 DEF Answer, LookUp, Record, Delete
<1>3. ASSUME SumTotals \/ RankModels \/ Draw \/ Respond \/ ClearBefore \/ Tick
      PROVE  UNCHANGED <<prices, sync, lastLive>>
  BY <1>3 DEF SumTotals, RankModels, Draw, Respond, ClearBefore, Tick
<1>4. CASE UNCHANGED vars
  BY <1>1, <1>4 DEF vars
<1>5. ASSUME NEW s \in Syncs, SyncStep(s) PROVE Safe'
  BY <1>5, SyncIsSafe
<1> QED
  BY <1>1, <1>2, <1>3, <1>4, <1>5 DEF Next, Step

(* Whatever snapshots are stored after it, by whichever synchronisation,   *)
(* the active live prices are those of the last live document.             *)
THEOREM LivePricesSurvive == Spec => []LiveSurvivesOutage
<1>1. Safe => LiveSurvivesOutage
  BY DEF Safe
<1> QED
  BY <1>1, InitIsSafe, StepIsSafe, PTL DEF Spec

-----------------------------------------------------------------------------
(* The catalogue. Its invariants are inductive together with the types of  *)
(* what they are about, with the relations of every account, a deleted one *)
(* included, and with the unique indexes on the policies.                  *)

USE JobsAssumption, PoliciesAssumption, AnswersAssumption, MaxRowsAssumption

Exposures == [guid : Models \X Nat, public : Names, aliases : SUBSET Names, enabled : BOOLEAN]
Relations == {"none", "available", "unavailable", "gone"}
Updates == [guid : Models \X Nat, policy : Policies,
            found : {"unread", "none", "enabled", "disabled"}]

AccountsTyped ==
    /\ account \in [Accounts -> {"none", "enabled", "disabled", "deleted"}]
    /\ job \in [Jobs -> {"idle", "answered", "committed", "undeprecated"}]

RowsTyped ==
    /\ row \in [Models -> Nat]
    /\ made \in [Models -> Nat]
    /\ \A m \in Models : made[m] \in 0 .. MaxRows[m] /\ row[m] \in {0, made[m]}

PoliciesTyped ==
    /\ exposures \subseteq Exposures
    /\ update \in [Operators -> {<<>>} \cup Updates]

OffersTyped ==
    /\ relation \in [Accounts -> [Models -> Relations]]
    /\ deprecated \in [Models -> BOOLEAN]
    /\ promised \in [Accounts -> SUBSET Models]

OffersPromised ==
    \A a \in Accounts : promised[a] = {m \in Models : Offers(a, m)}

NoneServedIsDeprecated ==
    \A m \in Models : Served(m) => ~deprecated[m]

OfferInv == OffersTyped /\ OffersPromised /\ NoneServedIsDeprecated
NameInv == RowsTyped /\ PoliciesTyped /\ Unique(exposures)

LEMMA CatalogStarts == CatalogInit => AccountsTyped /\ OfferInv /\ NameInv
<1> SUFFICES ASSUME CatalogInit PROVE AccountsTyped /\ OfferInv /\ NameInv
  OBVIOUS
<1>1. AccountsTyped
  BY DEF CatalogInit, AccountsTyped
<1>2. OfferInv
  BY DEF CatalogInit, OfferInv, OffersTyped, OffersPromised, NoneServedIsDeprecated, Relations,
         Offers
<1>3. NameInv
  BY DEF CatalogInit, NameInv, RowsTyped, PoliciesTyped, Unique
<1> QED
  BY <1>1, <1>2, <1>3

(* The accounts.                                                           *)
LEMMA AccountsStayTyped == AccountsTyped /\ [CatalogNext]_catalogVars => AccountsTyped'
<1> SUFFICES ASSUME AccountsTyped, [CatalogNext]_catalogVars PROVE AccountsTyped'
  OBVIOUS
<1> USE DEF AccountsTyped, Goto
<1>1. ASSUME NEW a \in Accounts,
             Add(a) \/ AddAPIKey(a) \/ SetAccountEnabled(a) \/ DeleteAccount(a) \/ Ask(a)
      PROVE  AccountsTyped'
  BY <1>1 DEF Add, AddAPIKey, SetAccountEnabled, DeleteAccount, Ask
<1>2. ASSUME NEW j \in Jobs, Sync(j) PROVE AccountsTyped'
  BY <1>2 DEF Sync, Commit, SyncFails, Undeprecate, Deprecate
<1>3. ASSUME NEW o \in Operators, Validate(o) \/ FindPolicy(o) \/ WritePolicy(o)
      PROVE  AccountsTyped'
  BY <1>3 DEF Validate, FindPolicy, WritePolicy
<1>4. ASSUME NEW e, SetEnabled(e) PROVE AccountsTyped'
  BY <1>4 DEF SetEnabled
<1>5. ASSUME NEW m \in Models, DeleteModel(m) PROVE AccountsTyped'
  BY <1>5 DEF DeleteModel
<1>6. CASE Crash
  BY <1>6 DEF Crash
<1>7. CASE UNCHANGED catalogVars
  BY <1>7 DEF catalogVars
<1> QED
  BY <1>1, <1>2, <1>3, <1>4, <1>5, <1>6, <1>7 DEF CatalogNext

(* What the accounts offer. A transaction replaces what one account offers *)
(* by its answer and marks nothing of the answer as deprecated.            *)
LEMMA CommitKeepsOffers ==
    ASSUME OfferInv, NEW j \in Jobs, Commit(j)
    PROVE  OfferInv'
<1> DEFINE a == j[1]
<1>1. a \in Accounts
  OBVIOUS
<1>2. PICK answer \in Answers :
        /\ deprecated' = DeprecatedAfter(answer)
        /\ relation' = [relation EXCEPT ![a] = RelationAfter(a, answer)]
        /\ promised' = [promised EXCEPT ![a] = answer]
  BY DEF Commit
<1> HIDE DEF a
<1>3. RelationAfter(a, answer) \in [Models -> Relations]
  BY <1>1 DEF RelationAfter, Relations, OfferInv, OffersTyped
<1>4. OffersTyped'
  BY <1>1, <1>2, <1>3 DEF OfferInv, OffersTyped, DeprecatedAfter
<1>5. ASSUME NEW m \in Models
      PROVE  RelationAfter(a, answer)[m] = "available" <=> m \in answer
  BY <1>1 DEF RelationAfter, Offers
<1>6. ASSUME NEW b \in Accounts, NEW m \in Models
      PROVE  Offers(b, m)' <=> IF b = a THEN m \in answer ELSE Offers(b, m)
  BY <1>1, <1>2, <1>5 DEF OfferInv, OffersTyped, Offers
<1>7. OffersPromised'
  BY <1>1, <1>2, <1>6 DEF OfferInv, OffersTyped, OffersPromised
<1>8. NoneServedIsDeprecated'
  BY <1>2, <1>6 DEF OfferInv, NoneServedIsDeprecated, Served, DeprecatedAfter
<1> QED
  BY <1>4, <1>7, <1>8 DEF OfferInv

LEMMA DeleteKeepsOffers ==
    ASSUME OfferInv,
           \/ \E a \in Accounts : DeleteAccount(a)
           \/ \E m \in Models : DeleteModel(m)
    PROVE  OfferInv'
<1>1. ASSUME NEW a \in Accounts, DeleteAccount(a) PROVE OfferInv'
  <2>1. OffersTyped'
    BY <1>1 DEF DeleteAccount, OfferInv, OffersTyped, Relations
  <2>2. ASSUME NEW b \in Accounts, NEW m \in Models
        PROVE  Offers(b, m)' <=> b # a /\ Offers(b, m)
    BY <1>1 DEF DeleteAccount, OfferInv, OffersTyped, Offers
  <2>3. OffersPromised'
    BY <1>1, <2>2 DEF DeleteAccount, OfferInv, OffersTyped, OffersPromised
  <2>4. NoneServedIsDeprecated'
    BY <1>1, <2>2 DEF DeleteAccount, OfferInv, NoneServedIsDeprecated, Served
  <2> QED
    BY <2>1, <2>3, <2>4 DEF OfferInv
<1>2. ASSUME NEW m \in Models, DeleteModel(m) PROVE OfferInv'
  <2>1. OffersTyped'
    BY <1>2 DEF DeleteModel, OfferInv, OffersTyped, Relations
  <2>2. ASSUME NEW b \in Accounts, NEW n \in Models
        PROVE  Offers(b, n)' <=> n # m /\ Offers(b, n)
    BY <1>2 DEF DeleteModel, OfferInv, OffersTyped, Offers
  <2>3. OffersPromised'
    <3>1. ASSUME NEW b \in Accounts PROVE promised'[b] = promised[b] \ {m}
      <4>1. account[b] = "enabled" => m \notin promised[b]
        BY <1>2 DEF DeleteModel, Deletable, OfferInv, OffersPromised
      <4> QED
        BY <1>2, <4>1 DEF DeleteModel
    <3> QED
      BY <2>2, <3>1 DEF OfferInv, OffersPromised
  <2>4. NoneServedIsDeprecated'
    BY <1>2, <2>2 DEF DeleteModel, OfferInv, OffersTyped, NoneServedIsDeprecated, Served
  <2> QED
    BY <2>1, <2>3, <2>4 DEF OfferInv
<1> QED
  BY <1>1, <1>2

(* The two statements after a transaction read what is offered when they   *)
(* run: whoever has committed in between, they mark nothing that is served.*)
LEMMA RefreshKeepsOffers ==
    ASSUME OfferInv, NEW j \in Jobs, Undeprecate(j) \/ Deprecate(j)
    PROVE  OfferInv'
<1>1. UNCHANGED <<relation, promised>>
  BY DEF Undeprecate, Deprecate
<1>2. deprecated' \in [Models -> BOOLEAN]
  BY DEF Undeprecate, Deprecate, OfferInv, OffersTyped
<1>3. ASSUME NEW m \in Models, deprecated'[m] PROVE deprecated[m] \/ ~Served(m)
  BY <1>3 DEF Undeprecate, Deprecate
<1>4. ASSUME NEW m \in Models, Served(m)' PROVE Served(m)
  BY <1>1, <1>4 DEF Served, Offers
<1> QED
  BY <1>1, <1>2, <1>3, <1>4
  DEF OfferInv, OffersTyped, OffersPromised, NoneServedIsDeprecated, Offers

LEMMA OffersAreKept == OfferInv /\ [CatalogNext]_catalogVars => OfferInv'
<1> SUFFICES ASSUME OfferInv, [CatalogNext]_catalogVars PROVE OfferInv'
  OBVIOUS
<1>1. ASSUME UNCHANGED <<relation, deprecated, promised>> PROVE OfferInv'
  BY <1>1 DEF OfferInv, OffersTyped, OffersPromised, NoneServedIsDeprecated, Served, Offers
<1>2. ASSUME NEW a \in Accounts, Add(a) \/ AddAPIKey(a) \/ SetAccountEnabled(a) \/ Ask(a)
      PROVE  UNCHANGED <<relation, deprecated, promised>>
  BY <1>2 DEF Add, AddAPIKey, SetAccountEnabled, Ask, catalog
<1>3. ASSUME NEW j \in Jobs, Sync(j) PROVE OfferInv'
  <2>1. CASE SyncFails(j)
    BY <1>1, <2>1 DEF SyncFails, catalog
  <2> QED
    BY <1>3, <2>1, CommitKeepsOffers, RefreshKeepsOffers DEF Sync
<1>4. ASSUME NEW o \in Operators, Validate(o) \/ FindPolicy(o) \/ WritePolicy(o)
      PROVE  UNCHANGED <<relation, deprecated, promised>>
  BY <1>4 DEF Validate, FindPolicy, WritePolicy, catalog
<1>5. ASSUME NEW e \in exposures, SetEnabled(e)
      PROVE  UNCHANGED <<relation, deprecated, promised>>
  BY <1>5 DEF SetEnabled
<1>6. CASE Crash \/ UNCHANGED catalogVars
  BY <1>1, <1>6 DEF Crash, catalog, catalogVars
<1> QED
  BY <1>1, <1>2, <1>3, <1>4, <1>5, <1>6, DeleteKeepsOffers DEF CatalogNext

(* Any number of synchronisations of any accounts, failing or not: what an *)
(* account of the pool is routed is its last successful answer.            *)
THEOREM OffersAreTheLastAnswer == CatalogSpec => []OffersLastAnswer
<1>1. OfferInv => OffersLastAnswer
  BY DEF OfferInv, OffersPromised, OffersLastAnswer, Existing
<1> QED
  BY <1>1, CatalogStarts, OffersAreKept, PTL DEF CatalogSpec

(* However the statements that refresh the deprecation fall between the    *)
(* transactions, a model that an account offers is not deprecated.         *)
THEOREM NothingServedIsDeprecated == CatalogSpec => []ServedIsNotDeprecated
<1>1. OfferInv => ServedIsNotDeprecated
  BY DEF OfferInv, NoneServedIsDeprecated, ServedIsNotDeprecated, Rows
<1> QED
  BY <1>1, CatalogStarts, OffersAreKept, PTL DEF CatalogSpec

(* The names. An update holds the row it was called for, which may be gone.*)
LEMMA NewRowIsTyped ==
    ASSUME NameInv, NEW answer \in Answers, NEW m \in Models,
           m \in answer /\ row[m] = 0 => made[m] < MaxRows[m],
           NEW n, n = IF m \in answer /\ row[m] = 0 THEN made[m] + 1 ELSE row[m],
           NEW k, k = IF n > made[m] THEN n ELSE made[m]
    PROVE  n \in {0, k} /\ k \in 0 .. MaxRows[m] /\ n \in Nat /\ k \in Nat
BY DEF NameInv, RowsTyped

(* The policies that a synchronisation adds differ from those there are    *)
(* and from each other.                                                    *)
LEMMA DefaultsAreNew ==
    ASSUME NameInv, NEW rows \in [Models -> Nat], NEW answer \in SUBSET Models,
           NEW new, new = {<<m, rows[m]>> : m \in answer}
    PROVE  /\ DefaultPolicies(new) \subseteq Exposures
           /\ Unique(exposures \cup DefaultPolicies(new))
<1>1. ASSUME NEW e \in DefaultPolicies(new)
      PROVE  /\ e \in Exposures
             /\ \A f \in exposures : f.guid # e.guid /\ f.public # e.public
             /\ \E m \in answer : e.guid = <<m, rows[m]>> /\ e.public = m
  <2>1. PICK g \in new :
          /\ e = [guid |-> g, public |-> g[1], aliases |-> {}, enabled |-> TRUE]
          /\ \A f \in exposures : f.guid # g /\ f.public # g[1]
    BY <1>1 DEF DefaultPolicies
  <2>2. PICK m \in answer : g = <<m, rows[m]>>
    OBVIOUS
  <2>3. g \in Models \X Nat /\ g[1] = m /\ m \in Names
    BY <2>2
  <2> QED
    BY <2>1, <2>2, <2>3 DEF Exposures
<1>2. ASSUME NEW e \in DefaultPolicies(new), NEW f \in DefaultPolicies(new), e # f
      PROVE  e.guid # f.guid /\ e.public # f.public
  <2> DEFINE Default(g) == [guid |-> g, public |-> g[1], aliases |-> {}, enabled |-> TRUE]
  <2>1. e = Default(e.guid) /\ f = Default(f.guid)
    BY DEF DefaultPolicies
  <2>2. PICK m \in answer : e.guid = <<m, rows[m]>> /\ e.public = m
    BY <1>1
  <2>3. PICK n \in answer : f.guid = <<n, rows[n]>> /\ f.public = n
    BY <1>1
  <2> QED
    BY <1>2, <2>1, <2>2, <2>3
<1>3. DefaultPolicies(new) \subseteq Exposures
  BY <1>1
<1>4. ASSUME NEW e \in exposures \cup DefaultPolicies(new),
             NEW f \in exposures \cup DefaultPolicies(new), e # f
      PROVE  e.guid # f.guid /\ e.public # f.public
  <2>1. CASE e \in exposures /\ f \in exposures
    BY <1>4, <2>1 DEF NameInv, Unique
  <2>2. CASE e \in DefaultPolicies(new) /\ f \in DefaultPolicies(new)
    BY <1>2, <1>4, <2>2
  <2>3. CASE e \in DefaultPolicies(new) /\ f \in exposures
    BY <1>1, <2>3
  <2>4. CASE e \in exposures /\ f \in DefaultPolicies(new)
    BY <1>1, <2>4
  <2> QED
    BY <2>1, <2>2, <2>3, <2>4
<1>5. Unique(exposures \cup DefaultPolicies(new))
  BY <1>4 DEF Unique
<1> QED
  BY <1>3, <1>5

LEMMA CommitKeepsNames ==
    ASSUME NameInv, NEW j \in Jobs, Commit(j)
    PROVE  NameInv'
<1>1. PICK answer \in Answers :
        /\ \A m \in answer : row[m] = 0 => made[m] < MaxRows[m]
        /\ LET new == [m \in Models |-> IF m \in answer /\ row[m] = 0
                                         THEN made[m] + 1 ELSE row[m]]
           IN  /\ row' = new
               /\ made' = [m \in Models |-> IF new[m] > made[m] THEN new[m] ELSE made[m]]
               /\ exposures' = exposures \cup DefaultPolicies({<<m, new[m]>> : m \in answer})
  BY DEF Commit
<1>2. ASSUME NEW m \in Models
      PROVE  row'[m] \in {0, made'[m]} /\ made'[m] \in 0 .. MaxRows[m] /\ row'[m] \in Nat
             /\ made'[m] \in Nat
  BY <1>1, NewRowIsTyped
<1>3. RowsTyped'
  BY <1>1, <1>2 DEF RowsTyped
<1>4. exposures' = exposures \cup DefaultPolicies({<<m, row'[m]>> : m \in answer})
  BY <1>1
<1>5. exposures' \subseteq Exposures /\ Unique(exposures')
  BY <1>3, <1>4, DefaultsAreNew DEF NameInv, RowsTyped, PoliciesTyped
<1>6. UNCHANGED update
  BY DEF Commit
<1> QED
  BY <1>3, <1>5, <1>6 DEF NameInv, PoliciesTyped, Unique

LEMMA UpdateKeepsNames ==
    ASSUME NameInv, NEW o \in Operators, Validate(o) \/ FindPolicy(o) \/ WritePolicy(o)
    PROVE  NameInv'
<1>1. CASE Validate(o)
  <2>1. PICK m \in Rows, p \in Policies :
          update' = [update EXCEPT ![o] = [guid |-> Guid(m), policy |-> p, found |-> "unread"]]
    BY <1>1 DEF Validate
  <2>2. [guid |-> Guid(m), policy |-> p, found |-> "unread"] \in Updates
    BY DEF Rows, Guid, NameInv, RowsTyped, Updates
  <2> QED
    BY <1>1, <2>1, <2>2 DEF Validate, catalog, NameInv, RowsTyped, PoliciesTyped
<1>2. CASE FindPolicy(o)
  <2>1. update[o] \in Updates
    BY <1>2 DEF FindPolicy, NameInv, PoliciesTyped
  <2>2. PICK found \in {"none", "enabled", "disabled"} :
          update' = [update EXCEPT ![o].found = found]
    BY <1>2 DEF FindPolicy
  <2>3. [update[o] EXCEPT !.found = found] \in Updates
    BY <2>1 DEF Updates
  <2>4. update' \in [Operators -> {<<>>} \cup Updates]
    BY <2>2, <2>3 DEF NameInv, PoliciesTyped
  <2> QED
    BY <1>2, <2>4 DEF FindPolicy, catalog, NameInv, RowsTyped, PoliciesTyped
<1>3. CASE WritePolicy(o)
  <2>1. update[o] \in Updates
    BY <1>3 DEF WritePolicy, NameInv, PoliciesTyped
  <2>2. Written(update[o]) \in Exposures
    BY <2>1 DEF Written, Updates, Exposures
  <2>3. /\ exposures' \subseteq exposures \cup {Written(update[o])}
        /\ Unique(exposures')
    BY <1>3 DEF WritePolicy, NameInv
  <2> QED
    BY <1>3, <2>2, <2>3 DEF WritePolicy, NameInv, RowsTyped, PoliciesTyped
<1> QED
  BY <1>1, <1>2, <1>3

LEMMA NamesAreKept == NameInv /\ [CatalogNext]_catalogVars => NameInv'
<1> SUFFICES ASSUME NameInv, [CatalogNext]_catalogVars PROVE NameInv'
  OBVIOUS
<1>1. ASSUME UNCHANGED <<row, made, exposures, update>> PROVE NameInv'
  BY <1>1 DEF NameInv, RowsTyped, PoliciesTyped, Unique
<1>2. ASSUME NEW a \in Accounts,
             Add(a) \/ AddAPIKey(a) \/ SetAccountEnabled(a) \/ DeleteAccount(a) \/ Ask(a)
      PROVE  UNCHANGED <<row, made, exposures, update>>
  BY <1>2 DEF Add, AddAPIKey, SetAccountEnabled, DeleteAccount, Ask, catalog
<1>3. ASSUME NEW j \in Jobs, Sync(j) PROVE NameInv'
  <2>1. CASE SyncFails(j) \/ Undeprecate(j) \/ Deprecate(j)
    BY <1>1, <2>1 DEF SyncFails, Undeprecate, Deprecate, catalog
  <2> QED
    BY <1>3, <2>1, CommitKeepsNames DEF Sync
<1>4. ASSUME NEW e \in exposures, SetEnabled(e) PROVE NameInv'
  <2>1. e \in Exposures
    BY <1>4 DEF NameInv, PoliciesTyped
  <2> DEFINE f == [e EXCEPT !.enabled = ~@]
  <2>2. f \in Exposures /\ f.guid = e.guid /\ f.public = e.public
    BY <2>1 DEF Exposures
  <2>3. exposures' = (exposures \ {e}) \cup {f}
    BY <1>4 DEF SetEnabled
  <2> HIDE DEF f
  <2>4. exposures' \subseteq Exposures /\ Unique(exposures')
    BY <1>4, <2>2, <2>3 DEF NameInv, PoliciesTyped, Unique
  <2> QED
    BY <1>4, <2>4 DEF SetEnabled, NameInv, RowsTyped, PoliciesTyped
<1>5. ASSUME NEW m \in Models, DeleteModel(m) PROVE NameInv'
  BY <1>5 DEF DeleteModel, NameInv, RowsTyped, PoliciesTyped, Unique
<1>6. CASE Crash
  BY <1>6 DEF Crash, catalog, NameInv, RowsTyped, PoliciesTyped, Unique
<1>7. CASE UNCHANGED catalogVars
  BY <1>1, <1>7 DEF catalogVars
<1> QED
  BY <1>1, <1>2, <1>3, <1>4, <1>5, <1>6, <1>7, UpdateKeepsNames DEF CatalogNext

(* The catalogue's types.                                                  *)
THEOREM CatalogTypeCorrect == CatalogSpec => []TypeOK
<1>1. AccountsTyped /\ OfferInv /\ NameInv => TypeOK
  BY DEF AccountsTyped, OfferInv, OffersTyped, NameInv, RowsTyped, PoliciesTyped, TypeOK,
         Relations, Exposures
<1> QED
  BY <1>1, CatalogStarts, AccountsStayTyped, OffersAreKept, NamesAreKept, PTL DEF CatalogSpec

(* Whatever the synchronisations add and the operators rename, an enabled  *)
(* policy's public name stands for the model of that policy.               *)
THEOREM PublicNamesWin == CatalogSpec => []PublicNameWins
<1>1. NameInv => PublicNameWins
  <2> SUFFICES ASSUME NameInv, NEW m \in Rows, NEW e \in PolicyOf(m), e.enabled
               PROVE  Resolves(e.public) = {m}
    BY DEF PublicNameWins
  <2>1. {f \in exposures : f.enabled /\ f.public = e.public} = {e}
    BY DEF PolicyOf, NameInv, Unique
  <2>2. e.guid = Guid(m)
    BY DEF PolicyOf
  <2>3. Resolves(e.public) = {n \in Rows : e.guid = Guid(n)}
    BY <2>1 DEF Resolves
  <2> QED
    BY <2>2, <2>3 DEF Guid
<1> QED
  BY <1>1, CatalogStarts, NamesAreKept, PTL DEF CatalogSpec

-----------------------------------------------------------------------------
(* The summary adds up.                                                    *)
(*                                                                         *)
(* Each request of the window is in exactly one point and in exactly one   *)
(* series, so the sums of their sizes are the number of requests. That     *)
(* they are those that were counted first is the invariant: as long as the *)
(* log has not changed, it has in the window what the totals say, and the  *)
(* models of the window are those that were ranked.                        *)

LEMMA LesserOfTwo ==
    ASSUME NEW m \in Int, NEW n \in Int
    PROVE  Min({m, n}) \in {m, n} /\ Min({m, n}) <= m /\ Min({m, n}) <= n
<1>1. CASE m <= n
  <2>1. Min({m, n}) = m
    BY <1>1 DEF Min
  <2> QED
    BY <1>1, <2>1
<1>2. CASE ~(m <= n)
  <2>1. Min({m, n}) = n
    BY <1>2 DEF Min
  <2> QED
    BY <1>2, <2>1
<1> QED
  BY <1>1, <1>2

LEMMA WholePart ==
    ASSUME NEW n \in Nat, NEW d \in Nat \ {0}
    PROVE  /\ n \div d \in Nat
           /\ n >= d => n \div d >= 1
<1>1. n \div d \in Int /\ n \div d >= 0
  OBVIOUS
<1>2. ASSUME n >= d PROVE n \div d >= 1
  BY <1>2, Z3
<1> QED
  BY <1>1, <1>2

IsWindow(w) ==
    /\ w.since \in Int /\ w.until \in Int /\ w.since < w.until
    /\ w.bucket \in Nat \ {0}

LEMMA EveryRequestHasAPoint ==
    ASSUME NEW w, IsWindow(w), NEW t \in w.since .. w.until
    PROVE  /\ BucketOf(t, w) \in 0 .. Buckets(w) - 1
           /\ Buckets(w) \in Nat
<1>1. /\ w.since \in Int /\ w.until \in Int /\ w.until - w.since >= 1
      /\ t - w.since \in Nat /\ w.bucket \in Nat \ {0}
  BY DEF IsWindow
<1>2. (t - w.since) \div w.bucket \in Nat
  BY <1>1, WholePart
<1>3. Buckets(w) \in Nat /\ Buckets(w) >= 1
  <2>1. w.until - w.since + w.bucket - 1 \in Nat /\ w.until - w.since + w.bucket - 1 >= w.bucket
    BY <1>1
  <2> QED
    BY <1>1, <2>1, WholePart DEF Buckets
<1> DEFINE point == (t - w.since) \div w.bucket
           last == Buckets(w) - 1
<1>4. point \in Nat /\ last \in Nat /\ BucketOf(t, w) = Min({point, last})
  BY <1>2, <1>3 DEF BucketOf
<1> HIDE DEF point, last
<1>5. point \in Int /\ last \in Int
  BY <1>4
<1>6. Min({point, last}) \in {point, last} /\ Min({point, last}) <= last
  BY <1>5, LesserOfTwo
<1>7. BucketOf(t, w) \in 0 .. last
  BY <1>4, <1>6
<1> QED
  BY <1>3, <1>7 DEF last

LEMMA WindowIsWindow ==
    ASSUME now \in Nat, NEW days \in 1 .. MaxDays
    PROVE  IsWindow(Window(days))
<1>1. days * Day >= 1 /\ days * Day \in Nat
  BY TimeAssumption
<1>2. Hour \in Nat \ {0} /\ Day \in Nat \ {0}
  BY TimeAssumption
<1>3. /\ Window(days).since = now - days * Day /\ Window(days).until = now
      /\ Window(days).bucket \in Nat \ {0}
  BY <1>2 DEF Window
<1> QED
  BY <1>1, <1>3 DEF IsWindow

(* Every request of a window falls into one of its points, the one at the  *)
(* very end into the last (usageTimelineBuckets, queryUsageTimeline).      *)
THEOREM PointsCoverTheWindow ==
    ASSUME now \in Nat, NEW days \in 1 .. MaxDays,
           NEW t \in Window(days).since .. Window(days).until
    PROVE  BucketOf(t, Window(days)) \in 0 .. Buckets(Window(days)) - 1
<1>1. IsWindow(Window(days))
  BY WindowIsWindow
<1> QED
  BY <1>1, EveryRequestHasAPoint

(* The sizes of the parts of a set add up to its size.                     *)
LEMMA PartsAddUp ==
    ASSUME NEW S, IsFiniteSet(S), NEW I, NEW part \in [I -> SUBSET S],
           \A r \in S : \E i \in I : r \in part[i],
           \A i, j \in I : i # j => part[i] \cap part[j] = {}
    PROVE  Sum([i \in I |-> Cardinality(part[i])]) = Cardinality(S)
<1> DEFINE size == [i \in I |-> Cardinality(part[i])]
           units == UNION {{i} \X (1 .. size[i]) : i \in I}
           count == [i \in I |-> CHOOSE b \in Bijection(1 .. size[i], part[i]) : TRUE]
           element == [u \in units |-> count[u[1]][u[2]]]
<1>1. ASSUME NEW i \in I PROVE count[i] \in Bijection(1 .. size[i], part[i])
  <2>1. IsFiniteSet(part[i])
    BY FS_Subset
  <2>2. ExistsBijection(1 .. size[i], part[i])
    BY <2>1, FS_CardinalityType
  <2> QED
    BY <2>2 DEF ExistsBijection
<1>2. ASSUME NEW u \in units
      PROVE  /\ u[1] \in I /\ u[2] \in 1 .. size[u[1]] /\ u = <<u[1], u[2]>>
             /\ element[u] \in part[u[1]] /\ element[u] = count[u[1]][u[2]]
  <2>1. PICK i \in I : u \in {i} \X (1 .. size[i])
    OBVIOUS
  <2>2. u[1] = i /\ u[2] \in 1 .. size[i] /\ u = <<u[1], u[2]>>
    BY <2>1
  <2>3. count[i] \in [1 .. size[i] -> part[i]]
    BY <1>1 DEF Bijection, Injection
  <2> HIDE DEF count, size
  <2> QED
    BY <2>2, <2>3
<1>3. \A u \in units : element[u] = count[u[1]][u[2]]
  OBVIOUS
<1>4. DOMAIN element = units /\ element = [u \in units |-> element[u]]
  OBVIOUS
<1>5. \A i \in I : \A k \in 1 .. size[i] : <<i, k>> \in units
  OBVIOUS
<1> HIDE DEF units, element, count, size
<1>6. element \in [units -> S]
  <2>1. ASSUME NEW u \in units PROVE element[u] \in S
    <3>1. u[1] \in I /\ element[u] \in part[u[1]]
      BY <1>2
    <3>2. part[u[1]] \in SUBSET S
      BY <3>1
    <3> QED
      BY <3>1, <3>2
  <2> QED
    BY <1>4, <2>1
<1>7. ASSUME NEW u \in units, NEW v \in units, element[u] = element[v] PROVE u = v
  <2>1. /\ u[1] \in I /\ v[1] \in I
        /\ element[u] \in part[u[1]] /\ element[u] \in part[v[1]]
    BY <1>2, <1>7
  <2>2. u[1] = v[1]
    BY <2>1
  <2>3. IsInjective(count[u[1]]) /\ DOMAIN count[u[1]] = 1 .. size[u[1]]
    BY <1>1, <2>1 DEF Bijection, Injection
  <2>4. /\ u[2] \in DOMAIN count[u[1]] /\ v[2] \in DOMAIN count[u[1]]
        /\ count[u[1]][u[2]] = count[u[1]][v[2]]
    BY <1>2, <1>7, <2>2, <2>3
  <2>5. u[2] = v[2]
    BY <2>3, <2>4 DEF IsInjective
  <2>6. u = <<u[1], u[2]>> /\ v = <<v[1], v[2]>>
    BY <1>2
  <2> QED
    BY <2>2, <2>5, <2>6
<1>8. ASSUME NEW r \in S PROVE \E u \in units : element[u] = r
  <2>1. PICK i \in I : r \in part[i]
    OBVIOUS
  <2>2. count[i] \in Surjection(1 .. size[i], part[i])
    BY <1>1 DEF Bijection
  <2>3. PICK k \in 1 .. size[i] : count[i][k] = r
    BY <2>1, <2>2 DEF Surjection
  <2>4. <<i, k>> \in units
    BY <1>5
  <2>5. element[<<i, k>>] = count[i][k]
    <3>1. element[<<i, k>>] = count[<<i, k>>[1]][<<i, k>>[2]]
      BY <1>3, <2>4
    <3> QED
      BY <3>1
  <2> QED
    BY <2>3, <2>4, <2>5
<1>9. element \in Injection(units, S)
  BY <1>4, <1>6, <1>7 DEF Injection, IsInjective
<1>10. element \in Surjection(units, S)
  BY <1>6, <1>8 DEF Surjection
<1>11. Cardinality(units) = Cardinality(S)
  BY <1>9, <1>10, FS_Injection
<1>12. Sum(size) = Cardinality(units)
  BY DEF Sum, units, size
<1> QED
  BY <1>11, <1>12 DEF size

LogTyped ==
    /\ IsFiniteSet(DOMAIN log) /\ now \in Nat
    /\ \A r \in DOMAIN log :
          log[r] = [at |-> log[r].at, cost |-> log[r].cost] /\ log[r].at \in Nat

LEMMA LogStaysTyped == LogTyped /\ [Next]_vars => LogTyped'
<1> SUFFICES ASSUME LogTyped, [Next]_vars PROVE LogTyped'
  OBVIOUS
<1>1. ASSUME UNCHANGED <<log, now>> PROVE LogTyped'
  BY <1>1 DEF LogTyped
<1>2. ASSUME NEW kept \in SUBSET (DOMAIN log), log' = Restrict(log, kept), UNCHANGED now
      PROVE  LogTyped'
  <2>1. DOMAIN log' = kept /\ \A r \in kept : log'[r] = log[r]
    BY <1>2 DEF Restrict
  <2>2. IsFiniteSet(kept)
    BY FS_Subset DEF LogTyped
  <2> QED
    BY <1>2, <2>1, <2>2 DEF LogTyped
<1>3. ASSUME NEW r, Record(r) PROVE LogTyped'
  <2>1. CASE UNCHANGED log
    BY <1>1, <1>3, <2>1 DEF Record
  <2>2. CASE log' = [q \in DOMAIN log \cup {r} |->
                       IF q = r THEN [at |-> now, cost |-> cost[r]] ELSE log[q]]
    <3>1. DOMAIN log' = DOMAIN log \cup {r}
      BY <2>2
    <3>2. IsFiniteSet(DOMAIN log')
      BY <3>1, FS_AddElement DEF LogTyped
    <3>3. ASSUME NEW q \in DOMAIN log'
          PROVE  log'[q] = [at |-> log'[q].at, cost |-> log'[q].cost] /\ log'[q].at \in Nat
      <4>1. CASE q = r
        BY <2>2, <3>1, <4>1 DEF LogTyped
      <4>2. CASE q # r
        BY <2>2, <3>1, <4>2 DEF LogTyped
      <4> QED
        BY <4>1, <4>2
    <3>4. now' = now
      BY <1>3 DEF Record
    <3> QED
      BY <3>2, <3>3, <3>4 DEF LogTyped
  <2> QED
    BY <1>3, <2>1, <2>2 DEF Record
<1>4. ASSUME NEW s, NEW r, Backfill(s, r) PROVE LogTyped'
  <2>1. CASE UNCHANGED log
    BY <1>1, <1>4, <2>1 DEF Backfill
  <2>2. CASE r \in DOMAIN log /\ log' = [log EXCEPT ![r].cost = Estimate(r)]
    <3>1. DOMAIN log' = DOMAIN log /\ \A q \in DOMAIN log \ {r} : log'[q] = log[q]
      BY <2>2
    <3>2. log'[r] = [at |-> log[r].at, cost |-> Estimate(r)]
      <4>1. log'[r] = [log[r] EXCEPT !.cost = Estimate(r)]
        BY <2>2
      <4>2. log[r] = [at |-> log[r].at, cost |-> log[r].cost]
        BY <2>2 DEF LogTyped
      <4> QED
        BY <4>1, <4>2
    <3>3. log'[r].at = log[r].at /\ log'[r].cost = Estimate(r)
      BY <3>2
    <3>4. now' = now
      BY <1>4 DEF Backfill
    <3> QED
      BY <3>1, <3>2, <3>3, <3>4 DEF LogTyped
  <2> QED
    BY <1>4, <2>1, <2>2 DEF Backfill
<1>5. ASSUME NEW s, Fetch(s) \/ Persist(s) \/ Reject(s) \/ ListUnpriced(s) \/ EndSync(s)
                    \/ BreakOff(s)
      PROVE  LogTyped'
  BY <1>1, <1>5 DEF Fetch, Persist, Reject, ListUnpriced, EndSync, BreakOff
<1>6. ASSUME NEW r, Answer(r) \/ LookUp(r) PROVE LogTyped'
  BY <1>1, <1>6 DEF Answer, LookUp
<1>7. ASSUME NEW r, Delete(r) PROVE LogTyped'
  BY <1>2, <1>7 DEF Delete
<1>8. CASE ClearBefore
  <2>1. PICK cutoff \in 1 .. now + 1 :
          log' = Restrict(log, {r \in DOMAIN log : log[r].at >= cutoff})
    BY <1>8 DEF ClearBefore
  <2> QED
    BY <1>2, <1>8, <2>1 DEF ClearBefore
<1>9. CASE Tick
  BY <1>9 DEF Tick, LogTyped
<1>10. CASE SumTotals \/ RankModels \/ Draw \/ Respond
  BY <1>1, <1>10 DEF SumTotals, RankModels, Draw, Respond
<1>11. CASE UNCHANGED vars
  BY <1>1, <1>11 DEF vars
<1> QED
  BY <1>3, <1>4, <1>5, <1>6, <1>7, <1>8, <1>9, <1>10, <1>11 DEF Next, Step, SyncStep

(* S is what the totals counted: what the window has now but for what came *)
(* to it or left it since. The ranking has seen every other request of it. *)
Drawable == InWindow(log, report.window)
WasCounted(S) ==
    /\ IsFiniteSet(S)
    /\ report.requests = Cardinality(S) /\ report.failures = Failures(S)
    /\ S \ Drawable \subseteq moved /\ Drawable \ S \subseteq moved

ReportRead ==
    /\ IsFiniteSet(moved)
    /\ report.stage \in {"idle", "totals", "models", "done"}
    /\ report.stage \in {"totals", "models"} =>
          IsWindow(report.window) /\ \E S : WasCounted(S)
    /\ report.stage = "models" =>
          \A r \in Drawable \ moved : Asked[r] \in report.top \/ report.others = TRUE

(* Two finite sets differ in size by no more than what they differ in.     *)
LEMMA SizesDiffer ==
    ASSUME NEW S, NEW T, NEW D, IsFiniteSet(S), IsFiniteSet(T), IsFiniteSet(D),
           S \ T \subseteq D, T \ S \subseteq D
    PROVE  Within(Cardinality(S), Cardinality(T), D)
<1>1. ASSUME NEW X, NEW Y, IsFiniteSet(X), IsFiniteSet(Y), X \ Y \subseteq D
      PROVE  Cardinality(X) <= Cardinality(Y) + Cardinality(D)
  <2>1. X \in SUBSET (Y \cup D)
    BY <1>1
  <2>2. /\ IsFiniteSet(Y \cup D)
        /\ Cardinality(Y \cup D) = Cardinality(Y) + Cardinality(D) - Cardinality(Y \cap D)
    BY <1>1, FS_Union
  <2>3. Cardinality(X) <= Cardinality(Y \cup D)
    BY <2>1, <2>2, FS_Subset
  <2>4. IsFiniteSet(Y \cap D)
    BY <1>1, FS_Intersection
  <2>5. /\ Cardinality(X) \in Nat /\ Cardinality(Y) \in Nat /\ Cardinality(D) \in Nat
        /\ Cardinality(Y \cap D) \in Nat
    BY <1>1, <2>4, FS_CardinalityType
  <2> QED
    BY <2>2, <2>3, <2>5
<1> QED
  BY <1>1 DEF Within

(* queryUsageTimeline.                                                     *)
LEMMA TimelineAddsUp ==
    ASSUME LogTyped, ReportRead, Draw
    PROVE  DrawnAddsUp
<1> DEFINE w == report.window
           logged == InWindow(log, w)
           dom == 0 .. Buckets(w) - 1
           point(i) == {r \in logged : BucketOf(log[r].at, w) = i}
           points == [i \in dom |-> [requests |-> Cardinality(point(i)),
                                     failures |-> Failures(point(i))]]
           names == report.top \cup {"others"}
           counted(m) == {r \in logged : m \in SeriesOf(r)}
           blank == {r \in logged : Untrimmed(r)}
           seen == {r \in logged : SeriesOf(r) # {}}
<1>1. /\ report.stage = "models" /\ IsWindow(w) /\ IsFiniteSet(moved)
      /\ \A r \in logged \ moved : Asked[r] \in report.top \/ report.others = TRUE
  BY DEF Draw, ReportRead, Drawable
<1>2. report' = [stage |-> "done", requests |-> report.requests, failures |-> report.failures,
                 points |-> points, series |-> [m \in names |-> Cardinality(counted(m))]]
  BY DEF Draw
<1>3. /\ report'.requests = report.requests /\ report'.failures = report.failures
      /\ report'.points = points /\ report'.series = [m \in names |-> Cardinality(counted(m))]
  BY <1>2
<1>4. logged \in SUBSET (DOMAIN log) /\ IsFiniteSet(logged)
  <2>1. logged \in SUBSET (DOMAIN log)
    BY DEF InWindow
  <2> QED
    BY <2>1, FS_Subset DEF LogTyped
<1>5. \A r \in logged : BucketOf(log[r].at, w) \in dom
  <2> TAKE r \in logged
  <2>1. log[r].at \in w.since .. w.until
    BY <1>1 DEF InWindow, LogTyped, IsWindow
  <2> QED
    BY <1>1, <2>1, EveryRequestHasAPoint
<1>6. ASSUME NEW r \in seen PROVE \E m \in names : SeriesOf(r) = {m}
  BY <1>6 DEF SeriesOf
<1>6a. logged \ seen \subseteq moved \cup blank
  <2>1. ASSUME NEW r \in logged, r \notin moved, r \notin blank PROVE SeriesOf(r) # {}
    <3>1. Trimmed[Asked[r]] = Asked[r]
      BY <2>1 DEF Untrimmed
    <3>2. Asked[r] \in report.top \/ report.others = TRUE
      BY <1>1, <2>1
    <3> QED
      BY <3>1, <3>2 DEF SeriesOf
  <2> QED
    BY <2>1
<1> HIDE DEF logged, w, dom, names
<1>7. Sum([i \in DOMAIN points |-> points[i].requests]) = Cardinality(logged)
  <2> DEFINE part == [i \in dom |-> point(i)]
  <2>1. part \in [dom -> SUBSET logged]
    OBVIOUS
  <2>2. \A r \in logged : \E i \in dom : r \in part[i]
    BY <1>5
  <2>3. \A i, j \in dom : i # j => part[i] \cap part[j] = {}
    OBVIOUS
  <2>4. Sum([i \in dom |-> Cardinality(part[i])]) = Cardinality(logged)
    <3> HIDE DEF part
    <3> QED
      BY <1>4, <2>1, <2>2, <2>3, PartsAddUp
  <2>5. [i \in DOMAIN points |-> points[i].requests] = [i \in dom |-> Cardinality(part[i])]
    OBVIOUS
  <2> QED
    BY <2>4, <2>5
<1>8. Sum([i \in DOMAIN points |-> points[i].failures]) = Failures(logged)
  <2> DEFINE failed == logged \cap Failing
             part == [i \in dom |-> point(i) \cap Failing]
  <2>1. part \in [dom -> SUBSET failed]
    OBVIOUS
  <2>2. \A r \in failed : \E i \in dom : r \in part[i]
    BY <1>5
  <2>3. \A i, j \in dom : i # j => part[i] \cap part[j] = {}
    OBVIOUS
  <2>4. IsFiniteSet(failed)
    BY <1>4, FS_Intersection
  <2>5. Sum([i \in dom |-> Cardinality(part[i])]) = Cardinality(failed)
    <3> HIDE DEF part, failed
    <3> QED
      BY <2>1, <2>2, <2>3, <2>4, PartsAddUp
  <2>6. [i \in DOMAIN points |-> points[i].failures] = [i \in dom |-> Cardinality(part[i])]
    BY DEF Failures
  <2> QED
    BY <2>5, <2>6 DEF Failures
<1>9. Sum([m \in names |-> Cardinality(counted(m))]) = Cardinality(seen)
  <2> DEFINE part == [m \in names |-> counted(m)]
  <2>1. part \in [names -> SUBSET seen]
    OBVIOUS
  <2>2. \A r \in seen : \E m \in names : r \in part[m]
    BY <1>6
  <2>3. \A m, n \in names : m # n => part[m] \cap part[n] = {}
    <3>1. ASSUME NEW m \in names, NEW n \in names, NEW r \in part[m] \cap part[n]
          PROVE  m = n
      <4>1. r \in seen /\ m \in SeriesOf(r) /\ n \in SeriesOf(r)
        OBVIOUS
      <4>2. PICK only : SeriesOf(r) = {only}
        BY <1>6, <4>1
      <4> QED
        BY <4>1, <4>2
    <3> HIDE DEF part
    <3> QED
      BY <3>1
  <2>4. IsFiniteSet(seen)
    BY <1>4, FS_Subset
  <2>5. Sum([m \in names |-> Cardinality(part[m])]) = Cardinality(seen)
    <3> HIDE DEF part, seen
    <3> QED
      BY <2>1, <2>2, <2>3, <2>4, PartsAddUp
  <2>6. [m \in names |-> Cardinality(counted(m))] = [m \in names |-> Cardinality(part[m])]
    OBVIOUS
  <2> QED
    BY <2>5, <2>6
<1>10. PICK S : WasCounted(S)
  BY <1>1 DEF ReportRead
<1>11. /\ Within(Cardinality(logged), report.requests, moved)
       /\ Within(Failures(logged), report.failures, moved \cap Failing)
  <2>1. /\ IsFiniteSet(S) /\ S \ logged \subseteq moved /\ logged \ S \subseteq moved
        /\ report.requests = Cardinality(S) /\ report.failures = Cardinality(S \cap Failing)
    BY <1>10 DEF WasCounted, Drawable, Failures, logged, w
  <2>2. Within(Cardinality(logged), Cardinality(S), moved)
    BY <1>1, <1>4, <2>1, SizesDiffer
  <2>3. /\ IsFiniteSet(logged \cap Failing) /\ IsFiniteSet(S \cap Failing)
        /\ IsFiniteSet(moved \cap Failing)
    BY <1>1, <1>4, <2>1, FS_Intersection
  <2>4. Within(Cardinality(logged \cap Failing), Cardinality(S \cap Failing), moved \cap Failing)
    BY <2>1, <2>3, SizesDiffer
  <2> QED
    BY <2>1, <2>2, <2>4 DEF Failures
<1>12. /\ Cardinality(seen) <= Cardinality(logged)
       /\ Cardinality(logged) <= Cardinality(seen) + Cardinality(moved \cup blank)
  <2>1. seen \in SUBSET logged /\ blank \in SUBSET logged
    OBVIOUS
  <2>2. IsFiniteSet(seen) /\ IsFiniteSet(blank) /\ Cardinality(seen) <= Cardinality(logged)
    BY <1>4, <2>1, FS_Subset
  <2>3. IsFiniteSet(moved \cup blank)
    BY <1>1, <2>2, FS_Union
  <2>4. seen \ logged \subseteq moved \cup blank
    BY <2>1
  <2>5. Within(Cardinality(logged), Cardinality(seen), moved \cup blank)
    BY <1>4, <1>6a, <2>2, <2>3, <2>4, SizesDiffer
  <2> QED
    BY <2>2, <2>5 DEF Within
<1>13. {r \in InWindow(log, report.window) : Untrimmed(r)} = blank
  BY DEF logged, w
<1> HIDE DEF points, counted, seen, blank
<1>14. /\ Drawn(report') = Cardinality(logged)
       /\ DrawnFailures(report') = Failures(logged)
       /\ Sum(report'.series) = Cardinality(seen)
  BY <1>3, <1>7, <1>8, <1>9, Zenon DEF Drawn, DrawnFailures
<1>15. /\ Within(Cardinality(logged), report'.requests, moved)
       /\ Within(Failures(logged), report'.failures, moved \cap Failing)
  BY <1>3, <1>11
<1> QED
  BY <1>12, <1>13, <1>14, <1>15, Zenon DEF DrawnAddsUp

(* What another action does to the log is what moved records.              *)
LEMMA MovedIsRecorded ==
    ASSUME LogTyped, LogTyped', ReportRead, Next, UNCHANGED report
    PROVE  ReportRead'
<1>1. CASE report.stage \in {"idle", "done"}
  <2>1. moved' = {}
    BY <1>1 DEF Next
  <2>2. IsFiniteSet(moved')
    BY <2>1, FS_EmptySet
  <2> QED
    BY <1>1, <2>2 DEF ReportRead
<1>2. CASE report.stage \in {"totals", "models"}
  <2> DEFINE gone == InWindow(log, report.window) \ InWindow(log', report.window)
             come == InWindow(log', report.window) \ InWindow(log, report.window)
  <2>1. moved' = moved \cup gone \cup come
    BY <1>2 DEF Next
  <2>2. Drawable = InWindow(log, report.window) /\ Drawable' = InWindow(log', report.window)
    BY DEF Drawable
  <2>3. gone \in SUBSET (DOMAIN log) /\ come \in SUBSET (DOMAIN log')
    BY DEF InWindow
  <2>4. IsFiniteSet(gone) /\ IsFiniteSet(come)
    <3> HIDE DEF gone, come
    <3> QED
      BY <2>3, FS_Subset DEF LogTyped
  <2>5. IsFiniteSet(moved')
    <3> HIDE DEF gone, come
    <3> QED
      BY <2>1, <2>4, FS_Union DEF ReportRead
  <2>6. PICK S : WasCounted(S)
    BY <1>2 DEF ReportRead
  <2>7. S \ Drawable' \subseteq moved' /\ Drawable' \ S \subseteq moved'
    BY <2>1, <2>2, <2>6 DEF WasCounted
  <2>8. WasCounted(S)'
    BY <2>6, <2>7 DEF WasCounted
  <2>9. Drawable' \ moved' \subseteq Drawable \ moved
    BY <2>1, <2>2
  <2> QED
    BY <1>2, <2>5, <2>8, <2>9 DEF ReportRead
<1> QED
  BY <1>1, <1>2 DEF ReportRead

LEMMA ReportStaysRead ==
    LogTyped /\ LogTyped' /\ ReportRead /\ [Next]_vars => ReportRead'
<1> SUFFICES ASSUME LogTyped, LogTyped', ReportRead, [Next]_vars PROVE ReportRead'
  OBVIOUS
<1>1. CASE UNCHANGED vars
  <2>1. UNCHANGED <<log, report, moved>>
    BY <1>1 DEF vars
  <2> QED
    BY <2>1 DEF ReportRead, WasCounted, Drawable, InWindow
<1> SUFFICES ASSUME Next PROVE ReportRead'
  BY <1>1
<1>2. CASE SumTotals
  <2>1. PICK days \in Days :
          report' = [stage |-> "totals", window |-> Window(days),
                     requests |-> Cardinality(InWindow(log, Window(days))),
                     failures |-> Failures(InWindow(log, Window(days)))]
    BY <1>2 DEF SumTotals
  <2>2. /\ report'.stage = "totals" /\ report'.window = Window(days)
        /\ report'.requests = Cardinality(InWindow(log, Window(days)))
        /\ report'.failures = Failures(InWindow(log, Window(days)))
    BY <2>1
  <2>3. IsWindow(report'.window)
    BY <2>2, WindowIsWindow, TimeAssumption DEF LogTyped
  <2>4. log' = log /\ report.stage = "idle"
    BY <1>2 DEF SumTotals
  <2>5. moved' = {}
    BY <2>4 DEF Next
  <2>6. IsFiniteSet(moved')
    BY <2>5, FS_EmptySet
  <2>7. Drawable' = InWindow(log, Window(days))
    BY <2>2, <2>4 DEF Drawable
  <2>8. InWindow(log, Window(days)) \in SUBSET (DOMAIN log)
    BY DEF InWindow
  <2>9. IsFiniteSet(InWindow(log, Window(days)))
    BY <2>8, FS_Subset DEF LogTyped
  <2>10. (\E S : WasCounted(S))'
    <3>1. /\ report'.requests = Cardinality(Drawable') /\ report'.failures = Failures(Drawable')
          /\ IsFiniteSet(Drawable')
      BY <2>2, <2>7, <2>9
    <3>2. WasCounted(Drawable)'
      BY <3>1 DEF WasCounted
    <3> QED
      BY <3>2
  <2> QED
    BY <2>2, <2>3, <2>6, <2>10 DEF ReportRead
<1>3. CASE RankModels
  <2> DEFINE models == {Asked[r] : r \in Drawable}
  <2>1. report.stage = "totals" /\ log' = log
    BY <1>3 DEF RankModels
  <2>2. PICK top \in SUBSET models :
          report' = [stage |-> "models", window |-> report.window,
                     requests |-> report.requests, failures |-> report.failures,
                     top |-> top, others |-> models # top]
    BY <1>3 DEF RankModels, Drawable
  <2>3. /\ report'.stage = "models" /\ report'.window = report.window
        /\ report'.requests = report.requests /\ report'.failures = report.failures
        /\ report'.top = top /\ report'.others = (models # top)
    BY <2>2
  <2>4. moved' = moved
    BY <2>1, <2>3 DEF Next
  <2>5. Drawable' = Drawable
    BY <2>1, <2>3 DEF Drawable
  <2>6. PICK S : WasCounted(S)
    BY <2>1 DEF ReportRead
  <2>7. WasCounted(S)'
    BY <2>3, <2>4, <2>5, <2>6 DEF WasCounted
  <2>8. \A r \in Drawable : Asked[r] \in top \/ (models # top) = TRUE
    OBVIOUS
  <2> HIDE DEF models
  <2> QED
    BY <2>1, <2>3, <2>4, <2>5, <2>7, <2>8 DEF ReportRead
<1>4. CASE Draw \/ Respond
  <2>1. report'.stage \in {"done", "idle"} /\ log' = log
    BY <1>4 DEF Draw, Respond, Nowhere
  <2>2. moved' \in {moved, {}}
    BY <2>1 DEF Next
  <2>3. IsFiniteSet(moved')
    BY <2>2, FS_EmptySet DEF ReportRead
  <2> QED
    BY <2>1, <2>3 DEF ReportRead
<1>5. ASSUME UNCHANGED report PROVE ReportRead'
  BY <1>5, MovedIsRecorded
<1>6. ASSUME NEW s, SyncStep(s) PROVE UNCHANGED report
  BY <1>6 DEF SyncStep, Fetch, Persist, Reject, ListUnpriced, Backfill, EndSync, BreakOff
<1>7. ASSUME NEW r, Answer(r) \/ LookUp(r) \/ Record(r) \/ Delete(r) PROVE UNCHANGED report
  BY <1>7 DEF Answer, LookUp, Record, Delete
<1>8. ClearBefore \/ Tick => UNCHANGED report
  BY DEF ClearBefore, Tick
<1> QED
  BY <1>2, <1>3, <1>4, <1>5, <1>6, <1>7, <1>8 DEF Next, Step

(* For any requests, names, buckets and windows, and any other use of the  *)
(* database between the queries: a timeline differs from the totals by no  *)
(* more requests than came to or left its window in between, and the       *)
(* series of the models have every other request whose name has no blanks  *)
(* around it.                                                              *)
THEOREM ReportsAddUp == Spec => ReportAddsUp
<1>1. Init => LogTyped /\ ReportRead
  <2> SUFFICES ASSUME Init PROVE LogTyped /\ ReportRead
    OBVIOUS
  <2>1. MaxDays * Day + 1 \in Nat
    BY TimeAssumption
  <2>2. LogTyped
    BY <2>1, RequestsAssumption DEF Init, LogTyped
  <2>3. ReportRead
    BY FS_EmptySet DEF Init, ReportRead, Nowhere
  <2> QED
    BY <2>2, <2>3
<1>2. LogTyped /\ ReportRead => [Draw => DrawnAddsUp]_vars
  BY TimelineAddsUp
<1> QED
  BY <1>1, <1>2, LogStaysTyped, ReportStaysRead, PTL DEF Spec, ReportAddsUp

===============================================================================
