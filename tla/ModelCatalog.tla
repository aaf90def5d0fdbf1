----------------------------- MODULE ModelCatalog ------------------------------
(***************************************************************************)
(* The model catalogue (services/model_service) and the synchronisations   *)
(* that fill it (services/account_service). An account asks upstream which *)
(* models it may use; one transaction then rewrites what the account has   *)
(* available, adds the models the catalogue lacks, and gives each of them  *)
(* a policy: the public name it is routed by. Two statements after it      *)
(* refresh which models are deprecated. Operators rename, disable and      *)
(* delete models meanwhile, in steps of their own.                         *)
(*                                                                         *)
(* A model is named by its remote id, which is also the default of its     *)
(* public name; a row of the catalogue has a guid, so that a model deleted *)
(* and added again is another row. The transactions of the configured      *)
(* database (SQLite) are atomic.                                           *)
(***************************************************************************)
EXTENDS Integers

CONSTANTS
    Accounts,       \* accounts of one vendor and product
    Jobs,           \* <<a, "sync">>: a is synchronised, <<a, "add">>: by AddAPIKey
    Models,         \* remote ids
    Names,          \* names a policy may give
    Policies,       \* what Update is called with
    Answers,        \* the sets of models upstream answers with
    Operators,      \* calls of ModelService.Update
    MaxRows         \* MaxRows[m]: bound on the rows m gets

\* syncAccountModels has one flight per account; AddAPIKey does not join it
ASSUME JobsAssumption == Jobs \subseteq Accounts \X {"sync", "add"}
ASSUME PoliciesAssumption ==
    /\ Models \subseteq Names
    /\ Policies \subseteq [public : Names, aliases : SUBSET Names]
    /\ \A p \in Policies : p.public \notin p.aliases
ASSUME AnswersAssumption == Answers \subseteq SUBSET Models \ {{}}
ASSUME MaxRowsAssumption == MaxRows \in [Models -> Nat]

VARIABLES
    account,        \* account[a]: "none", "enabled", "disabled" or "deleted"
    row,            \* row[m]: the number in the guid of m's row, 0 without one
    made,           \* made[m]: how many rows m has had
    deprecated,     \* deprecated[m]: the column of m's row
    relation,       \* relation[a][m]: a's relation to m's row
    exposures,      \* the policies
    job,             \* job[j]: where the synchronisation j stands
    update,         \* update[o]: the call of Update o is in
    promised        \* history: what a offers by its last answer

catalogVars == <<account, row, made, deprecated, relation, exposures, job, update, promised>>

ApiKeys == {a \in Accounts : <<a, "add">> \in Jobs}
Guid(m) == <<m, row[m]>>
Rows == {m \in Models : row[m] # 0}
Existing == {a \in Accounts : account[a] \in {"enabled", "disabled"}}
Offers(a, m) == relation[a][m] = "available"
Served(m) == \E a \in Accounts : Offers(a, m)
PolicyOf(m) == {e \in exposures : e.guid = Guid(m)}

CatalogInit ==
    /\ account = [a \in Accounts |-> "none"]
    /\ row = [m \in Models |-> 0]
    /\ made = [m \in Models |-> 0]
    /\ deprecated = [m \in Models |-> FALSE]
    /\ relation = [a \in Accounts |-> [m \in Models |-> "none"]]
    /\ exposures = {}
    /\ job = [j \in Jobs |-> "idle"]
    /\ update = [o \in Operators |-> <<>>]
    /\ promised = [a \in Accounts |-> {}]

Goto(j, stage) == job' = [job EXCEPT ![j] = stage]
catalog == <<row, made, deprecated, relation, exposures, promised>>

-----------------------------------------------------------------------------
(* Accounts.                                                               *)

(* An OAuth account enters the pool, or is imported again.                 *)
Add(a) ==
    /\ a \notin ApiKeys /\ account[a] # "deleted"
    /\ account' = [account EXCEPT ![a] = "enabled"]
    /\ UNCHANGED <<catalog, job, update>>

(* AddAPIKey has its answer before it writes the account, and goes on to   *)
(* store the answer.                                                       *)
AddAPIKey(a) ==
    /\ a \in ApiKeys /\ account[a] # "deleted" /\ job[<<a, "add">>] = "idle"
    /\ account' = [account EXCEPT ![a] = "enabled"]
    /\ Goto(<<a, "add">>, "answered")
    /\ UNCHANGED <<catalog, update>>

SetAccountEnabled(a) ==
    /\ a \in Existing
    /\ account' = [account EXCEPT ![a] = IF @ = "enabled" THEN "disabled" ELSE "enabled"]
    /\ UNCHANGED <<catalog, job, update>>

(* The relations of a deleted account are deleted softly: they stay in the *)
(* unique index. The deprecation is left as it is.                         *)
DeleteAccount(a) ==
    /\ a \in Existing
    /\ account' = [account EXCEPT ![a] = "deleted"]
    /\ relation' = [relation EXCEPT ![a] =
          [m \in Models |-> IF @[m] = "none" THEN "none" ELSE "gone"]]
    /\ promised' = [promised EXCEPT ![a] = {}]
    /\ UNCHANGED <<row, made, deprecated, exposures, job, update>>

-----------------------------------------------------------------------------
(* The synchronisation of an account.                                      *)

(* The account is loaded and upstream is asked. A sweep asks for enabled   *)
(* accounts only, an operator for any.                                     *)
Ask(a) ==
    /\ a \in Existing /\ <<a, "sync">> \in Jobs /\ job[<<a, "sync">>] = "idle"
    /\ Goto(<<a, "sync">>, "answered")
    /\ UNCHANGED <<account, catalog, update>>

(* No answer, an empty one, or a transaction that is rolled back. What the *)
(* account offered before it still offers (RecordAccountSyncFailure).      *)
SyncFails(j) ==
    /\ job[j] = "answered"
    /\ Goto(j, "idle")
    /\ UNCHANGED <<account, catalog, update>>

(* ensureDefaultExposure, for a model without a policy whose name is free. *)
DefaultPolicies(new) ==
    {[guid |-> g, public |-> g[1], aliases |-> {}, enabled |-> TRUE] :
        g \in {h \in new : \A e \in exposures : e.guid # h /\ e.public # h[1]}}

\* mutant: a model that is found again keeps its mark
DeprecatedAfterAsBefore(answer) == [m \in Models |-> m \in Rows /\ deprecated[m]]

(* upsertRemoteCatalog: a model that is found again is not deprecated.     *)
DeprecatedAfter(answer) == [m \in Models |-> m \notin answer /\ deprecated[m]]

\* mutant: what the account had available is not reset first
RelationAfterNoReset(a, answer) ==
    [m \in Models |-> IF m \in answer THEN "available" ELSE relation[a][m]]

RelationAfter(a, answer) ==
    [m \in Models |->
        CASE m \in answer -> "available"
          [] m \notin answer /\ Offers(a, m) -> "unavailable"
          [] OTHER -> relation[a][m]]

(* SyncRemoteModels: a soft-deleted relation fails the transaction.        *)
Commit(j) ==
    LET a == j[1] IN
    /\ job[j] = "answered"
    /\ \E answer \in Answers :
          /\ \A m \in answer :
                /\ relation[a][m] # "gone"
                /\ row[m] = 0 => made[m] < MaxRows[m]
          /\ LET new == [m \in Models |-> IF m \in answer /\ row[m] = 0
                                          THEN made[m] + 1 ELSE row[m]]
             IN  /\ row' = new
                 /\ made' = [m \in Models |-> IF new[m] > made[m] THEN new[m] ELSE made[m]]
                 /\ exposures' = exposures \cup DefaultPolicies({<<m, new[m]>> : m \in answer})
          /\ deprecated' = DeprecatedAfter(answer)
          /\ relation' = [relation EXCEPT ![a] = RelationAfter(a, answer)]
          /\ promised' = [promised EXCEPT ![a] = answer]
    /\ Goto(j, "committed")
    /\ UNCHANGED <<account, update>>

(* refreshCatalogDeprecation is two statements outside the transaction,    *)
(* whose errors are ignored.                                               *)
Undeprecate(j) ==
    /\ job[j] = "committed"
    /\ \/ deprecated' = [m \in Models |-> deprecated[m] /\ ~Served(m)]
       \/ UNCHANGED deprecated
    /\ Goto(j, "undeprecated")
    /\ UNCHANGED <<account, row, made, relation, exposures, update, promised>>

Deprecate(j) ==
    /\ job[j] = "undeprecated"
    /\ \/ deprecated' = [m \in Models |-> m \in Rows /\ (deprecated[m] \/ ~Served(m))]
       \/ UNCHANGED deprecated
    /\ Goto(j, "idle")
    /\ UNCHANGED <<account, row, made, relation, exposures, update, promised>>

-----------------------------------------------------------------------------
(* The operators.                                                          *)

NamesOf(e) == {e.public} \cup e.aliases

(* Update loads the model and compares its names with the policies of the  *)
(* other models.                                                           *)
Validate(o) ==
    /\ update[o] = <<>>
    /\ \E m \in Rows, p \in Policies :
          /\ \A e \in exposures \ PolicyOf(m) : NamesOf(e) \cap NamesOf(p) = {}
          /\ update' = [update EXCEPT ![o] =
                [guid |-> Guid(m), policy |-> p, found |-> "unread"]]
    /\ UNCHANGED <<account, catalog, job>>

(* Then it looks for the policy of the model itself.                       *)
FindPolicy(o) ==
    /\ update[o] # <<>> /\ update[o].found = "unread"
    /\ LET mine == {e \in exposures : e.guid = update[o].guid} IN
       update' = [update EXCEPT ![o].found =
                    CASE mine = {} -> "none"
                      [] \E e \in mine : e.enabled -> "enabled"
                      [] OTHER -> "disabled"]
    /\ UNCHANGED <<account, catalog, job>>

(* What Update writes: the policy stays enabled or disabled as it was read;*)
(* an Update that sets `enabled` as well is this one and SetEnabled. The   *)
(* group, the visibility and the timeouts of a policy are left out.        *)
Written(u) ==
    [guid |-> u.guid, public |-> u.policy.public, aliases |-> u.policy.aliases,
     enabled |-> u.found # "disabled"]

\* the unique indexes
Unique(set) ==
    \A e, f \in set : e # f => e.guid # f.guid /\ e.public # f.public

(* A policy is created, or the one that was found is written; none is when *)
(* it is gone. A name that is taken fails the statement.                   *)
WritePolicy(o) ==
    LET u == update[o]
        mine == {e \in exposures : e.guid = u.guid}
    IN
    /\ u # <<>> /\ u.found # "unread"
    /\ IF u.found = "none"
       THEN exposures' = IF Unique(exposures \cup {Written(u)})
                         THEN exposures \cup {Written(u)} ELSE exposures
       ELSE exposures' = IF mine # {} /\ Unique((exposures \ mine) \cup {Written(u)})
                         THEN (exposures \ mine) \cup {Written(u)} ELSE exposures
    /\ update' = [update EXCEPT ![o] = <<>>]
    /\ UNCHANGED <<account, row, made, deprecated, relation, job, promised>>

SetEnabled(e) ==
    /\ exposures' = (exposures \ {e}) \cup {[e EXCEPT !.enabled = ~@]}
    /\ UNCHANGED <<account, row, made, deprecated, relation, job, update, promised>>

(* No enabled account offers the model.                                    *)
Deletable(m) == m \in Rows /\ \A a \in Accounts : account[a] = "enabled" => ~Offers(a, m)

(* DeleteByGuid removes the row with its relations and its policy.         *)
DeleteModel(m) ==
    /\ Deletable(m)
    /\ row' = [row EXCEPT ![m] = 0]
    /\ deprecated' = [deprecated EXCEPT ![m] = FALSE]
    /\ relation' = [a \in Accounts |-> [relation[a] EXCEPT ![m] = "none"]]
    /\ exposures' = exposures \ PolicyOf(m)
    /\ promised' = [a \in Accounts |->
          IF account[a] = "enabled" THEN promised[a] ELSE promised[a] \ {m}]
    /\ UNCHANGED <<account, made, job, update>>

(* The process stops: what was going on is not taken up again.             *)
Crash ==
    /\ job' = [j \in Jobs |-> "idle"]
    /\ update' = [o \in Operators |-> <<>>]
    /\ UNCHANGED <<account, catalog>>

Sync(j) == Commit(j) \/ SyncFails(j) \/ Undeprecate(j) \/ Deprecate(j)

CatalogNext ==
    \/ \E a \in Accounts :
          Add(a) \/ AddAPIKey(a) \/ SetAccountEnabled(a) \/ DeleteAccount(a) \/ Ask(a)
    \/ \E j \in Jobs : Sync(j)
    \/ \E o \in Operators : Validate(o) \/ FindPolicy(o) \/ WritePolicy(o)
    \/ \E e \in exposures : SetEnabled(e)
    \/ \E m \in Models : DeleteModel(m)
    \/ Crash

CatalogSpec == CatalogInit /\ [][CatalogNext]_catalogVars

-----------------------------------------------------------------------------
(* What a request's name stands for.                                       *)

\* mutant: an alias is tried before the public names
ResolvesAliasFirst(n) ==
    LET aliased == {e \in exposures : e.enabled /\ n \in e.aliases}
        found == IF aliased # {} THEN aliased
                 ELSE {e \in exposures : e.enabled /\ e.public = n}
    IN  {m \in Rows : \E e \in found : e.guid = Guid(m)}

(* Find: the public names first, then the aliases, whichever comes first;  *)
(* a policy without its model routes nothing.                              *)
Resolves(n) ==
    LET named == {e \in exposures : e.enabled /\ e.public = n}
        found == IF named # {} THEN named
                 ELSE {e \in exposures : e.enabled /\ n \in e.aliases}
    IN  {m \in Rows : \E e \in found : e.guid = Guid(m)}

-----------------------------------------------------------------------------

TypeOK ==
    /\ account \in [Accounts -> {"none", "enabled", "disabled", "deleted"}]
    /\ \A m \in Models : made[m] \in 0 .. MaxRows[m] /\ row[m] \in {0, made[m]}
    /\ deprecated \in [Models -> BOOLEAN]
    /\ relation \in [Accounts -> [Models -> {"none", "available", "unavailable", "gone"}]]
    /\ \A e \in exposures :
          e \in [guid : Models \X Nat, public : Names,
                 aliases : SUBSET Names, enabled : BOOLEAN]
    /\ job \in [Jobs -> {"idle", "answered", "committed", "undeprecated"}]
    /\ promised \in [Accounts -> SUBSET Models]

(* The comments on SyncRemoteModels and RecordAccountSyncFailure: whatever *)
(* else goes on, an account of the pool is routed the models of its last   *)
(* successful answer and no others; a failed synchronisation and other     *)
(* accounts change nothing in that, and a model it offers is not deleted   *)
(* from under an enabled account.                                          *)
OffersLastAnswer ==
    \A a \in Existing : {m \in Models : Offers(a, m)} = promised[a]

(* The deprecation is refreshed outside the transactions, from what other  *)
(* synchronisations leave and after account deletions that skip it, and    *)
(* yet a model that some account offers is never marked as deprecated.     *)
ServedIsNotDeprecated ==
    \A m \in Rows : Served(m) => ~deprecated[m]

(* The models that synchronisations add take over no public name: a name   *)
(* that is some policy's public one stands for the model of that policy,   *)
(* even where another model has it as an alias.                            *)
PublicNameWins ==
    \A m \in Rows : \A e \in PolicyOf(m) : e.enabled => Resolves(e.public) = {m}

=============================================================================
