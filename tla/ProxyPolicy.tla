------------------------------ MODULE ProxyPolicy ------------------------------
(***************************************************************************)
(* The upstream proxy policy: where it is stored, how it is cached, saved, *)
(* backed up and restored, and how a request obeys it (services/config,    *)
(* system_config_service, proxy_credentials, backup_service).              *)
(*                                                                         *)
(* The policy is stored in rows: the flags, and the proxy address with its *)
(* credentials. A row that is missing is replaced by the YAML file. All    *)
(* reads go through a snapshot of the rows that is cached for two seconds; *)
(* saves and imports exclude one another (global.Lock), commit, and only   *)
(* then invalidate the cache. Other instances save to the same table and   *)
(* invalidate nothing here.                                                *)
(*                                                                         *)
(* Credentials are named by the proxy for which an operator supplied them. *)
(* Config reads the snapshot once per field; the model reads it once per   *)
(* call. Capacities and timeouts, saved with the policy, are left out, and *)
(* so is a master key that is lost: it blocks requests and saves.          *)
(***************************************************************************)
EXTENDS Naturals, Sequences

CONSTANTS
    Senders,        \* requests that go upstream
    Savers,         \* calls of the two endpoints that write the policy
    Hosts,          \* proxies
    NoHost,         \* no proxy address
    NoAuth,         \* no credentials
    NoRow,          \* a row that is not there
    Base,           \* the policy of the YAML file
    Inputs,         \* what operators send
    MaxVersions     \* bound on the policies stored one after the other

Readers == Senders \cup Savers
Nobody == "nobody"

Policies == [on : BOOLEAN, required : BOOLEAN,
             host : Hosts \cup {NoHost}, auth : Hosts \cup {NoAuth}]

ASSUME ReadersAssumption == Senders \cap Savers = {} /\ Nobody \notin Readers
\* credentials are named by their proxy, those of the file too
ASSUME BaseAssumption == Base \in Policies /\ Base.auth \in {NoAuth, Base.host}
ASSUME NoRowAssumption ==
    NoRow \notin [on : BOOLEAN, required : BOOLEAN]
              \cup [host : Hosts \cup {NoHost}, auth : Hosts \cup {NoAuth}, sealed : BOOLEAN]
ASSUME InputsAssumption ==
    Inputs \subseteq [on : BOOLEAN, required : {"yes", "no", "keep"},
                      host : Hosts \cup {NoHost}, auth : {"keep", "clear", "new"}]

VARIABLES
    db,             \* the rows: flags and url, each of them may be NoRow
    up,             \* can the database be read and written?
    cache,          \* the snapshot: rows, version, loaded?, fresh?
    lock,           \* who refreshes the snapshot, holding its write lock
    saving,         \* who holds global.Lock
    at,             \* at[p]: where a request or a saver stands
    call,           \* call[p]: what it was called with, or when
    seen,           \* seen[p]: the rows it has found or the snapshot it goes on with
    result,         \* result[p]: the route, the policy to save or the version saved
    history,        \* the policies stored so far
    saved           \* the version of the last save of this instance that returned

readers == <<at, call, seen, result>>
policyVars == <<db, up, cache, lock, saving, readers, history, saved>>

Version == Len(history)

(* applySystemConfigOverrides: the rows override the file.                 *)
Effective(rows) ==
    LET f == IF rows.flags = NoRow THEN Base ELSE rows.flags
        u == IF rows.url = NoRow THEN Base ELSE rows.url
    IN  [on |-> f.on, required |-> f.required, host |-> u.host, auth |-> u.auth]

NoRows == [flags |-> NoRow, url |-> NoRow]
Sealed(address, isSealed) == [host |-> address.host, auth |-> address.auth, sealed |-> isSealed]

(* protectProxySnapshot: rows with credentials in the clear, or a file     *)
(* whose credentials no row overrides.                                     *)
Legacy(rows) ==
    IF rows.url = NoRow THEN Base.auth # NoAuth
    ELSE rows.url.auth # NoAuth /\ ~rows.url.sealed
Protected(rows) ==
    IF Legacy(rows)
    THEN [rows EXCEPT !.url = Sealed(Effective(rows), TRUE)]
    ELSE rows

Unloaded == [rows |-> NoRows, version |-> 0, loaded |-> FALSE, fresh |-> FALSE]

PolicyInit ==
    /\ db \in [flags : {NoRow},
               url : {NoRow} \cup {Sealed([host |-> h, auth |-> h], FALSE) : h \in Hosts}]
    /\ up = TRUE
    /\ cache = Unloaded
    /\ lock = Nobody /\ saving = Nobody
    /\ at = [p \in Readers |-> "idle"]
    /\ call = [p \in Readers |-> <<>>]
    /\ seen = [p \in Readers |-> <<>>]
    /\ result = [p \in Readers |-> <<>>]
    /\ history = <<Effective(db)>>
    /\ saved = 1

Proceed(p, stage) == at' = [at EXCEPT ![p] = stage]
Release(l, p) == IF l = p THEN Nobody ELSE l
Leave(p) ==
    /\ Proceed(p, "idle")
    /\ call' = [call EXCEPT ![p] = <<>>]
    /\ seen' = [seen EXCEPT ![p] = <<>>]
    /\ result' = [result EXCEPT ![p] = <<>>]
    /\ saving' = Release(saving, p)

-----------------------------------------------------------------------------
(* The snapshot.                                                           *)

Begin(p, fields) ==
    /\ at[p] = "idle"
    /\ Proceed(p, "reading")
    /\ call' = [call EXCEPT ![p] = fields]
    /\ UNCHANGED <<seen, result>>

Reading(p) == at[p] = "reading" /\ lock = Nobody

\* the snapshot that p goes on with; "failed" tells snapshotWithError's error
Take(p, rows, version, failed) ==
    /\ seen' = [seen EXCEPT ![p] = [rows |-> rows, version |-> version, failed |-> failed]]
    /\ Proceed(p, "deciding")
    /\ UNCHANGED <<call, result>>

(* A fresh snapshot is shared.                                             *)
Cached(p) ==
    /\ Reading(p) /\ cache.fresh
    /\ Take(p, cache.rows, cache.version, FALSE)
    /\ UNCHANGED <<db, up, cache, lock, saving, history, saved>>

(* An old one is read again under the lock. The rows are found ...         *)
FindRows(p) ==
    /\ Reading(p) /\ ~cache.fresh /\ up
    /\ lock' = p
    /\ seen' = [seen EXCEPT ![p] = [rows |-> db, version |-> Version, failed |-> FALSE]]
    /\ Proceed(p, "protecting")
    /\ UNCHANGED <<db, up, cache, saving, call, result, history, saved>>

(* ... or the last complete snapshot is kept, and the error is told.       *)
LastSnapshot(p) ==
    /\ Reading(p) /\ ~cache.fresh /\ ~up
    /\ Take(p, cache.rows, cache.version, TRUE)
    /\ UNCHANGED <<db, up, cache, lock, saving, history, saved>>

\* mutant: the migration writes what it has found, whatever is stored now
MigrateAnyway(p) == up

(* The migration of credentials writes only over the value it has found.   *)
MayMigrate(p) == up /\ db.url = seen[p].rows.url

(* The snapshot is published, its credentials are sealed first.            *)
Publish(p) ==
    /\ at[p] = "protecting"
    /\ Legacy(seen[p].rows) => MayMigrate(p)
    /\ LET rows == Protected(seen[p].rows) IN
       /\ db' = IF Legacy(seen[p].rows) THEN [db EXCEPT !.url = rows.url] ELSE db
       /\ cache' = [rows |-> rows, version |-> seen[p].version,
                    loaded |-> TRUE, fresh |-> TRUE]
       /\ Take(p, rows, seen[p].version, FALSE)
    /\ lock' = Nobody
    /\ UNCHANGED <<up, saving, history, saved>>

(* It is not: somebody has changed the value, or the database is down.     *)
PublishFails(p) ==
    /\ at[p] = "protecting"
    /\ Legacy(seen[p].rows) /\ ~MayMigrate(p)
    /\ Take(p, cache.rows, cache.version, TRUE)
    /\ lock' = Nobody
    /\ UNCHANGED <<db, up, cache, saving, history, saved>>

-----------------------------------------------------------------------------
(* A request.                                                              *)

Request(r) ==
    /\ Begin(r, [since |-> saved])
    /\ UNCHANGED <<db, up, cache, lock, saving, history, saved>>

Direct == <<>>
Blocked == <<"blocked">>

(* The route a policy asks for: a proxy, none or an error.                 *)
Route(policy) ==
    CASE policy.on /\ policy.host # NoHost -> <<policy.host, policy.auth>>
      [] ~policy.on /\ ~policy.required -> Direct
      [] OTHER -> Blocked

\* mutant: an unreadable policy is an empty one
RouteOfAnySnapshot(c) == Route(Effective(c.rows))

(* UpstreamHTTPClient: without a readable policy nothing goes out unless   *)
(* the last snapshot sends it through a proxy.                             *)
RouteOf(c) ==
    IF c.failed /\ (c.version = 0 \/ ~Effective(c.rows).on) THEN Blocked
    ELSE Route(Effective(c.rows))

(* The policy decides. The HTTP client that is kept is used when it was    *)
(* made for the same proxy, and replaced otherwise.                        *)
Send(r) ==
    /\ r \in Senders /\ at[r] = "deciding"
    /\ result' = [result EXCEPT ![r] = RouteOf(seen[r])]
    /\ Proceed(r, "sent")
    /\ UNCHANGED <<db, up, cache, lock, saving, call, seen, history, saved>>

Done(r) ==
    /\ at[r] = "sent"
    /\ Leave(r)
    /\ UNCHANGED <<db, up, cache, lock, history, saved>>

-----------------------------------------------------------------------------
(* Saves and imports.                                                      *)

(* UpdateGatewayProxyConfig takes global.Lock and reads the policy.        *)
Save(s, input) ==
    /\ saving = Nobody /\ saving' = s
    /\ Begin(s, [input |-> input, import |-> FALSE])
    /\ UNCHANGED <<db, up, cache, lock, history, saved>>

(* ExportCore: the rows as they are stored, over the settings of the file; *)
(* a backup holds the policy of the time when it was made.                 *)
Backups == {history[i] : i \in 1 .. Version}

(* ImportCore does the same with the policy of a backup.                   *)
Import(s) ==
    /\ saving = Nobody /\ saving' = s
    /\ \E b \in Backups :
          Begin(s, [import |-> TRUE,
                    input |-> [on |-> b.on, required |-> IF b.required THEN "yes" ELSE "no",
                               host |-> b.host, auth |-> IF b.auth = NoAuth THEN "keep" ELSE "new"]])
    /\ UNCHANGED <<db, up, cache, lock, history, saved>>

(* The policy that an input completes: the current one, which is the file  *)
(* when no snapshot could be read. An import restores its own credentials, *)
(* never those of its destination.                                         *)
Current(s) ==
    IF call[s].import
    THEN [Effective(seen[s].rows) EXCEPT !.host = NoHost, !.auth = NoAuth]
    ELSE Effective(seen[s].rows)

\* mutant: what was saved for a proxy is kept whatever the new one is
AuthsOfAnyHost(input, current) ==
    {a \in Hosts \cup {NoAuth} :
        \/ input.auth = "new" /\ a = input.host
        \/ input.auth = "keep" /\ a = current.auth
        \/ a = NoAuth /\ (input.auth = "clear" \/ input.host = NoHost)}

(* resolveProxyCredentials: credentials are kept for the same proxy only;  *)
(* a new proxy needs new ones or an explicit request to clear them.        *)
Auths(input, current) ==
    {a \in Hosts \cup {NoAuth} :
        \/ input.host = NoHost /\ input.auth # "new" /\ a = NoAuth
        \/ /\ input.host # NoHost
           /\ \/ input.auth = "new" /\ a = input.host
              \/ input.auth = "clear" /\ a = NoAuth
              \/ input.auth = "keep" /\ a = current.auth
                    /\ (current.auth = NoAuth \/ current.host = input.host)}

(* normalizeGatewayProxyConfig: the policies an input may become, if any.  *)
Normalized(input, current) ==
    {p \in Policies :
        /\ p.on = input.on
        /\ p.required = IF input.required = "keep" THEN current.required
                        ELSE input.required = "yes"
        /\ p.host = input.host
        /\ p.auth \in Auths(input, current)
        /\ p.required => p.on
        /\ p.on => p.host # NoHost}

Normalize(s) ==
    /\ s \in Savers /\ at[s] = "deciding"
    /\ \E p \in Normalized(call[s].input, Current(s)) :
          result' = [result EXCEPT ![s] = p]
    /\ Proceed(s, "committing")
    /\ UNCHANGED <<db, up, cache, lock, saving, call, seen, history, saved>>

(* The input is refused, or the database is down.                          *)
Refuse(s) ==
    /\ \/ s \in Savers /\ at[s] = "deciding"
            /\ Normalized(call[s].input, Current(s)) = {}
       \/ at[s] = "committing" /\ ~up
    /\ Leave(s)
    /\ UNCHANGED <<db, up, cache, lock, history, saved>>

Store(p) ==
    /\ up /\ Version < MaxVersions
    /\ db' = [flags |-> [on |-> p.on, required |-> p.required], url |-> Sealed(p, TRUE)]
    /\ history' = Append(history, p)

(* SetValues and ImportCore commit all the rows in one transaction.        *)
Commit(s) ==
    /\ at[s] = "committing"
    /\ Store(result[s])
    /\ result' = [result EXCEPT ![s] = Version + 1]
    /\ Proceed(s, "invalidating")
    /\ UNCHANGED <<up, cache, lock, saving, call, seen, saved>>

(* invalidateSystemConfigCache: the next reader reads the rows.            *)
CacheDropped == [cache EXCEPT !.fresh = FALSE]

(* The cache is invalidated, which waits for its lock, and the call ends.  *)
Invalidate(s) ==
    /\ at[s] = "invalidating" /\ lock = Nobody
    /\ cache' = CacheDropped
    /\ saved' = result[s]
    /\ Leave(s)
    /\ UNCHANGED <<db, up, lock, history>>

-----------------------------------------------------------------------------
(* Another instance saves; time; failures.                                 *)

SaveElsewhere ==
    /\ \E input \in Inputs : \E p \in Normalized(input, Effective(db)) : Store(p)
    /\ UNCHANGED <<up, cache, lock, saving, readers, saved>>

CacheExpires ==
    /\ cache.fresh
    /\ cache' = CacheDropped
    /\ UNCHANGED <<db, up, lock, saving, readers, history, saved>>

Outage ==
    /\ up' = ~up
    /\ UNCHANGED <<db, cache, lock, saving, readers, history, saved>>

(* The process dies and starts again.                                      *)
Restart ==
    /\ cache' = Unloaded
    /\ lock' = Nobody /\ saving' = Nobody
    /\ at' = [p \in Readers |-> "idle"]
    /\ call' = [p \in Readers |-> <<>>]
    /\ seen' = [p \in Readers |-> <<>>]
    /\ result' = [p \in Readers |-> <<>>]
    /\ UNCHANGED <<db, up, history, saved>>

PolicyNext ==
    \/ \E p \in Readers : \/ Cached(p) \/ FindRows(p) \/ LastSnapshot(p)
                          \/ Publish(p) \/ PublishFails(p)
    \/ \E r \in Senders : Request(r) \/ Send(r) \/ Done(r)
    \/ \E s \in Savers :
          \/ \E input \in Inputs : Save(s, input)
          \/ Import(s) \/ Normalize(s) \/ Refuse(s) \/ Commit(s) \/ Invalidate(s)
    \/ SaveElsewhere \/ CacheExpires \/ Outage \/ Restart

PolicySpec == PolicyInit /\ [][PolicyNext]_policyVars

-----------------------------------------------------------------------------

PolicyTypeOK ==
    /\ Effective(db) \in Policies
    /\ Effective(cache.rows) \in Policies
    /\ lock \in Readers \cup {Nobody}
    /\ saving \in Savers \cup {Nobody}
    /\ saved \in 1 .. Version
    /\ \A i \in 2 .. Version : history[i].required => history[i].on

(* A save that has returned is obeyed by every request that starts after   *)
(* it, whatever is cached: it goes where that policy or a later one sends  *)
(* it. When the policy cannot be read it is blocked or goes through the    *)
(* proxy of the last snapshot, and never directly.                         *)
SavedIsObeyed ==
    \A r \in Senders : at[r] = "sent" =>
        \/ result[r] = Blocked
        \/ \E i \in call[r].since .. Version : result[r] = Route(history[i])
        \/ seen[r].failed /\ result[r] # Direct

(* The comment on resolveProxyCredentials: credentials that were supplied  *)
(* for one proxy are never stored for, backed up with or sent to another.  *)
AuthStaysHome ==
    /\ Effective(db).auth \in {NoAuth, Effective(db).host}
    /\ \A r \in Senders : at[r] = "sent" /\ Len(result[r]) = 2 =>
          result[r][2] \in {NoAuth, result[r][1]}

(* The comment on protectProxySnapshot: the migration of credentials       *)
(* cannot overwrite a concurrent update, and no snapshot is published with *)
(* credentials in the clear.                                               *)
MigrationKeepsPolicy ==
    [][\A p \in Readers : at[p] = "protecting" /\ at'[p] = "deciding" =>
           Effective(db') = Effective(db) /\ (cache'.fresh => ~Legacy(cache'.rows))]_policyVars

=============================================================================
