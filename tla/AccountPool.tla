----------------------------- MODULE AccountPool ------------------------------
(***************************************************************************)
(* The accounts of one ChatGPT account id and how an account file gets     *)
(* into the pool (upsertOfficialAccount of services/account_service): the  *)
(* row of the same user is looked for, and a second statement updates it   *)
(* or creates one. Logins (OAuthSession) and files that are imported do    *)
(* this side by side.                                                      *)
(*                                                                         *)
(* A file is its user and whether its tokens name the user (the subject of *)
(* the claims). The columns that are only copied are left out, deleting an *)
(* account is left to ModelCatalog.                                        *)
(***************************************************************************)
EXTENDS Integers, Sequences, FiniteSets, FiniteSetsExt

CONSTANTS
    Users,          \* the people who share the ChatGPT account id
    Mail,           \* Mail[u]: their e-mail
    Legacy,         \* the accounts there may be from before subjects were
    Imports,        \* calls of ImportFile, Import and AddManual
    Batches         \* the files such a call may have

ASSUME MailAssumption == \A u, v \in Users : Mail[u] = Mail[v] => u = v
ASSUME FilesAssumption ==
    /\ Legacy \subseteq Seq(Users)
    /\ Batches \subseteq Seq([user : Users, named : BOOLEAN])
    /\ "nobody" \notin Users

VARIABLES
    rows,           \* the accounts in the order of their ids
    import          \* import[i]: the files left of i, the row found for the next

poolVars == <<rows, import>>

Nobody == "nobody"
Create == 0
Searching == -1

(* A row; by and users are history: "id" after a file without a subject    *)
(* was written to it, "user" before, and whose tokens have been in it.     *)
Row(subject, u, by) ==
    [subject |-> subject, mail |-> Mail[u], users |-> {u}, by |-> by]

PoolInit ==
    /\ \E owners \in Legacy : rows = [i \in DOMAIN owners |-> Row(Nobody, owners[i], "user")]
    /\ import \in [Imports -> [left : Batches, match : {Searching}]]

Subject(file) == IF file.named THEN file.user ELSE Nobody
RowsOf(subject) == {i \in DOMAIN rows : rows[i].subject = subject}
FirstOf(found) == IF found = {} THEN Create ELSE Min(found)

\* mutant: the only account without a subject is taken for the user's
LegacyOfAnyMail(file) ==
    IF Cardinality(RowsOf(Nobody)) = 1 THEN RowsOf(Nobody) ELSE {}

(* An account without a subject is the user's when it is the only one and  *)
(* has the user's e-mail.                                                  *)
LegacyOf(file) ==
    IF Cardinality(RowsOf(Nobody)) = 1
    THEN {i \in RowsOf(Nobody) : rows[i].mail = Mail[file.user]}
    ELSE {}

(* What upsertOfficialAccount finds; a file that names no subject takes    *)
(* the first account of the id.                                            *)
Found(file) ==
    IF ~file.named THEN FirstOf(DOMAIN rows)
    ELSE IF RowsOf(file.user) # {} THEN FirstOf(RowsOf(file.user))
    ELSE FirstOf(LegacyOf(file))

(* The row that is found gets the tokens and e-mail of the file, and its   *)
(* subject if it names one.                                                *)
Updated(row, file) ==
    [subject |-> IF file.named THEN file.user ELSE row.subject,
     mail |-> Mail[file.user],
     users |-> row.users \cup {file.user},
     by |-> IF file.named THEN row.by ELSE "id"]

Written(match, file) ==
    IF match = Create THEN Append(rows, Row(Subject(file), file.user, IF file.named THEN "user" ELSE "id"))
    ELSE [rows EXCEPT ![match] = Updated(@, file)]

-----------------------------------------------------------------------------

FindImported(i) ==
    /\ import[i].left # <<>> /\ import[i].match = Searching
    /\ import' = [import EXCEPT ![i].match = Found(Head(import[i].left))]
    /\ UNCHANGED rows

(* The next file of the batch.                                             *)
NextFile(i) == import' = [import EXCEPT ![i] = [left |-> Tail(@.left), match |-> Searching]]

WriteImported(i) ==
    /\ import[i].match # Searching
    /\ rows' = Written(import[i].match, Head(import[i].left))
    /\ NextFile(i)

(* A file that is not valid, or a statement that fails, fails alone.       *)
ImportFails(i) ==
    /\ import[i].left # <<>>
    /\ NextFile(i)
    /\ UNCHANGED rows

(* A token refresh stores the subject of the new tokens as well, which are *)
(* those of the user whose file, and so whose e-mail, the row got last. It *)
(* does not look whether that user has another account.                    *)
Refresh(i) ==
    /\ \E u \in Users \ {rows[i].subject} :
          Mail[u] = rows[i].mail /\ rows' = [rows EXCEPT ![i].subject = u]
    /\ UNCHANGED import

PoolNext ==
    \/ \E i \in Imports : FindImported(i) \/ WriteImported(i) \/ ImportFails(i)
    \/ \E i \in DOMAIN rows : Refresh(i)

=============================================================================
