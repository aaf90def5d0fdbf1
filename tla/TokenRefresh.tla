----------------------------- MODULE TokenRefresh -----------------------------
(***************************************************************************)
(* The OAuth file of one account (ActiveAccountFile, persistAccountFile    *)
(* and RefreshUsage of services/account_service): callers that find the    *)
(* access token due, or were refused with it, share one flight that reads  *)
(* the file again, exchanges the refresh token and stores what it gets.    *)
(*                                                                         *)
(* A file is its generation: the upstream rotates the refresh token, so a  *)
(* successful exchange makes the next generation and only the newest one   *)
(* can be exchanged.                                                       *)
(***************************************************************************)
EXTENDS Integers, FiniteSets

CONSTANTS
    Requests,       \* calls that only use the file (Do, Stream, ...)
    Sweeps,         \* RefreshUsage calls, which write the file back
    MaxGen          \* bound on the generations

Callers == Requests \cup Sweeps

ASSUME CallersAssumption == Requests \cap Sweeps = {}
ASSUME MaxGenAssumption == MaxGen \in Nat

VARIABLES
    stored,         \* the generation in the account row
    issued,         \* upstream: the newest generation
    due,            \* the access tokens up to this one NeedsRefresh
    pc,             \* pc[c]: where the caller c stands
    file,           \* file[c]: the generation c holds
    force,          \* force[c]: c was refused and forces the refresh
    phase,          \* the flight: "none", "reading", "calling", "answered"
    forced,         \* the leader's argument force
    held,           \* the generation of currentFile
    unsaved,        \* history: an exchange succeeded and was not stored
    overwritten     \* history: a sweep stored an older generation

callers == <<pc, file, force>>
flight == <<phase, forced, held>>
vars == <<stored, issued, due, callers, flight, unsaved, overwritten>>

NeedsRefresh(g) == g <= due

Waiting == {c \in Callers : pc[c] = "waiting"}

Goto(c, stage) == pc' = [pc EXCEPT ![c] = stage]

Init ==
    /\ stored = 0 /\ issued = 0 /\ due = -1
    /\ pc = [c \in Callers |-> "idle"]
    /\ file = [c \in Callers |-> 0]
    /\ force = [c \in Callers |-> FALSE]
    /\ phase = "none" /\ forced = FALSE /\ held = 0
    /\ unsaved = FALSE /\ overwritten = FALSE

(* The caller has the account row, and with it the file.                   *)
Load(c) ==
    /\ pc[c] = "idle"
    /\ file' = [file EXCEPT ![c] = stored]
    /\ force' = [force EXCEPT ![c] = FALSE]
    /\ Goto(c, "asking")
    /\ UNCHANGED <<stored, issued, due, flight, unsaved, overwritten>>

(* ActiveAccountFile returns the file it was called with.                  *)
UseAsIs(c) ==
    /\ pc[c] = "asking"
    /\ ~force[c] /\ ~NeedsRefresh(file[c])
    /\ Goto(c, "using")
    /\ UNCHANGED <<stored, issued, due, file, force, flight, unsaved, overwritten>>

(* accountTokenRefreshGroup.Do: lead a flight or wait for the one there is.*)
Join(c) ==
    /\ pc[c] = "asking"
    /\ force[c] \/ NeedsRefresh(file[c])
    /\ Goto(c, "waiting")
    /\ IF phase = "none"
       THEN phase' = "reading" /\ forced' = force[c]
       ELSE UNCHANGED <<phase, forced>>
    /\ UNCHANGED <<stored, issued, due, file, force, held, unsaved, overwritten>>

(* The flight lands: everybody who waits gets the file g.                  *)
Land(g) ==
    /\ phase' = "none"
    /\ pc' = [c \in Callers |-> IF c \in Waiting THEN "using" ELSE pc[c]]
    /\ file' = [c \in Callers |-> IF c \in Waiting THEN g ELSE file[c]]

(* The flight reads the row again; somebody may have refreshed already.    *)
Reread ==
    /\ phase = "reading"
    /\ ~forced /\ ~NeedsRefresh(stored)
    /\ Land(stored)
    /\ UNCHANGED <<stored, issued, due, force, forced, held, unsaved, overwritten>>

StartCall ==
    /\ phase = "reading"
    /\ forced \/ NeedsRefresh(stored)
    /\ phase' = "calling"
    /\ held' = stored
    /\ UNCHANGED <<stored, issued, due, callers, forced, unsaved, overwritten>>

(* The upstream takes the newest refresh token and issues the next one.    *)
Exchange ==
    /\ phase = "calling"
    /\ held = issued
    /\ issued < MaxGen
    /\ issued' = issued + 1
    /\ held' = issued + 1
    /\ phase' = "answered"
    /\ UNCHANGED <<stored, due, callers, forced, unsaved, overwritten>>

\* mutant: the refreshed file is handed out but not stored
PersistNothing ==
    /\ phase = "answered"
    /\ Land(held)
    /\ UNCHANGED <<stored, issued, due, force, forced, held, unsaved, overwritten>>

\* mutant: the callers get the file the flight began with
PersistStale ==
    /\ phase = "answered"
    /\ Land(stored)
    /\ stored' = held
    /\ UNCHANGED <<issued, due, force, forced, held, unsaved, overwritten>>

(* ApplyTokenSet and persistAccountFile.                                   *)
Persist ==
    /\ phase = "answered"
    /\ stored' = held
    /\ Land(held)
    /\ UNCHANGED <<issued, due, force, forced, held, unsaved, overwritten>>

\* mutant: the followers are not told about a failed flight
FailSilently ==
    /\ phase # "none"
    /\ phase' = "none"
    /\ unsaved' = (unsaved \/ phase = "answered")
    /\ UNCHANGED <<stored, issued, due, callers, forced, held, overwritten>>

(* The flight fails for all of them: the row does not load, the upstream   *)
(* refuses, the leader's context ends, the answer is lost or not stored.   *)
Fail ==
    /\ phase # "none"
    /\ phase' = "none"
    /\ pc' = [c \in Callers |-> IF c \in Waiting THEN "idle" ELSE pc[c]]
    /\ unsaved' = (unsaved \/ phase = "answered")
    /\ UNCHANGED <<stored, issued, due, file, force, forced, held, overwritten>>

(* The upstream refuses the access token: ask once more, by force.         *)
Refused(c) ==
    /\ pc[c] = "using"
    /\ ~force[c]
    /\ force' = [force EXCEPT ![c] = TRUE]
    /\ Goto(c, "asking")
    /\ UNCHANGED <<stored, issued, due, file, flight, unsaved, overwritten>>

(* The call is over, well or badly.                                        *)
Finish(c) ==
    /\ pc[c] = "using"
    /\ Goto(c, "idle")
    /\ UNCHANGED <<stored, issued, due, file, force, flight, unsaved, overwritten>>

(* RefreshUsage stores the usage, and with it the file it has used.        *)
StoreUsage(c) ==
    /\ pc[c] = "using"
    /\ c \in Sweeps
    /\ stored' = file[c]
    /\ overwritten' = (overwritten \/ file[c] # stored)
    /\ Goto(c, "idle")
    /\ UNCHANGED <<issued, due, file, force, flight, unsaved>>

(* Time: the access tokens of some generations come to their end.          *)
Expire ==
    /\ \E g \in (due + 1) .. issued : due' = g
    /\ UNCHANGED <<stored, issued, callers, flight, unsaved, overwritten>>

(* The process restarts; the row stays.                                    *)
Crash ==
    /\ pc' = [c \in Callers |-> "idle"]
    /\ phase' = "none"
    /\ unsaved' = (unsaved \/ phase = "answered")
    /\ UNCHANGED <<stored, issued, due, file, force, forced, held, overwritten>>

Call(c) ==
    Load(c) \/ UseAsIs(c) \/ Join(c) \/ Refused(c) \/ Finish(c) \/ StoreUsage(c)

Fly == Reread \/ StartCall \/ Exchange \/ Persist \/ Fail

Next == (\E c \in Callers : Call(c)) \/ Fly \/ Expire \/ Crash

(* The flight goes on: its database calls return and the call upstream has *)
(* the deadline of the leader's context.                                   *)
Spec == Init /\ [][Next]_vars /\ WF_vars(Fly)

-----------------------------------------------------------------------------

Generations == 0 .. MaxGen

(* The shape of the state.                                                 *)
TypeOK ==
    /\ stored \in Generations /\ issued \in Generations
    /\ due \in -1 .. MaxGen
    /\ pc \in [Callers -> {"idle", "asking", "waiting", "using"}]
    /\ file \in [Callers -> Generations]
    /\ force \in [Callers -> BOOLEAN]
    /\ phase \in {"none", "reading", "calling", "answered"}
    /\ forced \in BOOLEAN
    /\ held \in Generations
    /\ unsaved \in BOOLEAN /\ overwritten \in BOOLEAN

Intact == ~unsaved /\ ~overwritten

(* README:35: after a rotation the refresh token is stored. Unless an      *)
(* exchange went unsaved or a sweep wrote an older file back, the row      *)
(* holds the one refresh token the upstream still takes.                   *)
RotationIsStored == Intact /\ phase # "answered" => stored = issued

(* ActiveAccountFile reads the row again inside the flight, so however     *)
(* old the files of its callers are it exchanges the newest refresh token  *)
(* and never one that was exchanged before.                                *)
NewestIsExchanged == Intact /\ phase = "calling" => held = issued

(* Nobody leaves a flight with an older file than the one it came with,    *)
(* and after a forced flight everybody has a newer one.                    *)
WaitersGetNewer ==
    [][\A c \in Callers :
          Intact /\ pc[c] = "waiting" /\ pc'[c] = "using" =>
              /\ file'[c] >= file[c]
              /\ forced => file'[c] > file[c]]_vars

(* Leader or follower, whoever waits for a flight is answered.             *)
WaitersAreAnswered ==
    \A c \in Callers : pc[c] = "waiting" ~> pc[c] # "waiting"

=============================================================================
