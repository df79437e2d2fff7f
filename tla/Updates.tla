------------------------------ MODULE Updates ------------------------------
(***************************************************************************)
(* System updates: updater/mender.go with the API handlers that drive it   *)
(* (api/updates.go, dispenser/update.go) and the updates bucket of the     *)
(* database.                                                               *)
(*                                                                         *)
(* StartUpdate runs in the goroutine of an API request and holds the       *)
(* atomic flag m.updating from its compare-and-swap until the goroutine    *)
(* that waits for the mender process clears it.  That goroutine and the    *)
(* one reading mender's output both notify the clients, the websocket      *)
(* write pumps, over unbuffered channels.  Nothing else is synchronised.   *)
(*                                                                         *)
(* The mender tool is external: it installs, and commits what it installed *)
(* once.  A restart of the device ends the process and mender with it, and *)
(* leaves the database and what mender installed.                          *)
(***************************************************************************)
EXTENDS Naturals

CONSTANTS
    Ids,            \* updates, one per API request that starts one
    Clients,        \* websocket connections that watch an update
    None,           \* no update, no client, no state
    ProgressBound,  \* progress lines mender prints per update
    RestartBound    \* restarts

State == {"started", "cancelled", "failed", "installed", "completed"}

ASSUME NoneAssumption == None \notin Ids \cup Clients \cup State \cup {"succeeded"}
ASSUME BoundAssumption == ProgressBound \in Nat /\ RestartBound \in Nat

VARIABLES
    updating,    \* m.updating
    update,      \* the id of m.update
    state,       \* m.update.State
    shouldReboot,\* m.shouldReboot
    request,     \* where the StartUpdate of each id is
    db,          \* the state saved of each update
    logged,      \* updates whose outcome could not be saved, by the log
    installing,  \* the update the latest mender process installs
    proc,        \* that process: "none", "running", "succeeded", "failed", or "waited" for
    waiter,      \* the goroutine waiting for it
    reader,      \* per update, the goroutine reading mender's output
    lines,       \* progress lines read of each update
    todo,        \* clients each running notifyUpdateClients has still to visit
    target,      \* the client each is blocked sending to
    watched,     \* m.clients: the update each client subscribed to
    pump,        \* where the websocket handler of each client is
    cancel,      \* CancelUpdate: "idle", or it has "killed" and not yet marked
    outcome,     \* how mender's installation of each update ended
    artifact,    \* mender's artifact: "committed" or newly "installed"
    restarts

procVars   == <<installing, proc, outcome>>
notifyVars == <<todo, target>>
clientVars == <<watched, pump>>
memVars    == <<updating, update, state, shouldReboot>>

vars == <<memVars, request, db, logged, procVars, waiter, reader, lines, notifyVars,
          clientVars, cancel, artifact, restarts>>

\* The two goroutines of an update that call notifyUpdateClients.
Notifiers == Ids \X {"progress", "outcome"}

TypeOK ==
    /\ updating \in BOOLEAN
    /\ update \in Ids \cup {None}
    /\ state \in State \cup {None}
    /\ shouldReboot \in BOOLEAN
    /\ request \in [Ids -> {"idle", "claimed", "created", "saved", "returned", "lost"}]
    /\ db \in [Ids -> State \cup {None}]
    /\ logged \in SUBSET Ids
    /\ installing \in Ids \cup {None}
    /\ proc \in {"none", "running", "succeeded", "failed", "waited"}
    /\ waiter \in {"none", "wait", "save", "notify"}
    /\ reader \in [Ids -> {"none", "reading", "notify"}]
    /\ lines \in [Ids -> 0..ProgressBound]
    /\ todo \in [Notifiers -> SUBSET Clients]
    /\ target \in [Notifiers -> Clients \cup {None}]
    /\ watched \in [Clients -> Ids \cup {None}]
    /\ pump \in [Clients -> {"none", "upgrading", "select", "writing", "gone"}]
    /\ cancel \in {"idle", "killed"}
    /\ outcome \in [Ids -> {None, "succeeded", "failed"}]
    /\ artifact \in {"committed", "installed"}
    /\ restarts \in 0..RestartBound

\* NewMenderUpdater, on a committed system with an empty updates bucket.
Init ==
    /\ updating = FALSE
    /\ update = None
    /\ state = None
    /\ shouldReboot = FALSE
    /\ request = [i \in Ids |-> "idle"]
    /\ db = [i \in Ids |-> None]
    /\ logged = {}
    /\ installing = None
    /\ proc = "none"
    /\ waiter = "none"
    /\ reader = [i \in Ids |-> "none"]
    /\ lines = [i \in Ids |-> 0]
    /\ todo = [n \in Notifiers |-> {}]
    /\ target = [n \in Notifiers |-> None]
    /\ watched = [c \in Clients |-> None]
    /\ pump = [c \in Clients |-> "none"]
    /\ cancel = "idle"
    /\ outcome = [i \in Ids |-> None]
    /\ artifact = "committed"
    /\ restarts = 0

Subscribed == {c \in Clients : watched[c] # None}

(***************************************************************************)
(* StartUpdate                                                             *)
(***************************************************************************)
RequestMoves(i, from, to) ==
    /\ request[i] = from
    /\ request' = [request EXCEPT ![i] = to]

\* Mutant of Claim: the flag is looked at, and set only when the update is created.
ClaimWithoutSwap(i) ==
    /\ RequestMoves(i, "idle", "claimed")
    /\ ~updating
    /\ UNCHANGED <<memVars, db, logged, procVars, waiter, reader, lines, notifyVars, clientVars,
                   cancel, artifact, restarts>>

\* Compare-and-swap; a request that finds the flag set is refused and changes nothing.
Claim(i) ==
    /\ RequestMoves(i, "idle", "claimed")
    /\ ~updating
    /\ updating' = TRUE
    /\ UNCHANGED <<update, state, shouldReboot, db, logged, procVars, waiter, reader, lines,
                   notifyVars, clientVars, cancel, artifact, restarts>>

Create(i) ==
    /\ RequestMoves(i, "claimed", "created")
    /\ update' = i
    /\ state' = "started"
    /\ UNCHANGED <<updating, shouldReboot, db, logged, procVars, waiter, reader, lines,
                   notifyVars, clientVars, cancel, artifact, restarts>>

SaveStarted(i) ==
    /\ RequestMoves(i, "created", "saved")
    /\ db' = [db EXCEPT ![i] = state]
    /\ UNCHANGED <<memVars, logged, procVars, waiter, reader, lines, notifyVars, clientVars,
                   cancel, artifact, restarts>>

\* No uuid, the entry not saved, or no output pipe: StartUpdate returns the error
\* and leaves the flag set.
StartFails(i) ==
    /\ \E from \in {"claimed", "created", "saved"} : RequestMoves(i, from, "returned")
    /\ UNCHANGED <<memVars, db, logged, procVars, waiter, reader, lines, notifyVars, clientVars,
                   cancel, artifact, restarts>>

\* The mender process cannot be started: the failure is recorded, the flag left set.
LaunchFails(i) ==
    /\ RequestMoves(i, "saved", "returned")
    /\ state' = "failed"
    /\ \/ db' = [db EXCEPT ![i] = "failed"] /\ UNCHANGED logged
       \/ logged' = logged \cup {i} /\ UNCHANGED db
    /\ UNCHANGED <<updating, update, shouldReboot, procVars, waiter, reader, lines, notifyVars,
                   clientVars, cancel, artifact, restarts>>

Launch(i) ==
    /\ RequestMoves(i, "saved", "returned")
    /\ installing' = i
    /\ proc' = "running"
    /\ waiter' = "wait"
    /\ reader' = [reader EXCEPT ![i] = "reading"]
    /\ UNCHANGED <<memVars, db, logged, outcome, lines, notifyVars, clientVars, cancel,
                   artifact, restarts>>

StartStep(i) ==
    \/ Claim(i) \/ Create(i) \/ SaveStarted(i)
    \/ StartFails(i) \/ LaunchFails(i) \/ Launch(i)

(***************************************************************************)
(* The mender process and the goroutine waiting for it                     *)
(***************************************************************************)
MenderEnds ==
    /\ proc = "running"
    /\ \/ proc' = "succeeded" /\ artifact' = "installed"
       \/ proc' = "failed" /\ UNCHANGED artifact
    /\ outcome' = [outcome EXCEPT ![installing] = proc']
    /\ UNCHANGED <<memVars, request, db, logged, installing, waiter, reader, lines, notifyVars,
                   clientVars, cancel, restarts>>

\* Mutant of WaitReturns: the state is called what the process result is called.
WaitReturnsRaw ==
    /\ waiter = "wait"
    /\ proc \in {"succeeded", "failed"}
    /\ proc' = "waited"
    /\ waiter' = "save"
    /\ state' = proc
    /\ UNCHANGED <<updating, update, shouldReboot, request, db, logged, installing, outcome, reader,
                   lines, notifyVars, clientVars, cancel, artifact, restarts>>

\* Mutant of WaitReturns: the error of Wait is not looked at.
WaitReturnsInstalled ==
    /\ waiter = "wait"
    /\ proc \in {"succeeded", "failed"}
    /\ proc' = "waited"
    /\ waiter' = "save"
    /\ state' = "installed"
    /\ shouldReboot' = TRUE
    /\ UNCHANGED <<updating, update, request, db, logged, installing, outcome, reader, lines,
                   notifyVars, clientVars, cancel, artifact, restarts>>

\* Mutant of WaitReturns: the flag is released before the outcome is saved.
WaitReturnsReleasing ==
    /\ waiter = "wait"
    /\ proc \in {"succeeded", "failed"}
    /\ proc' = "waited"
    /\ waiter' = "save"
    /\ updating' = FALSE
    /\ state' = IF proc = "succeeded" THEN "installed" ELSE "failed"
    /\ UNCHANGED <<update, shouldReboot, request, db, logged, installing, outcome, reader, lines,
                   notifyVars, clientVars, cancel, artifact, restarts>>

WaitReturns ==
    /\ waiter = "wait"
    /\ proc \in {"succeeded", "failed"}
    /\ proc' = "waited"
    /\ waiter' = "save"
    /\ IF proc = "succeeded"
       THEN state' = "installed" /\ shouldReboot' = TRUE
       ELSE state' = "failed" /\ UNCHANGED shouldReboot
    /\ UNCHANGED <<updating, update, request, db, logged, installing, outcome, reader, lines,
                   notifyVars, clientVars, cancel, artifact, restarts>>

\* notifyUpdateClients begins to range over m.clients.
BeginNotify(n) == todo' = [todo EXCEPT ![n] = Subscribed] /\ UNCHANGED target

SaveOutcome ==
    /\ waiter = "save"
    /\ waiter' = "notify"
    /\ \/ db' = [db EXCEPT ![update] = state] /\ UNCHANGED logged
       \/ logged' = logged \cup {update} /\ UNCHANGED db
    /\ BeginNotify(<<installing, "outcome">>)
    /\ UNCHANGED <<memVars, request, procVars, reader, lines, clientVars, cancel, artifact,
                   restarts>>

\* The range over m.clients has ended.
Notified(n) == todo[n] = {} /\ target[n] = None

Release ==
    /\ waiter = "notify"
    /\ Notified(<<installing, "outcome">>)
    /\ waiter' = "none"
    /\ updating' = FALSE
    /\ UNCHANGED <<update, state, shouldReboot, request, db, logged, procVars, reader, lines,
                   notifyVars, clientVars, cancel, artifact, restarts>>

(***************************************************************************)
(* Progress and notifications                                              *)
(***************************************************************************)
\* The scanner's buffer may hold lines of a process that has ended by now.
ReadProgress(i) ==
    /\ reader[i] = "reading"
    /\ lines[i] < ProgressBound
    /\ lines' = [lines EXCEPT ![i] = @ + 1]
    /\ reader' = [reader EXCEPT ![i] = "notify"]
    /\ BeginNotify(<<i, "progress">>)
    /\ UNCHANGED <<memVars, request, db, logged, procVars, waiter, clientVars, cancel,
                   artifact, restarts>>

\* A notification round is over, or mender's output is.
ReaderMoves(i) ==
    /\ \/ /\ reader[i] = "notify"
          /\ Notified(<<i, "progress">>)
          /\ reader' = [reader EXCEPT ![i] = "reading"]
       \/ /\ reader[i] = "reading"
          /\ installing # i \/ proc \in {"succeeded", "failed", "waited"}
          /\ reader' = [reader EXCEPT ![i] = "none"]
    /\ UNCHANGED <<memVars, request, db, logged, procVars, waiter, lines, notifyVars,
                   clientVars, cancel, artifact, restarts>>

\* The range reaches client c, which it skips when it has unsubscribed or watches
\* another update; otherwise the goroutine blocks sending to it.
Visit(n, c) ==
    /\ c \in todo[n]
    /\ target[n] = None
    /\ todo' = [todo EXCEPT ![n] = @ \ {c}]
    /\ target' = [target EXCEPT ![n] = IF watched[c] = update THEN c ELSE None]
    /\ UNCHANGED <<memVars, request, db, logged, procVars, waiter, reader, lines, clientVars,
                   cancel, artifact, restarts>>

\* Mutant of Deliver: the goroutine that sent goes on waiting for the client.
DeliverTwice(n, c) ==
    /\ target[n] = c
    /\ pump[c] = "select"
    /\ pump' = [pump EXCEPT ![c] = "writing"]
    /\ UNCHANGED <<memVars, request, db, logged, procVars, waiter, reader, lines, notifyVars,
                   watched, cancel, artifact, restarts>>

\* The write pump receives the update and writes it to its connection.
Deliver(n, c) ==
    /\ target[n] = c
    /\ pump[c] = "select"
    /\ target' = [target EXCEPT ![n] = None]
    /\ pump' = [pump EXCEPT ![c] = "writing"]
    /\ UNCHANGED <<memVars, request, db, logged, procVars, waiter, reader, lines, todo, watched,
                   cancel, artifact, restarts>>

(***************************************************************************)
(* The websocket handlers, handleGetUpdateEvents                           *)
(***************************************************************************)
\* SubscribeUpdate of the current update.  A range in progress may or may not
\* still come by the new entry.
Subscribe(c) ==
    /\ pump[c] = "none"
    /\ update # None
    /\ watched' = [watched EXCEPT ![c] = update]
    /\ pump' = [pump EXCEPT ![c] = "upgrading"]
    /\ \E seen \in SUBSET {n \in Notifiers : todo[n] # {}} :
          todo' = [n \in Notifiers |-> IF n \in seen THEN todo[n] \cup {c} ELSE todo[n]]
    /\ UNCHANGED <<memVars, request, db, logged, procVars, waiter, reader, lines, target,
                   cancel, artifact, restarts>>

\* The connection is upgraded, or an update or a ping has been written to it.
PumpReady(c) ==
    /\ pump[c] \in {"upgrading", "writing"}
    /\ pump' = [pump EXCEPT ![c] = "select"]
    /\ UNCHANGED <<memVars, request, db, logged, procVars, waiter, reader, lines, notifyVars,
                   watched, cancel, artifact, restarts>>

\* The upgrade, a write or a ping fails: the client unsubscribes and nobody
\* receives from its channel any more.
PumpLeaves(c) ==
    /\ pump[c] \in {"upgrading", "select", "writing"}
    /\ pump' = [pump EXCEPT ![c] = "gone"]
    /\ watched' = [watched EXCEPT ![c] = None]
    /\ UNCHANGED <<memVars, request, db, logged, procVars, waiter, reader, lines, notifyVars,
                   cancel, artifact, restarts>>

(***************************************************************************)
(* CancelUpdate, CommitUpdate and RejectUpdate                             *)
(***************************************************************************)
\* The id is not looked at.  Kill succeeds until the process has been waited for,
\* and changes nothing about one that has already exited.
CancelKill ==
    /\ cancel = "idle"
    /\ updating
    /\ proc \in {"running", "succeeded", "failed"}
    /\ cancel' = "killed"
    /\ IF proc = "running"
       THEN proc' = "failed" /\ outcome' = [outcome EXCEPT ![installing] = "failed"]
       ELSE UNCHANGED <<proc, outcome>>
    /\ UNCHANGED <<memVars, request, db, logged, installing, waiter, reader, lines, notifyVars,
                   clientVars, artifact, restarts>>

CancelMark ==
    /\ cancel = "killed"
    /\ cancel' = "idle"
    /\ state' = "cancelled"
    /\ UNCHANGED <<updating, update, shouldReboot, request, db, logged, procVars, waiter, reader,
                   lines, notifyVars, clientVars, artifact, restarts>>

\* MenderUpdater.CommitUpdate: mender commits, and m.update is marked; without an
\* update the mark panics inside the API request, after the commit.
CommitUpdate ==
    /\ artifact = "installed"
    /\ artifact' = "committed"
    /\ state' = IF update = None THEN state ELSE "completed"

\* handlePatchUpdate with the state "completed" or "rejected": the dispenser's
\* RejectUpdate, too, calls CommitUpdate (dispenser/update.go:33).
Decide ==
    /\ CommitUpdate
    /\ UNCHANGED <<updating, update, shouldReboot, request, db, logged, procVars, waiter, reader,
                   lines, notifyVars, clientVars, cancel, restarts>>

(***************************************************************************)
(* Restarts                                                                *)
(***************************************************************************)
\* Power loss, a reboot to activate the update, or the panic of a write pump that
\* was started for an id SubscribeUpdate did not find (api/updates.go:148-191).
Restart ==
    /\ restarts < RestartBound
    /\ restarts' = restarts + 1
    /\ updating' = FALSE
    /\ update' = None
    /\ state' = None
    /\ shouldReboot' = FALSE
    /\ request' = [i \in Ids |-> IF request[i] = "idle" THEN "idle" ELSE "lost"]
    /\ proc' = "none"
    /\ waiter' = "none"
    /\ reader' = [i \in Ids |-> "none"]
    /\ todo' = [n \in Notifiers |-> {}]
    /\ target' = [n \in Notifiers |-> None]
    /\ watched' = [c \in Clients |-> None]
    /\ pump' = [c \in Clients |-> "none"]
    /\ cancel' = "idle"
    /\ UNCHANGED <<db, logged, installing, outcome, lines, artifact>>

(***************************************************************************)
(* The specification                                                       *)
(***************************************************************************)
WaiterStep == WaitReturns \/ SaveOutcome \/ Release

NotifyStep(n) == \E c \in Clients : Visit(n, c) \/ Deliver(n, c)

ClientStep(c) == Subscribe(c) \/ PumpReady(c) \/ PumpLeaves(c)

Next ==
    \/ \E i \in Ids : StartStep(i) \/ ReadProgress(i) \/ ReaderMoves(i)
    \/ MenderEnds
    \/ WaiterStep
    \/ \E n \in Notifiers : NotifyStep(n)
    \/ \E c \in Clients : ClientStep(c)
    \/ CancelKill \/ CancelMark
    \/ Decide
    \/ Restart

Spec == Init /\ [][Next]_vars

(***************************************************************************)
(* Fairness: a goroutine that can run does.  A client reads what it is     *)
(* sent or leaves; mender, the operator and restarts are the environment.  *)
(***************************************************************************)
Fairness ==
    /\ \A i \in Ids : WF_vars(StartStep(i) /\ request[i] # "idle") /\ WF_vars(ReaderMoves(i))
    /\ WF_vars(WaiterStep)
    /\ \A n \in Notifiers : WF_vars(NotifyStep(n))
    /\ \A c \in Clients : WF_vars(PumpReady(c) \/ (PumpLeaves(c) /\ pump[c] # "select"))

FairSpec == Spec /\ Fairness

(***************************************************************************)
(* Properties                                                              *)
(***************************************************************************)
\* While a mender process is there to be waited for, m.update is the update it
\* installs, the flag is set and no other StartUpdate is under way, so outcomes are
\* recorded for the right update and never two installations run (mender.go:113).
OneInstallation ==
    proc \in {"running", "succeeded", "failed"} \/ waiter # "none" =>
        /\ updating
        /\ update = installing
        /\ \A i \in Ids : request[i] \notin {"claimed", "created", "saved"}

\* An update is called installed, in memory or in the database, only if mender did
\* install it, whatever cancellations, commits and restarts come in between.
InstalledIsTrue ==
    /\ state = "installed" => outcome[update] = "succeeded"
    /\ \A i \in Ids : db[i] = "installed" => outcome[i] = "succeeded"

\* Once the flag is released, the database no longer calls the update started, unless the
\* log says that saving its outcome failed.  What a restart has interrupted is left out:
\* nobody saves its outcome (mender.go:209-221).
OutcomeSaved ==
    \A i \in Ids :
        request[i] = "returned" /\ outcome[i] # None /\ (~updating \/ installing # i)
            => db[i] \notin {None, "started"} \/ i \in logged

\* The update at work, and how far each has come, as Installer counts it.
Turn == {i \in Ids : \/ request[i] \in {"claimed", "created", "saved"}
                     \/ waiter # "none" /\ installing = i}

Stage(i) ==
    IF outcome[i] # None THEN outcome[i]
    ELSE IF request[i] = "idle" THEN "new"
    ELSE IF request[i] \in {"claimed", "created", "saved"} THEN "begun"
    ELSE IF proc = "running" /\ installing = i THEN "running"
    ELSE "over"

L == INSTANCE Installer WITH
        Updates <- Ids,
        locked <- updating,
        turn <- Turn,
        stage <- [i \in Ids |-> Stage(i)],
        record <- db,
        excused <- logged

\* Updates take turns: none is installed twice or while another is, only the one whose
\* turn it is has its record written, the turn passes on with the outcome recorded or
\* logged, and what has been recorded as installed or failed stays, whatever requests,
\* cancellations and restarts come in between (mender.go:113-222).
UpdatesTakeTurns == L!Spec

\* When an installation has ended the flag is released, unless one notification
\* waits for a client that has left (mender.go:219-221, 264-270).
ReleasedUnlessClientGone ==
    waiter = "save" ~> \/ waiter = "none"
                       \/ \E c \in Clients : pump[c] = "gone" /\ target[<<installing, "outcome">>] = c
=============================================================================
