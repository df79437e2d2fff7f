------------------------------ MODULE Installer ------------------------------
(***************************************************************************)
(* What the updater promises: installations take turns, each runs at most  *)
(* once, and the turn passes on only when the outcome is on record or in   *)
(* the log.  Only whose turn it is writes a record, an installed one only  *)
(* of an installation that succeeded, and no final one is written over.  A *)
(* start that fails keeps the turn until the device is restarted.          *)
(***************************************************************************)
CONSTANTS Updates, None

VARIABLES
    locked,    \* no update may begin
    turn,      \* the update whose turn it is
    stage,     \* of each update: "new", "begun", "running", "succeeded", "failed", "over"
    record,    \* the state on record of each update
    excused,   \* updates whose outcome the log says is not on record
    artifact   \* what mender installed is "committed" or only "installed"

vars == <<locked, turn, stage, record, excused, artifact>>

Ended == {"succeeded", "failed"}
Final == {"installed", "failed"}

Init ==
    /\ locked = FALSE
    /\ turn = {}
    /\ stage = [i \in Updates |-> "new"]
    /\ record = [i \in Updates |-> None]
    /\ excused = {}
    /\ artifact = "committed"

Advance(i, from, to) ==
    /\ stage[i] = from
    /\ stage' = [stage EXCEPT ![i] = to]

Write(i, s) == record' = [record EXCEPT ![i] = s]

Begin(i) ==
    /\ ~locked
    /\ Advance(i, "new", "begun")
    /\ locked' = TRUE
    /\ turn' = {i}
    /\ UNCHANGED <<record, excused, artifact>>

\* A decision about an earlier update may come before the first record of this one.
Announce(i) ==
    /\ turn = {i}
    /\ stage[i] = "begun"
    /\ \E s \in {"started", "cancelled", "completed"} : Write(i, s)
    /\ UNCHANGED <<locked, turn, stage, excused, artifact>>

\* The installer stays locked.
GiveUp(i) ==
    /\ turn = {i}
    /\ Advance(i, "begun", "over")
    /\ turn' = {}
    /\ \/ UNCHANGED <<record, excused>>
       \/ Write(i, "failed") /\ UNCHANGED excused
       \/ excused' = excused \cup {i} /\ UNCHANGED record
    /\ UNCHANGED <<locked, artifact>>

Run(i) ==
    /\ turn = {i}
    /\ Advance(i, "begun", "running")
    /\ UNCHANGED <<locked, turn, record, excused, artifact>>

End(i) ==
    /\ turn = {i}
    /\ \/ Advance(i, "running", "succeeded") /\ artifact' = "installed"
       \/ Advance(i, "running", "failed") /\ UNCHANGED artifact
    /\ UNCHANGED <<locked, turn, record, excused>>

\* The outcome, or what was decided about the update meanwhile.
Conclude(i) ==
    /\ turn = {i}
    /\ stage[i] \in Ended
    /\ record[i] \notin Final
    /\ \/ /\ \E s \in {"cancelled", "completed",
                       IF stage[i] = "succeeded" THEN "installed" ELSE "failed"} : Write(i, s)
          /\ UNCHANGED excused
       \/ excused' = excused \cup {i} /\ UNCHANGED record
    /\ UNCHANGED <<locked, turn, stage, artifact>>

Release(i) ==
    /\ turn = {i}
    /\ stage[i] \in Ended
    /\ record[i] \notin {None, "started"} \/ i \in excused
    /\ locked' = FALSE
    /\ turn' = {}
    /\ UNCHANGED <<stage, record, excused, artifact>>

Commit ==
    /\ artifact = "installed"
    /\ artifact' = "committed"
    /\ UNCHANGED <<locked, turn, stage, record, excused>>

\* What is under way is over; what has ended has.
Restart ==
    /\ locked' = FALSE
    /\ turn' = {}
    /\ stage' = [i \in Updates |-> IF stage[i] \in {"begun", "running"} THEN "over" ELSE stage[i]]
    /\ UNCHANGED <<record, excused, artifact>>

Next ==
    \/ \E i \in Updates : \/ Begin(i) \/ Announce(i) \/ GiveUp(i)
                          \/ Run(i) \/ End(i) \/ Conclude(i) \/ Release(i)
    \/ Commit
    \/ Restart

Spec == Init /\ [][Next]_vars
=============================================================================
