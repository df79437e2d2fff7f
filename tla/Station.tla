------------------------------ MODULE Station ------------------------------
(***************************************************************************)
(* What a connection promises: the networks there are when it has cleared  *)
(* the way for its own are gone for good, its own is enabled once, and     *)
(* only a wifi whose network has been enabled is kept for the next start,  *)
(* by the connection that enabled it.  One that nobody crosses ends with   *)
(* its network as the only one enabled, and keeps that or finds it kept.   *)
(* Connections that cross may remove each other's networks, and nothing    *)
(* else.                                                                   *)
(***************************************************************************)
CONSTANTS Wifis, Connectors, None

VARIABLES
    kept,      \* the wifi the next start comes back to
    enabled,   \* networks enabled: who asked for which wifi
    task,      \* the wifi each connector is to connect to
    phase,     \* how far it is: "idle", "begun", "cleared", "enabled"
    crossed    \* connectors that crossed another one

vars == <<kept, enabled, task, phase, crossed>>

Active == {c \in Connectors : phase[c] # "idle"}

Mine(c) == <<c, task[c]>>

Init ==
    /\ kept \in Wifis \cup {None}
    /\ enabled = {}
    /\ task = [c \in Connectors |-> None]
    /\ phase = [c \in Connectors |-> "idle"]
    /\ crossed = {}

Advance(c, from, to) ==
    /\ phase[c] = from
    /\ phase' = [phase EXCEPT ![c] = to]

Begin(c, w) ==
    /\ Advance(c, "idle", "begun")
    /\ task' = [task EXCEPT ![c] = w]
    /\ crossed' = IF Active = {} THEN {} ELSE Active \cup {c}
    /\ UNCHANGED <<kept, enabled>>

Clear(c) ==
    /\ Advance(c, "begun", "cleared")
    /\ enabled' = {}
    /\ UNCHANGED <<kept, task, crossed>>

Ends(c) ==
    /\ phase' = [phase EXCEPT ![c] = "idle"]
    /\ task' = [task EXCEPT ![c] = None]
    /\ crossed' = crossed \ {c}

\* One that came back to the wifi that was kept has nothing to keep.
Enable(c) ==
    /\ phase[c] = "cleared"
    /\ enabled' = enabled \cup {Mine(c)}
    /\ c \notin crossed => enabled = {}
    /\ \/ phase' = [phase EXCEPT ![c] = "enabled"] /\ UNCHANGED <<task, crossed>>
       \/ (c \notin crossed => kept = task[c]) /\ Ends(c)
    /\ UNCHANGED kept

Keep(c) ==
    /\ phase[c] = "enabled"
    /\ c \notin crossed => enabled = {Mine(c)}
    /\ kept' = task[c]
    /\ Ends(c)
    /\ UNCHANGED enabled

GiveUp(c) ==
    /\ phase[c] # "idle"
    /\ Ends(c)
    /\ UNCHANGED <<kept, enabled>>

\* The device keeps its networks, unless it goes down.
Restart ==
    /\ enabled' \in {enabled, {}}
    /\ task' = [c \in Connectors |-> None]
    /\ phase' = [c \in Connectors |-> "idle"]
    /\ crossed' = {}
    /\ UNCHANGED kept

Next ==
    \/ Restart
    \/ \E c \in Connectors : Clear(c) \/ Enable(c) \/ Keep(c) \/ GiveUp(c)
    \/ \E c \in Connectors, w \in Wifis : Begin(c, w)

Spec == Init /\ [][Next]_vars
=============================================================================
