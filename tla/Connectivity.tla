---------------------------- MODULE Connectivity ----------------------------
(***************************************************************************)
(* How the daemon hears that it is online: wpa_supplicant's state changes  *)
(* (network/wpa/interface.go), their broadcast (network/wpa.go), the three *)
(* loops that wait for them (dispenser/nodes.go, pos.go, api.go) and the   *)
(* onion services that two of these start and stop (onion/service.go).     *)
(*                                                                         *)
(* Three channels in a row, all unbuffered: the signaller, the goroutine   *)
(* of Interface.State, turns D-Bus signals into booleans; the broadcaster, *)
(* the goroutine of WpaNetwork.Start, sends each of them to every client   *)
(* in the map, one after the other; each client is a loop that also waits  *)
(* for d.done.  The map of clients is not locked.                          *)
(*                                                                         *)
(* D-Bus is external: a signal that finds its channel busy waits in a      *)
(* goroutine of its own, so signals may overtake each other.  Tor is       *)
(* external: a Listen may end well or not, and ends within 120 seconds.    *)
(***************************************************************************)
EXTENDS Naturals, FiniteSets

CONSTANTS
    Services,     \* the loops with an onion service: runPos, runApi
    Nodes,        \* the loop of runLightningNodes
    None,         \* nobody
    ChangeBound   \* state changes of wpa_supplicant

ASSUME NodesAssumption == Nodes \notin Services
ASSUME NoneAssumption == None \notin Services \cup {Nodes}
ASSUME ChangeBoundAssumption == ChangeBound \in Nat

Subscribers == Services \cup {Nodes}

Values == {"on", "off"}    \* "completed", and any other state

VARIABLES
    up,         \* wpa_supplicant's state
    changes,    \* its changes so far
    pending,    \* signals on their way, a bag
    signaller,  \* where the goroutine of State is; a value it is sending
    cast,       \* the broadcaster: where it is, what it sends to whom, whom it still owes
    clients,    \* n.clients
    loop,       \* where each subscriber is
    waiting,    \* goroutines of each service's Start at the mutex
    holder,     \* whose Listen runs under the mutex
    cancelled,  \* that Listen's context
    cancel,     \* services whose s.cancel is set
    process,    \* the shutdown of the daemon
    owed,       \* history: subscribers that were registered at a change to "on" and have not heard one since
    late        \* history: the Listen began after the service's Stop

supplicantVars == <<up, changes>>
onionVars == <<waiting, holder, cancelled, cancel, late>>
vars == <<supplicantVars, pending, signaller, cast, clients, loop, onionVars, process, owed>>

Quiet == [pc |-> "select", value |-> "off", to |-> None, todo |-> {}]

TypeOK ==
    /\ up \in BOOLEAN
    /\ changes \in 0..ChangeBound
    /\ pending \in [Values -> Nat]
    /\ signaller \in {"new", "select", "ended"} \cup Values
    /\ cast \in [pc : {"select", "range", "ended"}, value : Values,
                 to : Subscribers \cup {None}, todo : SUBSET Subscribers]
    /\ clients \in SUBSET Subscribers
    /\ loop \in [Subscribers -> {"new", "insert", "select", "start", "delete", "stop", "ended"}]
    /\ waiting \in [Services -> Nat]
    /\ holder \in Services \cup {None}
    /\ cancelled \in BOOLEAN
    /\ cancel \in SUBSET Services
    /\ process \in {"running", "stopping", "closing", "closed", "over"}
    /\ owed \in SUBSET Subscribers
    /\ late \in BOOLEAN

\* WpaNetwork.Start has returned and RunAndWait has begun; the wifi may be up.
Init ==
    /\ up \in BOOLEAN
    /\ changes = 0
    /\ pending = [v \in Values |-> 0]
    /\ signaller = "new"
    /\ cast = Quiet
    /\ clients = {}
    /\ loop = [s \in Subscribers |-> "new"]
    /\ waiting = [s \in Services |-> 0]
    /\ holder = None
    /\ cancelled = FALSE
    /\ cancel = {}
    /\ process = "running"
    /\ owed = {}
    /\ late = FALSE

(***************************************************************************)
(* wpa_supplicant and the signaller                                        *)
(***************************************************************************)
\* Any state but "completed" may follow any; a signal nobody listens for is lost.
Change(v) ==
    /\ changes < ChangeBound
    /\ v = "on" => ~up
    /\ up' = (v = "on")
    /\ changes' = changes + 1
    /\ IF signaller \in {"new", "ended"}
       THEN UNCHANGED <<pending, owed>>
       ELSE /\ pending' = [pending EXCEPT ![v] = @ + 1]
            /\ owed' = IF v = "on" THEN owed \cup clients ELSE owed
    /\ UNCHANGED <<signaller, cast, clients, loop, onionVars, process>>

\* conn.Signal(signalChan)
Listen ==
    /\ signaller = "new"
    /\ signaller' = "select"
    /\ UNCHANGED <<supplicantVars, pending, cast, clients, loop, onionVars, process, owed>>

\* A closed channel of states makes the send panic.
Signal(v) ==
    /\ signaller = "select"
    /\ pending[v] > 0
    /\ pending' = [pending EXCEPT ![v] = @ - 1]
    /\ signaller' = v
    /\ process' = IF cast.pc = "ended" THEN "over" ELSE process
    /\ UNCHANGED <<supplicantVars, cast, clients, loop, onionVars, owed>>

\* The connection is closed, and with it the channel of signals.
SignalsEnd ==
    /\ signaller = "select"
    /\ process = "closed"
    /\ signaller' = "ended"
    /\ UNCHANGED <<supplicantVars, pending, cast, clients, loop, onionVars, process, owed>>

(***************************************************************************)
(* The broadcaster                                                         *)
(***************************************************************************)
\* Mutant of Take: the channel may also be closed.
TakeClosed ==
    /\ cast.pc = "select"
    /\ signaller \in Values \cup {"ended"}
    /\ cast' = [pc |-> "range", value |-> signaller, to |-> None, todo |-> clients]
    /\ signaller' = "select"
    /\ UNCHANGED <<supplicantVars, pending, clients, loop, onionVars, process, owed>>

\* A state is taken over and the range over the clients begins.
Take ==
    /\ cast.pc = "select"
    /\ signaller \in Values
    /\ cast' = [pc |-> "range", value |-> signaller, to |-> None, todo |-> clients]
    /\ signaller' = "select"
    /\ UNCHANGED <<supplicantVars, pending, clients, loop, onionVars, process, owed>>

\* Mutant of Visit: a client that is busy is not waited for.
VisitIfReady(s) ==
    /\ cast.pc = "range"
    /\ cast.to = None
    /\ s \in cast.todo
    /\ cast' = [cast EXCEPT !.to = IF loop[s] = "select" THEN s ELSE None, !.todo = @ \ {s}]
    /\ UNCHANGED <<supplicantVars, pending, signaller, clients, loop, onionVars, process, owed>>

Visit(s) ==
    /\ cast.pc = "range"
    /\ cast.to = None
    /\ s \in cast.todo
    /\ cast' = [cast EXCEPT !.to = s, !.todo = @ \ {s}]
    /\ UNCHANGED <<supplicantVars, pending, signaller, clients, loop, onionVars, process, owed>>

\* The send, to a loop that is at its select.
Send(s) ==
    /\ cast.to = s
    /\ loop[s] = "select"
    /\ cast' = [cast EXCEPT !.to = None]
    /\ IF cast.value = "on"
       THEN /\ loop' = [loop EXCEPT ![s] = "start"]
            /\ owed' = owed \ {s}
       ELSE UNCHANGED <<loop, owed>>
    /\ UNCHANGED <<supplicantVars, pending, signaller, clients, onionVars, process>>

RangeEnds ==
    /\ cast.pc = "range"
    /\ cast.to = None
    /\ cast.todo = {}
    /\ cast' = Quiet
    /\ UNCHANGED <<supplicantVars, pending, signaller, clients, loop, onionVars, process, owed>>

\* n.done is closed: client.Cancel panics when the connection is gone, and makes
\* the signaller panic when that is sending.
BroadcasterStops ==
    /\ cast.pc = "select"
    /\ process \in {"closing", "closed"}
    /\ cast' = [cast EXCEPT !.pc = "ended"]
    /\ process' = IF process = "closed" \/ signaller \in Values THEN "over" ELSE process
    /\ UNCHANGED <<supplicantVars, pending, signaller, clients, loop, onionVars, owed>>

(***************************************************************************)
(* A subscriber's loop                                                     *)
(***************************************************************************)
Goto(s, pc) == loop' = [loop EXCEPT ![s] = pc]

\* Status().Connected(): the flag is never set.
Connected == FALSE

\* Subscribe, up to the write of the map.
Subscribe(s) ==
    /\ loop[s] = "new"
    /\ Goto(s, "insert")
    /\ UNCHANGED <<supplicantVars, pending, signaller, cast, clients, onionVars, process, owed>>

\* Mutant of Subscribed: the next client gets the same id.
SubscribedOver(s) ==
    /\ loop[s] = "insert"
    /\ clients' = {s}
    /\ cast' = [cast EXCEPT !.todo = @ \cap {s}]
    /\ Goto(s, "select")
    /\ UNCHANGED <<supplicantVars, pending, signaller, onionVars, process, owed>>

\* n.clients[client.Id] = client, which a range under way sees or not; then the
\* state of the network is asked for.
Subscribed(s) ==
    /\ loop[s] = "insert"
    /\ clients' = clients \cup {s}
    /\ \/ UNCHANGED cast
       \/ /\ cast.pc = "range"
          /\ cast' = [cast EXCEPT !.todo = @ \cup {s}]
    /\ Goto(s, IF Connected THEN "start" ELSE "select")
    /\ UNCHANGED <<supplicantVars, pending, signaller, onionVars, process, owed>>

\* startLightningNodes, or the service's Start, which leaves the work to a goroutine.
Start(s) ==
    /\ loop[s] = "start"
    /\ Goto(s, "select")
    /\ IF s \in Services
       THEN waiting' = [waiting EXCEPT ![s] = @ + 1]
       ELSE UNCHANGED waiting
    /\ UNCHANGED <<supplicantVars, pending, signaller, cast, clients, holder, cancelled,
                   cancel, late, process, owed>>

\* d.done is closed.
Leave(s) ==
    /\ loop[s] = "select"
    /\ process # "running"
    /\ Goto(s, "delete")
    /\ UNCHANGED <<supplicantVars, pending, signaller, cast, clients, onionVars, process, owed>>

\* Mutant of Unsubscribe: the map is locked for as long as a broadcast lasts.
UnsubscribeLocked(s) ==
    /\ loop[s] = "delete"
    /\ cast.pc # "range"
    /\ clients' = clients \ {s}
    /\ owed' = owed \ {s}
    /\ Goto(s, "stop")
    /\ UNCHANGED <<supplicantVars, pending, signaller, cast, onionVars, process>>

\* networkClient.Cancel(); nobody looks at the channel that it closes.
Unsubscribe(s) ==
    /\ loop[s] = "delete"
    /\ clients' = clients \ {s}
    /\ cast' = [cast EXCEPT !.todo = @ \ {s}]
    /\ owed' = owed \ {s}
    /\ Goto(s, "stop")
    /\ UNCHANGED <<supplicantVars, pending, signaller, onionVars, process>>

\* The nodes are stopped, or the service is: its latest context is cancelled.
StopServed(s) ==
    /\ loop[s] = "stop"
    /\ Goto(s, "ended")
    /\ cancelled' = (cancelled \/ (s = holder /\ s \in cancel))
    /\ UNCHANGED <<supplicantVars, pending, signaller, cast, clients, waiting, holder,
                   cancel, late, process, owed>>

\* Go ends a program that it finds writing a map while another goroutine writes it
\* or ranges over it; it need not find it.
Writing == {s \in Subscribers : loop[s] \in {"insert", "delete"}}

MapRace ==
    /\ process # "over"
    /\ \/ Cardinality(Writing) > 1
       \/ Writing # {} /\ cast.pc = "range" /\ cast.to = None
    /\ process' = "over"
    /\ UNCHANGED <<supplicantVars, pending, signaller, cast, clients, loop, onionVars, owed>>

(***************************************************************************)
(* The goroutine of a service's Start                                      *)
(***************************************************************************)
\* Mutant of Publish: the context is kept only when the service is there.
PublishThenKeep(s) ==
    /\ waiting[s] > 0
    /\ holder = None
    /\ waiting' = [waiting EXCEPT ![s] = @ - 1]
    /\ holder' = s
    /\ cancelled' = FALSE
    /\ late' = (loop[s] = "ended")
    /\ UNCHANGED <<supplicantVars, pending, signaller, cast, clients, loop, cancel, process, owed>>

\* The mutex is taken and the context made.
Publish(s) ==
    /\ waiting[s] > 0
    /\ holder = None
    /\ waiting' = [waiting EXCEPT ![s] = @ - 1]
    /\ holder' = s
    /\ cancelled' = FALSE
    /\ cancel' = cancel \cup {s}
    /\ late' = (loop[s] = "ended")
    /\ UNCHANGED <<supplicantVars, pending, signaller, cast, clients, loop, process, owed>>

\* Mutant of Published: a cancelled Listen returns with the mutex held.
PublishedOrStuck(s) ==
    /\ holder = s
    /\ ~cancelled
    /\ holder' = None
    /\ UNCHANGED <<supplicantVars, pending, signaller, cast, clients, loop, waiting, cancelled,
                   cancel, late, process, owed>>

\* tor.Listen returns, with a service or with an error, and the mutex is free.
Published(s) ==
    /\ holder = s
    /\ holder' = None
    /\ UNCHANGED <<supplicantVars, pending, signaller, cast, clients, loop, waiting, cancelled,
                   cancel, late, process, owed>>

(***************************************************************************)
(* Shutdown                                                                *)
(***************************************************************************)
\* d.done is closed; RunAndWait returns whether the loops have ended or not.
Stop ==
    /\ process = "running"
    /\ process' = "stopping"
    /\ UNCHANGED <<supplicantVars, pending, signaller, cast, clients, loop, onionVars, owed>>

\* main's deferred net.Stop: n.done is closed, then the connection, then main ends.
NetworkStop ==
    /\ \/ process = "stopping" /\ process' = "closing"
       \/ process = "closing" /\ process' = "closed"
       \/ process = "closed" /\ process' = "over"
    /\ UNCHANGED <<supplicantVars, pending, signaller, cast, clients, loop, onionVars, owed>>

SubscriberStep(s) ==
    Subscribe(s) \/ Subscribed(s) \/ Start(s) \/ Leave(s) \/ Unsubscribe(s) \/ StopServed(s)

BroadcasterStep ==
    \/ Take \/ RangeEnds \/ BroadcasterStops
    \/ \E s \in Subscribers : Visit(s) \/ Send(s)

SignallerStep == Listen \/ SignalsEnd \/ \E v \in Values : Signal(v)

Next ==
    /\ process # "over"
    /\ \/ Stop \/ NetworkStop \/ MapRace \/ SignallerStep \/ BroadcasterStep
       \/ \E v \in Values : Change(v)
       \/ \E s \in Subscribers : SubscriberStep(s)
       \/ \E s \in Services : Publish(s) \/ Published(s)

Spec == Init /\ [][Next]_vars

(***************************************************************************)
(* Fairness.  A goroutine that can run does, and each signal is delivered  *)
(* once its channel is free.  Go's mutex starves nobody who finds it free  *)
(* again and again (SF).  Listen has a timeout.  Nothing is assumed of the *)
(* supplicant, the interrupt and the rest of main.                         *)
(***************************************************************************)
Fair(A) == process # "over" /\ A

Fairness ==
    /\ WF_vars(Fair(Listen \/ SignalsEnd))
    /\ \A v \in Values : WF_vars(Fair(Signal(v)))
    /\ WF_vars(Fair(BroadcasterStep))
    /\ \A s \in Subscribers : WF_vars(Fair(SubscriberStep(s)))
    /\ \A s \in Services :
          /\ SF_vars(Fair(Publish(s)))
          /\ WF_vars(Fair(Published(s)))

FairSpec == Spec /\ Fairness

(***************************************************************************)
(* Properties                                                              *)
(***************************************************************************)
\* The mutex that serialises all onion services makes s.cancel the one of the Listen
\* that runs: Stop reaches a Listen that had begun before.  One that begins after Stop has
\* nobody to stop it, and is left out as late (onion/service.go:57-83).
StopReachesListen ==
    \A s \in Services : holder = s /\ loop[s] = "ended" => cancelled \/ late

\* A subscriber that has still to hear that the network came up is not forgotten: a
\* signal is on its way, the signaller has it, or the broadcaster will send it, although
\* it is busy with others and the map changes under its range (network/wpa.go:73-82).
NewsOnTheWay ==
    \A s \in owed :
        \/ pending["on"] > 0
        \/ signaller = "on"
        \/ cast.value = "on" /\ (s \in cast.todo \/ cast.to = s)

\* A subscriber that is registered when the network comes up hears of it, however
\* busy it and the other subscribers are, unless the daemon is stopped meanwhile.  A change
\* before the state is listened to, while the signaller is still new, is heard by nobody and
\* owed to nobody (network/wpa.go:73-82).
RegisteredHears ==
    \A s \in Subscribers : s \in owed ~> s \notin owed \/ process # "running"

\* Every Start gets its turn at tor, whatever became of those before it: none are
\* left waiting once the network has stopped changing (onion/service.go:55-77).
StartsPublish ==
    \A s \in Services : waiting[s] > 0 ~> waiting[s] = 0 \/ process = "over"

\* Once d.done is closed every loop ends, although the broadcaster may be left
\* behind, sending to one that has gone (dispenser/pos.go:44-66).
LoopsEnd ==
    \A s \in Subscribers : process = "stopping" ~> loop[s] = "ended" \/ process = "over"
=============================================================================
