-------------------------------- MODULE Wifi --------------------------------
(***************************************************************************)
(* Which wifi the device is on: WpaNetwork.Connect (network/wpa.go), the   *)
(* two that call it (dispenser/network.go), which are the attempt at       *)
(* startup and the requests of the pairing controller (pairing/ble.go),    *)
(* and the wifi bucket (sweetdb/wifi.go).                                  *)
(*                                                                         *)
(* A connection is three D-Bus calls: remove all networks, add one, enable *)
(* it.  Each may fail, and nothing keeps two connections apart: requests   *)
(* run in goroutines of their own and the attempt in another.              *)
(* wpa_supplicant is external: a network is added disabled, can be enabled *)
(* until somebody removes it, and survives the daemon, though not the      *)
(* device.  The kinds of encryption are one.                               *)
(***************************************************************************)
EXTENDS Naturals

CONSTANTS
    Wifis,         \* networks around, with their credentials
    Requests,      \* requests of the pairing controller in flight at a time
    Attempt,       \* the goroutine of maybeAttemptSavedWifiConnection
    None,          \* no wifi, no network
    RestartBound   \* restarts

ASSUME AttemptAssumption == Attempt \notin Requests
ASSUME NoneAssumption == None \notin Wifis \cup [wifi : Wifis, enabled : BOOLEAN]
ASSUME RestartBoundAssumption == RestartBound \in Nat

Connectors == Requests \cup {Attempt}

Network == [wifi : Wifis, enabled : BOOLEAN]

VARIABLES
    saved,      \* the wifi bucket
    networks,   \* wpa_supplicant's networks, by who added them
    conn,       \* where each connector is
    wifi,       \* the wifi it is to connect to
    restarts,
    contested,  \* history: connectors that another one overlapped in their last run
    alone       \* history: the wifi of the last run, if it went well and nobody overlapped it

vars == <<saved, networks, conn, wifi, restarts, contested, alone>>

TypeOK ==
    /\ saved \in Wifis \cup {None}
    /\ networks \in [Connectors -> Network \cup {None}]
    /\ conn \in [Connectors -> {"idle", "read", "remove", "add", "enable", "save"}]
    /\ wifi \in [Connectors -> Wifis \cup {None}]
    /\ \A c \in Connectors : conn[c] \notin {"idle", "read"} => wifi[c] \in Wifis
    /\ restarts \in 0..RestartBound
    /\ contested \in SUBSET Connectors
    /\ alone \in Wifis \cup {None}

\* The device has booted.
Init ==
    /\ saved \in Wifis \cup {None}
    /\ networks = [c \in Connectors |-> None]
    /\ conn = [c \in Connectors |-> IF c = Attempt THEN "read" ELSE "idle"]
    /\ wifi = [c \in Connectors |-> None]
    /\ restarts = 0
    /\ contested = {}
    /\ alone = None

Busy == {c \in Connectors : conn[c] \notin {"idle", "read"}}

\* A connection to w begins.
Begin(c, w) ==
    /\ conn' = [conn EXCEPT ![c] = "remove"]
    /\ wifi' = [wifi EXCEPT ![c] = w]
    /\ contested' = IF Busy = {} THEN contested \ {c} ELSE contested \cup Busy \cup {c}
    /\ alone' = None

Goto(c, pc) == conn' = [conn EXCEPT ![c] = pc]

\* The run has gone well, up to its last step.
Finish(c) ==
    /\ Goto(c, "idle")
    /\ alone' = IF c \in contested THEN None ELSE wifi[c]

\* A D-Bus call returns an error, and with it Connect and its caller.
Fail(c) ==
    /\ conn[c] \in {"remove", "add", "enable"}
    /\ Goto(c, "idle")
    /\ UNCHANGED <<saved, networks, wifi, restarts, contested, alone>>

\* connectWifi, with an encryption that it knows.
Request(c, w) ==
    /\ c \in Requests
    /\ conn[c] = "idle"
    /\ Begin(c, w)
    /\ UNCHANGED <<saved, networks, restarts>>

\* What the bucket holds, or nothing, if there is an error.
GetWifi == {saved, None}

\* Mutant of Read: that no wifi was saved is not looked at.
ReadUnchecked ==
    /\ conn[Attempt] = "read"
    /\ Begin(Attempt, saved)
    /\ UNCHANGED <<saved, networks, restarts>>

\* The attempt at startup: it ends when there is no saved wifi or no reading it.
Read ==
    /\ conn[Attempt] = "read"
    /\ \E w \in GetWifi :
          IF w # None
          THEN Begin(Attempt, w)
          ELSE Goto(Attempt, "idle") /\ UNCHANGED <<wifi, contested, alone>>
    /\ UNCHANGED <<saved, networks, restarts>>

\* Mutant of RemoveAll: only the network added by this connector goes.
RemoveOwn(c) ==
    /\ conn[c] = "remove"
    /\ networks' = [networks EXCEPT ![c] = None]
    /\ Goto(c, "add")
    /\ UNCHANGED <<saved, wifi, restarts, contested, alone>>

RemoveAll(c) ==
    /\ conn[c] = "remove"
    /\ networks' = [d \in Connectors |-> None]
    /\ Goto(c, "add")
    /\ UNCHANGED <<saved, wifi, restarts, contested, alone>>

Add(c) ==
    /\ conn[c] = "add"
    /\ networks' = [networks EXCEPT ![c] = [wifi |-> wifi[c], enabled |-> FALSE]]
    /\ Goto(c, "enable")
    /\ UNCHANGED <<saved, wifi, restarts, contested, alone>>

\* Mutant of Enable: the error of a network that is gone is not looked at.
EnableUnchecked(c) ==
    /\ conn[c] = "enable"
    /\ IF networks[c] = None
       THEN UNCHANGED networks
       ELSE networks' = [networks EXCEPT ![c].enabled = TRUE]
    /\ IF c = Attempt
       THEN Finish(c)
       ELSE Goto(c, "save") /\ UNCHANGED alone
    /\ UNCHANGED <<saved, wifi, restarts, contested>>

\* The network must still be there.  The attempt has nothing to save.
Enable(c) ==
    /\ conn[c] = "enable"
    /\ networks[c] # None
    /\ networks' = [networks EXCEPT ![c].enabled = TRUE]
    /\ IF c = Attempt
       THEN Finish(c)
       ELSE Goto(c, "save") /\ UNCHANGED alone
    /\ UNCHANGED <<saved, wifi, restarts, contested>>

\* One transaction, with the kind of encryption.
SaveWifi(w) == saved' = w

\* SetWifiConnection; that it fails is only logged.
Save(c) ==
    /\ conn[c] = "save"
    /\ \/ /\ SaveWifi(wifi[c])
          /\ Finish(c)
       \/ /\ Goto(c, "idle")
          /\ UNCHANGED <<saved, alone>>
    /\ UNCHANGED <<networks, wifi, restarts, contested>>

\* The daemon starts again, at any point, with the device or without it.
Restart ==
    /\ restarts < RestartBound
    /\ restarts' = restarts + 1
    /\ networks' \in {networks, [c \in Connectors |-> None]}
    /\ conn' = [c \in Connectors |-> IF c = Attempt THEN "read" ELSE "idle"]
    /\ wifi' = [c \in Connectors |-> None]
    /\ contested' = {}
    /\ alone' = None
    /\ UNCHANGED saved

Next ==
    \/ Read
    \/ Restart
    \/ \E c \in Connectors : Fail(c) \/ RemoveAll(c) \/ Add(c) \/ Enable(c) \/ Save(c)
    \/ \E c \in Connectors, w \in Wifis : Request(c, w)

Spec == Init /\ [][Next]_vars

(***************************************************************************)
(* Properties                                                              *)
(***************************************************************************)
\* A connection that nobody overlapped leaves the device with one network enabled,
\* the one that the next start will come back to, also after earlier connections
\* that failed half-way or ran into each other (network/wpa.go:112-142,
\* dispenser/network.go:55-105).
ConnectedIsSaved ==
    alone # None =>
        /\ saved = alone
        /\ \E c \in Connectors :
              /\ networks[c] = [wifi |-> alone, enabled |-> TRUE]
              /\ \A d \in Connectors \ {c} : networks[d] = None

Enabled == {c \in Connectors : networks[c] # None /\ networks[c].enabled}

Phase(c) ==
    CASE conn[c] = "remove"           -> "begun"
      [] conn[c] \in {"add", "enable"} -> "cleared"
      [] conn[c] = "save"             -> "enabled"
      [] OTHER                        -> "idle"

S == INSTANCE Station WITH
        kept <- saved,
        enabled <- {<<c, networks[c].wifi>> : c \in Enabled},
        task <- [c \in Connectors |-> IF c \in Busy THEN wifi[c] ELSE None],
        phase <- [c \in Connectors |-> Phase(c)],
        crossed <- contested \cap Busy

\* Whoever removes whose network in between, whatever fails and whenever the daemon is
\* started again: a connection enables its own network once, when all that were there
\* before it are gone; who saves a wifi for the next start has enabled it, in the same
\* connection; and one that nobody overlapped ends with the saved network as the only
\* one (network/wpa.go:112-142, dispenser/network.go:24-105).
ConnectionsHold == S!Spec
=============================================================================
