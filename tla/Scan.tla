-------------------------------- MODULE Scan --------------------------------
(***************************************************************************)
(* A scan for wifis: the request of the pairing controller that asks for   *)
(* it (pairing/ble.go), WpaNetwork.Scan with the goroutine that forwards   *)
(* what is found (network/wpa.go), the two listeners it starts             *)
(* (network/wpa/interface.go), and the goroutine that drains the queue of  *)
(* discovered networks.                                                    *)
(*                                                                         *)
(* All channels but the queue are unbuffered, so the request, the          *)
(* forwarder and the listener of ScanDone wait for one another.            *)
(*                                                                         *)
(* D-Bus is external.  Every signal of the connection reaches every        *)
(* channel registered for signals; one that finds its channel busy waits   *)
(* in a goroutine of its own, until the channel is taken off.  The         *)
(* listener of BSSAdded returns on the first signal of any kind, for its   *)
(* test of ok is inverted, so what the scan finds is never forwarded, only *)
(* what was known before.  Signals it can return on, changes of            *)
(* wpa_supplicant's properties among them, come at any time.               *)
(*                                                                         *)
(* wpa_supplicant is external: it may end a scan at any time, for it scans *)
(* of its own accord, too.  The daemon's shutdown is left out.             *)
(***************************************************************************)
EXTENDS Naturals, Sequences

CONSTANTS
    Scans,         \* requests to scan
    Wifis,         \* networks wpa_supplicant knows of
    None,          \* no network
    QueueSize,     \* capacity of discoveredWifis, 10 in the code
    DoneBound      \* ScanDone signals

ASSUME NoneAssumption == None \notin Wifis
ASSUME BoundAssumption == QueueSize \in Nat \ {0} /\ DoneBound \in Nat

Outcome == {"success", "failure"}    \* the boolean in ScanDone

VARIABLES
    request,    \* where scanWifi is: in which call of Scan, or in its loop
    inHand,     \* the network it is about to queue
    forwarder,  \* where the goroutine of Scan is
    toForward,  \* networks of the list still to come
    offered,    \* the network it is blocked sending to the request
    added,      \* where the listener of BSSAdded is
    done,       \* where the listener of ScanDone is; an outcome it is blocked sending
    pending,    \* ScanDone signals on their way to the latter, a bag
    matched,    \* scans whose match rule for ScanDone is set
    queue,      \* discoveredWifis: networks, with the scan they come from
    drain,      \* the goroutine of Start: "receive" or "sleep"
    crashed,
    dones,      \* ScanDone signals so far
    heard,      \* history: ScanDone signals registered channels got
    listed,     \* history: networks listed, less those skipped
    notified    \* history: notifications of each network

requestVars  == <<request, inHand>>
forwardVars  == <<forwarder, toForward, offered>>
listenerVars == <<added, done, pending, matched>>
queueVars    == <<queue, drain, notified>>
doneVars     == <<dones, heard>>

vars == <<requestVars, forwardVars, listenerVars, queueVars, crashed, doneVars, listed>>

Discovered == [scan : Scans, wifi : Wifis]

TypeOK ==
    /\ request \in [Scans -> {"idle", "added", "done", "list", "receive", "queue", "returned", "failed"}]
    /\ inHand \in [Scans -> Wifis \cup {None}]
    /\ forwarder \in [Scans -> {"none", "range", "send", "select", "cancelAdded", "cancelDone",
                                "close", "ended"}]
    /\ toForward \in [Scans -> SUBSET Wifis]
    /\ offered \in [Scans -> Wifis \cup {None}]
    /\ added \in [Scans -> {"none", "waiting", "ended", "leaked"}]
    /\ done \in [Scans -> {"none", "new", "waiting", "ended", "leaked"} \cup Outcome]
    /\ pending \in [Scans -> [Outcome -> Nat]]
    /\ matched \in SUBSET Scans
    /\ queue \in Seq(Discovered)
    /\ Len(queue) <= QueueSize
    /\ drain \in {"receive", "sleep"}
    /\ crashed \in BOOLEAN
    /\ dones \in 0..DoneBound
    /\ heard \in [Scans -> Nat]
    /\ listed \in [Scans -> SUBSET Wifis]
    /\ notified \in [Discovered -> Nat]

Init ==
    /\ request = [s \in Scans |-> "idle"]
    /\ inHand = [s \in Scans |-> None]
    /\ forwarder = [s \in Scans |-> "none"]
    /\ toForward = [s \in Scans |-> {}]
    /\ offered = [s \in Scans |-> None]
    /\ added = [s \in Scans |-> "none"]
    /\ done = [s \in Scans |-> "none"]
    /\ pending = [s \in Scans |-> [o \in Outcome |-> 0]]
    /\ matched = {}
    /\ queue = <<>>
    /\ drain = "receive"
    /\ crashed = FALSE
    /\ dones = 0
    /\ heard = [s \in Scans |-> 0]
    /\ listed = [s \in Scans |-> {}]
    /\ notified = [d \in Discovered |-> 0]

(***************************************************************************)
(* WpaNetwork.Scan, in the goroutine of the request.  A D-Bus call that    *)
(* fails ends it; its listeners go on, with nobody to receive from them.   *)
(***************************************************************************)
At(s, pc) == request[s] = pc

Goto(s, pc) == request' = [request EXCEPT ![s] = pc]

\* i.obj.Call("Scan")
AskToScan(s) ==
    /\ At(s, "idle")
    /\ Goto(s, "added") \/ Goto(s, "failed")
    /\ UNCHANGED <<inHand, forwardVars, listenerVars, queueVars, doneVars, listed>>

\* BSSAdded spawns its listener and adds a match rule.
ListenAdded(s) ==
    /\ At(s, "added")
    /\ \/ Goto(s, "done") /\ added' = [added EXCEPT ![s] = "waiting"]
       \/ Goto(s, "failed") /\ added' = [added EXCEPT ![s] = "leaked"]
    /\ UNCHANGED <<inHand, forwardVars, done, pending, matched, queueVars, doneVars, listed>>

Leak(s) ==
    /\ Goto(s, "failed")
    /\ added' = [added EXCEPT ![s] = "leaked"]
    /\ done' = [done EXCEPT ![s] = "leaked"]

\* ScanDone does the same, when the scan has long begun.
ListenDone(s) ==
    /\ At(s, "done")
    /\ \/ /\ Goto(s, "list")
          /\ done' = [done EXCEPT ![s] = "new"]
          /\ matched' = matched \cup {s}
          /\ UNCHANGED added
       \/ Leak(s) /\ UNCHANGED matched
    /\ UNCHANGED <<inHand, forwardVars, pending, queueVars, doneVars, listed>>

\* BSSs, and the forwarder is spawned with the list.
List(s) ==
    /\ At(s, "list")
    /\ \/ /\ Goto(s, "receive")
          /\ forwarder' = [forwarder EXCEPT ![s] = "range"]
          /\ \E bsss \in SUBSET Wifis :
                /\ toForward' = [toForward EXCEPT ![s] = bsss]
                /\ listed' = [listed EXCEPT ![s] = bsss]
          /\ UNCHANGED <<added, done, pending>>
       \/ /\ Leak(s)
          /\ pending' = [pending EXCEPT ![s] = [o \in Outcome |-> 0]]
          /\ UNCHANGED <<forwarder, toForward, listed>>
    /\ UNCHANGED <<inHand, offered, matched, queueVars, doneVars>>

(***************************************************************************)
(* The forwarder: first the list, then the outcome of the scan             *)
(***************************************************************************)
Move(s, pc) == forwarder' = [forwarder EXCEPT ![s] = pc]

\* GetAll returns an error, or the network hides its name.
Skip(s, w) ==
    /\ forwarder[s] = "range"
    /\ w \in toForward[s]
    /\ toForward' = [toForward EXCEPT ![s] = @ \ {w}]
    /\ listed' = [listed EXCEPT ![s] = @ \ {w}]
    /\ UNCHANGED <<requestVars, forwarder, offered, listenerVars, queueVars, doneVars>>

Offer(s, w) ==
    /\ forwarder[s] = "range"
    /\ w \in toForward[s]
    /\ Move(s, "send")
    /\ toForward' = [toForward EXCEPT ![s] = @ \ {w}]
    /\ offered' = [offered EXCEPT ![s] = w]
    /\ UNCHANGED <<requestVars, listenerVars, queueVars, doneVars, listed>>

\* wifisChan <- wifi meets the receive of scanWifi.
HandOver(s) ==
    /\ forwarder[s] = "send"
    /\ At(s, "receive")
    /\ Move(s, "range")
    /\ offered' = [offered EXCEPT ![s] = None]
    /\ Goto(s, "queue")
    /\ inHand' = [inHand EXCEPT ![s] = offered[s]]
    /\ UNCHANGED <<toForward, listenerVars, queueVars, doneVars, listed>>

ListForwarded(s) ==
    /\ forwarder[s] = "range"
    /\ toForward[s] = {}
    /\ Move(s, "select")
    /\ UNCHANGED <<requestVars, toForward, offered, listenerVars, queueVars, doneVars, listed>>

\* Mutant of HearDone: the end of the scan ends the list, too.
HearDoneEarly(s) ==
    /\ forwarder[s] \in {"range", "select"}
    /\ done[s] \in Outcome
    /\ done' = [done EXCEPT ![s] = "waiting"]
    /\ Move(s, IF done[s] = "success" THEN "cancelAdded" ELSE forwarder[s])
    /\ UNCHANGED <<requestVars, toForward, offered, added, pending, matched, queueVars, doneVars,
                   listed>>

\* A scan that failed is waited for on: another may succeed.
HearDone(s) ==
    /\ forwarder[s] = "select"
    /\ done[s] \in Outcome
    /\ done' = [done EXCEPT ![s] = "waiting"]
    /\ Move(s, IF done[s] = "success" THEN "cancelAdded" ELSE "select")
    /\ UNCHANGED <<requestVars, toForward, offered, added, pending, matched, queueVars, doneVars,
                   listed>>

\* client.Cancel closes the channel its listener receives from: one that is still
\* there takes the nil for a signal and panics.
CancelAdded(s) ==
    /\ forwarder[s] = "cancelAdded"
    /\ Move(s, "cancelDone")
    /\ crashed' = (added[s] # "ended")
    /\ UNCHANGED <<requestVars, toForward, offered, listenerVars, queueVars, doneVars, listed>>

\* Mutant of CancelDone: only the match rule goes.
CancelDoneRule(s) ==
    /\ forwarder[s] = "cancelDone"
    /\ Move(s, "close")
    /\ matched' = matched \ {s}
    /\ UNCHANGED <<requestVars, toForward, offered, added, done, pending, crashed, queueVars, doneVars,
                   listed>>

\* doneClient.Cancel takes the channel of signals off, removes the match rule and
\* closes both channels: a listener blocked sending a further outcome panics.
CancelDone(s) ==
    /\ forwarder[s] = "cancelDone"
    /\ Move(s, "close")
    /\ pending' = [pending EXCEPT ![s] = [o \in Outcome |-> 0]]
    /\ matched' = matched \ {s}
    /\ done' = [done EXCEPT ![s] = "ended"]
    /\ crashed' = (done[s] \in Outcome)
    /\ UNCHANGED <<requestVars, toForward, offered, added, queueVars, doneVars, listed>>

\* Mutant of CloseWifis: the forwarder just returns.
CloseNothing(s) ==
    /\ forwarder[s] = "close"
    /\ Move(s, "none")
    /\ UNCHANGED <<requestVars, toForward, offered, listenerVars, queueVars, doneVars, listed>>

\* The forwarder finds both channels closed, closes wifisChan and returns.
CloseWifis(s) ==
    /\ forwarder[s] = "close"
    /\ Move(s, "ended")
    /\ UNCHANGED <<requestVars, toForward, offered, listenerVars, queueVars, doneVars, listed>>

(***************************************************************************)
(* scanWifi, and the goroutine that drains the queue                       *)
(***************************************************************************)
\* Mutant of Enqueue: it does not wait for the queue to have room.
EnqueueNow(s) ==
    /\ At(s, "queue")
    /\ queue' = Append(queue, [scan |-> s, wifi |-> inHand[s]])
    /\ Goto(s, "receive")
    /\ inHand' = [inHand EXCEPT ![s] = None]
    /\ UNCHANGED <<forwardVars, listenerVars, drain, notified, doneVars, listed>>

\* c.discoveredWifis <- wifi
Enqueue(s) ==
    /\ At(s, "queue")
    /\ Len(queue) < QueueSize
    /\ queue' = Append(queue, [scan |-> s, wifi |-> inHand[s]])
    /\ Goto(s, "receive")
    /\ inHand' = [inHand EXCEPT ![s] = None]
    /\ UNCHANGED <<forwardVars, listenerVars, drain, notified, doneVars, listed>>

\* wifisChan has been closed.
Return(s) ==
    /\ At(s, "receive")
    /\ forwarder[s] = "ended"
    /\ Goto(s, "returned")
    /\ UNCHANGED <<inHand, forwardVars, listenerVars, queueVars, doneVars, listed>>

\* A failed notification is logged.
Notify ==
    /\ drain = "receive"
    /\ queue # <<>>
    /\ notified' = [notified EXCEPT ![Head(queue)] = @ + 1]
    /\ queue' = Tail(queue)
    /\ drain' = "sleep"
    /\ UNCHANGED <<requestVars, forwardVars, listenerVars, doneVars, listed>>

\* Mutant of Wake: the goroutine is over after its first network.
NeverWake ==
    /\ drain = "sleep"
    /\ UNCHANGED <<requestVars, forwardVars, listenerVars, queueVars, doneVars, listed>>

\* 100ms later.
Wake ==
    /\ drain = "sleep"
    /\ drain' = "receive"
    /\ UNCHANGED <<requestVars, forwardVars, listenerVars, queue, notified, doneVars, listed>>

(***************************************************************************)
(* The listeners, and the signals                                          *)
(***************************************************************************)
\* The listener of BSSAdded gets to receive a signal, and returns.
ReceiveAdded(s) ==
    /\ added[s] = "waiting"
    /\ added' = [added EXCEPT ![s] = "ended"]
    /\ UNCHANGED <<requestVars, forwardVars, done, pending, matched, queueVars, doneVars, listed>>

\* conn.Signal(signalChan)
RegisterDone(s) ==
    /\ done[s] = "new"
    /\ done' = [done EXCEPT ![s] = "waiting"]
    /\ UNCHANGED <<requestVars, forwardVars, added, pending, matched, queueVars, doneVars, listed>>

\* Mutant of ReceiveDone: the signal is passed on, and passed on again.
ReceiveDoneAgain(s) ==
    /\ done[s] = "waiting"
    /\ \E o \in Outcome :
          /\ pending[s][o] > 0
          /\ done' = [done EXCEPT ![s] = o]
    /\ UNCHANGED <<requestVars, forwardVars, added, pending, matched, queueVars, doneVars, listed>>

\* A signal becomes an outcome to send.
ReceiveDone(s) ==
    /\ done[s] = "waiting"
    /\ \E o \in Outcome :
          /\ pending[s][o] > 0
          /\ pending' = [pending EXCEPT ![s][o] = @ - 1]
          /\ done' = [done EXCEPT ![s] = o]
    /\ UNCHANGED <<requestVars, forwardVars, added, matched, queueVars, doneVars, listed>>

Registered == {s \in Scans : done[s] \in {"waiting"} \cup Outcome}

\* wpa_supplicant has ended a scan.  The bus passes it on if there is a match rule.
ScanDone(o) ==
    /\ dones < DoneBound
    /\ matched # {}
    /\ dones' = dones + 1
    /\ pending' = [s \in Scans |-> IF s \in Registered
                                   THEN [pending[s] EXCEPT ![o] = @ + 1]
                                   ELSE pending[s]]
    /\ heard' = [s \in Scans |-> IF s \in Registered THEN heard[s] + 1 ELSE heard[s]]
    /\ UNCHANGED <<requestVars, forwardVars, added, done, matched, queueVars, listed>>

(***************************************************************************)
(* The specification                                                       *)
(***************************************************************************)
RequestStep(s) ==
    ListenAdded(s) \/ ListenDone(s) \/ List(s) \/ Enqueue(s) \/ Return(s)

ForwarderStep(s) ==
    \/ \E w \in Wifis : Skip(s, w) \/ Offer(s, w)
    \/ HandOver(s) \/ ListForwarded(s) \/ HearDone(s) \/ CloseWifis(s)

ListenerStep(s) == ReceiveAdded(s) \/ RegisterDone(s) \/ ReceiveDone(s)

Calm ==
    \/ \E s \in Scans : AskToScan(s) \/ RequestStep(s) \/ ForwarderStep(s) \/ ListenerStep(s)
    \/ Notify \/ Wake
    \/ \E o \in Outcome : ScanDone(o)

CancelStep(s) == CancelAdded(s) \/ CancelDone(s)

Next ==
    /\ ~crashed
    /\ \/ Calm /\ UNCHANGED crashed
       \/ \E s \in Scans : CancelStep(s)

Spec == Init /\ [][Next]_vars

(***************************************************************************)
(* Fairness: a goroutine that can run does, and a D-Bus call returns.      *)
(* Nothing forces wpa_supplicant or a request.                             *)
(***************************************************************************)
Fair(A) == ~crashed /\ A /\ UNCHANGED crashed

Fairness ==
    /\ \A s \in Scans :
          /\ WF_vars(Fair(RequestStep(s)))
          /\ WF_vars(Fair(ForwarderStep(s)))
          /\ WF_vars(Fair(ReceiveDone(s)))
          /\ WF_vars(~crashed /\ CancelStep(s))
    /\ WF_vars(Fair(Notify \/ Wake))

FairSpec == Spec /\ Fairness

(***************************************************************************)
(* Properties                                                              *)
(***************************************************************************)
Of(s, w) == [scan |-> s, wifi |-> w]

\* The pairing client hears of no network twice in a scan, nor of one that the scan
\* did not list, whoever else scans and however long the queue makes the request wait
\* (network/wpa.go:167-205, pairing/ble.go:175-212, 244-261).
ReportedOnce ==
    \A s \in Scans, w \in Wifis : notified[Of(s, w)] <= (IF w \in listed[s] THEN 1 ELSE 0)

\* A scan as Discovery sees it: listing from the spawn of the forwarder to the return.
Phase(s) ==
    IF request[s] = "returned" THEN "ended"
    ELSE IF forwarder[s] = "none" THEN "new" ELSE "listing"

D == INSTANCE Discovery WITH
        Size <- QueueSize,
        scan <- [s \in Scans |-> Phase(s)],
        coming <- toForward,
        taken <- [s \in Scans |-> {offered[s], inHand[s]} \ {None}],
        told <- notified

\* No network is lost between the list and the phone, told out of turn or told twice,
\* and no scan returns with one in its hands, although forwarder and request pass them
\* on one by one while other scans fill the queue and ScanDone comes at any time
\* (network/wpa.go:166-236, pairing/ble.go:175-212, 244-261).
NoNetworkLost == D!Spec

\* A scan that has come to an end leaves nothing behind: no listener, no signal held
\* for one, no match rule (network/wpa/interface.go:35-42, 88-95).
ReturnedCleansUp ==
    \A s \in Scans : request[s] = "returned" =>
        /\ added[s] = "ended" /\ done[s] = "ended"
        /\ pending[s] = [o \in Outcome |-> 0]
        /\ s \notin matched

\* Ending a scan takes the daemon down only if a second ScanDone reached the scan's
\* listener, or if its listener of BSSAdded had not received a single signal
\* (network/wpa.go:228-233, network/wpa/interface.go:35-58, 88-95).
PanicNeedsOverlap ==
    crashed => \E s \in Scans :
        \/ forwarder[s] = "cancelDone" /\ added[s] # "ended"
        \/ forwarder[s] = "close" /\ heard[s] > 1

\* Once the listener of a scan in progress has been sent a ScanDone of success, the
\* request returns, although forwarder, request, listener and drain wait for each other
\* and the queue may be full of another scan's networks, unless the end of a scan has
\* panicked and ended the process (network/wpa.go:166-236).
ScanReturns ==
    \A s \in Scans :
        forwarder[s] # "none" /\ (done[s] = "success" \/ pending[s]["success"] > 0)
            ~> request[s] = "returned" \/ crashed

\* A listed network that can be read is notified, whether the scan ends or not, and
\* whether wpa_supplicant was done before the list was through, unless the process has
\* ended with a panic (pairing/ble.go:175-212, 244-261).
ListedNotified ==
    \A s \in Scans, w \in Wifis :
        w \in toForward[s] ~> notified[Of(s, w)] > 0 \/ w \notin listed[s] \/ crashed
=============================================================================
