------------------------------ MODULE Invoices ------------------------------
(***************************************************************************)
(* How a paid invoice reaches d.payments: a remote lnd node                *)
(* (lightning/lnd.go), the dispenser that enables it and listens to it     *)
(* (dispenser/nodes.go), and the point of sale's websocket pumps that      *)
(* watch its invoices (pos/pos.go).                                        *)
(*                                                                         *)
(* Every LndNode.Start dials a new connection, which replaces the one in   *)
(* r.conn, and spawns a goroutine run() that passes on what its stream     *)
(* receives to every client in r.invoicesClients, one after the other over *)
(* unbuffered channels.  Every start is followed by one SubscribeInvoices  *)
(* and one goroutine handleLightningNodeInvoices.  An API request starts   *)
(* the node, and so does every Connected update of the network while the   *)
(* node is enabled.  Unsubscribing takes a client out of the map; it never *)
(* closes the client's Invoices channel.  Nothing guards the map.          *)
(*                                                                         *)
(* lnd is external: it reports an invoice added and an invoice settled on  *)
(* every stream there is then, and streams may break.                      *)
(***************************************************************************)
EXTENDS Naturals, Sequences

CONSTANTS
    Ids,         \* invoices
    Watchers,    \* websocket connections of the point of sale
    None,        \* no client, no invoice
    StartBound   \* how often the node is started

ASSUME StartBoundAssumption == StartBound \in Nat
ASSUME NoneAssumption == None \notin Ids \cup Watchers \cup Nat
ASSUME WatchersAssumption == Watchers \cap Nat = {}

Streams == 1..StartBound    \* start k: its connection, run(), client and handler

VARIABLES
    enabled,    \* the node's flag in the node manager
    started,    \* starts so far; r.conn and r.client are of the latest
    api,        \* where the API request to enable or disable the node is
    net,        \* where startLightningNodes of a network update is
    mine,       \* the start each of the two has made last
    closed,     \* connections closed
    run,        \* where run() of each start is
    queue,      \* what each stream has yet to pass on
    event,      \* what run() passes on
    todo,       \* clients its range over r.invoicesClients has still to visit
    target,     \* the client it is blocked sending to
    clients,    \* r.invoicesClients
    cancelled,  \* clients whose cancelChan is closed
    handler,    \* handleLightningNodeInvoices of each start: "none", "recv" or "pay"
    paying,     \* the invoice it is blocked sending to d.payments
    watcher,    \* where the write pump of each websocket is
    ledger,     \* lnd's view of each invoice
    payments,   \* how often handleDispenses received each invoice
    late,       \* history: what was settled, and the subscriptions cancelled by then
    crashed     \* the daemon has ended: a panic, or a race for r.invoicesClients

startVars  == <<enabled, started, api, net, mine, closed>>
runVars    == <<run, event, todo, target>>
clientVars == <<clients, cancelled, handler, paying, watcher>>
lndVars    == <<queue, ledger, late>>

vars == <<startVars, runVars, clientVars, lndVars, payments, crashed>>

Clients == Streams \cup Watchers
Event   == [id : Ids, settled : BOOLEAN]

TypeOK ==
    /\ enabled \in BOOLEAN
    /\ started \in 0..StartBound
    /\ api \in {"idle", "subscribe", "flag", "cancel", "unflag"}
    /\ net \in {"idle", "subscribe"}
    /\ mine \in [{"api", "net"} -> 0..StartBound]
    /\ closed \in SUBSET Streams
    /\ run \in [Streams -> {"none", "dialled", "recv", "send", "ended"}]
    /\ queue \in [Streams -> Seq(Event)]
    /\ event \in [Streams -> Event \cup {None}]
    /\ todo \in [Streams -> SUBSET Clients]
    /\ target \in [Streams -> Clients \cup {None}]
    /\ clients \in SUBSET Clients
    /\ cancelled \in SUBSET Clients
    /\ handler \in [Streams -> {"none", "recv", "pay"}]
    /\ paying \in [Streams -> Ids \cup {None}]
    /\ watcher \in [Watchers -> {"none", "select", "writing", "gone"}]
    /\ ledger \in [Ids -> {"none", "open", "settled"}]
    /\ payments \in [Ids -> Nat]
    /\ late \in SUBSET (Ids \X Streams)
    /\ crashed \in BOOLEAN

\* A node that nodeman.Load has set up.  The database never says it is enabled.
Init ==
    /\ enabled = FALSE
    /\ started = 0
    /\ api = "idle"
    /\ net = "idle"
    /\ mine = [t \in {"api", "net"} |-> 0]
    /\ closed = {}
    /\ run = [k \in Streams |-> "none"]
    /\ queue = [k \in Streams |-> <<>>]
    /\ event = [k \in Streams |-> None]
    /\ todo = [k \in Streams |-> {}]
    /\ target = [k \in Streams |-> None]
    /\ clients = {}
    /\ cancelled = {}
    /\ handler = [k \in Streams |-> "none"]
    /\ paying = [k \in Streams |-> None]
    /\ watcher = [w \in Watchers |-> "none"]
    /\ ledger = [i \in Ids |-> "none"]
    /\ payments = [i \in Ids |-> 0]
    /\ late = {}
    /\ crashed = FALSE

\* SubscribeInvoices.  A range in progress may or may not come by the new entry.
Register(c) ==
    /\ clients' = clients \cup {c}
    /\ \E seen \in SUBSET {k \in Streams : todo[k] # {}} :
          todo' = [k \in Streams |-> IF k \in seen THEN todo[k] \cup {c} ELSE todo[k]]

(***************************************************************************)
(* Starting the node: by EnableNode, or by startLightningNodes when the    *)
(* network has come up and the node is enabled.                            *)
(***************************************************************************)
\* LndNode.Start dials, replaces r.conn and r.client, and spawns run().
Start(t) ==
    /\ started < StartBound
    /\ started' = started + 1
    /\ mine' = [mine EXCEPT ![t] = started + 1]
    /\ run' = [run EXCEPT ![started + 1] = "dialled"]
    /\ UNCHANGED <<enabled, closed, event, todo, target, clientVars, lndVars, payments>>

\* Mutant of Enable: the node is not started before it is subscribed to.
EnableWithoutStart ==
    /\ api = "idle"
    /\ ~enabled
    /\ api' = "subscribe"
    /\ UNCHANGED <<enabled, started, net, mine, closed, runVars, clientVars, lndVars, payments>>

\* A PATCH asks for the node to be enabled and finds that it is not.
Enable ==
    /\ api = "idle"
    /\ ~enabled
    /\ api' = "subscribe"
    /\ Start("api")
    /\ UNCHANGED net

\* runLightningNodes receives a Connected update.
NetworkUp ==
    /\ net = "idle"
    /\ enabled
    /\ net' = "subscribe"
    /\ Start("net")
    /\ UNCHANGED api

\* SubscribeInvoices, and the goroutine that handles what the client receives.
SubscribeHandler(k) ==
    /\ Register(k)
    /\ handler' = [handler EXCEPT ![k] = "recv"]
    /\ UNCHANGED <<enabled, started, mine, closed, run, event, target, cancelled, paying,
                   watcher, lndVars, payments>>

ApiSubscribes ==
    /\ api = "subscribe"
    /\ api' = "flag"
    /\ SubscribeHandler(mine["api"])
    /\ UNCHANGED net

NetSubscribes ==
    /\ net = "subscribe"
    /\ net' = "idle"
    /\ SubscribeHandler(mine["net"])
    /\ UNCHANGED api

\* Nodeman.EnableNode or DisableNode: the flag changes, unless the database fails.
SetEnabled ==
    /\ api \in {"flag", "unflag"}
    /\ api' = "idle"
    /\ enabled' \in {enabled, api = "flag"}
    /\ UNCHANGED <<started, net, mine, closed, runVars, clientVars, lndVars, payments>>

(***************************************************************************)
(* Disabling it: LndNode.Stop and then Nodeman.DisableNode                 *)
(***************************************************************************)
\* r.conn.Close() of the latest connection.  On one that is closed it fails, and
\* the request with it.
Disable ==
    /\ api = "idle"
    /\ enabled
    /\ IF started \in closed
       THEN UNCHANGED <<api, closed>>
       ELSE /\ closed' = closed \cup ({started} \ {0})
            /\ api' = "cancel"
    /\ UNCHANGED <<enabled, started, net, mine, runVars, clientVars, lndVars, payments>>

\* Mutant of CancelAll: the clients are cancelled and stay in the map.
CancelAllKeeping ==
    /\ api = "cancel"
    /\ api' = "unflag"
    /\ cancelled' = cancelled \cup clients
    /\ UNCHANGED <<enabled, started, net, mine, closed, runVars, clients, handler, paying, watcher,
                   lndVars, payments>>

\* closeAllInvoiceSubscriptions: out of the map, cancelChan closed.  Nobody waits
\* for cancelChan: the handlers and the watchers do not notice.
CancelAll ==
    /\ api = "cancel"
    /\ api' = "unflag"
    /\ clients' = {}
    /\ cancelled' = cancelled \cup clients
    /\ UNCHANGED <<enabled, started, net, mine, closed, runVars, handler, paying, watcher,
                   lndVars, payments>>

(***************************************************************************)
(* lnd                                                                     *)
(***************************************************************************)
Joined == {k \in Streams : run[k] \in {"recv", "send"}}

Publish(e) == queue' = [k \in Streams |-> IF k \in Joined THEN Append(queue[k], e) ELSE queue[k]]

AddInvoice(i) ==
    /\ ledger[i] = "none"
    /\ started > 0
    /\ ledger' = [ledger EXCEPT ![i] = "open"]
    /\ Publish([id |-> i, settled |-> FALSE])
    /\ UNCHANGED <<startVars, runVars, clientVars, late, payments>>

\* Somebody pays the invoice.
Settle(i) ==
    /\ ledger[i] = "open"
    /\ ledger' = [ledger EXCEPT ![i] = "settled"]
    /\ Publish([id |-> i, settled |-> TRUE])
    /\ late' = late \cup {i} \X (cancelled \cap Streams)
    /\ UNCHANGED <<startVars, runVars, clientVars, payments>>

(***************************************************************************)
(* run()                                                                   *)
(***************************************************************************)
\* r.client.SubscribeInvoices: over the latest connection, not run()'s own.
Join(k) ==
    /\ run[k] = "dialled"
    /\ run' = [run EXCEPT ![k] = IF started \in closed THEN "ended" ELSE "recv"]
    /\ UNCHANGED <<startVars, event, todo, target, clientVars, lndVars, payments>>

\* Subscribing or receiving fails, as it does once the connection is closed.  run()
\* breaks, or after an EOF receives nothing but EOF for good.
StreamBreaks(k) ==
    /\ run[k] \in {"dialled", "recv"}
    /\ run' = [run EXCEPT ![k] = "ended"]
    /\ UNCHANGED <<startVars, event, todo, target, clientVars, lndVars, payments>>

\* Mutant of Receive: the invoice is received again after it has been served.
ReceiveAgain(k) ==
    /\ run[k] = "recv"
    /\ queue[k] # <<>>
    /\ event' = [event EXCEPT ![k] = Head(queue[k])]
    /\ todo' = [todo EXCEPT ![k] = clients]
    /\ run' = [run EXCEPT ![k] = "send"]
    /\ UNCHANGED <<startVars, target, clientVars, lndVars, payments>>

Receive(k) ==
    /\ run[k] = "recv"
    /\ queue[k] # <<>>
    /\ queue' = [queue EXCEPT ![k] = Tail(@)]
    /\ event' = [event EXCEPT ![k] = Head(queue[k])]
    /\ todo' = [todo EXCEPT ![k] = clients]
    /\ run' = [run EXCEPT ![k] = "send"]
    /\ UNCHANGED <<startVars, target, clientVars, ledger, late, payments>>

\* Mutant of Visit: a handler that is busy is passed over.
VisitIdle(k, c) ==
    /\ c \in todo[k]
    /\ target[k] = None
    /\ todo' = [todo EXCEPT ![k] = @ \ {c}]
    /\ target' = [target EXCEPT ![k] =
                     IF c \in clients /\ (c \in Streams => handler[c] = "recv") THEN c ELSE None]
    /\ UNCHANGED <<startVars, run, event, clientVars, lndVars, payments>>

\* The range reaches client c; one that has been deleted meanwhile it skips.
Visit(k, c) ==
    /\ c \in todo[k]
    /\ target[k] = None
    /\ todo' = [todo EXCEPT ![k] = @ \ {c}]
    /\ target' = [target EXCEPT ![k] = IF c \in clients THEN c ELSE None]
    /\ UNCHANGED <<startVars, run, event, clientVars, lndVars, payments>>

\* Mutant of Served: run() waits for another client to come.
ServedIdle(k) ==
    /\ run[k] = "send"
    /\ todo[k] = {}
    /\ target[k] = None
    /\ clients = {}
    /\ run' = [run EXCEPT ![k] = "recv"]
    /\ event' = [event EXCEPT ![k] = None]
    /\ UNCHANGED <<startVars, todo, target, clientVars, lndVars, payments>>

\* The range is over, and run() receives again.
Served(k) ==
    /\ run[k] = "send"
    /\ todo[k] = {}
    /\ target[k] = None
    /\ run' = [run EXCEPT ![k] = "recv"]
    /\ event' = [event EXCEPT ![k] = None]
    /\ UNCHANGED <<startVars, todo, target, clientVars, lndVars, payments>>

(***************************************************************************)
(* The clients                                                             *)
(***************************************************************************)
\* handleLightningNodeInvoices receives, and passes a settled invoice on.
Handle(k, h) ==
    /\ target[k] = h
    /\ handler[h] = "recv"
    /\ target' = [target EXCEPT ![k] = None]
    /\ IF event[k].settled
       THEN /\ handler' = [handler EXCEPT ![h] = "pay"]
            /\ paying' = [paying EXCEPT ![h] = event[k].id]
       ELSE UNCHANGED <<handler, paying>>
    /\ UNCHANGED <<startVars, run, event, todo, clients, cancelled, watcher, lndVars, payments>>

\* handleDispenses receives from d.payments (Dispensing, TakePayment).
Pay(h) ==
    /\ handler[h] = "pay"
    /\ handler' = [handler EXCEPT ![h] = "recv"]
    /\ paying' = [paying EXCEPT ![h] = None]
    /\ payments' = [payments EXCEPT ![paying[h]] = @ + 1]
    /\ UNCHANGED <<startVars, runVars, clients, cancelled, watcher, lndVars>>

\* A write pump subscribes to the active node's invoices.
Watch(w) ==
    /\ watcher[w] = "none"
    /\ watcher' = [watcher EXCEPT ![w] = "select"]
    /\ Register(w)
    /\ UNCHANGED <<startVars, run, event, target, cancelled, handler, paying, lndVars, payments>>

\* It receives: another invoice than its own it skips, its own it writes.
WatcherReceives(k, w) ==
    /\ target[k] = w
    /\ watcher[w] = "select"
    /\ target' = [target EXCEPT ![k] = None]
    /\ watcher' \in {watcher, [watcher EXCEPT ![w] = "writing"]}
    /\ UNCHANGED <<startVars, run, event, todo, clients, cancelled, handler, paying, lndVars,
                   payments>>

WatcherReady(w) ==
    /\ watcher[w] = "writing"
    /\ watcher' = [watcher EXCEPT ![w] = "select"]
    /\ UNCHANGED <<startVars, runVars, clients, cancelled, handler, paying, lndVars, payments>>

\* Mutant of WatcherLeaves: the pump cancels and is not done.
WatcherCancels(w) ==
    /\ watcher[w] \in {"select", "writing"}
    /\ watcher' = [watcher EXCEPT ![w] = "select"]
    /\ clients' = clients \ {w}
    /\ cancelled' = cancelled \cup {w}
    /\ UNCHANGED <<startVars, runVars, handler, paying, lndVars, payments>>

\* A write or a ping fails, and the deferred Cancel runs: out of the map, and
\* close(cancelChan), which panics when the node's Stop has closed it before.
WatcherLeaves(w) ==
    /\ watcher[w] \in {"select", "writing"}
    /\ watcher' = [watcher EXCEPT ![w] = "gone"]
    /\ clients' = clients \ {w}
    /\ cancelled' = cancelled \cup {w}
    /\ UNCHANGED <<startVars, runVars, handler, paying, lndVars, payments>>

(***************************************************************************)
(* The map of the clients                                                  *)
(***************************************************************************)
\* Who is about to write it: a subscription after a start, closeAllInvoiceSubscriptions,
\* and a websocket that comes or leaves.
Writers ==
    {t \in {"api"} : api \in {"subscribe", "cancel"}}
        \cup {t \in {"net"} : net = "subscribe"}
        \cup {w \in Watchers : watcher[w] # "gone"}

\* run() of k goes on with its range over it.
Ranging(k) == run[k] = "send" /\ target[k] = None

Clashing ==
    \/ \E a, b \in Writers : a # b
    \/ Writers # {} /\ \E k \in Streams : Ranging(k)

\* Two goroutines are at the map at one time: the runtime may end the process.
MapRace ==
    /\ Clashing
    /\ crashed' = TRUE
    /\ UNCHANGED <<startVars, runVars, clientVars, lndVars, payments>>

(***************************************************************************)
(* The specification                                                       *)
(***************************************************************************)
NodeStep ==
    \/ Enable \/ NetworkUp \/ ApiSubscribes \/ NetSubscribes \/ SetEnabled
    \/ Disable \/ CancelAll

LndStep == \E i \in Ids : AddInvoice(i) \/ Settle(i)

RunStep(k) ==
    \/ Join(k) \/ StreamBreaks(k) \/ Receive(k) \/ Served(k)
    \/ \E c \in Clients : Visit(k, c)

WatcherStep(w) ==
    \/ Watch(w) \/ WatcherReady(w)
    \/ \E k \in Streams : WatcherReceives(k, w)

Calm ==
    \/ NodeStep
    \/ LndStep
    \/ \E k \in Streams : RunStep(k) \/ Pay(k) \/ \E h \in Streams : Handle(k, h)
    \/ \E w \in Watchers : WatcherStep(w)

Next ==
    /\ ~crashed
    /\ \/ Calm /\ UNCHANGED crashed
       \/ MapRace
       \/ \E w \in Watchers : WatcherLeaves(w) /\ crashed' = (w \in cancelled)

Spec == Init /\ [][Next]_vars

(***************************************************************************)
(* Fairness.  A goroutine that can run does; goroutines blocked on one     *)
(* channel are served in the order they came, so one that could be served  *)
(* again and again is (SF).  A watcher that writes is done or leaves.      *)
(***************************************************************************)
Runs(k) == Receive(k) \/ Served(k) \/ \E c \in Clients : Visit(k, c)

Fair(A) == ~crashed /\ A /\ UNCHANGED crashed

Fairness ==
    /\ \A k \in Streams :
          /\ WF_vars(Fair(Runs(k)))
          /\ WF_vars(Fair(Pay(k)))
          /\ \A h \in Streams : SF_vars(Fair(Handle(k, h)))
          /\ \A w \in Watchers : SF_vars(Fair(WatcherReceives(k, w)))
    /\ \A w \in Watchers : WF_vars(Fair(WatcherReady(w)))

FairSpec == Spec /\ Fairness

(***************************************************************************)
(* Properties                                                              *)
(***************************************************************************)
\* handleDispenses hears of an invoice only once it has been settled, although one that
\* was added travels all the way to the handler, and then once for every stream and
\* handler, so that a node started once reports every payment once and every further
\* start multiplies them (dispenser/nodes.go:51-89, 111-132).
PaidPerStart == \A i \in Ids : payments[i] <= IF ledger[i] = "settled" THEN started * started ELSE 0

\* A handler whose subscription the node's Stop has cancelled is handed no invoice that was
\* settled afterwards, neither by run() of its own start nor by those of earlier ones, whose
\* connections stay open, however far their ranges had come.  So the node is silent after a
\* Stop, unless a start was under way: that one subscribes after it, and is served by every
\* stream that is still open (lightning/lnd.go:143-166, 233-242, dispenser/nodes.go:56-72).
CancelledIsSilent == \A l \in late : paying[l[2]] # l[1]

\* Leave alone that two goroutines were at the map of the clients together, and the daemon
\* ends only after the node's Stop, by a websocket that cancels what Stop has cancelled:
\* before it, websockets and handlers may come and go in any order (lightning/lnd.go:
\* 155-166, 233-242, pos/pos.go:174-218).
EndsAfterStop == [][crashed' /\ ~Clashing => closed # {}]_vars

\* Handlers that have subscribed and whose subscription no Stop has cancelled.
Listening == {k \in Streams : handler[k] # "none"} \ cancelled

Subscribed == {k \in Streams : handler[k] # "none"}

\* The settled invoice i is what run() of k passes on; it is number n of what is to come.
Carries(k, i)  == run[k] = "send" /\ event[k].id = i /\ event[k].settled
Waits(k, i, n) == n \in DOMAIN queue[k] /\ queue[k][n].id = i /\ queue[k][n].settled

Coming(i, k) == \E n \in DOMAIN queue[k] : Waits(k, i, n)

\* The handlers that may yet receive it, and from which stream.
Reaches(k, h, i) ==
    \/ Coming(i, k)
    \/ Carries(k, i) /\ (h \in todo[k] \/ target[k] = h \/ h \notin Subscribed)

Due == {d \in Ids \X Streams \X Streams : Reaches(d[2], d[3], d[1])}

B == INSTANCE Billing WITH
        Starts <- Streams,
        settled <- {i \in Ids : ledger[i] = "settled"},
        open <- Joined,
        listening <- clients \cap Streams,
        due <- Due,
        serving <- paying,
        paid <- payments,
        stopped <- closed # {}

\* However starts, stops, websockets and handlers interleave, a handler is given a
\* settled invoice at most once by every stream that was open then, also when it
\* subscribes while run() ranges over the clients, and pays what it is given before it
\* takes more.  What a handler has coming is never skipped or forgotten as long as it is
\* subscribed, although the clients change under every range, and no subscription ends before
\* the node's Stop (lightning/lnd.go:102-166, 227-262, dispenser/nodes.go:51-89, 111-132).
BilledByStream == B!Spec

Gone(k) == run[k] = "ended" \/ k \notin Listening \/ crashed

\* An invoice on the stream of a start that has its handler reaches handleDispenses,
\* unless the stream breaks, the node is stopped, or run() is blocked sending to a
\* websocket that has left (lightning/lnd.go:143-151).
PaidUnlessWatcherGone ==
    \A i \in Ids, k \in Streams :
        Coming(i, k) /\ k \in Listening ~>
            \/ payments[i] > 0
            \/ Gone(k)
            \/ \E w \in Watchers : watcher[w] = "gone" /\ target[k] = w

\* "react on incoming payments" (dispenser/dispenser.go:258), each of which gets
\* one dispense: no payment is handed to handleDispenses twice.
PaidOnce == \A i \in Ids : payments[i] <= 1
=============================================================================
