--------------------------- MODULE Invoices_proof ---------------------------
(***************************************************************************)
(* The safety of Invoices, for any number of invoices, websockets and      *)
(* starts.                                                                 *)
(***************************************************************************)
EXTENDS Invoices, FiniteSetTheorems, TLAPS

(***************************************************************************)
(* The inductive invariant.                                                *)
(***************************************************************************)
\* Starts are numbered, and each is subscribed to once, by the one who made it.
Starts ==
    /\ Subscribed \subseteq 1..started
    /\ clients \cap Streams \subseteq Listening
    /\ cancelled \cap Streams \subseteq Subscribed
    /\ api = "subscribe" => mine["api"] \in 1..started /\ mine["api"] \notin Subscribed
    /\ net = "subscribe" => /\ mine["net"] \in 1..started /\ mine["net"] \notin Subscribed
                            /\ api = "subscribe" => mine["api"] # mine["net"]

\* What is closed or cancelled follows a start and a stop.
Stops ==
    /\ enabled \/ api \in {"subscribe", "flag"} => started > 0
    /\ api = "cancel" => closed # {}
    /\ \A w \in Watchers : w \in cancelled /\ watcher[w] # "gone" => closed # {}

\* run() of start k has an invoice while it sends, to clients that have subscribed.
Sends(k) ==
    /\ run[k] # "none" => k <= started
    /\ run[k] \in {"none", "dialled"} => queue[k] = <<>>
    /\ run[k] = "send" => event[k] \in Event
    /\ run[k] # "send" => event[k] = None /\ todo[k] = {} /\ target[k] = None
    /\ todo[k] \cap Streams \subseteq Subscribed
    /\ target[k] \in Streams => target[k] \in Subscribed /\ target[k] \notin todo[k]

Sending == \A k \in Streams : Sends(k)

Paying == \A h \in Streams : paying[h] \in Ids <=> handler[h] = "pay"

\* It is there at most once, and only when it has been settled.
Unique(k, i) ==
    /\ \A m, n \in DOMAIN queue[k] : Waits(k, i, m) /\ Waits(k, i, n) => m = n
    /\ Carries(k, i) => \A n \in DOMAIN queue[k] : ~Waits(k, i, n)

Unsettled(i) ==
    /\ payments[i] = 0
    /\ \A h \in Streams : paying[h] # i
    /\ \A k \in Streams : ~Carries(k, i) /\ \A n \in DOMAIN queue[k] : ~Waits(k, i, n)

Once ==
    /\ \A k \in Streams, i \in Ids : Unique(k, i)
    /\ \A i \in Ids : ledger[i] # "settled" => Unsettled(i)

\* The settled invoice i came after the subscription of h was cancelled: nobody is about to
\* give it to h.
Unheard(i, h) ==
    /\ h \in cancelled
    /\ paying[h] # i
    /\ \A k \in Streams : Carries(k, i) => h \notin todo[k] /\ target[k] # h

Silent == \A l \in late : Unheard(l[1], l[2])

Left(i)     == {p \in (1..started) \X (1..started) : Reaches(p[1], p[2], i)}
PayingOf(i) == {h \in Streams : paying[h] = i}

\* What has been paid and may yet be is bounded by the pairs of streams and handlers.
Bound(i) == payments[i] + Cardinality(PayingOf(i)) + Cardinality(Left(i)) <= started * started

Bounded == \A i \in Ids : ledger[i] = "settled" => Bound(i)

Shape == Starts /\ Stops /\ Sending /\ Paying

IInv == TypeOK /\ Shape /\ Once /\ Silent /\ Bounded

LEMMA NoneIs == /\ None \notin Ids /\ None \notin Streams /\ None \notin Watchers
                /\ \A w \in Watchers : w \notin Streams
BY NoneAssumption, WatchersAssumption, StartBoundAssumption DEF Streams

LEMMA Initially == Init => IInv
<1> SUFFICES ASSUME Init PROVE IInv
    OBVIOUS
<1> USE DEF Init
<1>1. TypeOK
  <2>1. started \in 0..StartBound /\ mine \in [{"api", "net"} -> 0..StartBound]
        BY StartBoundAssumption
  <2>2. /\ queue \in [Streams -> Seq(Event)]
        /\ event \in [Streams -> Event \cup {None}] /\ todo \in [Streams -> SUBSET Clients]
        /\ target \in [Streams -> Clients \cup {None}]
        BY StartBoundAssumption
  <2>3. QED
        BY <2>1, <2>2 DEF TypeOK
<1>2. Shape
  <2>1. Subscribed = {} /\ Listening = {}
        BY DEF Subscribed, Listening
  <2>2. Starts /\ Stops
        BY <2>1 DEF Starts, Stops
  <2>3. Sending /\ Paying
        BY <2>1, NoneIs DEF Sending, Sends, Paying
  <2>4. QED
        BY <2>2, <2>3 DEF Shape
<1>3. Once /\ Silent /\ Bounded
  <2>0. \A k \in Streams : DOMAIN queue[k] = {} /\ run[k] = "none" /\ paying[k] = None
        OBVIOUS
  <2>1. \A k \in Streams, i \in Ids : Unique(k, i)
        BY <2>0 DEF Unique, Waits, Carries
  <2>2. \A i \in Ids : Unsettled(i)
        BY <2>0, NoneIs DEF Unsettled, Waits, Carries
  <2>3. QED
        BY <2>1, <2>2 DEF Once, Silent, Bounded
<1>4. QED
      BY <1>1, <1>2, <1>3 DEF IInv

(***************************************************************************)
(* The types.                                                              *)
(***************************************************************************)
\* A range in progress may be given the client that registers.
LEMMA RegisterDoes ==
    ASSUME TypeOK, NEW c \in Clients, Register(c)
    PROVE  /\ clients' = clients \cup {c}
           /\ todo' \in [Streams -> SUBSET Clients]
           /\ \A k \in Streams : \/ todo'[k] = todo[k]
                                 \/ todo[k] # {} /\ todo'[k] = todo[k] \cup {c}
BY DEF Register, TypeOK

LEMMA StartTypes ==
    ASSUME TypeOK, Shape, crashed' = crashed, NEW t \in {"api", "net"}, Start(t),
           api' \in {"idle", "subscribe", "flag", "cancel", "unflag"}, net' \in {"idle", "subscribe"}
    PROVE  TypeOK'
<1>1. started' \in 0..StartBound /\ started + 1 \in Streams
      BY StartBoundAssumption DEF Start, TypeOK, Streams
<1>2. mine' \in [{"api", "net"} -> 0..StartBound]
      BY <1>1 DEF Start, TypeOK
<1>3. run' \in [Streams -> {"none", "dialled", "recv", "send", "ended"}]
      BY <1>1 DEF Start, TypeOK
<1>4. QED
      BY <1>1, <1>2, <1>3 DEF Start, TypeOK, clientVars, lndVars

LEMMA SubscribeTypes ==
    ASSUME TypeOK, crashed' = crashed, NEW k \in Streams, SubscribeHandler(k),
           api' \in {"idle", "subscribe", "flag", "cancel", "unflag"}, net' \in {"idle", "subscribe"}
    PROVE  TypeOK'
<1>1. k \in Clients
      BY DEF Clients
<1>2. clients' \in SUBSET Clients /\ todo' \in [Streams -> SUBSET Clients]
      BY <1>1, RegisterDoes DEF SubscribeHandler, TypeOK
<1>3. handler' \in [Streams -> {"none", "recv", "pay"}] /\ late' \in SUBSET (Ids \X Streams)
      BY DEF SubscribeHandler, TypeOK, lndVars
<1>4. QED
      BY <1>2, <1>3 DEF SubscribeHandler, TypeOK, lndVars

LEMMA StopTypes ==
    ASSUME TypeOK, crashed' = crashed, SetEnabled \/ Disable \/ CancelAll
    PROVE  TypeOK'
<1> USE DEF TypeOK, runVars, clientVars, lndVars
<1>1. CASE SetEnabled
  <2>1. (api = "flag") \in BOOLEAN
        OBVIOUS
  <2>2. enabled' \in BOOLEAN
        BY <1>1, <2>1, Zenon DEF SetEnabled
  <2>3. QED
        BY <1>1, <2>2 DEF SetEnabled
<1>2. CASE Disable
  <2>1. closed' \in SUBSET Streams
    <3>1. {started} \ {0} \subseteq Streams
          BY StartBoundAssumption DEF Streams
    <3>2. closed' = closed \/ closed' = closed \cup ({started} \ {0})
          BY <1>2 DEF Disable
    <3>3. QED
          BY <3>1, <3>2
  <2>2. QED
        BY <1>2, <2>1 DEF Disable
<1>3. CASE CancelAll
      BY <1>3 DEF CancelAll
<1>4. QED
      BY <1>1, <1>2, <1>3

LEMMA LndTypes ==
    ASSUME TypeOK, crashed' = crashed, NEW i \in Ids, AddInvoice(i) \/ Settle(i)
    PROVE  TypeOK'
<1>1. PICK e \in Event : Publish(e)
      BY DEF AddInvoice, Settle, Event
<1>2. queue' \in [Streams -> Seq(Event)]
  <2>1. \A k \in Streams : queue[k] \in Seq(Event)
        BY DEF TypeOK
  <2>2. \A k \in Streams : Append(queue[k], e) \in Seq(Event)
        BY <2>1
  <2>3. QED
        BY <1>1, <2>1, <2>2 DEF Publish
<1>3. ledger' \in [Ids -> {"none", "open", "settled"}] /\ late' \in SUBSET (Ids \X Streams)
      BY DEF AddInvoice, Settle, TypeOK
<1>4. QED
      BY <1>2, <1>3 DEF AddInvoice, Settle, TypeOK, startVars, runVars, clientVars

LEMMA RunTypes ==
    ASSUME TypeOK, crashed' = crashed, NEW k \in Streams, RunStep(k)
    PROVE  TypeOK'
<1> USE DEF TypeOK, startVars, clientVars
<1>1. CASE Join(k)
      BY <1>1 DEF Join, lndVars
<1>2. CASE StreamBreaks(k)
      BY <1>2 DEF StreamBreaks, lndVars
<1>3. CASE Receive(k)
  <2>1. queue[k] \in Seq(Event) /\ queue[k] # <<>>
        BY <1>3 DEF Receive
  <2>2. Head(queue[k]) \in Event /\ Tail(queue[k]) \in Seq(Event)
        BY <2>1
  <2>3. queue' \in [Streams -> Seq(Event)]
        BY <1>3, <2>2 DEF Receive
  <2>4. event' \in [Streams -> Event \cup {None}]
        BY <1>3, <2>2 DEF Receive
  <2>5. todo' \in [Streams -> SUBSET Clients]
        BY <1>3 DEF Receive
  <2>6. run' \in [Streams -> {"none", "dialled", "recv", "send", "ended"}]
        BY <1>3 DEF Receive
  <2>7. QED
        BY <1>3, <2>3, <2>4, <2>5, <2>6 DEF Receive
<1>4. CASE Served(k)
      BY <1>4 DEF Served, lndVars
<1>5. ASSUME NEW c \in Clients, Visit(k, c)
      PROVE  TypeOK'
  <2>1. todo' \in [Streams -> SUBSET Clients]
        BY <1>5 DEF Visit
  <2>2. target' \in [Streams -> Clients \cup {None}]
        BY <1>5 DEF Visit
  <2>3. QED
        BY <1>5, <2>1, <2>2 DEF Visit, lndVars
<1>6. QED
      BY <1>1, <1>2, <1>3, <1>4, <1>5 DEF RunStep

LEMMA ClientTypes ==
    ASSUME TypeOK, Shape, crashed' = crashed, NEW k \in Streams, NEW h \in Streams,
           Handle(k, h) \/ Pay(h)
    PROVE  TypeOK'
<1>1. CASE Handle(k, h)
  <2>1. target' \in [Streams -> Clients \cup {None}]
        BY <1>1 DEF Handle, TypeOK
  <2>2. run[k] = "send"
        BY <1>1, NoneIs DEF Handle, Shape, Sending, Sends
  <2>3. event[k].id \in Ids
        BY <2>2 DEF Shape, Sending, Sends, Event
  <2>4. handler' \in [Streams -> {"none", "recv", "pay"}] /\ paying' \in [Streams -> Ids \cup {None}]
        BY <1>1, <2>3 DEF Handle, TypeOK
  <2>5. QED
        BY <1>1, <2>1, <2>4 DEF Handle, TypeOK, startVars, lndVars
<1>2. CASE Pay(h)
  <2>1. handler' \in [Streams -> {"none", "recv", "pay"}] /\ paying' \in [Streams -> Ids \cup {None}]
        BY <1>2 DEF Pay, TypeOK
  <2>2. payments' \in [Ids -> Nat]
    <3>1. paying[h] \in Ids
          BY <1>2 DEF Pay, Shape, Paying
    <3>2. payments[paying[h]] + 1 \in Nat
          BY <3>1 DEF TypeOK
    <3>3. QED
          BY <1>2, <3>2 DEF Pay, TypeOK
  <2>3. QED
        BY <1>2, <2>1, <2>2 DEF Pay, TypeOK, startVars, runVars, lndVars
<1>3. QED
      BY <1>1, <1>2

LEMMA WatcherTypes ==
    ASSUME TypeOK, crashed' = crashed, NEW w \in Watchers, WatcherStep(w)
    PROVE  TypeOK'
<1> USE DEF TypeOK, startVars, lndVars
<1>1. w \in Clients
      BY DEF Clients
<1>2. CASE Watch(w)
  <2>1. clients' \in SUBSET Clients /\ todo' \in [Streams -> SUBSET Clients]
        BY <1>1, <1>2, RegisterDoes DEF Watch
  <2>2. QED
        BY <1>2, <2>1 DEF Watch
<1>3. CASE WatcherReady(w)
      BY <1>3 DEF WatcherReady, runVars
<1>4. ASSUME NEW k \in Streams, WatcherReceives(k, w)
      PROVE  TypeOK'
  <2>1. target' \in [Streams -> Clients \cup {None}]
        BY <1>4 DEF WatcherReceives
  <2>2. watcher' \in [Watchers -> {"none", "select", "writing", "gone"}]
    <3>1. CASE watcher' = watcher
          BY <3>1
    <3>2. CASE watcher' = [watcher EXCEPT ![w] = "writing"]
          BY <3>2
    <3>3. QED
          BY <1>4, <3>1, <3>2 DEF WatcherReceives
  <2>3. QED
        BY <1>4, <2>1, <2>2 DEF WatcherReceives
<1>5. QED
      BY <1>2, <1>3, <1>4 DEF WatcherStep

LEMMA LeaveTypes ==
    ASSUME TypeOK, NEW w \in Watchers, WatcherLeaves(w), crashed' = (w \in cancelled)
    PROVE  TypeOK'
<1>1. crashed' \in BOOLEAN
  <2>1. (w \in cancelled) \in BOOLEAN
        OBVIOUS
  <2>2. QED
        BY <2>1
<1>2. clients' \in SUBSET Clients /\ cancelled' \in SUBSET Clients
      BY DEF WatcherLeaves, TypeOK, Clients
<1>3. watcher' \in [Watchers -> {"none", "select", "writing", "gone"}]
      BY DEF WatcherLeaves, TypeOK
<1>4. QED
      BY <1>1, <1>2, <1>3 DEF WatcherLeaves, TypeOK, runVars, startVars, lndVars

LEMMA TypeStep == TypeOK /\ Shape /\ [Next]_vars => TypeOK'
<1> SUFFICES ASSUME TypeOK, Shape, [Next]_vars PROVE TypeOK'
    OBVIOUS
<1>1. CASE UNCHANGED vars
      BY <1>1 DEF TypeOK, vars, startVars, runVars, clientVars, lndVars
<1>2. ASSUME NodeStep, UNCHANGED crashed
      PROVE  TypeOK'
  <2>1. CASE Enable \/ NetworkUp
        BY <1>2, <2>1, StartTypes DEF Enable, NetworkUp, TypeOK
  <2>2. CASE ApiSubscribes
    <3>1. mine["api"] \in Streams
          BY <2>2, StartBoundAssumption DEF ApiSubscribes, Shape, Starts, TypeOK, Streams
    <3>2. QED
          BY <1>2, <2>2, <3>1, SubscribeTypes DEF ApiSubscribes, TypeOK
  <2>3. CASE NetSubscribes
    <3>1. mine["net"] \in Streams
          BY <2>3, StartBoundAssumption DEF NetSubscribes, Shape, Starts, TypeOK, Streams
    <3>2. QED
          BY <1>2, <2>3, <3>1, SubscribeTypes DEF NetSubscribes, TypeOK
  <2>4. QED
        BY <1>2, <2>1, <2>2, <2>3, StopTypes DEF NodeStep
<1>3. ASSUME NEW w \in Watchers, WatcherLeaves(w), crashed' = (w \in cancelled)
      PROVE  TypeOK'
      BY <1>3, LeaveTypes
<1>4. ASSUME NEW k \in Streams, NEW h \in Streams, Pay(k) \/ Handle(k, h), UNCHANGED crashed
      PROVE  TypeOK'
      BY <1>4, ClientTypes
<1>5. ASSUME NEW w \in Watchers, WatcherStep(w), UNCHANGED crashed
      PROVE  TypeOK'
      BY <1>5, WatcherTypes
<1>6. ASSUME LndStep, UNCHANGED crashed
      PROVE  TypeOK'
      BY <1>6, LndTypes DEF LndStep
<1>7. ASSUME NEW k \in Streams, RunStep(k), UNCHANGED crashed
      PROVE  TypeOK'
      BY <1>7, RunTypes
<1>8. CASE Calm /\ UNCHANGED crashed
  <2>1. ASSUME NEW k \in Streams, RunStep(k) \/ Pay(k) \/ \E h \in Streams : Handle(k, h)
        PROVE  TypeOK'
        BY <1>4, <1>7, <1>8, <2>1
  <2>2. QED
        BY <1>2, <1>5, <1>6, <1>8, <2>1 DEF Calm
<1>9. CASE \E w \in Watchers : WatcherLeaves(w) /\ crashed' = (w \in cancelled)
      BY <1>3, <1>9, Zenon
<1>10. CASE MapRace
       BY <1>10 DEF MapRace, TypeOK, startVars, runVars, clientVars, lndVars
<1>11. QED
       BY <1>1, <1>8, <1>9, <1>10, Zenon DEF Next

(***************************************************************************)
(* Starts and subscriptions.                                               *)
(***************************************************************************)
\* What a step leaves of the handlers' subscriptions.
LEMMA SameSubscribed ==
    ASSUME \A k \in Streams : handler'[k] = "none" <=> handler[k] = "none"
    PROVE  Subscribed' = Subscribed
BY DEF Subscribed

LEMMA HandlersStay ==
    ASSUME TypeOK, NEW k \in Streams, NEW h \in Streams, Handle(k, h) \/ Pay(h)
    PROVE  \A g \in Streams : handler'[g] = "none" <=> handler[g] = "none"
<1>1. CASE Handle(k, h)
      BY <1>1 DEF Handle, TypeOK
<1>2. CASE Pay(h)
      BY <1>2 DEF Pay, TypeOK
<1>3. QED
      BY <1>1, <1>2

LEMMA StartKeeps ==
    ASSUME TypeOK, Starts, Enable \/ NetworkUp
    PROVE  Starts'
<1>1. PICK t \in {"api", "net"} : /\ Start(t)
                                  /\ t = "api" => api' = "subscribe" /\ net' = net
                                  /\ t = "net" => net' = "subscribe" /\ api' = api
      BY DEF Enable, NetworkUp
<1>2. /\ started' = started + 1 /\ started \in Nat
      /\ mine'[t] = started + 1
      /\ \A u \in {"api", "net"} \ {t} : mine'[u] = mine[u]
      BY <1>1, StartBoundAssumption DEF Start, TypeOK
<1>3. UNCHANGED <<handler, clients, cancelled>>
      BY <1>1 DEF Start, clientVars
<1>4. Subscribed' = Subscribed /\ Listening' = Listening
      BY <1>3 DEF Subscribed, Listening
<1>5. Subscribed \subseteq 1..started /\ started + 1 \notin 1..started /\ 1..started \subseteq 1..started'
      BY <1>2 DEF Starts
<1>6. CASE t = "api"
      BY <1>1, <1>2, <1>3, <1>4, <1>5, <1>6 DEF Starts
<1>7. CASE t = "net"
      BY <1>1, <1>2, <1>3, <1>4, <1>5, <1>7 DEF Starts
<1>8. QED
      BY <1>6, <1>7

LEMMA SubscribeDoes ==
    ASSUME TypeOK, Starts, NEW k \in 1..started, k \notin Subscribed, SubscribeHandler(k)
    PROVE  /\ k \in Streams /\ k \notin cancelled /\ handler[k] = "none"
           /\ Subscribed' = Subscribed \cup {k} /\ Listening' = Listening \cup {k}
           /\ clients' = clients \cup {k} /\ cancelled' = cancelled /\ started' = started
           /\ mine' = mine
<1>1. k \in Streams
      BY StartBoundAssumption DEF TypeOK, Streams
<1>2. handler[k] = "none" /\ k \notin cancelled
      BY <1>1 DEF Subscribed, Starts
<1>3. /\ \A h \in Streams : handler'[h] = (IF h = k THEN "recv" ELSE handler[h])
      /\ clients' = clients \cup {k} /\ cancelled' = cancelled /\ started' = started /\ mine' = mine
      BY <1>1 DEF SubscribeHandler, Register, TypeOK
<1>4. Subscribed' = Subscribed \cup {k}
      BY <1>1, <1>3 DEF Subscribed
<1>5. Listening' = Listening \cup {k}
      BY <1>1, <1>2, <1>3 DEF Listening
<1>6. QED
      BY <1>1, <1>2, <1>3, <1>4, <1>5

LEMMA SubscribeKeeps ==
    ASSUME TypeOK, Starts, ApiSubscribes \/ NetSubscribes
    PROVE  Starts'
<1>1. CASE ApiSubscribes
  <2> DEFINE k == mine["api"]
  <2>1. k \in 1..started /\ k \notin Subscribed
        BY <1>1 DEF ApiSubscribes, Starts
  <2>2. SubscribeHandler(k) /\ api' = "flag" /\ net' = net
        BY <1>1 DEF ApiSubscribes
  <2>3. net = "subscribe" => mine["net"] # k
        BY <1>1 DEF ApiSubscribes, Starts
  <2> HIDE DEF k
  <2>4. QED
        BY <2>1, <2>2, <2>3, SubscribeDoes DEF Starts
<1>2. CASE NetSubscribes
  <2> DEFINE k == mine["net"]
  <2>1. k \in 1..started /\ k \notin Subscribed
        BY <1>2 DEF NetSubscribes, Starts
  <2>2. SubscribeHandler(k) /\ net' = "idle" /\ api' = api
        BY <1>2 DEF NetSubscribes
  <2>3. api = "subscribe" => mine["api"] # k
        BY <1>2 DEF NetSubscribes, Starts
  <2> HIDE DEF k
  <2>4. QED
        BY <2>1, <2>2, <2>3, SubscribeDoes DEF Starts
<1>3. QED
      BY <1>1, <1>2

LEMMA StartsStep == TypeOK /\ Starts /\ [Next]_vars => Starts'
<1> SUFFICES ASSUME TypeOK, Starts, [Next]_vars PROVE Starts'
    OBVIOUS
<1>1. ASSUME UNCHANGED <<started, clients, cancelled, mine>>, api' \in {api, "idle", "cancel"}, net' = net,
             \A k \in Streams : handler'[k] = "none" <=> handler[k] = "none"
      PROVE  Starts'
      BY <1>1 DEF Starts, Subscribed, Listening
<1>2. CASE SetEnabled \/ Disable
      BY <1>1, <1>2 DEF SetEnabled, Disable, clientVars
<1>3. CASE CancelAll
  <2>1. /\ clients' = {} /\ cancelled' = cancelled \cup clients /\ api' = "unflag"
        /\ UNCHANGED <<started, mine, net, handler>>
        BY <1>3 DEF CancelAll
  <2>2. Subscribed' = Subscribed
        BY <2>1 DEF Subscribed
  <2>3. Listening \subseteq Subscribed
        BY DEF Listening, Subscribed
  <2>4. QED
        BY <2>1, <2>2, <2>3 DEF Starts
<1>4. ASSUME NEW i \in Ids, AddInvoice(i) \/ Settle(i)
      PROVE  Starts'
      BY <1>1, <1>4 DEF AddInvoice, Settle, startVars, clientVars
<1>5. ASSUME NEW k \in Streams, RunStep(k)
      PROVE  Starts'
      BY <1>1, <1>5 DEF RunStep, Join, StreamBreaks, Receive, Served, Visit, startVars, clientVars
<1>6. ASSUME NEW k \in Streams, NEW h \in Streams, Handle(k, h) \/ Pay(h)
      PROVE  Starts'
  <2>1. UNCHANGED <<started, clients, cancelled, mine, api, net>>
        BY <1>6 DEF Handle, Pay, startVars
  <2>2. QED
        BY <1>1, <1>6, <2>1, HandlersStay
<1>7. ASSUME NEW w \in Watchers, Watch(w) \/ WatcherLeaves(w)
      PROVE  Starts'
  <2>1. /\ clients' \cap Streams = clients \cap Streams
        /\ cancelled' \cap Streams = cancelled \cap Streams
        /\ UNCHANGED <<started, mine, api, net, handler>>
        BY <1>7, NoneIs DEF Watch, WatcherLeaves, Register, startVars
  <2>2. Subscribed' = Subscribed /\ Listening' = Listening
        BY <2>1 DEF Subscribed, Listening
  <2>3. QED
        BY <2>1, <2>2 DEF Starts
<1>8. ASSUME NEW w \in Watchers, NEW k \in Streams, WatcherReady(w) \/ WatcherReceives(k, w)
      PROVE  Starts'
      BY <1>1, <1>8 DEF WatcherReady, WatcherReceives, startVars
<1>9. CASE UNCHANGED vars \/ MapRace
      BY <1>1, <1>9 DEF vars, MapRace, startVars, clientVars
<1>10. ASSUME NEW w \in Watchers, WatcherReady(w)
       PROVE  Starts'
       BY <1>1, <1>10 DEF WatcherReady, startVars
<1>11. CASE NodeStep
       BY <1>2, <1>3, <1>11, StartKeeps, SubscribeKeeps DEF NodeStep
<1>12. QED
       BY <1>4, <1>5, <1>6, <1>7, <1>8, <1>9, <1>10, <1>11 DEF Next, Calm, LndStep, WatcherStep

LEMMA StopsStep == TypeOK /\ Stops /\ [Next]_vars => Stops'
<1> SUFFICES ASSUME TypeOK, Stops, [Next]_vars PROVE Stops'
    OBVIOUS
<1> USE DEF Stops
<1>0. started \in Nat
      BY StartBoundAssumption DEF TypeOK
<1>1. CASE Enable \/ NetworkUp
      BY <1>0, <1>1 DEF Enable, NetworkUp, Start, clientVars
<1>2. CASE ApiSubscribes \/ NetSubscribes
      BY <1>2 DEF ApiSubscribes, NetSubscribes, SubscribeHandler
<1>3. CASE SetEnabled
  <2>1. enabled' => enabled \/ api = "flag"
    <3>1. enabled' = enabled \/ enabled' = (api = "flag")
          BY <1>3 DEF SetEnabled
    <3>2. QED
          BY <3>1
  <2>2. api' = "idle" /\ UNCHANGED <<started, closed, cancelled, watcher>>
        BY <1>3 DEF SetEnabled, clientVars
  <2>3. QED
        BY <2>1, <2>2
<1>4. CASE Disable
  <2>1. enabled /\ started > 0 /\ UNCHANGED <<enabled, started, cancelled, watcher>>
        BY <1>4 DEF Disable, clientVars
  <2>2. \/ UNCHANGED <<api, closed>>
        \/ api' = "cancel" /\ closed' = closed \cup ({started} \ {0})
        BY <1>4 DEF Disable
  <2>3. {started} \ {0} # {}
        BY <1>0, <2>1
  <2>4. QED
        BY <2>1, <2>2, <2>3
<1>5. CASE CancelAll
      BY <1>5 DEF CancelAll
<1>6. ASSUME NEW i \in Ids, AddInvoice(i) \/ Settle(i)
      PROVE  Stops'
      BY <1>6 DEF AddInvoice, Settle, startVars, clientVars
<1>7. ASSUME NEW k \in Streams, RunStep(k)
      PROVE  Stops'
      BY <1>7 DEF RunStep, Join, StreamBreaks, Receive, Served, Visit, startVars, clientVars
<1>8. ASSUME NEW k \in Streams, NEW h \in Streams, Handle(k, h) \/ Pay(h)
      PROVE  Stops'
      BY <1>8 DEF Handle, Pay, startVars
<1>9. ASSUME NEW w \in Watchers, Watch(w) \/ WatcherReady(w)
      PROVE  Stops'
  <2>1. UNCHANGED <<enabled, started, api, closed, cancelled>>
        BY <1>9 DEF Watch, WatcherReady, startVars
  <2>2. watcher[w] # "gone" /\ \A v \in Watchers \ {w} : watcher'[v] = watcher[v]
        BY <1>9 DEF Watch, WatcherReady, TypeOK
  <2>3. QED
        BY <2>1, <2>2
<1>10. ASSUME NEW w \in Watchers, NEW k \in Streams, WatcherReceives(k, w)
       PROVE  Stops'
  <2>1. UNCHANGED <<enabled, started, api, closed, cancelled>>
        BY <1>10 DEF WatcherReceives, startVars
  <2>2. \A v \in Watchers : watcher'[v] # "gone" => watcher[v] # "gone"
    <3>1. CASE watcher' = watcher
          BY <3>1
    <3>2. CASE watcher' = [watcher EXCEPT ![w] = "writing"]
          BY <1>10, <3>2 DEF WatcherReceives, TypeOK
    <3>3. QED
          BY <1>10, <3>1, <3>2 DEF WatcherReceives
  <2>3. QED
        BY <2>1, <2>2
<1>11. ASSUME NEW w \in Watchers, WatcherLeaves(w)
       PROVE  Stops'
       BY <1>11 DEF WatcherLeaves, startVars, TypeOK
<1>12. CASE UNCHANGED vars \/ MapRace
       BY <1>12 DEF vars, MapRace, startVars, clientVars
<1>13. QED
       BY <1>1, <1>2, <1>3, <1>4, <1>5, <1>6, <1>7, <1>8, <1>9, <1>10, <1>11, <1>12
          DEF Next, Calm, NodeStep, LndStep, WatcherStep

(***************************************************************************)
(* What run() and the handlers hold.                                       *)
(***************************************************************************)
LEMMA PayingStep == TypeOK /\ Shape /\ [Next]_vars => Paying'
<1> SUFFICES ASSUME TypeOK, Shape, [Next]_vars PROVE Paying'
    OBVIOUS
<1>0. Paying /\ Starts /\ Sending
      BY DEF Shape
<1>1. CASE UNCHANGED <<handler, paying>>
      BY <1>0, <1>1 DEF Paying
<1>2. ASSUME NEW k \in 1..started, k \notin Subscribed, SubscribeHandler(k)
      PROVE  Paying'
  <2>1. k \in Streams /\ handler[k] = "none"
        BY <1>0, <1>2, SubscribeDoes
  <2>2. QED
        BY <1>0, <1>2, <2>1 DEF SubscribeHandler, Paying, TypeOK
<1>3. ASSUME NEW k \in Streams, NEW h \in Streams, Handle(k, h)
      PROVE  Paying'
  <2>1. run[k] = "send"
        BY <1>0, <1>3, NoneIs DEF Handle, Sending, Sends
  <2>2. event[k].id \in Ids
        BY <1>0, <2>1 DEF Sending, Sends, Event
  <2>3. \A g \in Streams : \/ /\ handler'[g] = (IF g = h THEN "pay" ELSE handler[g])
                              /\ paying'[g] = (IF g = h THEN event[k].id ELSE paying[g])
                           \/ handler'[g] = handler[g] /\ paying'[g] = paying[g]
        BY <1>3 DEF Handle, TypeOK
  <2>4. QED
        BY <1>0, <2>2, <2>3 DEF Paying
<1>4. ASSUME NEW h \in Streams, Pay(h)
      PROVE  Paying'
  <2>1. \A g \in Streams : /\ handler'[g] = (IF g = h THEN "recv" ELSE handler[g])
                           /\ paying'[g] = (IF g = h THEN None ELSE paying[g])
        BY <1>4 DEF Pay, TypeOK
  <2>2. QED
        BY <1>0, <2>1, NoneIs DEF Paying
<1>5. CASE ApiSubscribes \/ NetSubscribes
      BY <1>0, <1>2, <1>5 DEF ApiSubscribes, NetSubscribes, Starts
<1>6. QED
      BY <1>1, <1>3, <1>4, <1>5
         DEF Next, MapRace, Calm, NodeStep, LndStep, RunStep, WatcherStep, Enable, NetworkUp, Start, SetEnabled,
             Disable, CancelAll, AddInvoice, Settle, Join, StreamBreaks, Receive, Served, Visit, Watch,
             WatcherReady, WatcherReceives, WatcherLeaves, vars, clientVars

\* What lnd publishes comes behind what is still to come.
LEMMA PublishDoes ==
    ASSUME TypeOK, NEW e \in Event, Publish(e), NEW k \in Streams
    PROVE  /\ queue'[k] = queue[k] \/ k \in Joined
           /\ DOMAIN queue[k] \subseteq DOMAIN queue'[k]
           /\ \A n \in DOMAIN queue[k] : queue'[k][n] = queue[k][n]
           /\ \A n \in DOMAIN queue'[k] :
                 n \in DOMAIN queue[k] \/ (n = Len(queue[k]) + 1 /\ queue'[k][n] = e)
<1>1. queue[k] \in Seq(Event)
      BY DEF TypeOK
<1>2. queue'[k] = queue[k] \/ (k \in Joined /\ queue'[k] = Append(queue[k], e))
      BY DEF Publish, TypeOK
<1>3. /\ DOMAIN Append(queue[k], e) = 1..Len(queue[k]) + 1 /\ DOMAIN queue[k] = 1..Len(queue[k])
      /\ Len(queue[k]) \in Nat
      /\ \A n \in 1..Len(queue[k]) + 1 :
            Append(queue[k], e)[n] = IF n = Len(queue[k]) + 1 THEN e ELSE queue[k][n]
      BY <1>1
<1>4. QED
      BY <1>2, <1>3

LEMMA SendingRun ==
    ASSUME TypeOK, Starts, Sending, NEW k \in Streams, RunStep(k)
    PROVE  Sending'
<1> SUFFICES ASSUME NEW q \in Streams PROVE Sends(q)'
    BY DEF Sending
<1> USE DEF TypeOK, startVars, clientVars, lndVars
<1>0. Sends(q) /\ UNCHANGED <<started, handler, clients>> /\ Subscribed' = Subscribed
      BY DEF Sending, RunStep, Join, StreamBreaks, Receive, Served, Visit, Subscribed
<1>1. CASE Join(k) \/ StreamBreaks(k) \/ Served(k)
      BY <1>0, <1>1, NoneIs DEF Join, StreamBreaks, Served, Sends
<1>2. CASE Receive(k)
  <2>1. CASE q = k
    <3>1. queue[k] \in Seq(Event) /\ queue[k] # <<>> /\ run[k] = "recv"
          BY <1>2 DEF Receive
    <3>2. Head(queue[k]) \in Event
          BY <3>1
    <3>3. event'[k] = Head(queue[k]) /\ todo'[k] = clients /\ run'[k] = "send" /\ target' = target
          BY <1>2 DEF Receive
    <3>4. clients \cap Streams \subseteq Subscribed /\ target[k] = None
          BY <1>0, <2>1, <3>1 DEF Sends, Starts, Listening, Subscribed
    <3>5. QED
          BY <1>0, <2>1, <3>1, <3>2, <3>3, <3>4, NoneIs DEF Sends
  <2>2. CASE q # k
        BY <1>0, <1>2, <2>2 DEF Receive, Sends
  <2>3. QED
        BY <2>1, <2>2
<1>3. ASSUME NEW c \in Clients, Visit(k, c)
      PROVE  Sends(q)'
      BY <1>0, <1>3, NoneIs DEF Visit, Sends
<1>4. QED
      BY <1>1, <1>2, <1>3 DEF RunStep

LEMMA SendingRegister ==
    ASSUME TypeOK, Starts, Sending, NEW c \in Clients, Register(c),
           UNCHANGED <<started, run, queue, event, target>>,
           \A k \in Streams : handler'[k] = (IF k = c THEN "recv" ELSE handler[k]),
           c \in Streams => c \notin Subscribed
    PROVE  Sending'
<1> SUFFICES ASSUME NEW q \in Streams PROVE Sends(q)'
    BY DEF Sending
<1>1. Sends(q)
      BY DEF Sending
<1>2. \A k \in Streams : k \in Subscribed' <=> k \in Subscribed \/ k = c
      BY DEF Subscribed
<1>3. todo'[q] = todo[q] \/ (todo[q] # {} /\ todo'[q] = todo[q] \cup {c})
      BY RegisterDoes
<1>4. QED
      BY <1>1, <1>2, <1>3 DEF Sends

LEMMA SendingStep == TypeOK /\ Shape /\ [Next]_vars => Sending'
<1> SUFFICES ASSUME TypeOK, Shape, [Next]_vars PROVE Sending'
    OBVIOUS
<1>0. Starts /\ Sending
      BY DEF Shape
<1>1. ASSUME UNCHANGED <<started, run, queue, event, todo, target, handler>>
      PROVE  Sending'
      BY <1>0, <1>1 DEF Sending, Sends, Subscribed
<1>2. ASSUME NEW t \in {"api", "net"}, Start(t)
      PROVE  Sending'
  <2>1. /\ UNCHANGED <<queue, event, todo, target, handler>>
        /\ started' = started + 1 /\ started \in Nat
        /\ \A q \in Streams : run'[q] = (IF q = started + 1 THEN "dialled" ELSE run[q])
        BY <1>2, StartBoundAssumption DEF Start, clientVars, lndVars, TypeOK, Streams
  <2>2. Subscribed' = Subscribed
        BY <2>1 DEF Subscribed
  <2>3. ASSUME NEW q \in Streams
        PROVE  Sends(q)'
    <3>1. Sends(q) /\ q \in Nat
          BY <1>0, StartBoundAssumption DEF Sending, Streams
    <3>2. CASE q = started + 1
      <4>1. run[q] = "none"
            BY <2>1, <3>1, <3>2 DEF Sends, TypeOK
      <4>2. QED
            BY <2>1, <2>2, <3>1, <3>2, <4>1, NoneIs DEF Sends
    <3>3. CASE q # started + 1
          BY <2>1, <2>2, <3>1, <3>3 DEF Sends
    <3>4. QED
          BY <3>2, <3>3
  <2>4. QED
        BY <2>3 DEF Sending
<1>3. ASSUME NEW k \in 1..started, k \notin Subscribed, SubscribeHandler(k)
      PROVE  Sending'
  <2>1. k \in Streams
        BY <1>0, <1>3, SubscribeDoes
  <2>2. QED
        BY <1>0, <1>3, <2>1, SendingRegister DEF SubscribeHandler, Clients, TypeOK, lndVars
<1>4. CASE ApiSubscribes \/ NetSubscribes
      BY <1>0, <1>3, <1>4 DEF ApiSubscribes, NetSubscribes, Starts
<1>5. ASSUME NEW i \in Ids, AddInvoice(i) \/ Settle(i)
      PROVE  Sending'
  <2>1. PICK e \in Event : Publish(e)
        BY <1>5 DEF AddInvoice, Settle, Event
  <2>2. UNCHANGED <<started, run, event, todo, target, handler>> /\ Subscribed' = Subscribed
        BY <1>5 DEF AddInvoice, Settle, startVars, runVars, clientVars, Subscribed
  <2>3. \A q \in Streams : run[q] \in {"none", "dialled"} => queue'[q] = queue[q]
        BY <2>1, PublishDoes DEF Joined
  <2>4. QED
        BY <1>0, <2>2, <2>3 DEF Sending, Sends
<1>6. ASSUME NEW k \in Streams, NEW h \in Streams, Handle(k, h) \/ Pay(h)
      PROVE  Sending'
  <2>1. Subscribed' = Subscribed
        BY <1>6, HandlersStay, SameSubscribed
  <2>2. UNCHANGED <<started, run, queue, event, todo>>
        BY <1>6 DEF Handle, Pay, startVars, runVars, lndVars
  <2>3. \A q \in Streams : target'[q] \in {target[q], None}
        BY <1>6 DEF Handle, Pay, runVars, TypeOK
  <2>4. QED
        BY <1>0, <2>1, <2>2, <2>3, NoneIs DEF Sending, Sends
<1>7. ASSUME NEW w \in Watchers, Watch(w)
      PROVE  Sending'
      BY <1>0, <1>7, NoneIs, SendingRegister DEF Watch, Clients, startVars, lndVars
<1>8. ASSUME NEW w \in Watchers, NEW k \in Streams, WatcherReceives(k, w)
      PROVE  Sending'
  <2>1. UNCHANGED <<started, run, queue, event, todo, handler>> /\ Subscribed' = Subscribed
        BY <1>8 DEF WatcherReceives, startVars, lndVars, Subscribed
  <2>2. \A q \in Streams : target'[q] \in {target[q], None}
        BY <1>8 DEF WatcherReceives, TypeOK
  <2>3. QED
        BY <1>0, <2>1, <2>2, NoneIs DEF Sending, Sends
<1>9. CASE Enable \/ NetworkUp
      BY <1>2, <1>9 DEF Enable, NetworkUp
<1>10. CASE UNCHANGED <<started, run, queue, event, todo, target, handler>>
       BY <1>1, <1>10
<1>11. ASSUME NEW k \in Streams, RunStep(k)
       PROVE  Sending'
       BY <1>0, <1>11, SendingRun
<1>12. QED
       BY <1>4, <1>5, <1>6, <1>7, <1>8, <1>9, <1>10, <1>11
          DEF Next, MapRace, Calm, NodeStep, LndStep, WatcherStep, SetEnabled, Disable, CancelAll, WatcherReady,
              WatcherLeaves, vars, startVars, runVars, clientVars, lndVars

(***************************************************************************)
(* The settled invoices in the streams.                                    *)
(***************************************************************************)
\* Receiving takes the first of what is to come.
LEMMA ReceiveDoes ==
    ASSUME TypeOK, NEW k \in Streams, Receive(k)
    PROVE  /\ 1 \in DOMAIN queue[k]
           /\ \A i \in Ids : Carries(k, i)' <=> Waits(k, i, 1)
           /\ \A n \in DOMAIN queue'[k] : n + 1 \in DOMAIN queue[k] /\ queue'[k][n] = queue[k][n + 1]
           /\ DOMAIN queue'[k] \subseteq Nat \ {0}
           /\ \A q \in Streams \ {k} : UNCHANGED <<run[q], event[q], queue[q]>>
<1>1. queue[k] \in Seq(Event) /\ queue[k] # <<>>
      BY DEF Receive, TypeOK
<1>2. /\ run'[k] = "send" /\ event'[k] = Head(queue[k]) /\ queue'[k] = Tail(queue[k])
      /\ \A q \in Streams \ {k} : UNCHANGED <<run[q], event[q], queue[q]>>
      BY DEF Receive, TypeOK
<1>3. /\ DOMAIN queue[k] = 1..Len(queue[k]) /\ DOMAIN queue'[k] = 1..Len(queue[k]) - 1
      /\ Len(queue[k]) \in Nat /\ Len(queue[k]) > 0 /\ Head(queue[k]) = queue[k][1]
      /\ \A n \in 1..Len(queue[k]) - 1 : Tail(queue[k])[n] = queue[k][n + 1]
      BY <1>1, <1>2
<1>4. 1 \in DOMAIN queue[k] /\ \A i \in Ids : Carries(k, i)' <=> Waits(k, i, 1)
      BY <1>2, <1>3 DEF Carries, Waits
<1>5. QED
      BY <1>2, <1>3, <1>4

\* Other steps put no invoice into the hands of run().
LEMMA SameOnce ==
    ASSUME Once, UNCHANGED <<queue, payments, paying, ledger>>,
           \A k \in Streams, i \in Ids : Carries(k, i)' => Carries(k, i)
    PROVE  Once'
<1>1. \A k \in Streams, i \in Ids : Unique(k, i)'
      BY DEF Once, Unique, Waits
<1>2. \A i \in Ids : Unsettled(i) => Unsettled(i)'
      BY DEF Unsettled, Waits
<1>3. QED
      BY <1>1, <1>2 DEF Once

LEMMA OnceLnd ==
    ASSUME TypeOK, Once, NEW i \in Ids, AddInvoice(i) \/ Settle(i)
    PROVE  Once'
<1>1. PICK e \in Event : /\ Publish(e) /\ e.id = i
                         /\ e.settled => Settle(i)
  <2>1. CASE AddInvoice(i)
    <3>1. Publish([id |-> i, settled |-> FALSE]) /\ [id |-> i, settled |-> FALSE] \in Event
          BY <2>1 DEF AddInvoice, Event
    <3>2. QED
          BY <3>1
  <2>2. CASE Settle(i)
    <3>1. Publish([id |-> i, settled |-> TRUE]) /\ [id |-> i, settled |-> TRUE] \in Event
          BY <2>2 DEF Settle, Event
    <3>2. QED
          BY <2>2, <3>1
  <2>3. QED
        BY <2>1, <2>2
<1>2. /\ UNCHANGED <<payments, paying, run, event>>
      /\ \A j \in Ids \ {i} : ledger'[j] = ledger[j]
      /\ ledger[i] # "settled" /\ Unsettled(i)
      /\ ledger'[i] = "settled" <=> Settle(i)
  <2>1. CASE AddInvoice(i)
        BY <2>1 DEF AddInvoice, Settle, runVars, clientVars, TypeOK, Once
  <2>2. CASE Settle(i)
        BY <2>2 DEF Settle, runVars, clientVars, TypeOK, Once
  <2>3. QED
        BY <2>1, <2>2
<1>3. \A k \in Streams, j \in Ids : Carries(k, j)' <=> Carries(k, j)
      BY <1>2 DEF Carries
<1>4. ASSUME NEW k \in Streams, NEW j \in Ids, NEW n
      PROVE  Waits(k, j, n)' => Waits(k, j, n) \/ (j = i /\ e.settled /\ n = Len(queue[k]) + 1)
      BY <1>1, PublishDoes DEF Waits
<1>5. ASSUME NEW k \in Streams, NEW j \in Ids
      PROVE  Unique(k, j)'
      BY <1>2, <1>3, <1>4 DEF Once, Unique, Unsettled, Waits
<1>6. ASSUME NEW j \in Ids, ledger'[j] # "settled"
      PROVE  Unsettled(j)'
  <2>1. Unsettled(j)
        BY <1>2, <1>6 DEF Once
  <2>2. j = i => ~e.settled
        BY <1>1, <1>2, <1>6
  <2>3. QED
        BY <1>2, <1>3, <1>4, <2>1, <2>2 DEF Unsettled, Waits
<1>7. QED
      BY <1>5, <1>6 DEF Once

LEMMA OnceReceive ==
    ASSUME TypeOK, Once, NEW k \in Streams, Receive(k)
    PROVE  Once'
<1>1. UNCHANGED <<payments, paying, ledger>>
      BY DEF Receive, clientVars
<1>2. ASSUME NEW q \in Streams \ {k}, NEW i \in Ids
      PROVE  /\ Carries(q, i)' <=> Carries(q, i)
             /\ DOMAIN queue'[q] = DOMAIN queue[q]
             /\ \A n : Waits(q, i, n)' <=> Waits(q, i, n)
      BY ReceiveDoes DEF Carries, Waits
<1>3. ASSUME NEW i \in Ids
      PROVE  /\ Carries(k, i)' <=> Waits(k, i, 1)
             /\ \A n \in DOMAIN queue'[k] : Waits(k, i, n)' => n + 1 \in DOMAIN queue[k] /\ Waits(k, i, n + 1)
      BY ReceiveDoes DEF Waits
<1>4. ASSUME NEW q \in Streams, NEW i \in Ids
      PROVE  Unique(q, i)'
  <2>1. Unique(q, i)
        BY DEF Once
  <2>2. CASE q # k
        BY <1>2, <2>1, <2>2 DEF Unique
  <2>3. CASE q = k
    <3>1. ASSUME NEW m \in DOMAIN queue'[k], NEW n \in DOMAIN queue'[k], Waits(k, i, m)', Waits(k, i, n)'
          PROVE  m = n
      <4>1. m + 1 = n + 1
            BY <1>3, <2>1, <2>3, <3>1 DEF Unique
      <4>2. m \in Nat /\ n \in Nat
            BY ReceiveDoes
      <4>3. QED
            BY <4>1, <4>2
    <3>2. ASSUME Carries(k, i)', NEW n \in DOMAIN queue'[k], Waits(k, i, n)'
          PROVE  FALSE
      <4>1. 1 = n + 1
            BY <1>3, <2>1, <2>3, <3>2, ReceiveDoes DEF Unique
      <4>2. n \in Nat \ {0}
            BY ReceiveDoes
      <4>3. QED
            BY <4>1, <4>2
    <3>3. QED
          BY <2>3, <3>1, <3>2 DEF Unique
  <2>4. QED
        BY <2>2, <2>3
<1>5. ASSUME NEW i \in Ids, ledger'[i] # "settled"
      PROVE  Unsettled(i)'
  <2>1. Unsettled(i)
        BY <1>1, <1>5 DEF Once
  <2>2. ASSUME NEW q \in Streams
        PROVE  ~Carries(q, i)' /\ \A n \in DOMAIN queue'[q] : ~Waits(q, i, n)'
    <3>1. CASE q # k
          BY <1>2, <2>1, <3>1 DEF Unsettled
    <3>2. CASE q = k
          BY <1>3, <2>1, <3>2, ReceiveDoes DEF Unsettled
    <3>3. QED
          BY <3>1, <3>2
  <2>3. QED
        BY <1>1, <2>1, <2>2 DEF Unsettled
<1>6. QED
      BY <1>4, <1>5 DEF Once

\* A handler that receives the settled invoice is about to pay it.
LEMMA HandleDoes ==
    ASSUME TypeOK, Shape, NEW k \in Streams, NEW h \in Streams, Handle(k, h)
    PROVE  /\ target[k] = h /\ run[k] = "send" /\ event[k].id \in Ids
           /\ handler[h] = "recv" /\ paying[h] \notin Ids
           /\ \A q \in Streams : target'[q] = (IF q = k THEN None ELSE target[q])
           /\ \A g \in Streams : paying'[g] = (IF g = h /\ event[k].settled THEN event[k].id ELSE paying[g])
           /\ UNCHANGED <<started, run, event, todo, queue, ledger, late, payments>>
           /\ Subscribed' = Subscribed
<1>1. target[k] = h /\ handler[h] = "recv"
      BY DEF Handle
<1>2. run[k] = "send"
      BY <1>1, NoneIs DEF Shape, Sending, Sends
<1>3. event[k].id \in Ids
      BY <1>2 DEF Shape, Sending, Sends, Event
<1>4. paying[h] \notin Ids
      BY <1>1 DEF Shape, Paying
<1>5. Subscribed' = Subscribed
      BY HandlersStay, SameSubscribed
<1>6. \A q \in Streams : target'[q] = (IF q = k THEN None ELSE target[q])
      BY DEF Handle, TypeOK
<1>7. \A g \in Streams : paying'[g] = (IF g = h /\ event[k].settled THEN event[k].id ELSE paying[g])
      BY DEF Handle, TypeOK
<1>8. UNCHANGED <<started, run, event, todo, queue, ledger, late, payments>>
      BY DEF Handle, startVars, lndVars
<1>9. QED
      BY <1>1, <1>2, <1>3, <1>4, <1>5, <1>6, <1>7, <1>8

LEMMA OnceHandle ==
    ASSUME TypeOK, Shape, Once, NEW k \in Streams, NEW h \in Streams, Handle(k, h) \/ Pay(h)
    PROVE  Once'
<1>1. UNCHANGED <<run, event, queue, ledger>>
      BY DEF Handle, Pay, runVars, lndVars
<1>2. \A q \in Streams, i \in Ids : /\ Carries(q, i)' <=> Carries(q, i)
                                    /\ \A n : Waits(q, i, n)' <=> Waits(q, i, n)
      BY <1>1 DEF Carries, Waits
<1>3. \A q \in Streams, i \in Ids : Unique(q, i)'
      BY <1>1, <1>2 DEF Once, Unique
<1>4. ASSUME NEW i \in Ids, ledger'[i] # "settled"
      PROVE  Unsettled(i)'
  <2>1. Unsettled(i)
        BY <1>1, <1>4 DEF Once
  <2>2. CASE Handle(k, h)
    <3>1. event[k].settled => event[k].id # i
          BY <2>1, <2>2, HandleDoes DEF Unsettled, Carries
    <3>2. QED
          BY <1>1, <1>2, <2>1, <2>2, <3>1, HandleDoes DEF Unsettled
  <2>3. CASE Pay(h)
    <3>1. paying[h] \in Ids /\ paying[h] # i
          BY <2>1, <2>3 DEF Unsettled, Pay, Shape, Paying
    <3>2. payments'[i] = payments[i] /\ \A g \in Streams : paying'[g] \in {paying[g], None}
          BY <2>3, <3>1 DEF Pay, TypeOK
    <3>3. QED
          BY <1>1, <1>2, <2>1, <3>2, NoneIs DEF Unsettled
  <2>4. QED
        BY <2>2, <2>3
<1>5. QED
      BY <1>3, <1>4 DEF Once

LEMMA OnceStep == TypeOK /\ Shape /\ Once /\ [Next]_vars => Once'
<1> SUFFICES ASSUME TypeOK, Shape, Once, [Next]_vars PROVE Once'
    OBVIOUS
<1>1. CASE Enable \/ NetworkUp
  <2>1. /\ UNCHANGED <<queue, payments, paying, ledger, event>>
        /\ \A k \in Streams : run'[k] = "send" => run[k] = "send"
        BY <1>1 DEF Enable, NetworkUp, Start, clientVars, lndVars, TypeOK
  <2>2. QED
        BY <2>1, SameOnce DEF Carries
<1>2. ASSUME NEW k \in Streams, Join(k) \/ StreamBreaks(k) \/ Served(k)
      PROVE  Once'
  <2>1. /\ UNCHANGED <<queue, payments, paying, ledger>>
        /\ \A q \in Streams : run'[q] = "send" => run[q] = "send" /\ event'[q] = event[q]
        BY <1>2 DEF Join, StreamBreaks, Served, clientVars, lndVars, TypeOK
  <2>2. QED
        BY <2>1, SameOnce DEF Carries
<1>3. CASE UNCHANGED <<queue, payments, paying, ledger, run, event>>
      BY <1>3, SameOnce DEF Carries
<1>4. ASSUME NEW k \in Streams, Receive(k)
      PROVE  Once'
      BY <1>4, OnceReceive
<1>5. ASSUME NEW i \in Ids, AddInvoice(i) \/ Settle(i)
      PROVE  Once'
      BY <1>5, OnceLnd
<1>6. ASSUME NEW k \in Streams, NEW h \in Streams, Handle(k, h) \/ Pay(h)
      PROVE  Once'
      BY <1>6, OnceHandle
<1>7. QED
      BY <1>1, <1>2, <1>3, <1>4, <1>5, <1>6
         DEF Next, MapRace, Calm, NodeStep, LndStep, RunStep, WatcherStep, ApiSubscribes, NetSubscribes,
             SubscribeHandler, SetEnabled, Disable, CancelAll, Visit, Watch, WatcherReady,
             WatcherReceives, WatcherLeaves, vars, startVars, runVars, clientVars, lndVars

(***************************************************************************)
(* The invoices settled after a subscription was cancelled.                *)
(***************************************************************************)
LEMMA SilentStep == TypeOK /\ Shape /\ Once /\ Silent /\ [Next]_vars => Silent'
<1> SUFFICES ASSUME TypeOK, Shape, Once, Silent, [Next]_vars, NEW l \in late' PROVE Unheard(l[1], l[2])'
    BY DEF Silent
<1>0. Sending /\ Starts
      BY DEF Shape
<1>1. PICK i \in Ids, h \in Streams : l = <<i, h>>
  <2>1. TypeOK'
        BY TypeStep
  <2>2. QED
        BY <2>1 DEF TypeOK
<1> SUFFICES Unheard(i, h)'
    BY <1>1
<1>2. ASSUME late' = late
      PROVE  Unheard(i, h)
      BY <1>1, <1>2 DEF Silent
<1>3. ASSUME late' = late, cancelled \subseteq cancelled', UNCHANGED paying,
             \A k \in Streams : Carries(k, i)' => Carries(k, i),
             \A k \in Streams : h \in todo'[k] => h \in todo[k],
             \A k \in Streams : target'[k] \in {target[k], None}
      PROVE  Unheard(i, h)'
      BY <1>2, <1>3, NoneIs DEF Unheard
<1>4. CASE Enable \/ NetworkUp
  <2>1. /\ UNCHANGED <<late, paying, cancelled, event, todo, target>>
        /\ \A k \in Streams : run'[k] = "send" => run[k] = "send"
        BY <1>4 DEF Enable, NetworkUp, Start, clientVars, lndVars, TypeOK
  <2>2. QED
        BY <1>3, <2>1 DEF Carries
<1>5. CASE ApiSubscribes \/ NetSubscribes
  <2>1. PICK k \in 1..started : k \notin Subscribed /\ SubscribeHandler(k)
        BY <1>0, <1>5 DEF ApiSubscribes, NetSubscribes, Starts
  <2>2. UNCHANGED <<late, paying, cancelled, run, event, target>> /\ Register(k)
        BY <2>1 DEF SubscribeHandler, lndVars
  <2>3. k \in Clients /\ k # h
        BY <1>0, <1>2, <2>1, <2>2, SubscribeDoes DEF Unheard, Clients
  <2>4. \A q \in Streams : h \in todo'[q] => h \in todo[q]
        BY <2>2, <2>3, RegisterDoes
  <2>5. QED
        BY <1>3, <2>2, <2>4 DEF Carries
<1>6. ASSUME NEW j \in Ids, AddInvoice(j)
      PROVE  Unheard(i, h)'
      BY <1>3, <1>6 DEF AddInvoice, runVars, clientVars, Carries
<1>7. ASSUME NEW j \in Ids, Settle(j)
      PROVE  Unheard(i, h)'
  <2>1. UNCHANGED <<paying, cancelled, run, event, todo, target>>
        BY <1>7 DEF Settle, runVars, clientVars
  <2>2. \A k \in Streams : Carries(k, i)' <=> Carries(k, i)
        BY <2>1 DEF Carries
  <2>3. CASE l \in late
        BY <1>1, <2>1, <2>2, <2>3 DEF Silent, Unheard
  <2>4. CASE l \notin late
    <3>1. i = j /\ h \in cancelled
          BY <1>1, <1>7, <2>4 DEF Settle
    <3>2. Unsettled(i)
          BY <1>7, <3>1 DEF Once, Settle
    <3>3. QED
          BY <2>1, <2>2, <3>1, <3>2 DEF Unsettled, Unheard
  <2>5. QED
        BY <2>3, <2>4
<1>8. ASSUME NEW k \in Streams, Join(k) \/ StreamBreaks(k) \/ Served(k)
      PROVE  Unheard(i, h)'
  <2>1. /\ UNCHANGED <<late, paying, cancelled, todo, target>>
        /\ \A q \in Streams : run'[q] = "send" => run[q] = "send" /\ event'[q] = event[q]
        BY <1>8 DEF Join, StreamBreaks, Served, clientVars, lndVars, TypeOK
  <2>2. QED
        BY <1>3, <2>1 DEF Carries
<1>9. ASSUME NEW k \in Streams, Receive(k)
      PROVE  Unheard(i, h)'
  <2>1. UNCHANGED <<late, paying, cancelled, target>>
        BY <1>9 DEF Receive, clientVars
  <2>2. Unheard(i, h) /\ h \notin clients /\ target[k] = None
        BY <1>0, <1>2, <1>9, <2>1 DEF Unheard, Starts, Listening, Receive, Sending, Sends
  <2>3. \A q \in Streams : todo'[q] = IF q = k THEN clients ELSE todo[q]
        BY <1>9 DEF Receive, TypeOK
  <2>4. \A q \in Streams \ {k} : Carries(q, i)' <=> Carries(q, i)
        BY <1>9, ReceiveDoes DEF Carries
  <2>5. QED
        BY <2>1, <2>2, <2>3, <2>4, NoneIs DEF Unheard
<1>10. ASSUME NEW k \in Streams, NEW c \in Clients, Visit(k, c)
       PROVE  Unheard(i, h)'
  <2>1. UNCHANGED <<late, paying, cancelled, run, event>> /\ c \in todo[k]
        BY <1>10 DEF Visit, clientVars, lndVars
  <2>2. \A q \in Streams : /\ todo'[q] \subseteq todo[q]
                           /\ \/ target'[q] \in {target[q], None}
                              \/ q = k /\ target'[q] = c
        BY <1>10 DEF Visit, TypeOK
  <2>3. \A q \in Streams : Carries(q, i)' <=> Carries(q, i)
        BY <2>1 DEF Carries
  <2>4. QED
        BY <1>2, <2>1, <2>2, <2>3, NoneIs DEF Unheard
<1>11. ASSUME NEW k \in Streams, NEW g \in Streams, Handle(k, g)
       PROVE  Unheard(i, h)'
  <2>1. UNCHANGED <<late, run, event, todo, cancelled>>
        BY <1>0, <1>11, HandleDoes DEF Handle
  <2>2. \A q \in Streams : Carries(q, i)' <=> Carries(q, i)
        BY <2>1 DEF Carries
  <2>3. paying'[h] # i
        BY <1>2, <1>11, <2>1, HandleDoes DEF Unheard, Carries
  <2>4. QED
        BY <1>2, <1>11, <2>1, <2>2, <2>3, HandleDoes, NoneIs DEF Unheard
<1>12. ASSUME NEW g \in Streams, Pay(g)
       PROVE  Unheard(i, h)'
  <2>1. UNCHANGED <<late, run, event, todo, target, cancelled>>
        BY <1>12 DEF Pay, runVars, lndVars
  <2>2. paying'[h] \in {paying[h], None}
        BY <1>12 DEF Pay, TypeOK
  <2>3. QED
        BY <1>2, <2>1, <2>2, NoneIs DEF Unheard, Carries
<1>13. ASSUME NEW w \in Watchers, NEW k \in Streams, WatcherReceives(k, w)
       PROVE  Unheard(i, h)'
  <2>1. /\ UNCHANGED <<late, paying, cancelled, run, event, todo>>
        /\ \A q \in Streams : target'[q] \in {target[q], None}
        BY <1>13 DEF WatcherReceives, lndVars, TypeOK
  <2>2. QED
        BY <1>3, <2>1 DEF Carries
<1>14. ASSUME NEW w \in Watchers, Watch(w)
       PROVE  Unheard(i, h)'
  <2>1. UNCHANGED <<late, paying, cancelled, run, event, target>> /\ Register(w)
        BY <1>14 DEF Watch, lndVars
  <2>2. w \in Clients /\ w # h
        BY NoneIs DEF Clients
  <2>3. \A q \in Streams : h \in todo'[q] => h \in todo[q]
        BY <2>1, <2>2, RegisterDoes
  <2>4. QED
        BY <1>3, <2>1, <2>3 DEF Carries
<1>15. CASE UNCHANGED <<late, paying, run, event, todo, target>> /\ cancelled \subseteq cancelled'
       BY <1>3, <1>15 DEF Carries
<1>16. QED
       BY <1>4, <1>5, <1>6, <1>7, <1>8, <1>9, <1>10, <1>11, <1>12, <1>13, <1>14, <1>15
          DEF Next, MapRace, Calm, NodeStep, LndStep, RunStep, WatcherStep, SetEnabled, Disable, CancelAll,
              WatcherReady, WatcherLeaves, vars, startVars, runVars, clientVars, lndVars

(***************************************************************************)
(* Who may yet receive an invoice.  Only its settlement opens a way.       *)
(***************************************************************************)
LEMMA DueStart ==
    ASSUME TypeOK, Enable \/ NetworkUp,
           NEW k \in Streams, NEW h \in Streams, NEW i \in Ids, Reaches(k, h, i)'
    PROVE  Reaches(k, h, i)
<1>1. PICK t \in {"api", "net"} : Start(t)
      BY DEF Enable, NetworkUp
<1>2. /\ UNCHANGED <<handler, queue, event, todo, target>>
      /\ run'[k] = "send" => run[k] = "send"
      BY <1>1 DEF Start, clientVars, lndVars, TypeOK
<1>3. Subscribed' = Subscribed
      BY <1>2 DEF Subscribed
<1>4. QED
      BY <1>2, <1>3 DEF Reaches, Coming, Carries, Waits

\* A handler that subscribes might have subscribed before the range came to it.
LEMMA DueSubscribe ==
    ASSUME TypeOK, Shape, ApiSubscribes \/ NetSubscribes,
           NEW q \in Streams, NEW h \in Streams, NEW i \in Ids, Reaches(q, h, i)'
    PROVE  Reaches(q, h, i)
<1>1. PICK k \in 1..started : k \notin Subscribed /\ SubscribeHandler(k)
      BY DEF ApiSubscribes, NetSubscribes, Shape, Starts
<1>2. /\ UNCHANGED <<run, event, queue, target>>
      /\ Register(k) /\ k \in Streams /\ Subscribed' = Subscribed \cup {k}
      BY <1>1, SubscribeDoes DEF SubscribeHandler, Shape, lndVars
<1>3. todo'[q] \subseteq todo[q] \cup {k}
      BY <1>2, RegisterDoes DEF Clients
<1>4. QED
      BY <1>1, <1>2, <1>3 DEF Reaches, Coming, Carries, Waits

LEMMA DueAdd ==
    ASSUME TypeOK, NEW j \in Ids, AddInvoice(j),
           NEW k \in Streams, NEW h \in Streams, NEW i \in Ids, Reaches(k, h, i)'
    PROVE  Reaches(k, h, i)
<1>1. UNCHANGED <<handler, run, event, todo, target>>
      BY DEF AddInvoice, runVars, clientVars
<1>2. PICK e \in Event : Publish(e) /\ ~e.settled
  <2>1. Publish([id |-> j, settled |-> FALSE]) /\ [id |-> j, settled |-> FALSE] \in Event
        BY DEF AddInvoice, Event
  <2>2. QED
        BY <2>1
<1>3. \A n : Waits(k, i, n)' => Waits(k, i, n)
      BY <1>2, PublishDoes DEF Waits
<1>4. QED
      BY <1>1, <1>3 DEF Reaches, Coming, Carries, Waits, Subscribed

\* run() takes an invoice in hand, and with it the clients there are.
LEMMA DueReceive ==
    ASSUME TypeOK, NEW k \in Streams, Receive(k),
           NEW q \in Streams, NEW h \in Streams, NEW i \in Ids, Reaches(q, h, i)'
    PROVE  Reaches(q, h, i)
<1>1. UNCHANGED <<target, handler>> /\ \A p \in Streams \ {k} : todo'[p] = todo[p]
      BY DEF Receive, clientVars, TypeOK
<1>2. Subscribed' = Subscribed
      BY <1>1 DEF Subscribed
<1>3. CASE q # k
  <2>1. UNCHANGED <<run[q], event[q], queue[q], todo[q], target[q]>>
        BY <1>1, <1>3, ReceiveDoes
  <2>2. QED
        BY <1>2, <2>1 DEF Reaches, Coming, Carries, Waits
<1>4. CASE q = k
  <2>1. CASE Carries(k, i)'
        BY <1>4, <2>1, ReceiveDoes DEF Reaches, Coming
  <2>2. CASE \E n \in DOMAIN queue'[k] : Waits(k, i, n)'
        BY <1>4, <2>2, ReceiveDoes DEF Reaches, Coming, Waits
  <2>3. QED
        BY <1>4, <2>1, <2>2 DEF Reaches, Coming
<1>5. QED
      BY <1>3, <1>4

LEMMA DueRun ==
    ASSUME TypeOK, NEW k \in Streams, RunStep(k),
           NEW q \in Streams, NEW h \in Streams, NEW i \in Ids, Reaches(q, h, i)'
    PROVE  Reaches(q, h, i)
<1>1. Subscribed' = Subscribed
      BY DEF RunStep, Join, StreamBreaks, Receive, Served, Visit, clientVars, Subscribed
<1>2. CASE Join(k) \/ StreamBreaks(k) \/ Served(k)
  <2>1. UNCHANGED <<queue, todo, target>>
        BY <1>2 DEF Join, StreamBreaks, Served, lndVars
  <2>2. run'[q] = "send" => run[q] = "send" /\ event'[q] = event[q]
        BY <1>2 DEF Join, StreamBreaks, Served, TypeOK
  <2>3. QED
        BY <1>1, <2>1, <2>2 DEF Reaches, Coming, Carries, Waits
<1>3. ASSUME NEW c \in Clients, Visit(k, c)
      PROVE  Reaches(q, h, i)
  <2>1. UNCHANGED <<run, event, queue>>
        BY <1>3 DEF Visit, lndVars
  <2>2. /\ todo'[q] \subseteq todo[q]
        /\ target'[q] = target[q] \/ target'[q] = None \/ target'[q] \in todo[q]
        BY <1>3 DEF Visit, TypeOK
  <2>3. h # None
        BY NoneIs
  <2>4. QED
        BY <1>1, <2>1, <2>2, <2>3 DEF Reaches, Coming, Carries, Waits
<1>4. QED
      BY <1>2, <1>3, DueReceive DEF RunStep

LEMMA DueWatch ==
    ASSUME TypeOK, NEW w \in Watchers, WatcherStep(w),
           NEW k \in Streams, NEW h \in Streams, NEW i \in Ids, Reaches(k, h, i)'
    PROVE  Reaches(k, h, i)
<1>1. UNCHANGED <<handler, run, event, queue>> /\ Subscribed' = Subscribed
      BY DEF WatcherStep, Watch, WatcherReady, WatcherReceives, runVars, lndVars, Subscribed
<1>2. CASE Watch(w)
  <2>1. Register(w) /\ w \in Clients /\ target' = target
        BY <1>2 DEF Watch, Clients
  <2>2. todo'[k] \subseteq todo[k] \cup {w}
        BY <2>1, RegisterDoes
  <2>3. QED
        BY <1>1, <2>1, <2>2, NoneIs DEF Reaches, Coming, Carries, Waits
<1>3. ASSUME NEW q \in Streams, WatcherReceives(q, w)
      PROVE  Reaches(k, h, i)
  <2>1. todo' = todo /\ target'[k] \in {target[k], None}
        BY <1>3 DEF WatcherReceives, TypeOK
  <2>2. QED
        BY <1>1, <2>1, NoneIs DEF Reaches, Coming, Carries, Waits
<1>4. CASE WatcherReady(w)
      BY <1>1, <1>4 DEF WatcherReady, runVars, Reaches, Coming, Carries, Waits
<1>5. QED
      BY <1>2, <1>3, <1>4 DEF WatcherStep

LEMMA DueHandle ==
    ASSUME TypeOK, Shape, NEW k \in Streams, NEW g \in Streams, Handle(k, g) \/ Pay(g),
           NEW q \in Streams, NEW h \in Streams, NEW i \in Ids, Reaches(q, h, i)'
    PROVE  Reaches(q, h, i)
<1>1. CASE Handle(k, g)
      BY <1>1, HandleDoes, NoneIs DEF Reaches, Coming, Carries, Waits
<1>2. CASE Pay(g)
  <2>1. UNCHANGED <<queue, run, event, todo, target>> /\ Subscribed' = Subscribed
        BY <1>2, HandlersStay, SameSubscribed DEF Pay, runVars, lndVars
  <2>2. QED
        BY <2>1 DEF Reaches, Coming, Carries, Waits
<1>3. QED
      BY <1>1, <1>2

\* What concerns neither run() nor a subscription.
LEMMA DueSame ==
    ASSUME UNCHANGED <<handler, run, event, todo, target, queue>>,
           NEW k \in Streams, NEW h \in Streams, NEW i \in Ids
    PROVE  Reaches(k, h, i)' <=> Reaches(k, h, i)
<1>1. Subscribed' = Subscribed
      BY DEF Subscribed
<1>2. QED
      BY <1>1 DEF Reaches, Coming, Carries, Waits

LEMMA StillDue ==
    ASSUME TypeOK, Shape, [Next]_vars, \A j \in Ids : ~Settle(j),
           NEW k \in Streams, NEW h \in Streams, NEW i \in Ids, Reaches(k, h, i)'
    PROVE  Reaches(k, h, i)
<1>1. CASE UNCHANGED <<handler, run, event, todo, target, queue>>
      BY <1>1, DueSame
<1>2. CASE LndStep
      BY <1>2, DueAdd DEF LndStep
<1>3. CASE NodeStep
      BY <1>1, <1>3, DueStart, DueSubscribe
         DEF NodeStep, SetEnabled, Disable, CancelAll, runVars, clientVars, lndVars
<1>4. ASSUME NEW w \in Watchers, WatcherLeaves(w)
      PROVE  Reaches(k, h, i)
      BY <1>1, <1>4 DEF WatcherLeaves, runVars, lndVars
<1>5. ASSUME NEW w \in Watchers, WatcherStep(w)
      PROVE  Reaches(k, h, i)
      BY <1>5, DueWatch
<1>6. ASSUME NEW q \in Streams, RunStep(q)
      PROVE  Reaches(k, h, i)
      BY <1>6, DueRun
<1>7. ASSUME NEW q \in Streams, NEW g \in Streams, Handle(q, g) \/ Pay(g)
      PROVE  Reaches(k, h, i)
      BY <1>7, DueHandle
<1>8. CASE UNCHANGED vars \/ MapRace
      BY <1>1, <1>8 DEF vars, MapRace, runVars, clientVars, lndVars
<1>9. QED
      BY <1>2, <1>3, <1>4, <1>5, <1>6, <1>7, <1>8 DEF Next, Calm

\* Where an invoice that is settled comes: on every stream there is, to all handlers.
LEMMA DueSettled ==
    ASSUME TypeOK, Once, NEW j \in Ids, Settle(j),
           NEW k \in Streams, NEW h \in Streams, NEW i \in Ids
    PROVE  /\ i = j => (Reaches(k, h, i)' <=> k \in Joined)
           /\ i = j => ~Reaches(k, h, i)
           /\ i # j => (Reaches(k, h, i)' <=> Reaches(k, h, i))
<1>1. UNCHANGED <<run, event, todo, target>> /\ Subscribed' = Subscribed
      BY DEF Settle, runVars, clientVars, Subscribed
<1>2. Unsettled(j)
      BY DEF Settle, Once
<1>3. PICK e \in Event : Publish(e) /\ e.id = j /\ e.settled
  <2>1. Publish([id |-> j, settled |-> TRUE]) /\ [id |-> j, settled |-> TRUE] \in Event
        BY DEF Settle, Event
  <2>2. QED
        BY <2>1
<1>4. CASE i = j
  <2>1. ~Reaches(k, h, i) /\ ~Carries(k, i)
        BY <1>2, <1>4 DEF Unsettled, Reaches, Coming
  <2>2. ~Carries(k, i)'
        BY <1>1, <2>1 DEF Carries
  <2>3. CASE k \in Joined
    <3>1. queue[k] \in Seq(Event) /\ queue'[k] = Append(queue[k], e)
          BY <1>3, <2>3 DEF Publish, TypeOK
    <3>2. PICK n \in Nat : n \in DOMAIN queue'[k] /\ queue'[k][n] = e
      <4>1. Len(queue[k]) + 1 \in Nat
            BY <3>1
      <4>2. /\ DOMAIN Append(queue[k], e) = 1..Len(queue[k]) + 1
            /\ Append(queue[k], e)[Len(queue[k]) + 1] = e
            BY <3>1
      <4>3. QED
            BY <3>1, <4>1, <4>2
    <3>3. Waits(k, i, n)'
          BY <1>3, <1>4, <3>2 DEF Waits
    <3>4. QED
          BY <1>4, <2>1, <2>3, <3>2, <3>3 DEF Reaches, Coming
  <2>4. CASE k \notin Joined
    <3>1. queue'[k] = queue[k]
          BY <1>3, <2>4, PublishDoes
    <3>2. QED
          BY <1>4, <2>1, <2>2, <2>4, <3>1 DEF Reaches, Coming, Waits
  <2>5. QED
        BY <2>3, <2>4
<1>5. CASE i # j
  <2>1. \A n : Waits(k, i, n)' <=> Waits(k, i, n)
        BY <1>3, <1>5, PublishDoes DEF Waits
  <2>2. Coming(i, k)' <=> Coming(i, k)
        BY <2>1 DEF Coming, Waits
  <2>3. QED
        BY <1>1, <1>5, <2>2 DEF Reaches, Carries
<1>6. QED
      BY <1>4, <1>5

(***************************************************************************)
(* How often an invoice is paid.                                           *)
(***************************************************************************)
LEMMA Finite ==
    ASSUME TypeOK, NEW i
    PROVE  /\ IsFiniteSet(Left(i)) /\ Cardinality(Left(i)) \in Nat
           /\ IsFiniteSet(PayingOf(i)) /\ Cardinality(PayingOf(i)) \in Nat
<1>1. started \in Nat /\ IsFiniteSet(1..started) /\ IsFiniteSet(1..StartBound)
      BY StartBoundAssumption, FS_Interval DEF TypeOK
<1>2. IsFiniteSet((1..started) \X (1..started))
      BY <1>1, FS_Product
<1>3. IsFiniteSet(Left(i)) /\ IsFiniteSet(PayingOf(i))
      BY <1>1, <1>2, FS_Subset DEF Left, PayingOf, Streams
<1>4. QED
      BY <1>3, FS_CardinalityType

\* A step that opens no way for the invoice keeps the bound.
LEMMA SameBound ==
    ASSUME TypeOK, NEW i, Bound(i), Left(i)' \subseteq Left(i),
           PayingOf(i)' = PayingOf(i), payments'[i] = payments[i], payments[i] \in Nat, started' = started
    PROVE  Bound(i)'
<1>1. Cardinality(Left(i)') <= Cardinality(Left(i)) /\ Cardinality(Left(i)') \in Nat
      BY Finite, FS_Subset, FS_CardinalityType
<1>2. started \in Nat
      BY StartBoundAssumption DEF TypeOK
<1>3. started * started \in Nat
      BY <1>2
<1>4. QED
      BY <1>1, <1>3, Finite DEF Bound

\* The same for every invoice at once.
LEMMA SameBounded ==
    ASSUME TypeOK, Bounded, UNCHANGED <<started, payments, paying>>,
           \A i \in Ids : ledger'[i] = "settled" => ledger[i] = "settled",
           \A k \in 1..started, h \in 1..started, i \in Ids : Reaches(k, h, i)' => Reaches(k, h, i)
    PROVE  Bounded'
<1> SUFFICES ASSUME NEW i \in Ids, ledger'[i] = "settled" PROVE Bound(i)'
    BY DEF Bounded
<1>1. Bound(i) /\ payments[i] \in Nat
      BY DEF Bounded, TypeOK
<1>2. Left(i)' \subseteq Left(i)
      BY DEF Left
<1>3. PayingOf(i)' = PayingOf(i)
      BY DEF PayingOf
<1>4. QED
      BY <1>1, <1>2, <1>3, SameBound

\* A further start adds a handler to each stream that has the invoice, and no stream.
LEMMA BoundedStart ==
    ASSUME TypeOK, Shape, Bounded, Enable \/ NetworkUp
    PROVE  Bounded'
<1>1. PICK t \in {"api", "net"} : Start(t)
      BY DEF Enable, NetworkUp
<1>2. /\ UNCHANGED <<ledger, payments, paying, handler, queue, event, todo, target>>
      /\ started' = started + 1 /\ started \in Nat /\ started + 1 \in Streams
      /\ \A q \in Streams : run'[q] = (IF q = started + 1 THEN "dialled" ELSE run[q])
      BY <1>1, StartBoundAssumption DEF Start, clientVars, lndVars, TypeOK, Streams
<1>4. 1..started + 1 \subseteq Streams
      BY <1>2, StartBoundAssumption DEF Streams
<1> SUFFICES ASSUME NEW i \in Ids, ledger[i] = "settled" PROVE Bound(i)'
    BY <1>2 DEF Bounded
<1>5. ASSUME NEW k \in 1..started + 1, NEW h \in 1..started + 1, Reaches(k, h, i)'
      PROVE  Reaches(k, h, i) /\ k \in 1..started
  <2>1. k \in Streams
        BY <1>4
  <2>2. Reaches(k, h, i)
        BY <1>2, <1>4, <1>5, <2>1, DueStart
  <2>3. Sends(k)
        BY <2>1 DEF Shape, Sending
  <2>4. run[k] # "none"
        BY <2>2, <2>3 DEF Reaches, Coming, Carries, Waits, Sends
  <2>5. QED
        BY <1>2, <2>2, <2>3, <2>4 DEF Sends
<1> DEFINE more == (1..started) \X {started + 1}
<1>6. Left(i)' \subseteq Left(i) \cup more
  <2> SUFFICES ASSUME NEW p \in Left(i)' PROVE p \in Left(i) \cup more
      OBVIOUS
  <2>1. p \in (1..started + 1) \X (1..started + 1) /\ Reaches(p[1], p[2], i)'
        BY <1>2 DEF Left
  <2>2. p[1] \in 1..started /\ Reaches(p[1], p[2], i)
        BY <1>5, <2>1
  <2>3. CASE p[2] \in 1..started
        BY <2>1, <2>2, <2>3 DEF Left
  <2>4. CASE p[2] \notin 1..started
    <3>1. p[2] = started + 1 /\ p = <<p[1], p[2]>>
          BY <1>2, <2>1, <2>4
    <3>2. QED
          BY <2>2, <3>1
  <2>5. QED
        BY <2>3, <2>4
<1>7. IsFiniteSet(more) /\ Cardinality(more) = started
  <2>1. IsFiniteSet(1..started) /\ Cardinality(1..started) = started
        BY <1>2, FS_Interval
  <2>2. IsFiniteSet({started + 1}) /\ Cardinality({started + 1}) = 1
        BY FS_Singleton
  <2>3. IsFiniteSet(more) /\ Cardinality(more) = Cardinality(1..started) * Cardinality({started + 1})
        BY <2>1, <2>2, FS_Product
  <2>4. QED
        BY <1>2, <2>1, <2>2, <2>3
<1> HIDE DEF more
<1>8. /\ IsFiniteSet(Left(i) \cup more)
      /\ Cardinality(Left(i) \cup more) <= Cardinality(Left(i)) + started
  <2>1. /\ IsFiniteSet(Left(i) \cup more)
        /\ Cardinality(Left(i) \cup more)
              = Cardinality(Left(i)) + Cardinality(more) - Cardinality(Left(i) \cap more)
        BY <1>7, Finite, FS_Union
  <2>2. Cardinality(Left(i) \cap more) \in Nat
        BY <1>7, Finite, FS_Intersection, FS_CardinalityType
  <2>3. QED
        BY <1>2, <1>7, <2>1, <2>2, Finite
<1>9. Cardinality(Left(i)') <= Cardinality(Left(i)) + started /\ Cardinality(Left(i)') \in Nat
  <2>1. /\ IsFiniteSet(Left(i)') /\ Cardinality(Left(i)') <= Cardinality(Left(i) \cup more)
        BY <1>6, <1>8, FS_Subset
  <2>2. Cardinality(Left(i)') \in Nat /\ Cardinality(Left(i) \cup more) \in Nat
        BY <2>1, <1>8, FS_CardinalityType
  <2>3. QED
        BY <1>2, <1>8, <2>1, <2>2, Finite
<1>10. PayingOf(i)' = PayingOf(i) /\ Bound(i) /\ payments[i] \in Nat
       BY <1>2 DEF PayingOf, Bounded, TypeOK
<1>11. started' * started' = started * started + started + started + 1 /\ started * started \in Nat
       BY <1>2
<1>12. QED
       BY <1>2, <1>9, <1>10, <1>11, Finite DEF Bound

\* When it is settled, every handler may yet receive it from every stream, once.
LEMMA BoundedSettle ==
    ASSUME TypeOK, Once, Bounded, NEW j \in Ids, Settle(j)
    PROVE  Bounded'
<1>1. /\ UNCHANGED <<started, run, event, todo, target, handler, payments, paying>>
      /\ Subscribed' = Subscribed
      BY DEF Settle, startVars, runVars, clientVars, Subscribed
<1>2. Unsettled(j) /\ \A i \in Ids \ {j} : ledger'[i] = ledger[i]
      BY DEF Settle, Once, TypeOK
<1>4. started \in Nat /\ 1..started \subseteq Streams /\ started * started \in Nat
      BY StartBoundAssumption DEF TypeOK, Streams
<1> SUFFICES ASSUME NEW i \in Ids, ledger'[i] = "settled" PROVE Bound(i)'
    BY DEF Bounded
<1>5. CASE i = j
  <2>1. payments'[i] = 0 /\ PayingOf(i)' = {}
        BY <1>1, <1>2, <1>5 DEF Unsettled, PayingOf
  <2>2. Left(i)' \subseteq (1..started) \X (1..started)
        BY <1>1 DEF Left
  <2>3. /\ IsFiniteSet((1..started) \X (1..started))
        /\ Cardinality((1..started) \X (1..started)) = started * started
    <3>1. IsFiniteSet(1..started) /\ Cardinality(1..started) = started
          BY <1>4, FS_Interval
    <3>2. QED
          BY <3>1, FS_Product
  <2>4. IsFiniteSet(Left(i)') /\ Cardinality(Left(i)') <= started * started
        BY <2>2, <2>3, FS_Subset
  <2>5. Cardinality({}) = 0 /\ Cardinality(Left(i)') \in Nat
        BY <2>4, FS_EmptySet, FS_CardinalityType
  <2>6. QED
        BY <1>1, <1>4, <2>1, <2>4, <2>5 DEF Bound
<1>6. CASE i # j
  <2>1. Bound(i) /\ payments[i] \in Nat
        BY <1>2, <1>6 DEF Bounded, TypeOK
  <2>3. \A k \in Streams, h \in Streams : Reaches(k, h, i)' => Reaches(k, h, i)
        BY <1>6, DueSettled
  <2>4. Left(i)' \subseteq Left(i)
        BY <1>1, <1>4, <2>3 DEF Left
  <2>5. PayingOf(i)' = PayingOf(i)
        BY <1>1 DEF PayingOf
  <2>6. QED
        BY <1>1, <2>1, <2>4, <2>5, SameBound
<1>7. QED
      BY <1>5, <1>6

\* The handler that receives it from a stream has received it from that stream.
LEMMA BoundedHandle ==
    ASSUME TypeOK, Shape, Once, Bounded, NEW k \in Streams, NEW h \in Streams, Handle(k, h)
    PROVE  Bounded'
<1>1. Sends(k) /\ Subscribed \subseteq 1..started
      BY DEF Shape, Sending, Starts
<1>2. started \in Nat /\ 1..started \subseteq Streams /\ started * started \in Nat
      BY StartBoundAssumption DEF TypeOK, Streams
<1> SUFFICES ASSUME NEW i \in Ids, ledger'[i] = "settled" PROVE Bound(i)'
    BY DEF Bounded
<1>3. Bound(i) /\ payments[i] \in Nat /\ payments' = payments /\ started' = started
      BY HandleDoes DEF Bounded, TypeOK
<1>4. \A q \in Streams, g \in Streams : Reaches(q, g, i)' => Reaches(q, g, i)
      BY DueHandle
<1>5. Left(i)' \subseteq Left(i)
      BY <1>2, <1>3, <1>4 DEF Left
<1>6. CASE Carries(k, i)
  <2>1. PayingOf(i)' = PayingOf(i) \cup {h} /\ h \notin PayingOf(i)
        BY <1>6, HandleDoes DEF Carries, PayingOf
  <2>2. <<k, h>> \in Left(i)
    <3>1. k \in 1..started
          BY <1>1, <1>2, HandleDoes DEF Sends, Streams
    <3>2. h \in 1..started
      <4>1. target[k] = h
            BY HandleDoes
      <4>2. h \in Subscribed
            BY <1>1, <4>1 DEF Sends
      <4>3. QED
            BY <1>1, <4>2
    <3>3. Reaches(k, h, i)
          BY <1>6, HandleDoes DEF Reaches, Coming
    <3>4. QED
          BY <3>1, <3>2, <3>3 DEF Left
  <2>3. <<k, h>> \notin Left(i)'
    <3>1. h \in Subscribed /\ h \notin todo[k]
          BY <1>1, HandleDoes DEF Sends
    <3>2. \A n \in DOMAIN queue[k] : ~Waits(k, i, n)
          BY <1>6 DEF Once, Unique
    <3>3. ~Reaches(k, h, i)'
          BY <3>1, <3>2, HandleDoes, NoneIs DEF Reaches, Coming, Waits
    <3>4. QED
          BY <3>3 DEF Left
  <2>4. Left(i)' \subseteq Left(i) \ {<<k, h>>}
        BY <1>5, <2>3
  <2>5. /\ Cardinality(Left(i) \ {<<k, h>>}) = Cardinality(Left(i)) - 1
        /\ IsFiniteSet(Left(i) \ {<<k, h>>})
        BY <2>2, Finite, FS_RemoveElement
  <2>6. Cardinality(Left(i)') <= Cardinality(Left(i)) - 1 /\ Cardinality(Left(i)') \in Nat
        BY <2>4, <2>5, FS_Subset, FS_CardinalityType
  <2>7. Cardinality(PayingOf(i)') = Cardinality(PayingOf(i)) + 1
        BY <2>1, Finite, FS_AddElement
  <2>8. QED
        BY <1>2, <1>3, <2>6, <2>7, Finite DEF Bound
<1>7. CASE ~Carries(k, i)
  <2>1. PayingOf(i)' = PayingOf(i)
        BY <1>7, HandleDoes DEF Carries, PayingOf
  <2>2. QED
        BY <1>3, <1>5, <2>1, SameBound
<1>8. QED
      BY <1>6, <1>7

LEMMA BoundedPay ==
    ASSUME TypeOK, Shape, Bounded, NEW h \in Streams, Pay(h)
    PROVE  Bounded'
<1>1. paying[h] \in Ids
      BY DEF Pay, Shape, Paying
<1>2. /\ UNCHANGED <<started, ledger, queue, run, event, todo, target>> /\ Subscribed' = Subscribed
      BY HandlersStay, SameSubscribed DEF Pay, startVars, runVars, lndVars
<1>3. started \in Nat /\ started * started \in Nat
      BY StartBoundAssumption DEF TypeOK
<1> SUFFICES ASSUME NEW i \in Ids, ledger'[i] = "settled" PROVE Bound(i)'
    BY DEF Bounded
<1>4. Bound(i) /\ payments[i] \in Nat
      BY <1>2 DEF Bounded, TypeOK
<1>5. Left(i)' = Left(i)
      BY <1>2 DEF Left, Reaches, Coming, Carries, Waits
<1>6. \A g \in Streams : paying'[g] = (IF g = h THEN None ELSE paying[g])
      BY DEF Pay, TypeOK
<1>7. CASE paying[h] = i
  <2>1. payments'[i] = payments[i] + 1
        BY <1>7 DEF Pay, TypeOK
  <2>2. PayingOf(i)' = PayingOf(i) \ {h} /\ h \in PayingOf(i)
        BY <1>6, <1>7, NoneIs DEF PayingOf
  <2>3. Cardinality(PayingOf(i)') = Cardinality(PayingOf(i)) - 1
        BY <2>2, Finite, FS_RemoveElement
  <2>4. QED
        BY <1>2, <1>3, <1>4, <1>5, <2>1, <2>3, Finite DEF Bound
<1>8. CASE paying[h] # i
  <2>1. payments'[i] = payments[i]
        BY <1>1, <1>8 DEF Pay, TypeOK
  <2>2. PayingOf(i)' = PayingOf(i)
        BY <1>6, <1>8, NoneIs DEF PayingOf
  <2>3. QED
        BY <1>2, <1>4, <1>5, <2>1, <2>2, SameBound
<1>9. QED
      BY <1>7, <1>8

LEMMA BoundedStep == TypeOK /\ Shape /\ Once /\ Bounded /\ [Next]_vars => Bounded'
<1> SUFFICES ASSUME TypeOK, Shape, Once, Bounded, [Next]_vars PROVE Bounded'
    OBVIOUS
<1>1. CASE Enable \/ NetworkUp
      BY <1>1, BoundedStart
<1>2. ASSUME NEW i \in Ids, Settle(i)
      PROVE  Bounded'
      BY <1>2, BoundedSettle
<1>3. ASSUME NEW k \in Streams, NEW h \in Streams, Handle(k, h)
      PROVE  Bounded'
      BY <1>3, BoundedHandle
<1>4. ASSUME NEW h \in Streams, Pay(h)
      PROVE  Bounded'
      BY <1>4, BoundedPay
<1>5. ASSUME \A i \in Ids : ~Settle(i), UNCHANGED <<started, payments, paying>>,
             \A i \in Ids : ledger'[i] = "settled" => ledger[i] = "settled"
      PROVE  Bounded'
  <2>1. 1..started \subseteq Streams
        BY StartBoundAssumption DEF TypeOK, Streams
  <2>2. \A k \in 1..started, h \in 1..started, i \in Ids : Reaches(k, h, i)' => Reaches(k, h, i)
        BY <1>5, <2>1, StillDue
  <2>3. QED
        BY <1>5, <2>2, SameBounded
<1>6. ASSUME NEW i \in Ids, AddInvoice(i)
      PROVE  Bounded'
  <2>1. /\ UNCHANGED <<started, payments, paying>>
        /\ \A j \in Ids : ledger'[j] = "settled" => ledger[j] = "settled"
        BY <1>6 DEF AddInvoice, startVars, clientVars, TypeOK
  <2>2. CASE \E j \in Ids : Settle(j)
        BY <1>2, <2>2
  <2>3. QED
        BY <1>5, <2>1, <2>2
<1>7. ASSUME UNCHANGED <<started, ledger, payments, paying>>
      PROVE  Bounded'
  <2>1. CASE \E j \in Ids : Settle(j)
        BY <1>2, <2>1
  <2>2. QED
        BY <1>5, <1>7, <2>1
<1>8. CASE ApiSubscribes \/ NetSubscribes
      BY <1>7, <1>8 DEF ApiSubscribes, NetSubscribes, SubscribeHandler, lndVars
<1>9. CASE SetEnabled \/ Disable \/ CancelAll \/ UNCHANGED vars \/ MapRace
      BY <1>7, <1>9 DEF SetEnabled, Disable, CancelAll, vars, MapRace, startVars, clientVars, lndVars
<1>10. ASSUME NEW k \in Streams, RunStep(k)
       PROVE  Bounded'
       BY <1>7, <1>10 DEF RunStep, Join, StreamBreaks, Receive, Served, Visit, startVars, clientVars,
                          lndVars
<1>11. ASSUME NEW w \in Watchers, WatcherStep(w) \/ WatcherLeaves(w)
       PROVE  Bounded'
       BY <1>7, <1>11 DEF WatcherStep, Watch, WatcherReady, WatcherReceives, WatcherLeaves, startVars,
                          lndVars
<1>12. QED
       BY <1>1, <1>2, <1>3, <1>4, <1>6, <1>8, <1>9, <1>10, <1>11 DEF Next, Calm, NodeStep, LndStep

(***************************************************************************)
(* The theorems                                                            *)
(***************************************************************************)
\* The invariant holds from the node's set-up on.
THEOREM Invariance == Spec => []IInv
<1>1. IInv /\ [Next]_vars => IInv'
  <2> SUFFICES ASSUME IInv, [Next]_vars PROVE IInv'
      OBVIOUS
  <2>1. TypeOK'
        BY TypeStep DEF IInv
  <2>2. Shape'
        BY StartsStep, StopsStep, SendingStep, PayingStep DEF IInv, Shape
  <2>3. Once' /\ Silent' /\ Bounded'
        BY OnceStep, SilentStep, BoundedStep DEF IInv
  <2>4. QED
        BY <2>1, <2>2, <2>3 DEF IInv
<1>2. QED
      BY Initially, <1>1, PTL DEF Spec

\* Every variable keeps to its type: handlers pay invoices, run() sends events.
THEOREM TypeCorrect == Spec => []TypeOK
<1>1. IInv => TypeOK
      BY DEF IInv
<1>2. QED
      BY Invariance, <1>1, PTL

\* handleDispenses hears of no unsettled invoice, and of a settled one at most once for
\* every stream and handler (run, handleLightningNodeInvoices).
THEOREM PaymentsAreBounded == Spec => []PaidPerStart
<1>1. ASSUME TypeOK, Once, Bounded, NEW i \in Ids
      PROVE  payments[i] <= IF ledger[i] = "settled" THEN started * started ELSE 0
  <2>1. CASE ledger[i] = "settled"
    <3>1. Bound(i) /\ payments[i] \in Nat /\ started * started \in Nat
          BY <1>1, <2>1, StartBoundAssumption DEF Bounded, TypeOK
    <3>2. QED
          BY <1>1, <2>1, <3>1, Finite DEF Bound
  <2>2. CASE ledger[i] # "settled"
        BY <1>1, <2>2 DEF Once, Unsettled
  <2>3. QED
        BY <2>1, <2>2
<1>2. IInv => PaidPerStart
      BY <1>1 DEF IInv, PaidPerStart
<1>3. QED
      BY Invariance, <1>2, PTL

\* A handler whose subscription was cancelled pays no invoice that was settled later,
\* whichever stream brings it (Stop and closeAllInvoiceSubscriptions).
THEOREM CancelledHandlersAreSilent == Spec => []CancelledIsSilent
<1>1. IInv => CancelledIsSilent
      BY DEF IInv, Silent, Unheard, CancelledIsSilent
<1>2. QED
      BY Invariance, <1>1, PTL

\* Apart from a race for the map of the clients, what ends the daemon is the Cancel of a
\* websocket whose client the node's Stop has cancelled (Stop and unsubscribeInvoices).
THEOREM EndsOnlyAfterStop == Spec => EndsAfterStop
<1>1. IInv /\ [Next]_vars => [crashed' /\ ~Clashing => closed # {}]_vars
  <2> SUFFICES ASSUME TypeOK, Stops, Next, crashed', ~Clashing
               PROVE  closed # {}
      BY DEF IInv, Shape
  <2>1. ~crashed /\ ~(Calm /\ UNCHANGED crashed) /\ ~MapRace
        BY DEF Next, MapRace
  <2>2. PICK w \in Watchers : WatcherLeaves(w) /\ crashed' = (w \in cancelled)
        BY <2>1, Zenon DEF Next
  <2>3. w \in cancelled /\ watcher[w] # "gone"
        BY <2>2 DEF WatcherLeaves
  <2>4. QED
        BY <2>3 DEF Stops
<1>2. QED
      BY Invariance, <1>1, PTL DEF Spec, EndsAfterStop

(***************************************************************************)
(* The refinement of Billing.                                              *)
(***************************************************************************)
Settled  == {i \in Ids : ledger[i] = "settled"}
Stopped  == closed # {}
Awaiting == clients \cap Streams

LEMMA InitBills == Init => B!Init
<1> SUFFICES ASSUME Init PROVE B!Init
    OBVIOUS
<1>1. Due = {} /\ Joined = {}
      BY DEF Init, Due, Reaches, Coming, Carries, Waits, Joined
<1>2. Settled = {} /\ Stopped = FALSE /\ Awaiting = {}
      BY DEF Init, Settled, Stopped, Awaiting
<1>3. QED
      BY <1>1, <1>2 DEF Init, B!Init, Settled, Stopped, Awaiting

(***************************************************************************)
(* What a subscribed handler has coming it keeps.                          *)
(***************************************************************************)
LEMMA AwaitingSubscribed == Shape => Awaiting \subseteq Subscribed
BY DEF Shape, Starts, Awaiting, Listening, Subscribed

LEMMA KeptStart ==
    ASSUME TypeOK, Shape, Enable \/ NetworkUp,
           NEW k \in Streams, NEW h \in Streams, NEW i \in Ids, Reaches(k, h, i)
    PROVE  Reaches(k, h, i)'
<1>1. PICK t \in {"api", "net"} : Start(t)
      BY DEF Enable, NetworkUp
<1>2. /\ UNCHANGED <<handler, queue, event, todo, target>> /\ started \in Nat
      /\ k # started + 1 => run'[k] = run[k]
      BY <1>1, StartBoundAssumption DEF Start, clientVars, lndVars, TypeOK
<1>3. Subscribed' = Subscribed
      BY <1>2 DEF Subscribed
<1>4. run[k] = "send" => k <= started
      BY DEF Shape, Sending, Sends
<1>5. run[k] = "send" => run'[k] = "send"
      BY <1>2, <1>4
<1>6. QED
      BY <1>2, <1>3, <1>5 DEF Reaches, Coming, Carries, Waits

\* A range in progress loses no client to one that registers.
LEMMA KeptRegister ==
    ASSUME TypeOK, NEW c \in Clients, Register(c), UNCHANGED <<run, event, queue, target>>,
           NEW q \in Streams, NEW h \in Streams, NEW i \in Ids, Reaches(q, h, i),
           h \in Subscribed \/ h \notin Subscribed'
    PROVE  Reaches(q, h, i)'
<1>1. todo[q] \subseteq todo'[q]
      BY RegisterDoes
<1>2. Coming(i, q)' <=> Coming(i, q)
      BY DEF Coming, Waits
<1>3. Carries(q, i)' <=> Carries(q, i)
      BY DEF Carries
<1>4. QED
      BY <1>1, <1>2, <1>3 DEF Reaches

LEMMA KeptAdd ==
    ASSUME TypeOK, NEW j \in Ids, AddInvoice(j),
           NEW k \in Streams, NEW h \in Streams, NEW i \in Ids, Reaches(k, h, i)
    PROVE  Reaches(k, h, i)'
<1>1. UNCHANGED <<handler, run, event, todo, target>> /\ Subscribed' = Subscribed
      BY DEF AddInvoice, runVars, clientVars, Subscribed
<1>2. PICK e \in Event : Publish(e)
      BY DEF AddInvoice, Event
<1>3. \A n : Waits(k, i, n) => Waits(k, i, n)'
      BY <1>2, PublishDoes DEF Waits
<1>4. Coming(i, k) => Coming(i, k)'
      BY <1>3 DEF Coming, Waits
<1>5. QED
      BY <1>1, <1>4 DEF Reaches, Carries

\* run() takes an invoice in hand for all the clients there are.
LEMMA KeptReceive ==
    ASSUME TypeOK, Shape, NEW k \in Streams, Receive(k),
           NEW q \in Streams, NEW h \in Awaiting, NEW i \in Ids, Reaches(q, h, i)
    PROVE  Reaches(q, h, i)'
<1>1. /\ UNCHANGED <<target, handler>> /\ todo'[k] = clients /\ run[k] = "recv"
      /\ \A p \in Streams \ {k} : todo'[p] = todo[p]
      BY DEF Receive, clientVars, TypeOK
<1>2. Subscribed' = Subscribed
      BY <1>1 DEF Subscribed
<1>3. CASE q # k
  <2>1. UNCHANGED <<run[q], event[q], queue[q], todo[q], target[q]>>
        BY <1>1, <1>3, ReceiveDoes
  <2>2. QED
        BY <1>2, <2>1 DEF Reaches, Coming, Carries, Waits
<1>4. CASE q = k
  <2>1. PICK n \in DOMAIN queue[k] : Waits(k, i, n)
        BY <1>1, <1>4 DEF Reaches, Carries, Coming
  <2>2. queue[k] \in Seq(Event) /\ queue[k] # <<>> /\ queue'[k] = Tail(queue[k])
        BY DEF Receive, TypeOK
  <2>3. CASE n = 1
    <3>1. Carries(k, i)'
          BY <2>1, <2>3, ReceiveDoes
    <3>2. QED
          BY <1>1, <1>4, <3>1 DEF Reaches, Awaiting
  <2>4. CASE n # 1
    <3>1. /\ DOMAIN queue[k] = 1..Len(queue[k]) /\ Len(queue[k]) \in Nat
          /\ DOMAIN Tail(queue[k]) = 1..Len(queue[k]) - 1
          /\ \A m \in 1..Len(queue[k]) - 1 : Tail(queue[k])[m] = queue[k][m + 1]
          BY <2>2
    <3>2. PICK m \in 1..Len(queue[k]) - 1 : n = m + 1
          BY <2>4, <3>1
    <3>3. Waits(k, i, m)'
          BY <2>1, <2>2, <3>1, <3>2 DEF Waits
    <3>4. Coming(i, k)'
          BY <3>3 DEF Coming, Waits
    <3>5. QED
          BY <1>4, <3>4 DEF Reaches
  <2>5. QED
        BY <2>3, <2>4
<1>5. QED
      BY <1>3, <1>4

\* The range passes by no client that is there, and is over when it has visited all.
LEMMA KeptRun ==
    ASSUME TypeOK, Shape, NEW k \in Streams, RunStep(k),
           NEW q \in Streams, NEW h \in Awaiting, NEW i \in Ids, Reaches(q, h, i)
    PROVE  Reaches(q, h, i)'
<1>1. h \in Subscribed /\ h \in clients /\ h \in Streams
      BY AwaitingSubscribed DEF Awaiting
<1>2. CASE Join(k) \/ StreamBreaks(k) \/ Served(k)
  <2>1. UNCHANGED <<queue, todo, target>> /\ (q # k => run'[q] = run[q] /\ event'[q] = event[q])
        BY <1>2 DEF Join, StreamBreaks, Served, lndVars, TypeOK
  <2>2. run[k] # "send" \/ (todo[k] = {} /\ target[k] = None)
        BY <1>2 DEF Join, StreamBreaks, Served
  <2>3. Carries(q, i) /\ (h \in todo[q] \/ target[q] = h) => q # k
        BY <1>1, <2>2, NoneIs DEF Carries
  <2>4. QED
        BY <1>1, <2>1, <2>3 DEF Reaches, Coming, Carries, Waits
<1>3. ASSUME NEW c \in Clients, Visit(k, c)
      PROVE  Reaches(q, h, i)'
  <2>1. UNCHANGED <<run, event, queue>>
        BY <1>3 DEF Visit, lndVars
  <2>2. /\ h \in todo[q] => h \in todo'[q] \/ target'[q] = h
        /\ target[q] = h => target'[q] = h
        BY <1>1, <1>3, NoneIs DEF Visit, TypeOK
  <2>3. QED
        BY <1>1, <2>1, <2>2 DEF Reaches, Coming, Carries, Waits
<1>4. QED
      BY <1>2, <1>3, KeptReceive DEF RunStep

LEMMA KeptWatch ==
    ASSUME TypeOK, NEW w \in Watchers, WatcherStep(w),
           NEW k \in Streams, NEW h \in Streams, NEW i \in Ids, Reaches(k, h, i)
    PROVE  Reaches(k, h, i)'
<1>1. UNCHANGED <<handler, run, event, queue>> /\ Subscribed' = Subscribed
      BY DEF WatcherStep, Watch, WatcherReady, WatcherReceives, runVars, lndVars, Subscribed
<1>2. CASE Watch(w)
  <2>1. Register(w) /\ w \in Clients /\ target' = target
        BY <1>2 DEF Watch, Clients
  <2>2. QED
        BY <1>1, <2>1, KeptRegister
<1>3. ASSUME NEW q \in Streams, WatcherReceives(q, w)
      PROVE  Reaches(k, h, i)'
  <2>1. todo' = todo /\ (target[k] = h => target'[k] = h)
        BY <1>3, NoneIs DEF WatcherReceives, TypeOK
  <2>2. QED
        BY <1>1, <2>1 DEF Reaches, Coming, Carries, Waits
<1>4. CASE WatcherReady(w)
      BY <1>1, <1>4 DEF WatcherReady, runVars, Reaches, Coming, Carries, Waits
<1>5. QED
      BY <1>2, <1>3, <1>4 DEF WatcherStep

\* A handler that skips an invoice skips one that is not settled.
LEMMA KeptHandle ==
    ASSUME TypeOK, Shape, NEW k \in Streams, NEW g \in Streams, Handle(k, g), ~event[k].settled,
           NEW q \in Streams, NEW h \in Streams, NEW i \in Ids, Reaches(q, h, i)
    PROVE  Reaches(q, h, i)'
<1>1. Coming(i, q)' <=> Coming(i, q)
      BY HandleDoes DEF Coming, Waits
<1>2. Carries(q, i)' <=> Carries(q, i)
      BY HandleDoes DEF Carries
<1>3. Carries(q, i) => target'[q] = target[q]
      BY HandleDoes DEF Carries
<1>4. QED
      BY <1>1, <1>2, <1>3, HandleDoes DEF Reaches

(***************************************************************************)
(* The steps.                                                              *)
(***************************************************************************)
\* Steps that settle, pay and hand over nothing let at most lapse what no subscribed
\* handler has coming.
LEMMA Lapses ==
    ASSUME TypeOK, Shape, [Next]_vars, \A j \in Ids : ~Settle(j),
           UNCHANGED <<paying, payments>>,
           Settled' = Settled, Stopped' = Stopped, Joined' = Joined, Awaiting' = Awaiting,
           \A k \in Streams, h \in Awaiting, i \in Ids : Reaches(k, h, i) => Reaches(k, h, i)'
    PROVE  B!Lapse
<1>1. Due' \subseteq Due
      BY StillDue DEF Due
<1>2. \A d \in Due \ Due' : d[3] \notin Awaiting
      BY DEF Due
<1>3. QED
      BY <1>1, <1>2 DEF B!Lapse, Settled, Stopped, Awaiting

LEMMA SettleBills ==
    ASSUME TypeOK, Once, NEW i \in Ids, Settle(i)
    PROVE  B!Settle(i)
<1>1. /\ i \notin Settled /\ Settled' = Settled \cup {i}
      BY DEF Settle, Settled, TypeOK
<1>2. UNCHANGED <<paying, payments, closed, run, clients>>
      BY DEF Settle, clientVars, startVars, runVars
<1>3. Stopped' = Stopped /\ Joined' = Joined /\ Awaiting' = Awaiting
      BY <1>2 DEF Stopped, Joined, Awaiting
<1>4. Due' = Due \cup {i} \X Joined \X Streams
  <2>1. ASSUME NEW d \in Ids \X Streams \X Streams
        PROVE  d \in Due' <=> d \in Due \/ d \in {i} \X Joined \X Streams
    <3>1. PICK j \in Ids, k \in Streams, h \in Streams : d = <<j, k, h>>
          OBVIOUS
    <3>2. d \in Due' <=> Reaches(k, h, j)'
          BY <3>1 DEF Due
    <3>3. d \in Due <=> Reaches(k, h, j)
          BY <3>1 DEF Due
    <3>4. d \in {i} \X Joined \X Streams <=> j = i /\ k \in Joined
          BY <3>1
    <3>5. QED
          BY <3>2, <3>3, <3>4, DueSettled
  <2>2. {i} \X Joined \X Streams \subseteq Ids \X Streams \X Streams
        BY DEF Joined
  <2>3. Due \subseteq Ids \X Streams \X Streams /\ Due' \subseteq Ids \X Streams \X Streams
        BY DEF Due
  <2>4. QED
        BY <2>1, <2>2, <2>3
<1>5. QED
      BY <1>1, <1>2, <1>3, <1>4 DEF B!Settle, Settled, Stopped, Awaiting

\* The handler that receives a settled invoice uses up its way, and no other.
LEMMA HandleBills ==
    ASSUME TypeOK, Shape, Once, NEW k \in Streams, NEW h \in Streams, Handle(k, h),
           NEW i \in Ids, Carries(k, i)
    PROVE  B!Deliver(i, k, h)
<1>1. event[k].id = i /\ event[k].settled /\ run[k] = "send"
      BY DEF Carries
<1>2. Sends(k) /\ target[k] = h
      BY HandleDoes DEF Shape, Sending
<1>3. h \in Subscribed /\ h \notin todo[k]
      BY <1>2 DEF Sends
<1>4. ~Coming(i, k)
      BY DEF Once, Unique, Coming
<1>5. ASSUME NEW j \in Ids, NEW q \in Streams, NEW g \in Streams
      PROVE  Reaches(q, g, j)' <=> Reaches(q, g, j) /\ ~(j = i /\ q = k /\ g = h)
  <2>1. Reaches(q, g, j)' => Reaches(q, g, j)
        BY DueHandle
  <2>2. ~Reaches(k, h, i)'
        BY <1>3, <1>4, HandleDoes, NoneIs DEF Reaches, Coming, Waits
  <2>3. ASSUME Reaches(q, g, j), ~(j = i /\ q = k /\ g = h)
        PROVE  Reaches(q, g, j)'
    <3>1. Coming(j, q)' <=> Coming(j, q)
          BY HandleDoes DEF Coming, Waits
    <3>2. Carries(q, j)' <=> Carries(q, j)
          BY HandleDoes DEF Carries
    <3>3. q = k /\ Carries(q, j) => j = i
          BY <1>1 DEF Carries
    <3>4. QED
          BY <1>2, <2>3, <3>1, <3>2, <3>3, HandleDoes DEF Reaches
  <2>4. QED
        BY <2>1, <2>2, <2>3
<1>6. Reaches(k, h, i)
      BY <1>2 DEF Reaches
<1>7. <<i, k, h>> \in Due /\ Due' = Due \ {<<i, k, h>>}
  <2>1. ASSUME NEW d \in Ids \X Streams \X Streams
        PROVE  d \in Due' <=> d \in Due /\ d # <<i, k, h>>
    <3>1. PICK j \in Ids, q \in Streams, g \in Streams : d = <<j, q, g>>
          OBVIOUS
    <3>2. d \in Due' <=> Reaches(q, g, j)'
          BY <3>1 DEF Due
    <3>3. d \in Due <=> Reaches(q, g, j)
          BY <3>1 DEF Due
    <3>4. d = <<i, k, h>> <=> j = i /\ q = k /\ g = h
          BY <3>1
    <3>5. QED
          BY <1>5, <3>2, <3>3, <3>4
  <2>2. Due \subseteq Ids \X Streams \X Streams /\ Due' \subseteq Ids \X Streams \X Streams
        BY DEF Due
  <2>3. <<i, k, h>> \in Due
        BY <1>6 DEF Due
  <2>4. QED
        BY <2>1, <2>2, <2>3
<1>8. paying[h] = None /\ paying' = [paying EXCEPT ![h] = i]
  <2>1. paying[h] = None
        BY HandleDoes DEF TypeOK
  <2>2. paying' = [paying EXCEPT ![h] = i]
        BY <1>1 DEF Handle
  <2>3. QED
        BY <2>1, <2>2
<1>9. UNCHANGED <<ledger, payments, closed, run, clients>>
      BY DEF Handle, startVars, lndVars
<1>10. /\ Settled' = Settled /\ Stopped' = Stopped /\ Joined' = Joined /\ Awaiting' = Awaiting
       /\ k \in Joined
       BY <1>1, <1>9 DEF Settled, Stopped, Joined, Awaiting
<1>11. QED
       BY <1>7, <1>8, <1>9, <1>10 DEF B!Deliver, Settled, Stopped, Awaiting

LEMMA PayBills ==
    ASSUME TypeOK, Shape, NEW h \in Streams, Pay(h)
    PROVE  B!Pay(h)
<1>1. paying[h] # None
      BY NoneIs DEF Pay, Shape, Paying
<1>2. /\ UNCHANGED <<queue, run, event, todo, target, ledger, closed, clients>>
      /\ Subscribed' = Subscribed
      BY HandlersStay, SameSubscribed DEF Pay, startVars, runVars, lndVars
<1>3. Due' = Due
      BY <1>2 DEF Due, Reaches, Coming, Carries, Waits
<1>4. Settled' = Settled /\ Stopped' = Stopped /\ Joined' = Joined /\ Awaiting' = Awaiting
      BY <1>2 DEF Settled, Stopped, Joined, Awaiting
<1>5. /\ paying' = [paying EXCEPT ![h] = None]
      /\ payments' = [payments EXCEPT ![paying[h]] = @ + 1]
      BY DEF Pay
<1>6. QED
      BY <1>1, <1>3, <1>4, <1>5 DEF B!Pay, Settled, Stopped, Awaiting

\* A connection is closed.
LEMMA StopBills ==
    ASSUME Disable
    PROVE  B!Stop \/ UNCHANGED B!vars
<1>1. UNCHANGED <<handler, run, event, todo, target, queue, ledger, paying, payments, clients>>
      BY DEF Disable, runVars, clientVars, lndVars
<1>2. Due' = Due
      BY <1>1, DueSame DEF Due
<1>3. Settled' = Settled /\ Joined' = Joined /\ Awaiting' = Awaiting
      BY <1>1 DEF Settled, Joined, Awaiting
<1>4. CASE Stopped' = TRUE
      BY <1>1, <1>2, <1>3, <1>4 DEF B!Stop, Settled, Stopped, Awaiting
<1>5. CASE Stopped' = FALSE
  <2>1. closed' = {} /\ closed = {}
        BY <1>5 DEF Stopped, Disable
  <2>2. Stopped' = Stopped
        BY <2>1 DEF Stopped
  <2>3. QED
        BY <1>1, <1>2, <1>3, <2>2 DEF B!vars, Settled, Stopped, Awaiting
<1>6. QED
      BY <1>4, <1>5 DEF Stopped

\* A websocket leaves, or the map of the clients is raced for: no handler is affected.
LEMMA LeaveBills ==
    ASSUME MapRace \/ \E w \in Watchers : WatcherLeaves(w)
    PROVE  UNCHANGED B!vars
<1>1. UNCHANGED <<handler, run, event, todo, target, queue, ledger, paying, payments, closed>>
      BY DEF MapRace, WatcherLeaves, startVars, runVars, clientVars, lndVars
<1>2. Due' = Due
      BY <1>1, DueSame DEF Due
<1>3. Awaiting' = Awaiting
      BY NoneIs DEF Awaiting, MapRace, WatcherLeaves, clientVars
<1>4. Settled' = Settled /\ Stopped' = Stopped /\ Joined' = Joined
      BY <1>1 DEF Settled, Stopped, Joined
<1>5. QED
      BY <1>1, <1>2, <1>3, <1>4 DEF B!vars, Settled, Stopped, Awaiting

\* The stop that cancels what the node has subscribed silences all its handlers.
LEMMA CancelBills ==
    ASSUME Stops, CancelAll
    PROVE  B!Silence
<1>1. UNCHANGED <<handler, run, event, todo, target, queue, ledger, paying, payments, closed>>
      BY DEF CancelAll, runVars, lndVars
<1>2. Due' = Due
      BY <1>1, DueSame DEF Due
<1>3. Settled' = Settled /\ Stopped' = Stopped /\ Joined' = Joined
      BY <1>1 DEF Settled, Stopped, Joined
<1>4. Stopped /\ Awaiting' = {}
      BY DEF CancelAll, Stops, Stopped, Awaiting
<1>5. QED
      BY <1>1, <1>2, <1>3, <1>4 DEF B!Silence, Settled, Stopped, Awaiting

\* A handler that subscribes may miss what a range has begun to pass on.
LEMMA SubscribeBills ==
    ASSUME TypeOK, Shape, ApiSubscribes \/ NetSubscribes
    PROVE  \E h \in Streams : B!Subscribe(h)
<1>1. PICK k \in 1..started : k \notin Subscribed /\ SubscribeHandler(k)
      BY DEF ApiSubscribes, NetSubscribes, Shape, Starts
<1>2. k \in Streams /\ Subscribed' = Subscribed \cup {k} /\ clients' = clients \cup {k}
      BY <1>1, SubscribeDoes DEF Shape
<1>3. UNCHANGED <<run, event, queue, target, ledger, paying, payments, closed>> /\ Register(k)
      BY <1>1, <1>2 DEF ApiSubscribes, NetSubscribes, SubscribeHandler, lndVars
<1>4. k \notin Awaiting /\ Awaiting' = Awaiting \cup {k}
      BY <1>1, <1>2, AwaitingSubscribed DEF Awaiting
<1>5. Due' \subseteq Due
  <2>1. \A q \in Streams, h \in Streams, i \in Ids : Reaches(q, h, i)' => Reaches(q, h, i)
        BY DueSubscribe
  <2>2. QED
        BY <2>1 DEF Due
<1>6. ASSUME NEW d \in Due \ Due'
      PROVE  d[3] = k
  <2>1. PICK i \in Ids, q \in Streams, h \in Streams : d = <<i, q, h>>
        BY DEF Due
  <2>2. Reaches(q, h, i) /\ ~Reaches(q, h, i)'
        BY <1>6, <2>1 DEF Due
  <2>3. ASSUME h # k
        PROVE  FALSE
    <3>1. h \in Subscribed \/ h \notin Subscribed'
          BY <1>2, <2>3
    <3>2. k \in Clients
          BY <1>2 DEF Clients
    <3>3. QED
          BY <1>3, <2>2, <3>1, <3>2, KeptRegister
  <2>4. QED
        BY <2>1, <2>3
<1>7. Settled' = Settled /\ Stopped' = Stopped /\ Joined' = Joined
      BY <1>3 DEF Settled, Stopped, Joined
<1>8. B!Subscribe(k)
      BY <1>3, <1>4, <1>5, <1>6, <1>7 DEF B!Subscribe, Settled, Stopped, Awaiting
<1>9. QED
      BY <1>2, <1>8

\* run() joins, on a connection that is not closed, or its stream breaks: what is due
\* remains, and what has not been passed on is not delivered any more.
LEMMA StreamBills ==
    ASSUME TypeOK, Shape, NEW k \in Streams, Join(k) \/ StreamBreaks(k), Joined' # Joined
    PROVE  B!Open(k) \/ B!Close(k)
<1>1. /\ UNCHANGED <<handler, event, todo, target, queue, ledger, paying, payments, closed, clients>>
      /\ run[k] \in {"dialled", "recv"} /\ run'[k] \in {"recv", "ended"}
      /\ \A q \in Streams : q # k => run'[q] = run[q]
      BY DEF Join, StreamBreaks, startVars, clientVars, lndVars, TypeOK
<1>2. ASSUME NEW q \in Streams, NEW h \in Streams, NEW i \in Ids
      PROVE  Reaches(q, h, i)' <=> Reaches(q, h, i)
  <2>1. Subscribed' = Subscribed
        BY <1>1 DEF Subscribed
  <2>2. Carries(q, i)' <=> Carries(q, i)
        BY <1>1 DEF Carries
  <2>3. QED
        BY <1>1, <2>1, <2>2 DEF Reaches, Coming, Waits
<1>3. Due' = Due
      BY <1>2 DEF Due
<1>4. Settled' = Settled /\ Stopped' = Stopped /\ Awaiting' = Awaiting
      BY <1>1 DEF Settled, Stopped, Awaiting
<1>5. \/ k \notin Joined /\ Joined' = Joined \cup {k}
      \/ k \in Joined /\ Joined' = Joined \ {k}
      BY <1>1 DEF Joined
<1>6. QED
      BY <1>1, <1>3, <1>4, <1>5 DEF B!Open, B!Close, Settled, Stopped, Awaiting

\* Invoices implements Billing: whatever starts, stops, subscriptions and websockets do
\* meanwhile, a handler is given a settled invoice once by each stream that was open
\* then, pays each before it takes the next, and loses nothing it has coming as long as
\* it is subscribed (run, SubscribeInvoices, Stop, Cancel and
\* handleLightningNodeInvoices).
THEOREM Refinement == Spec => BilledByStream
<1>1. IInv /\ [Next]_vars => [B!Next]_(B!vars)
  <2> SUFFICES ASSUME IInv, [Next]_vars PROVE [B!Next]_(B!vars)
      OBVIOUS
  <2> USE DEF IInv
  <2>1. CASE UNCHANGED vars
    <3>1. UNCHANGED <<handler, run, event, todo, target, queue, ledger, paying, payments, closed,
                      clients>>
          BY <2>1 DEF vars, startVars, runVars, clientVars, lndVars
    <3>2. Due' = Due
          BY <3>1, DueSame DEF Due
    <3>3. Settled' = Settled /\ Stopped' = Stopped /\ Joined' = Joined /\ Awaiting' = Awaiting
          BY <3>1 DEF Settled, Stopped, Joined, Awaiting
    <3>4. QED
          BY <3>1, <3>2, <3>3 DEF B!vars, Settled, Stopped, Awaiting
  <2>2. CASE MapRace \/ \E w \in Watchers : WatcherLeaves(w)
        BY <2>2, LeaveBills
  <2>3. ASSUME Calm
        PROVE  [B!Next]_(B!vars)
    <3>1. ASSUME NEW i \in Ids, Settle(i)
          PROVE  B!Next
          BY <2>3, <3>1, SettleBills DEF B!Next
    <3>2. ASSUME UNCHANGED <<paying, payments, closed>>, Settled' = Settled, Joined' = Joined,
                 Awaiting' = Awaiting,
                 \A k \in Streams, h \in Awaiting, i \in Ids : Reaches(k, h, i) => Reaches(k, h, i)'
          PROVE  B!Next
      <4>1. Stopped' = Stopped
            BY <3>2 DEF Stopped
      <4>2. CASE \A i \in Ids : ~Settle(i)
        <5>1. B!Lapse
              BY <2>3, <3>2, <4>1, <4>2, Lapses
        <5>2. QED
              BY <2>3, <5>1 DEF B!Next
      <4>3. QED
            BY <3>1, <4>2
    <3>3. ASSUME NEW i \in Ids, AddInvoice(i)
          PROVE  B!Next
      <4>1. UNCHANGED <<run, clients, paying, payments, closed>> /\ Settled' = Settled
            BY <3>3 DEF AddInvoice, startVars, runVars, clientVars, Settled, TypeOK
      <4>2. Joined' = Joined /\ Awaiting' = Awaiting /\ Awaiting \subseteq Streams
            BY <4>1 DEF Joined, Awaiting
      <4>3. QED
            BY <3>2, <3>3, <4>1, <4>2, KeptAdd
    <3>4. ASSUME NEW h \in Streams, Pay(h)
          PROVE  B!Next
          BY <2>3, <3>4, PayBills DEF B!Next
    <3>5. ASSUME NEW k \in Streams, NEW h \in Streams, Handle(k, h)
          PROVE  B!Next
      <4>1. run[k] = "send" /\ event[k].id \in Ids
            BY <3>5, HandleDoes
      <4>2. CASE event[k].settled
        <5>1. PICK i \in Ids : event[k].id = i
              BY <4>1
        <5>2. Carries(k, i)
              BY <4>1, <4>2, <5>1 DEF Carries
        <5>3. B!Deliver(i, k, h)
              BY <2>3, <3>5, <5>2, HandleBills
        <5>4. QED
              BY <2>3, <5>3 DEF B!Next
      <4>3. CASE ~event[k].settled
        <5>1. UNCHANGED <<run, clients, paying, payments, closed, ledger>>
              BY <3>5, <4>3 DEF Handle, startVars, lndVars
        <5>2. Settled' = Settled /\ Joined' = Joined /\ Awaiting' = Awaiting /\ Awaiting \subseteq Streams
              BY <5>1 DEF Settled, Joined, Awaiting
        <5>3. QED
              BY <3>2, <3>5, <4>3, <5>1, <5>2, KeptHandle
      <4>4. QED
            BY <4>2, <4>3
    <3>6. CASE Disable
          BY <2>3, <3>6, StopBills DEF B!Next
    <3>7. CASE CancelAll
          BY <2>3, <3>7, CancelBills DEF B!Next, Shape
    <3>8. CASE ApiSubscribes \/ NetSubscribes
          BY <2>3, <3>8, SubscribeBills DEF B!Next
    <3>9. CASE Enable \/ NetworkUp
      <4>1. PICK t \in {"api", "net"} : Start(t)
            BY <3>9 DEF Enable, NetworkUp
      <4>2. /\ UNCHANGED <<clients, paying, payments, closed, ledger>> /\ started \in Nat
            /\ \A k \in Streams : run'[k] = IF k = started + 1 THEN "dialled" ELSE run[k]
            BY <4>1, StartBoundAssumption DEF Start, clientVars, lndVars, TypeOK
      <4>3. \A k \in Streams : k = started + 1 => run[k] = "none"
            BY <4>2 DEF Shape, Sending, Sends
      <4>4. Settled' = Settled /\ Joined' = Joined /\ Awaiting' = Awaiting /\ Awaiting \subseteq Streams
            BY <4>2, <4>3 DEF Settled, Joined, Awaiting
      <4>5. QED
            BY <3>2, <3>9, <4>2, <4>4, KeptStart
    <3>10. CASE SetEnabled
      <4>1. UNCHANGED <<handler, run, event, todo, target, queue, clients, paying, payments, closed, ledger>>
            BY <3>10 DEF SetEnabled, runVars, clientVars, lndVars
      <4>2. Settled' = Settled /\ Joined' = Joined /\ Awaiting' = Awaiting /\ Awaiting \subseteq Streams
            BY <4>1 DEF Settled, Joined, Awaiting
      <4>3. QED
            BY <3>2, <4>1, <4>2, DueSame
    <3>11. ASSUME NEW k \in Streams, RunStep(k)
           PROVE  B!Next
      <4>1. UNCHANGED <<clients, paying, payments, closed, ledger>>
            BY <3>11 DEF RunStep, Join, StreamBreaks, Receive, Served, Visit, startVars, clientVars, lndVars
      <4>2. Settled' = Settled /\ Awaiting' = Awaiting
            BY <4>1 DEF Settled, Awaiting
      <4>3. CASE Joined' = Joined
            BY <3>2, <3>11, <4>1, <4>2, <4>3, KeptRun
      <4>4. CASE Joined' # Joined
        <5>1. Join(k) \/ StreamBreaks(k)
              BY <3>11, <4>4 DEF RunStep, Receive, Served, Visit, Joined, TypeOK
        <5>2. QED
              BY <2>3, <4>4, <5>1, StreamBills DEF B!Next
      <4>5. QED
            BY <4>3, <4>4
    <3>12. ASSUME NEW w \in Watchers, WatcherStep(w)
           PROVE  B!Next
      <4>1. /\ UNCHANGED <<run, paying, payments, closed, ledger>>
            /\ clients \subseteq clients' /\ clients' \subseteq clients \cup {w}
            BY <3>12 DEF WatcherStep, Watch, WatcherReady, WatcherReceives, Register, startVars, runVars,
                         lndVars
      <4>2. Settled' = Settled /\ Joined' = Joined /\ Awaiting' = Awaiting /\ Awaiting \subseteq Streams
            BY <4>1, NoneIs DEF Settled, Joined, Awaiting
      <4>3. QED
            BY <3>2, <3>12, <4>1, <4>2, KeptWatch
    <3>13. QED
           BY <2>3, <3>1, <3>3, <3>4, <3>5, <3>6, <3>7, <3>8, <3>9, <3>10, <3>11, <3>12
              DEF Calm, NodeStep, LndStep
  <2>4. QED
        BY <2>1, <2>2, <2>3, Zenon DEF Next
<1>2. QED
      BY Invariance, InitBills, <1>1, PTL DEF Spec, BilledByStream, B!Spec
=============================================================================
