----------------------------- MODULE Scan_proof -----------------------------
(***************************************************************************)
(* The safety of Scan, for any number of scans, networks and signals and   *)
(* any length of the queue.                                                *)
(***************************************************************************)
EXTENDS Scan, TLAPS

(***************************************************************************)
(* The inductive invariant.                                                *)
(***************************************************************************)
Early == {"idle", "added", "done", "list"}

\* The forwarder of a scan is spawned by the request, and what the two hand over is
\* a network.
InOrder(s) ==
    /\ request[s] \in Early \cup {"failed"} => forwarder[s] = "none"
    /\ request[s] \in Early => listed[s] = {}
    /\ request[s] = "returned" => forwarder[s] = "ended"
    /\ forwarder[s] = "send" => offered[s] \in Wifis
    /\ request[s] = "queue" => inHand[s] \in Wifis

Queued == {queue[n] : n \in DOMAIN queue}

\* Each network of a list is in one place: to be forwarded, offered, in hand, queued,
\* or notified.
OnePlace(s, w) ==
    /\ w \in toForward[s] => w \in listed[s] /\ offered[s] # w
    /\ w \in toForward[s] \/ offered[s] = w => w \in listed[s] /\ inHand[s] # w
    /\ w \in toForward[s] \/ offered[s] = w \/ inHand[s] = w =>
          w \in listed[s] /\ Of(s, w) \notin Queued
    /\ w \in toForward[s] \/ offered[s] = w \/ inHand[s] = w \/ Of(s, w) \in Queued =>
          w \in listed[s] /\ notified[Of(s, w)] = 0

Distinct == \A m, n \in DOMAIN queue : queue[m] = queue[n] => m = n

\* What the end of a scan has taken down stays down.
TakenDown(s) ==
    /\ forwarder[s] \in {"close", "ended"} =>
          /\ added[s] = "ended" /\ done[s] = "ended"
          /\ pending[s]["success"] = 0 /\ pending[s]["failure"] = 0
          /\ s \notin matched
    /\ forwarder[s] = "cancelDone" /\ ~crashed => added[s] = "ended"

\* Every ScanDone is on its way, held by the listener, or has begun the end of the scan.
Counted(s) ==
    pending[s]["success"] + pending[s]["failure"]
        + (IF done[s] \in Outcome THEN 1 ELSE 0)
        + (IF forwarder[s] \in {"cancelAdded", "cancelDone"} THEN 1 ELSE 0) <= heard[s]

\* The hands of a scan are empty but while it hands over, and its list is gone through
\* before its end begins.
HandsFree(s) ==
    /\ forwarder[s] # "send" => offered[s] = None
    /\ request[s] # "queue" => inHand[s] = None
    /\ forwarder[s] \notin {"range", "send"} => toForward[s] = {}

Ordered   == \A s \in Scans : InOrder(s)
Hands     == \A s \in Scans : HandsFree(s)
Places    == Distinct /\ \A s \in Scans, w \in Wifis : OnePlace(s, w)
Down      == \A s \in Scans : TakenDown(s)
Counts    == \A s \in Scans : Counted(s)

IInv ==
    TypeOK /\ Ordered /\ Hands /\ Places /\ ReportedOnce /\ Down /\ Counts /\ PanicNeedsOverlap

LEMMA Initially == Init => IInv
<1> SUFFICES ASSUME Init PROVE IInv
    OBVIOUS
<1> USE DEF Init
<1>1. TypeOK
  <2>1. queue \in Seq(Discovered) /\ Len(queue) <= QueueSize
        BY BoundAssumption
  <2>2. pending \in [Scans -> [Outcome -> Nat]]
        OBVIOUS
  <2>3. dones \in 0..DoneBound
        BY BoundAssumption
  <2>4. QED
        BY <2>1, <2>2, <2>3 DEF TypeOK
<1>2. Ordered /\ Hands /\ Down /\ Counts
      BY DEF Ordered, InOrder, Hands, HandsFree, Down, TakenDown, Counts, Counted, Outcome
<1>3. Queued = {} /\ Distinct
      BY DEF Queued, Distinct
<1>4. Places /\ ReportedOnce
      BY <1>3, NoneAssumption DEF Places, OnePlace, ReportedOnce, Of, Discovered
<1>5. PanicNeedsOverlap
      BY DEF PanicNeedsOverlap
<1>6. QED
      BY <1>1, <1>2, <1>4, <1>5 DEF IInv

(***************************************************************************)
(* The types.                                                              *)
(***************************************************************************)
LEMMA RequestTypes ==
    ASSUME TypeOK, crashed' = crashed, NEW s \in Scans,
           \/ AskToScan(s) \/ ListenAdded(s) \/ ListenDone(s) \/ List(s) \/ Return(s)
    PROVE  TypeOK'
<1> USE DEF TypeOK, At, Goto, forwardVars, listenerVars, queueVars, doneVars
<1>1. CASE AskToScan(s)
      BY <1>1 DEF AskToScan
<1>2. CASE ListenAdded(s)
      BY <1>2 DEF ListenAdded
<1>3. CASE ListenDone(s)
      BY <1>3 DEF ListenDone, Leak
<1>4. CASE List(s)
  <2>1. /\ request' \in [Scans -> {"idle", "added", "done", "list", "receive", "queue", "returned", "failed"}]
        /\ forwarder' \in [Scans -> {"none", "range", "send", "select", "cancelAdded", "cancelDone",
                                     "close", "ended"}]
        BY <1>4 DEF List, Leak
  <2>2. toForward' \in [Scans -> SUBSET Wifis] /\ listed' \in [Scans -> SUBSET Wifis]
    <3>1. ASSUME NEW bsss \in SUBSET Wifis, toForward' = [toForward EXCEPT ![s] = bsss],
                 listed' = [listed EXCEPT ![s] = bsss]
          PROVE  toForward' \in [Scans -> SUBSET Wifis] /\ listed' \in [Scans -> SUBSET Wifis]
          BY <3>1
    <3>2. CASE UNCHANGED <<toForward, listed>>
          BY <3>2
    <3>3. QED
          BY <1>4, <3>1, <3>2 DEF List
  <2>3. /\ added' \in [Scans -> {"none", "waiting", "ended", "leaked"}]
        /\ done' \in [Scans -> {"none", "new", "waiting", "ended", "leaked"} \cup Outcome]
        BY <1>4 DEF List, Leak
  <2>4. pending' \in [Scans -> [Outcome -> Nat]]
    <3>1. [o \in Outcome |-> 0] \in [Outcome -> Nat]
          OBVIOUS
    <3>2. pending' = pending \/ pending' = [pending EXCEPT ![s] = [o \in Outcome |-> 0]]
          BY <1>4 DEF List
    <3>3. QED
          BY <3>1, <3>2
  <2>5. QED
        BY <1>4, <2>1, <2>2, <2>3, <2>4 DEF List
<1>5. CASE Return(s)
      BY <1>5 DEF Return
<1>6. QED
      BY <1>1, <1>2, <1>3, <1>4, <1>5

LEMMA ForwarderTypes ==
    ASSUME TypeOK, crashed' \in BOOLEAN, NEW s \in Scans,
           \/ \E w \in Wifis : Skip(s, w) \/ Offer(s, w)
           \/ HandOver(s) \/ ListForwarded(s) \/ HearDone(s) \/ CancelAdded(s) \/ CancelDone(s)
           \/ CloseWifis(s)
    PROVE  TypeOK'
<1> USE DEF TypeOK, At, Goto, Move, requestVars, listenerVars, queueVars, doneVars
<1>1. ASSUME NEW w \in Wifis, Skip(s, w)
      PROVE  TypeOK'
  <2>1. toForward' \in [Scans -> SUBSET Wifis] /\ listed' \in [Scans -> SUBSET Wifis]
        BY <1>1 DEF Skip
  <2>2. QED
        BY <1>1, <2>1 DEF Skip
<1>2. ASSUME NEW w \in Wifis, Offer(s, w)
      PROVE  TypeOK'
  <2>1. toForward' \in [Scans -> SUBSET Wifis]
        BY <1>2 DEF Offer
  <2>2. QED
        BY <1>2, <2>1 DEF Offer
<1>3. CASE HandOver(s)
      BY <1>3 DEF HandOver
<1>4. CASE ListForwarded(s)
      BY <1>4 DEF ListForwarded
<1>5. CASE HearDone(s)
      BY <1>5 DEF HearDone
<1>6. CASE CancelAdded(s)
      BY <1>6 DEF CancelAdded
<1>7. CASE CancelDone(s)
      BY <1>7 DEF CancelDone
<1>8. CASE CloseWifis(s)
      BY <1>8 DEF CloseWifis
<1>9. QED
      BY <1>1, <1>2, <1>3, <1>4, <1>5, <1>6, <1>7, <1>8

LEMMA QueueTypes ==
    ASSUME TypeOK, Ordered, crashed' = crashed,
           Notify \/ Wake \/ \E s \in Scans : Enqueue(s)
    PROVE  TypeOK'
<1> USE DEF TypeOK, At, Goto, requestVars, forwardVars, listenerVars, doneVars
<1>1. ASSUME NEW s \in Scans, Enqueue(s)
      PROVE  TypeOK'
  <2>1. Of(s, inHand[s]) \in Discovered
        BY <1>1 DEF Enqueue, Ordered, InOrder, Discovered, Of
  <2>2. queue' = Append(queue, Of(s, inHand[s])) /\ Len(queue) < QueueSize
        BY <1>1 DEF Enqueue, Of
  <2>3. queue' \in Seq(Discovered) /\ Len(queue') <= QueueSize
        BY <2>1, <2>2, BoundAssumption
  <2>4. request' \in [Scans -> {"idle", "added", "done", "list", "receive", "queue", "returned", "failed"}]
        BY <1>1 DEF Enqueue
  <2>5. inHand' \in [Scans -> Wifis \cup {None}]
        BY <1>1 DEF Enqueue
  <2>6. QED
        BY <1>1, <2>3, <2>4, <2>5 DEF Enqueue
<1>2. CASE Notify
  <2>1. queue' \in Seq(Discovered) /\ Len(queue') <= QueueSize
        BY <1>2, BoundAssumption DEF Notify
  <2>2. Head(queue) \in Discovered
        BY <1>2 DEF Notify
  <2>3. notified' \in [Discovered -> Nat]
        BY <1>2, <2>2 DEF Notify
  <2>4. QED
        BY <1>2, <2>1, <2>3 DEF Notify
<1>3. CASE Wake
      BY <1>3 DEF Wake
<1>4. QED
      BY <1>1, <1>2, <1>3

LEMMA ListenerTypes ==
    ASSUME TypeOK, crashed' = crashed,
           \/ \E s \in Scans : ReceiveAdded(s) \/ RegisterDone(s) \/ ReceiveDone(s)
           \/ \E o \in Outcome : ScanDone(o)
    PROVE  TypeOK'
<1> USE DEF TypeOK, requestVars, forwardVars, queueVars
<1>1. ASSUME NEW s \in Scans, ReceiveAdded(s)
      PROVE  TypeOK'
      BY <1>1 DEF ReceiveAdded, doneVars
<1>2. ASSUME NEW s \in Scans, RegisterDone(s)
      PROVE  TypeOK'
      BY <1>2 DEF RegisterDone, doneVars
<1>3. ASSUME NEW s \in Scans, NEW o \in Outcome, pending[s][o] > 0,
             pending' = [pending EXCEPT ![s] = [pending[s] EXCEPT ![o] = @ - 1]],
             ReceiveDone(s)
      PROVE  TypeOK'
  <2>1. [pending[s] EXCEPT ![o] = @ - 1] \in [Outcome -> Nat]
        BY <1>3
  <2>2. pending' \in [Scans -> [Outcome -> Nat]]
        BY <1>3, <2>1
  <2>3. QED
        BY <1>3, <2>2 DEF ReceiveDone, doneVars
<1>4. ASSUME NEW o \in Outcome, ScanDone(o)
      PROVE  TypeOK'
  <2>1. \A s \in Scans : [pending[s] EXCEPT ![o] = @ + 1] \in [Outcome -> Nat]
        BY <1>4
  <2>2. pending' \in [Scans -> [Outcome -> Nat]]
        BY <1>4, <2>1 DEF ScanDone
  <2>3. heard' \in [Scans -> Nat] /\ dones' \in 0..DoneBound
        BY <1>4, BoundAssumption DEF ScanDone
  <2>4. QED
        BY <1>4, <2>2, <2>3 DEF ScanDone
<1>5. QED
      BY <1>1, <1>2, <1>3, <1>4 DEF ReceiveDone

LEMMA TypeStep == TypeOK /\ Ordered /\ [Next]_vars => TypeOK'
<1> SUFFICES ASSUME TypeOK, Ordered, [Next]_vars PROVE TypeOK'
    OBVIOUS
<1>1. CASE UNCHANGED vars
      BY <1>1 DEF TypeOK, vars, requestVars, forwardVars, listenerVars, queueVars, doneVars
<1>2. ASSUME NEW s \in Scans, CancelStep(s)
      PROVE  TypeOK'
  <2>1. crashed' \in BOOLEAN
    <3>1. CASE CancelAdded(s)
          BY <3>1, Zenon DEF CancelAdded
    <3>2. CASE CancelDone(s)
      <4> DEFINE busy == done[s] \in Outcome
      <4>1. crashed' = busy
            BY <3>2, Zenon DEF CancelDone
      <4>2. busy \in BOOLEAN
            OBVIOUS
      <4> HIDE DEF busy
      <4>3. QED
            BY <4>1, <4>2
    <3>3. QED
          BY <1>2, <3>1, <3>2 DEF CancelStep
  <2>2. QED
        BY <1>2, <2>1, ForwarderTypes DEF CancelStep
<1>3. CASE Calm /\ UNCHANGED crashed
  <2>1. crashed' \in BOOLEAN
        BY <1>3 DEF TypeOK
  <2>2. QED
        BY <1>3, <2>1, RequestTypes, ForwarderTypes, QueueTypes, ListenerTypes
           DEF Calm, RequestStep, ForwarderStep, ListenerStep
<1>4. QED
      BY <1>1, <1>2, <1>3 DEF Next

(***************************************************************************)
(* The order between request and forwarder.                                *)
(***************************************************************************)
LEMMA OrderStep == TypeOK /\ Ordered /\ [Next]_vars => Ordered'
<1> SUFFICES ASSUME TypeOK, Ordered, [Next]_vars, NEW q \in Scans
             PROVE  InOrder(q)'
    BY DEF Ordered
<1> USE DEF At, Goto, Move, Early, TypeOK, InOrder
<1> InOrder(q)
    BY DEF Ordered
<1>1. ASSUME NEW s \in Scans, AskToScan(s) \/ ListenAdded(s) \/ ListenDone(s)
      PROVE  InOrder(q)'
      BY <1>1 DEF AskToScan, ListenAdded, ListenDone, Leak, forwardVars
<1>2. ASSUME NEW s \in Scans, List(s)
      PROVE  InOrder(q)'
  <2>1. CASE q = s
    <3>1. request[s] = "list" /\ UNCHANGED <<inHand, offered>>
          BY <1>2 DEF List
    <3>2. CASE Goto(s, "receive") /\ forwarder' = [forwarder EXCEPT ![s] = "range"]
          BY <2>1, <3>1, <3>2
    <3>3. CASE Goto(s, "failed") /\ forwarder' = forwarder
          BY <2>1, <3>1, <3>3
    <3>4. QED
          BY <1>2, <3>2, <3>3 DEF List, Leak
  <2>2. CASE q # s
    <3>1. UNCHANGED <<request[q], forwarder[q], listed[q], inHand, offered>>
          BY <1>2, <2>2 DEF List, Leak
    <3>2. QED
          BY <3>1
  <2>3. QED
        BY <2>1, <2>2
<1>3. ASSUME NEW s \in Scans, NEW w \in Wifis, Skip(s, w) \/ Offer(s, w)
      PROVE  InOrder(q)'
      BY <1>3 DEF Skip, Offer, requestVars
<1>4. ASSUME NEW s \in Scans, HandOver(s)
      PROVE  InOrder(q)'
      BY <1>4 DEF HandOver
<1>5. ASSUME NEW s \in Scans, ListForwarded(s) \/ HearDone(s) \/ CloseWifis(s) \/ CancelStep(s)
      PROVE  InOrder(q)'
      BY <1>5 DEF ListForwarded, HearDone, CloseWifis, CancelStep, CancelAdded, CancelDone, requestVars
<1>6. ASSUME NEW s \in Scans, Enqueue(s) \/ Return(s)
      PROVE  InOrder(q)'
      BY <1>6 DEF Enqueue, Return, forwardVars
<1>7. CASE UNCHANGED <<requestVars, forwardVars, listed>>
      BY <1>7 DEF requestVars, forwardVars
<1>8. QED
      BY <1>1, <1>2, <1>3, <1>4, <1>5, <1>6, <1>7
         DEF Next, Calm, RequestStep, ForwarderStep, ListenerStep, ReceiveAdded, RegisterDone,
             ReceiveDone, ScanDone, Notify, Wake, vars

LEMMA HandsStep == TypeOK /\ Ordered /\ Hands /\ [Next]_vars => Hands'
<1> SUFFICES ASSUME TypeOK, Ordered, Hands, [Next]_vars, NEW q \in Scans
             PROVE  HandsFree(q)'
    BY DEF Hands
<1> USE DEF At, Goto, Move, HandsFree
<1>0. /\ DOMAIN request = Scans /\ DOMAIN inHand = Scans /\ DOMAIN forwarder = Scans
      /\ DOMAIN toForward = Scans /\ DOMAIN offered = Scans
      BY DEF TypeOK
<1> HandsFree(q)
    BY DEF Hands
<1>1. ASSUME NEW s \in Scans, AskToScan(s) \/ ListenAdded(s) \/ ListenDone(s)
      PROVE  HandsFree(q)'
      BY <1>0, <1>1 DEF AskToScan, ListenAdded, ListenDone, Leak, forwardVars
<1>2. ASSUME NEW s \in Scans, List(s)
      PROVE  HandsFree(q)'
  <2>1. At(s, "list") /\ UNCHANGED <<inHand, offered>>
        BY <1>2 DEF List
  <2>2. CASE q = s
    <3>1. forwarder[s] = "none"
          BY <2>1 DEF Ordered, InOrder, Early
    <3>2. CASE UNCHANGED <<forwarder, toForward>>
          BY <1>0, <2>1, <2>2, <3>2
    <3>3. CASE forwarder' = [forwarder EXCEPT ![s] = "range"]
          BY <1>0, <2>1, <2>2, <3>1, <3>3
    <3>4. QED
          BY <1>2, <3>2, <3>3 DEF List
  <2>3. CASE q # s
    <3>1. UNCHANGED <<request[q], forwarder[q], toForward[q]>>
          BY <1>0, <1>2, <2>3 DEF List, Leak
    <3>2. QED
          BY <2>1, <3>1
  <2>4. QED
        BY <2>2, <2>3
<1>3. ASSUME NEW s \in Scans, NEW w \in Wifis, Skip(s, w) \/ Offer(s, w)
      PROVE  HandsFree(q)'
      BY <1>0, <1>3 DEF Skip, Offer, requestVars
<1>4. ASSUME NEW s \in Scans, HandOver(s)
      PROVE  HandsFree(q)'
      BY <1>0, <1>4 DEF HandOver
<1>5. ASSUME NEW s \in Scans, ListForwarded(s) \/ HearDone(s) \/ CloseWifis(s) \/ CancelStep(s)
      PROVE  HandsFree(q)'
      BY <1>0, <1>5 DEF ListForwarded, HearDone, CloseWifis, CancelStep, CancelAdded, CancelDone,
                        requestVars
<1>6. ASSUME NEW s \in Scans, Enqueue(s) \/ Return(s)
      PROVE  HandsFree(q)'
      BY <1>0, <1>6 DEF Enqueue, Return, forwardVars
<1>7. CASE UNCHANGED <<requestVars, forwardVars>>
      BY <1>7 DEF requestVars, forwardVars
<1>8. QED
      BY <1>1, <1>2, <1>3, <1>4, <1>5, <1>6, <1>7
         DEF Next, Calm, RequestStep, ForwarderStep, ListenerStep, ReceiveAdded, RegisterDone,
             ReceiveDone, ScanDone, Notify, Wake, vars

(***************************************************************************)
(* The end of a scan.                                                      *)
(***************************************************************************)
LEMMA DownStep == TypeOK /\ Ordered /\ Down /\ Next => Down'
<1> SUFFICES ASSUME TypeOK, Ordered, Down, Next, NEW q \in Scans
             PROVE  TakenDown(q)'
    BY DEF Down
<1> ~crashed
    BY DEF Next
<1> USE DEF At, Goto, Move, TakenDown
<1> TakenDown(q) /\ InOrder(q)
    BY DEF Ordered, Down
<1>0. /\ done \in [Scans -> {"none", "new", "waiting", "ended", "leaked"} \cup Outcome]
      /\ added \in [Scans -> {"none", "waiting", "ended", "leaked"}]
      /\ DOMAIN forwarder = Scans /\ DOMAIN pending = Scans
      /\ \A s \in Scans : DOMAIN pending[s] = Outcome
      BY DEF TypeOK
<1>1. ASSUME NEW s \in Scans, ListenAdded(s) \/ ListenDone(s)
      PROVE  TakenDown(q)'
      BY <1>0, <1>1 DEF ListenAdded, ListenDone, Leak, forwardVars, InOrder, Early
<1>2. ASSUME NEW s \in Scans, List(s)
      PROVE  TakenDown(q)'
  <2>1. CASE q = s
        BY <1>0, <1>2, <2>1 DEF List, InOrder, Early
  <2>2. CASE q # s
    <3>1. UNCHANGED <<forwarder[q], added[q], done[q], pending[q], matched>>
          BY <1>0, <1>2, <2>2 DEF List, Leak
    <3>2. QED
          BY <3>1
  <2>3. QED
        BY <2>1, <2>2
<1>3. ASSUME NEW s \in Scans, NEW w \in Wifis, Offer(s, w)
      PROVE  TakenDown(q)'
      BY <1>0, <1>3 DEF Offer, listenerVars
<1>4. ASSUME NEW s \in Scans, HandOver(s) \/ ListForwarded(s)
      PROVE  TakenDown(q)'
      BY <1>0, <1>4 DEF HandOver, ListForwarded, listenerVars
<1>5. ASSUME NEW s \in Scans, HearDone(s)
      PROVE  TakenDown(q)'
      BY <1>0, <1>5 DEF HearDone
<1>6. ASSUME NEW s \in Scans, CancelAdded(s)
      PROVE  TakenDown(q)'
      BY <1>0, <1>6 DEF CancelAdded, listenerVars
<1>7. ASSUME NEW s \in Scans, CancelDone(s)
      PROVE  TakenDown(q)'
      BY <1>0, <1>7 DEF CancelDone, Outcome
<1>8. ASSUME NEW s \in Scans, CloseWifis(s)
      PROVE  TakenDown(q)'
      BY <1>0, <1>8 DEF CloseWifis, listenerVars
<1>9. ASSUME NEW s \in Scans, ReceiveAdded(s) \/ RegisterDone(s) \/ ReceiveDone(s)
      PROVE  TakenDown(q)'
      BY <1>0, <1>9 DEF ReceiveAdded, RegisterDone, ReceiveDone, forwardVars
<1>10. ASSUME NEW o \in Outcome, ScanDone(o)
       PROVE  TakenDown(q)'
       BY <1>0, <1>10 DEF ScanDone, Registered, forwardVars, Outcome
<1>11. CASE UNCHANGED <<forwarder, listenerVars>>
       BY <1>11 DEF listenerVars
<1>12. QED
       BY <1>1, <1>2, <1>3, <1>4, <1>5, <1>6, <1>7, <1>8, <1>9, <1>10, <1>11
          DEF Next, Calm, RequestStep, ForwarderStep, ListenerStep, CancelStep, AskToScan, Skip,
              Enqueue, Return, Notify, Wake, forwardVars

(***************************************************************************)
(* The ScanDone signals.                                                   *)
(***************************************************************************)
LEMMA CountStep == TypeOK /\ Counts /\ Next => Counts'
<1> SUFFICES ASSUME TypeOK, Counts, Next, NEW q \in Scans
             PROVE  Counted(q)'
    BY DEF Counts
<1> USE DEF Move, Counted
<1> Counted(q)
    BY DEF Counts
<1>0. /\ \A s \in Scans : /\ pending[s] \in [Outcome -> Nat] /\ heard[s] \in Nat
                          /\ pending[s]["success"] \in Nat /\ pending[s]["failure"] \in Nat
      /\ DOMAIN pending = Scans /\ DOMAIN done = Scans /\ DOMAIN forwarder = Scans
      /\ "success" \in Outcome /\ "failure" \in Outcome
      BY DEF TypeOK, Outcome
<1>1. ASSUME NEW s \in Scans, ListenDone(s)
      PROVE  Counted(q)'
      BY <1>0, <1>1 DEF ListenDone, Leak, forwardVars, doneVars, Outcome
<1>2. ASSUME NEW s \in Scans, List(s)
      PROVE  Counted(q)'
  <2>1. CASE q # s
    <3>1. UNCHANGED <<pending[q], done[q], forwarder[q], heard>>
          BY <1>0, <1>2, <2>1 DEF List, Leak, doneVars
    <3>2. QED
          BY <3>1
  <2>2. CASE q = s
    <3>1. CASE /\ forwarder' = [forwarder EXCEPT ![s] = "range"]
               /\ UNCHANGED <<done, pending, heard>>
          BY <1>0, <2>2, <3>1
    <3>2. CASE /\ done' = [done EXCEPT ![s] = "leaked"]
               /\ pending' = [pending EXCEPT ![s] = [o \in Outcome |-> 0]]
               /\ UNCHANGED <<forwarder, heard>>
      <4>1. pending'[q]["success"] = 0 /\ pending'[q]["failure"] = 0
            BY <1>0, <2>2, <3>2
      <4>2. done'[q] \notin Outcome
            BY <1>0, <2>2, <3>2 DEF Outcome
      <4>3. QED
            BY <1>0, <3>2, <4>1, <4>2
    <3>3. QED
          BY <1>2, <3>1, <3>2 DEF List, Leak, doneVars
  <2>3. QED
        BY <2>1, <2>2
<1>3. ASSUME NEW s \in Scans, NEW w \in Wifis, Offer(s, w)
      PROVE  Counted(q)'
      BY <1>0, <1>3 DEF Offer, listenerVars, doneVars
<1>4. ASSUME NEW s \in Scans, HandOver(s) \/ ListForwarded(s) \/ CloseWifis(s)
      PROVE  Counted(q)'
      BY <1>0, <1>4 DEF HandOver, ListForwarded, CloseWifis, listenerVars, doneVars
<1>5. ASSUME NEW s \in Scans, HearDone(s)
      PROVE  Counted(q)'
      BY <1>0, <1>5 DEF HearDone, doneVars, Outcome
<1>6. ASSUME NEW s \in Scans, CancelAdded(s)
      PROVE  Counted(q)'
      BY <1>0, <1>6 DEF CancelAdded, listenerVars, doneVars
<1>7. ASSUME NEW s \in Scans, CancelDone(s)
      PROVE  Counted(q)'
  <2>1. CASE q # s
        BY <1>0, <1>7, <2>1 DEF CancelDone, doneVars
  <2>2. CASE q = s
    <3>1. pending'[q]["success"] = 0 /\ pending'[q]["failure"] = 0
          BY <1>0, <1>7, <2>2 DEF CancelDone
    <3>2. done'[q] \notin Outcome /\ forwarder'[q] = "close" /\ heard' = heard
          BY <1>0, <1>7, <2>2 DEF CancelDone, Outcome, doneVars
    <3>3. QED
          BY <1>0, <3>1, <3>2
  <2>3. QED
        BY <2>1, <2>2
<1>8. ASSUME NEW s \in Scans, RegisterDone(s)
      PROVE  Counted(q)'
      BY <1>0, <1>8 DEF RegisterDone, forwardVars, doneVars, Outcome
<1>9. ASSUME NEW s \in Scans, ReceiveDone(s)
      PROVE  Counted(q)'
  <2>1. CASE q # s
        BY <1>0, <1>9, <2>1 DEF ReceiveDone, forwardVars, doneVars
  <2>2. CASE q = s
    <3>1. PICK o \in Outcome : /\ pending[s][o] > 0
                               /\ pending' = [pending EXCEPT ![s] = [pending[s] EXCEPT ![o] = @ - 1]]
                               /\ done' = [done EXCEPT ![s] = o]
          BY <1>9 DEF ReceiveDone
    <3>2. pending'[s] = [pending[s] EXCEPT ![o] = @ - 1]
          BY <1>0, <3>1
    <3>3. pending'[s]["success"] + pending'[s]["failure"]
              = pending[s]["success"] + pending[s]["failure"] - 1
          BY <1>0, <3>1, <3>2 DEF Outcome
    <3>4. done[s] \notin Outcome /\ heard' = heard /\ forwarder' = forwarder
          BY <1>9 DEF ReceiveDone, forwardVars, doneVars, Outcome
    <3>5. QED
          BY <1>0, <2>2, <3>3, <3>4
  <2>3. QED
        BY <2>1, <2>2
<1>10. ASSUME NEW o \in Outcome, ScanDone(o)
       PROVE  Counted(q)'
  <2>1. done' = done /\ forwarder' = forwarder
        BY <1>10 DEF ScanDone, forwardVars
  <2>2. CASE q \in Registered
    <3>1. pending'[q] = [pending[q] EXCEPT ![o] = @ + 1] /\ heard'[q] = heard[q] + 1
          BY <1>10, <2>2 DEF ScanDone
    <3>2. pending'[q]["success"] + pending'[q]["failure"]
              = pending[q]["success"] + pending[q]["failure"] + 1
          BY <1>0, <3>1 DEF Outcome
    <3>3. QED
          BY <1>0, <2>1, <3>1, <3>2
  <2>3. CASE q \notin Registered
        BY <1>10, <2>1, <2>3 DEF ScanDone
  <2>4. QED
        BY <2>2, <2>3
<1>11. CASE UNCHANGED <<forwarder, done, pending, heard>>
       BY <1>11
<1>12. QED
       BY <1>1, <1>2, <1>3, <1>4, <1>5, <1>6, <1>7, <1>8, <1>9, <1>10, <1>11
          DEF Next, Calm, RequestStep, ForwarderStep, ListenerStep, CancelStep, AskToScan, ListenAdded,
              Skip, Enqueue, Return, Notify, Wake, ReceiveAdded, forwardVars, listenerVars, doneVars

LEMMA PanicStep == TypeOK /\ Counts /\ Next => PanicNeedsOverlap'
<1> SUFFICES ASSUME TypeOK, Counts, Next, crashed'
             PROVE  PanicNeedsOverlap'
    BY DEF PanicNeedsOverlap
<1>1. PICK s \in Scans : CancelStep(s)
      BY DEF Next, TypeOK
<1>2. CASE CancelAdded(s)
  <2>1. forwarder'[s] = "cancelDone" /\ added'[s] # "ended"
        BY <1>2 DEF CancelAdded, Move, listenerVars, TypeOK
  <2>2. QED
        BY <2>1 DEF PanicNeedsOverlap
<1>3. CASE CancelDone(s)
  <2>1. forwarder'[s] = "close" /\ heard' = heard /\ done[s] \in Outcome /\ forwarder[s] = "cancelDone"
        BY <1>3 DEF CancelDone, Move, doneVars, TypeOK
  <2>2. /\ heard[s] \in Nat /\ pending[s]["success"] \in Nat /\ pending[s]["failure"] \in Nat
        BY DEF TypeOK, Outcome
  <2>3. Counted(s)
        BY DEF Counts
  <2>4. heard[s] > 1
        BY <2>1, <2>2, <2>3 DEF Counted
  <2>5. QED
        BY <2>1, <2>4 DEF PanicNeedsOverlap
<1>4. QED
      BY <1>1, <1>2, <1>3 DEF CancelStep

(***************************************************************************)
(* The way of a network.                                                   *)
(***************************************************************************)
\* Appending puts one entry behind the others; taking the head leaves the others.
LEMMA QueueIs ==
    ASSUME NEW S, NEW s \in Seq(S), NEW e \in S
    PROVE  /\ {Append(s, e)[n] : n \in DOMAIN Append(s, e)} = {s[n] : n \in DOMAIN s} \cup {e}
           /\ s # <<>> => {s[n] : n \in DOMAIN s} = {Tail(s)[n] : n \in DOMAIN Tail(s)} \cup {Head(s)}
<1>1. /\ DOMAIN Append(s, e) = 1..Len(s) + 1 /\ DOMAIN s = 1..Len(s) /\ Len(s) \in Nat
      /\ \A n \in 1..Len(s) + 1 : Append(s, e)[n] = IF n = Len(s) + 1 THEN e ELSE s[n]
      OBVIOUS
<1>2. {Append(s, e)[n] : n \in DOMAIN Append(s, e)} = {s[n] : n \in DOMAIN s} \cup {e}
      BY <1>1
<1>3. ASSUME s # <<>>
      PROVE  {s[n] : n \in DOMAIN s} = {Tail(s)[n] : n \in DOMAIN Tail(s)} \cup {Head(s)}
  <2>1. /\ DOMAIN Tail(s) = 1..Len(s) - 1 /\ Head(s) = s[1] /\ Len(s) > 0
        /\ \A n \in 1..Len(s) - 1 : Tail(s)[n] = s[n + 1]
        BY <1>3
  <2>2. \A n \in 1..Len(s) : n = 1 \/ (n - 1 \in 1..Len(s) - 1 /\ s[n] = Tail(s)[n - 1])
        BY <1>1, <2>1
  <2>3. \A n \in 1..Len(s) - 1 : n + 1 \in 1..Len(s)
        BY <1>1
  <2>4. ASSUME NEW n \in 1..Len(s)
        PROVE  s[n] \in {Tail(s)[m] : m \in 1..Len(s) - 1} \cup {Head(s)}
        BY <2>1, <2>2
  <2>5. ASSUME NEW n \in 1..Len(s) - 1
        PROVE  Tail(s)[n] \in {s[m] : m \in 1..Len(s)}
        BY <2>1, <2>3
  <2>6. Head(s) \in {s[m] : m \in 1..Len(s)}
        BY <1>1, <2>1
  <2>7. {s[m] : m \in 1..Len(s)} = {Tail(s)[m] : m \in 1..Len(s) - 1} \cup {Head(s)}
    <3> DEFINE all  == {s[m] : m \in 1..Len(s)}
               rest == {Tail(s)[m] : m \in 1..Len(s) - 1}
    <3>1. all \subseteq rest \cup {Head(s)}
          BY <2>4
    <3>2. rest \subseteq all /\ Head(s) \in all
          BY <2>5, <2>6
    <3> HIDE DEF all, rest
    <3>3. all = rest \cup {Head(s)}
          BY <3>1, <3>2
    <3>4. QED
          BY <3>3 DEF all, rest
  <2>8. QED
        BY <1>1, <2>1, <2>7
<1>4. QED
      BY <1>2, <1>3

LEMMA EnqueueKeeps ==
    ASSUME TypeOK, Ordered, Places, ReportedOnce, NEW s \in Scans, Enqueue(s)
    PROVE  Places' /\ ReportedOnce'
<1> DEFINE e == Of(s, inHand[s])
<1>1. /\ e \in Discovered /\ queue \in Seq(Discovered) /\ queue' = Append(queue, e)
      /\ inHand[s] \in Wifis
      BY DEF Enqueue, Ordered, InOrder, At, Discovered, Of, TypeOK
<1>2. Queued' = Queued \cup {e}
  <2> HIDE DEF e
  <2>1. QED
        BY <1>1, QueueIs DEF Queued
<1>3. e \notin Queued
      BY <1>1 DEF Places, OnePlace
<1>4. Distinct'
  <2> HIDE DEF e
  <2>1. /\ DOMAIN queue' = 1..Len(queue) + 1 /\ DOMAIN queue = 1..Len(queue) /\ Len(queue) \in Nat
        /\ \A n \in 1..Len(queue) + 1 : queue'[n] = IF n = Len(queue) + 1 THEN e ELSE queue[n]
        BY <1>1
  <2>2. \A n \in 1..Len(queue) : queue[n] # e
        BY <1>3, <2>1 DEF Queued
  <2>3. \A m, n \in 1..Len(queue) : queue[m] = queue[n] => m = n
        BY <2>1 DEF Places, Distinct
  <2>4. QED
        BY <2>1, <2>2, <2>3 DEF Distinct
<1>5. /\ UNCHANGED <<toForward, offered, notified, listed>>
      /\ \A q \in Scans : inHand'[q] = (IF q = s THEN None ELSE inHand[q])
      BY DEF Enqueue, forwardVars, TypeOK
<1>6. ASSUME NEW q \in Scans, NEW w \in Wifis
      PROVE  OnePlace(q, w)'
  <2>1. OnePlace(q, w)
        BY DEF Places
  <2>2. w # None
        BY NoneAssumption
  <2>3. Of(q, w) = e <=> q = s /\ w = inHand[s]
        BY DEF Of
  <2>4. CASE q = s /\ w = inHand[s]
    <3>1. /\ w \notin toForward[q] /\ offered[q] # w /\ w \in listed[q]
          /\ notified[Of(q, w)] = 0
          BY <2>1, <2>4 DEF OnePlace
    <3>2. inHand'[q] # w
          BY <1>5, <2>2, <2>4
    <3>3. QED
          BY <1>5, <3>1, <3>2 DEF OnePlace
  <2>5. CASE ~(q = s /\ w = inHand[s])
    <3>1. Of(q, w)' \in Queued' <=> Of(q, w) \in Queued
          BY <1>2, <2>3, <2>5 DEF Of
    <3>2. inHand'[q] = w => inHand[q] = w
          BY <1>5, <2>2
    <3>3. QED
          BY <1>5, <2>1, <3>1, <3>2 DEF OnePlace
  <2>6. QED
        BY <2>4, <2>5
<1>7. ReportedOnce'
      BY <1>5 DEF ReportedOnce
<1>8. QED
      BY <1>4, <1>6, <1>7 DEF Places

LEMMA NotifyKeeps ==
    ASSUME TypeOK, Places, ReportedOnce, Notify
    PROVE  Places' /\ ReportedOnce'
<1> DEFINE e == Head(queue)
<1>1. queue \in Seq(Discovered) /\ queue # <<>> /\ queue' = Tail(queue) /\ e \in Discovered
      BY DEF Notify, TypeOK
<1>2. Queued = Queued' \cup {e}
  <2>1. {queue[n] : n \in DOMAIN queue} = {Tail(queue)[n] : n \in DOMAIN Tail(queue)} \cup {Head(queue)}
        BY <1>1, QueueIs
  <2>2. QED
        BY <1>1, <2>1 DEF Queued
<1>3. e \notin Queued' /\ Distinct'
  <2>1. /\ DOMAIN queue' = 1..Len(queue) - 1 /\ DOMAIN queue = 1..Len(queue) /\ Len(queue) \in Nat
        /\ e = queue[1] /\ Len(queue) > 0
        /\ \A n \in 1..Len(queue) - 1 : queue'[n] = queue[n + 1]
        BY <1>1
  <2>2. \A m, n \in 1..Len(queue) : queue[m] = queue[n] => m = n
        BY <2>1 DEF Places, Distinct
  <2>3. \A n \in 1..Len(queue) - 1 : n + 1 \in 1..Len(queue) /\ n + 1 # 1
        BY <2>1
  <2>4. e \notin Queued'
        BY <2>1, <2>2, <2>3 DEF Queued
  <2>5. Distinct'
    <3> SUFFICES ASSUME NEW m \in 1..Len(queue) - 1, NEW n \in 1..Len(queue) - 1, queue'[m] = queue'[n]
                 PROVE  m = n
        BY <2>1 DEF Distinct
    <3>1. m + 1 = n + 1
          BY <2>1, <2>2, <2>3
    <3>2. QED
          BY <3>1
  <2>6. QED
        BY <2>4, <2>5
<1>4. /\ UNCHANGED <<toForward, offered, inHand, listed>>
      /\ \A d \in Discovered : notified'[d] = (IF d = e THEN notified[d] + 1 ELSE notified[d])
      /\ \A d \in Discovered : notified[d] \in Nat
      BY <1>1 DEF Notify, forwardVars, requestVars, TypeOK
<1> HIDE DEF e
<1>5. ASSUME NEW q \in Scans, NEW w \in Wifis
      PROVE  /\ OnePlace(q, w)'
             /\ notified'[Of(q, w)] <= (IF w \in listed'[q] THEN 1 ELSE 0)
  <2>1. OnePlace(q, w) /\ notified[Of(q, w)] <= (IF w \in listed[q] THEN 1 ELSE 0)
        BY DEF Places, ReportedOnce
  <2>2. Of(q, w) \in Discovered
        BY DEF Of, Discovered
  <2>3. CASE Of(q, w) = e
    <3>1. Of(q, w) \in Queued
          BY <1>2, <2>3
    <3>2. w \in listed[q] /\ notified[Of(q, w)] = 0
          BY <2>1, <3>1 DEF OnePlace
    <3>3. w \notin toForward[q] /\ offered[q] # w /\ inHand[q] # w
          BY <2>1, <3>1 DEF OnePlace
    <3>4. notified'[Of(q, w)] = 1
          BY <1>4, <2>2, <2>3, <3>2
    <3>5. QED
          BY <1>3, <1>4, <2>3, <3>2, <3>3, <3>4 DEF OnePlace
  <2>4. CASE Of(q, w) # e
        BY <1>2, <1>4, <2>1, <2>2, <2>4 DEF OnePlace
  <2>5. QED
        BY <2>3, <2>4
<1>6. QED
      BY <1>3, <1>5 DEF Places, ReportedOnce

LEMMA ForwardKeeps ==
    ASSUME TypeOK, Ordered, Places, ReportedOnce, NEW s \in Scans,
           \/ List(s) \/ HandOver(s)
           \/ \E w \in Wifis : Skip(s, w) \/ Offer(s, w)
    PROVE  Places' /\ ReportedOnce'
<1>1. UNCHANGED <<queue, notified>>
      BY DEF List, HandOver, Skip, Offer, queueVars
<1>2. Queued' = Queued /\ Distinct'
      BY <1>1 DEF Queued, Distinct, Places
<1>3. DOMAIN toForward = Scans /\ DOMAIN listed = Scans /\ DOMAIN offered = Scans /\ DOMAIN inHand = Scans
      BY DEF TypeOK
<1>4. ASSUME NEW q \in Scans, NEW w \in Wifis
      PROVE  /\ OnePlace(q, w)'
             /\ notified'[Of(q, w)] <= (IF w \in listed'[q] THEN 1 ELSE 0)
  <2>1. OnePlace(q, w) /\ notified[Of(q, w)] <= (IF w \in listed[q] THEN 1 ELSE 0) /\ w # None
        BY NoneAssumption DEF Places, ReportedOnce
  <2>2. notified[Of(q, w)] \in Nat
        BY DEF TypeOK, Of, Discovered
  <2>3. CASE UNCHANGED <<toForward[q], offered[q], inHand[q], listed[q]>>
        BY <1>1, <1>2, <2>1, <2>3 DEF OnePlace
  <2>4. CASE q = s /\ List(s)
    <3>1. UNCHANGED <<offered, inHand>>
          BY <2>4 DEF List
    <3>2. CASE UNCHANGED <<toForward, listed>>
          BY <2>3, <3>1, <3>2
    <3>3. ASSUME NEW bsss \in SUBSET Wifis, toForward'[q] = bsss, listed'[q] = bsss
          PROVE  /\ OnePlace(q, w)'
                 /\ notified'[Of(q, w)] <= (IF w \in listed'[q] THEN 1 ELSE 0)
      <4>1. listed[q] = {}
            BY <2>4 DEF List, At, Ordered, InOrder, Early
      <4>2. offered[q] # w /\ inHand[q] # w /\ Of(q, w) \notin Queued /\ notified[Of(q, w)] = 0
            BY <2>1, <2>2, <4>1 DEF OnePlace
      <4>3. QED
            BY <1>1, <1>2, <3>1, <3>3, <4>2 DEF OnePlace
    <3>4. QED
          BY <1>3, <2>4, <3>2, <3>3 DEF List
  <2>5. ASSUME q = s, NEW v \in Wifis, Skip(s, v)
        PROVE  /\ OnePlace(q, w)'
               /\ notified'[Of(q, w)] <= (IF w \in listed'[q] THEN 1 ELSE 0)
    <3>1. /\ v \in toForward[q] /\ UNCHANGED <<offered, inHand>>
          /\ toForward'[q] = toForward[q] \ {v} /\ listed'[q] = listed[q] \ {v}
          BY <1>3, <2>5 DEF Skip, requestVars
    <3>2. QED
          BY <1>1, <1>2, <2>1, <3>1 DEF OnePlace
  <2>6. ASSUME q = s, NEW v \in Wifis, Offer(s, v)
        PROVE  /\ OnePlace(q, w)'
               /\ notified'[Of(q, w)] <= (IF w \in listed'[q] THEN 1 ELSE 0)
    <3>1. /\ v \in toForward[q] /\ UNCHANGED <<inHand, listed>>
          /\ toForward'[q] = toForward[q] \ {v} /\ offered'[q] = v
          BY <1>3, <2>6 DEF Offer, requestVars
    <3>2. QED
          BY <1>1, <1>2, <2>1, <3>1 DEF OnePlace
  <2>7. CASE q = s /\ HandOver(s)
    <3>1. /\ UNCHANGED <<toForward, listed>>
          /\ offered'[q] = None /\ inHand'[q] = offered[q]
          BY <1>3, <2>7 DEF HandOver
    <3>2. QED
          BY <1>1, <1>2, <2>1, <3>1 DEF OnePlace
  <2>8. CASE q # s
    <3>1. UNCHANGED <<toForward[q], offered[q], inHand[q], listed[q]>>
          BY <1>3, <2>8 DEF List, HandOver, Skip, Offer, requestVars
    <3>2. QED
          BY <2>3, <3>1
  <2>9. QED
        BY <2>4, <2>5, <2>6, <2>7, <2>8
<1>5. QED
      BY <1>2, <1>4 DEF Places, ReportedOnce

LEMMA PlaceStep ==
    TypeOK /\ Ordered /\ Places /\ ReportedOnce /\ [Next]_vars => Places' /\ ReportedOnce'
<1> SUFFICES ASSUME TypeOK, Ordered, Places, ReportedOnce, [Next]_vars
             PROVE  Places' /\ ReportedOnce'
    OBVIOUS
<1>1. CASE UNCHANGED <<toForward, offered, inHand, listed, queue, notified>>
      BY <1>1 DEF Places, OnePlace, Distinct, Queued, ReportedOnce
<1>2. QED
      BY <1>1, EnqueueKeeps, NotifyKeeps, ForwardKeeps
         DEF Next, Calm, RequestStep, ForwarderStep, ListenerStep, CancelStep, AskToScan, ListenAdded,
             ListenDone, ListForwarded, HearDone, CancelAdded, CancelDone, CloseWifis, Return, Wake,
             ReceiveAdded, RegisterDone, ReceiveDone, ScanDone, vars, requestVars, forwardVars,
             queueVars

(***************************************************************************)
(* The theorems                                                            *)
(***************************************************************************)
\* The invariant holds from the first request on.
THEOREM Invariance == Spec => []IInv
<1>1. IInv /\ [Next]_vars => IInv'
  <2> SUFFICES ASSUME IInv, [Next]_vars PROVE IInv'
      OBVIOUS
  <2>1. TypeOK' /\ Ordered' /\ Hands' /\ Places' /\ ReportedOnce'
        BY TypeStep, OrderStep, HandsStep, PlaceStep DEF IInv
  <2>2. CASE Next
        BY <2>1, <2>2, DownStep, CountStep, PanicStep DEF IInv
  <2>3. CASE UNCHANGED vars
    <3>1. Down' /\ Counts' /\ PanicNeedsOverlap'
          BY <2>3 DEF IInv, Down, TakenDown, Counts, Counted, PanicNeedsOverlap, vars, forwardVars,
                      listenerVars, doneVars
    <3>2. QED
          BY <2>1, <3>1 DEF IInv
  <2>4. QED
        BY <2>2, <2>3
<1>2. QED
      BY Initially, <1>1, PTL DEF Spec

\* Every variable keeps to its type, the queue to its capacity.
THEOREM TypeCorrect == Spec => []TypeOK
<1>1. IInv => TypeOK
      BY DEF IInv
<1>2. QED
      BY Invariance, <1>1, PTL

\* The pairing client hears of a listed network at most once in a scan, of any other
\* never (WpaNetwork.Scan, scanWifi and the drain of discoveredWifis).
THEOREM NetworksReportedOnce == Spec => []ReportedOnce
<1>1. IInv => ReportedOnce
      BY DEF IInv
<1>2. QED
      BY Invariance, <1>1, PTL

\* A scan that returns leaves no listener, signal or match rule behind (the Cancel of
\* both clients).
THEOREM ScansCleanUp == Spec => []ReturnedCleansUp
<1>1. ASSUME TypeOK, Ordered, Down, NEW s \in Scans, request[s] = "returned"
      PROVE  /\ added[s] = "ended" /\ done[s] = "ended"
             /\ pending[s] = [o \in Outcome |-> 0]
             /\ s \notin matched
  <2>1. forwarder[s] = "ended"
        BY <1>1 DEF Ordered, InOrder
  <2>2. /\ added[s] = "ended" /\ done[s] = "ended" /\ s \notin matched
        /\ \A o \in Outcome : pending[s][o] = 0
        BY <1>1, <2>1 DEF Down, TakenDown, Outcome
  <2>3. pending[s] \in [Outcome -> Nat]
        BY <1>1 DEF TypeOK
  <2>4. QED
        BY <2>2, <2>3
<1>2. IInv => ReturnedCleansUp
      BY <1>1 DEF IInv, ReturnedCleansUp
<1>3. QED
      BY Invariance, <1>2, PTL

\* Only a second ScanDone, or the silence of the bus, makes the end of a scan panic.
THEOREM PanicsNeedOverlap == Spec => []PanicNeedsOverlap
<1>1. IInv => PanicNeedsOverlap
      BY DEF IInv
<1>2. QED
      BY Invariance, <1>1, PTL

(***************************************************************************)
(* The refinement of Discovery.  Every action is a step of it or none.     *)
(***************************************************************************)
Phases == [s \in Scans |-> Phase(s)]
InWay  == [s \in Scans |-> {offered[s], inHand[s]} \ {None}]

LEMMA InitDiscovers == Init => D!Init
<1> SUFFICES ASSUME Init PROVE D!Init
    OBVIOUS
<1>1. Phases = [s \in Scans |-> "new"]
      BY DEF Init, Phases, Phase
<1>2. InWay = [s \in Scans |-> {}]
      BY DEF Init, InWay
<1>3. QED
      BY <1>1, <1>2 DEF Init, D!Init, Phases, InWay, Discovered

\* What moves neither the end of a scan nor a network is not seen.
LEMMA Unseen ==
    ASSUME TypeOK, Ordered, NEW s \in Scans,
           \/ AskToScan(s) \/ ListenAdded(s) \/ ListenDone(s)
           \/ ListForwarded(s) \/ HearDone(s) \/ CloseWifis(s) \/ CancelStep(s)
    PROVE  UNCHANGED D!vars
<1> USE DEF At, Goto, Move
<1>1. UNCHANGED <<inHand, toForward, offered, queue, notified>>
      BY DEF AskToScan, ListenAdded, ListenDone, ListForwarded, HearDone, CloseWifis, CancelStep,
             CancelAdded, CancelDone, forwardVars, requestVars, queueVars
<1>2. ASSUME NEW q \in Scans
      PROVE  Phase(q)' = Phase(q)
      BY DEF AskToScan, ListenAdded, ListenDone, Leak, ListForwarded, HearDone, CloseWifis,
             CancelStep, CancelAdded, CancelDone, forwardVars, requestVars, Phase, TypeOK, Ordered,
             InOrder, Early
<1>3. Phases' = Phases /\ InWay' = InWay
      BY <1>1, <1>2 DEF Phases, InWay
<1>4. QED
      BY <1>1, <1>3 DEF D!vars, Phases, InWay

\* BSSs is the list of Discovery; a call that fails leaves it where it was.
LEMMA ListDiscovers ==
    ASSUME TypeOK, Ordered, NEW s \in Scans, List(s)
    PROVE  [D!Next]_(D!vars)
<1> USE DEF At, Goto
<1>1. request[s] = "list" /\ forwarder[s] = "none" /\ UNCHANGED <<inHand, offered, queue, notified>>
      BY DEF List, Ordered, InOrder, Early, queueVars
<1>2. InWay' = InWay
      BY <1>1 DEF InWay
<1>3. ASSUME Goto(s, "receive"), forwarder' = [forwarder EXCEPT ![s] = "range"],
             NEW bsss \in SUBSET Wifis, toForward' = [toForward EXCEPT ![s] = bsss]
      PROVE  D!List(s, bsss)
  <2>1. Phase(s) = "new" /\ Phase(s)' = "listing"
        BY <1>1, <1>3 DEF Phase, TypeOK
  <2>2. \A q \in Scans \ {s} : Phase(q)' = Phase(q)
        BY <1>3 DEF Phase, TypeOK
  <2>3. Phases[s] = "new" /\ Phases' = [Phases EXCEPT ![s] = "listing"]
        BY <2>1, <2>2 DEF Phases
  <2>4. QED
        BY <1>1, <1>2, <1>3, <2>3 DEF D!List, Phases, InWay
<1>4. ASSUME Goto(s, "failed"), UNCHANGED <<forwarder, toForward>>
      PROVE  UNCHANGED D!vars
  <2>1. \A q \in Scans : Phase(q)' = Phase(q)
        BY <1>1, <1>4 DEF Phase, TypeOK
  <2>2. Phases' = Phases
        BY <2>1 DEF Phases
  <2>3. QED
        BY <1>1, <1>2, <1>4, <2>2 DEF D!vars, Phases, InWay
<1>5. QED
      BY <1>3, <1>4 DEF List, Leak, D!Next

\* No other step lists, and only the return ends.
LEMMA SamePhase ==
    ASSUME TypeOK, Ordered, NEW s \in Scans,
           \/ \E w \in Wifis : Skip(s, w) \/ Offer(s, w)
           \/ HandOver(s) \/ Enqueue(s)
    PROVE  Phases' = Phases
<1>1. ASSUME NEW q \in Scans
      PROVE  Phase(q)' = Phase(q)
      BY DEF Skip, Offer, HandOver, Enqueue, At, Goto, Move, forwardVars, requestVars, Phase, TypeOK
<1>2. QED
      BY <1>1 DEF Phases

LEMMA ForwardDiscovers ==
    ASSUME TypeOK, Ordered, Hands, NEW s \in Scans, NEW w \in Wifis,
           Skip(s, w) \/ Offer(s, w)
    PROVE  D!Skip(s, w) \/ D!Take(s, w)
<1>1. Phases' = Phases /\ UNCHANGED <<inHand, queue, notified>>
      BY SamePhase DEF Skip, Offer, requestVars, queueVars
<1>2. w \in toForward[s] /\ toForward' = [toForward EXCEPT ![s] = @ \ {w}]
      BY DEF Skip, Offer
<1>3. CASE Skip(s, w)
  <2>1. InWay' = InWay
        BY <1>3 DEF Skip, requestVars, InWay
  <2>2. QED
        BY <1>1, <1>2, <2>1 DEF D!Skip, Phases, InWay
<1>4. CASE Offer(s, w)
  <2>1. offered[s] = None /\ offered' = [offered EXCEPT ![s] = w] /\ w # None
        BY <1>4, NoneAssumption DEF Offer, Hands, HandsFree
  <2>2. InWay' = [InWay EXCEPT ![s] = @ \cup {w}]
    <3>1. ASSUME NEW q \in Scans
          PROVE  {offered'[q], inHand'[q]} \ {None}
                     = IF q = s THEN ({offered[q], inHand[q]} \ {None}) \cup {w}
                                ELSE {offered[q], inHand[q]} \ {None}
          BY <1>1, <2>1 DEF TypeOK
    <3>2. QED
          BY <3>1 DEF InWay
  <2>3. QED
        BY <1>1, <1>2, <2>2 DEF D!Take, Phases, InWay
<1>5. QED
      BY <1>3, <1>4

\* A network that changes hands stays on its way.
LEMMA HandOverUnseen ==
    ASSUME TypeOK, Ordered, Hands, NEW s \in Scans, HandOver(s)
    PROVE  UNCHANGED D!vars
<1>1. Phases' = Phases /\ UNCHANGED <<toForward, queue, notified>>
      BY SamePhase DEF HandOver, queueVars
<1>2. inHand[s] = None
      BY DEF HandOver, At, Hands, HandsFree
<1>3. ASSUME NEW q \in Scans
      PROVE  {offered'[q], inHand'[q]} = {offered[q], inHand[q]}
      BY <1>2 DEF HandOver, TypeOK
<1>4. InWay' = InWay
      BY <1>3 DEF InWay
<1>5. QED
      BY <1>1, <1>4 DEF D!vars, Phases, InWay

\* What is queued was on its way, and in one hand only.
LEMMA EnqueueDiscovers ==
    ASSUME TypeOK, Ordered, Hands, Places, NEW s \in Scans, NEW w \in Wifis, inHand[s] = w, Enqueue(s)
    PROVE  D!Enqueue(s, w)
<1>1. w # None
      BY NoneAssumption
<1>2. offered[s] # w
      BY <1>1 DEF Places, OnePlace
<1>3. Phases' = Phases /\ UNCHANGED <<toForward, notified, offered>>
      BY SamePhase DEF Enqueue, forwardVars
<1>4. InWay' = [InWay EXCEPT ![s] = @ \ {w}]
  <2>1. ASSUME NEW q \in Scans
        PROVE  {offered'[q], inHand'[q]} \ {None}
                   = IF q = s THEN ({offered[q], inHand[q]} \ {None}) \ {w}
                              ELSE {offered[q], inHand[q]} \ {None}
        BY <1>2, <1>3 DEF Enqueue, TypeOK
  <2>2. QED
        BY <2>1 DEF InWay
<1>5. w \in InWay[s]
      BY <1>1 DEF InWay
<1>6. Len(queue) < QueueSize /\ queue' = Append(queue, [scan |-> s, wifi |-> w])
      BY DEF Enqueue
<1>7. QED
      BY <1>1, <1>3, <1>4, <1>5, <1>6 DEF D!Enqueue, Phases, InWay

\* The request returns when wifisChan is closed, and its list has been gone through.
LEMMA ReturnDiscovers ==
    ASSUME TypeOK, Ordered, Hands, NEW s \in Scans, Return(s)
    PROVE  D!End(s)
<1>1. /\ request[s] = "receive" /\ forwarder[s] = "ended"
      /\ UNCHANGED <<inHand, forwarder, toForward, offered, queue, notified>>
      BY DEF Return, At, forwardVars, queueVars
<1>2. toForward[s] = {} /\ offered[s] = None /\ inHand[s] = None
      BY <1>1 DEF Hands, HandsFree
<1>3. InWay[s] = {} /\ InWay' = InWay
      BY <1>1, <1>2 DEF InWay
<1>4. Phase(s) = "listing" /\ Phase(s)' = "ended"
      BY <1>1 DEF Return, Goto, Phase, TypeOK
<1>5. \A q \in Scans \ {s} : Phase(q)' = Phase(q)
      BY <1>1 DEF Return, Goto, Phase, TypeOK
<1>6. Phases[s] = "listing" /\ Phases' = [Phases EXCEPT ![s] = "ended"]
      BY <1>4, <1>5 DEF Phases
<1>7. QED
      BY <1>1, <1>2, <1>3, <1>6 DEF D!End, Phases, InWay

LEMMA NotifyDiscovers == Notify => D!Tell
<1> SUFFICES ASSUME Notify PROVE D!Tell
    OBVIOUS
<1>1. UNCHANGED <<request, inHand, forwarder, toForward, offered>>
      BY DEF Notify, requestVars, forwardVars
<1>2. Phases' = Phases /\ InWay' = InWay
      BY <1>1 DEF Phases, Phase, InWay
<1>3. QED
      BY <1>1, <1>2 DEF Notify, D!Tell, Phases, InWay

\* Scan implements Discovery: no network is lost between the list and the phone, told
\* out of turn or twice, and no scan ends before its networks are queued (Scan,
\* scanWifi and the drain of discoveredWifis).
THEOREM Refinement == Spec => NoNetworkLost
<1>1. IInv /\ [Next]_vars => [D!Next]_(D!vars)
  <2> SUFFICES ASSUME IInv, [Next]_vars PROVE [D!Next]_(D!vars)
      OBVIOUS
  <2> USE DEF IInv
  <2>1. ASSUME NEW s \in Scans, \/ AskToScan(s) \/ ListenAdded(s) \/ ListenDone(s)
                                \/ ListForwarded(s) \/ HearDone(s) \/ CloseWifis(s) \/ CancelStep(s)
        PROVE  UNCHANGED D!vars
        BY <2>1, Unseen
  <2>2. ASSUME NEW s \in Scans, List(s)
        PROVE  [D!Next]_(D!vars)
        BY <2>2, ListDiscovers
  <2>3. ASSUME NEW s \in Scans, NEW w \in Wifis, Skip(s, w) \/ Offer(s, w)
        PROVE  D!Next
        BY <2>3, ForwardDiscovers DEF D!Next
  <2>4. ASSUME NEW s \in Scans, HandOver(s)
        PROVE  UNCHANGED D!vars
        BY <2>4, HandOverUnseen
  <2>5. ASSUME NEW s \in Scans, Enqueue(s)
        PROVE  D!Next
    <3>1. PICK w \in Wifis : inHand[s] = w
          BY <2>5 DEF Enqueue, At, Ordered, InOrder
    <3>2. D!Enqueue(s, w)
          BY <2>5, <3>1, EnqueueDiscovers
    <3>3. QED
          BY <3>2 DEF D!Next
  <2>6. ASSUME NEW s \in Scans, Return(s)
        PROVE  D!Next
        BY <2>6, ReturnDiscovers DEF D!Next
  <2>7. CASE Notify
        BY <2>7, NotifyDiscovers DEF D!Next
  <2>8. CASE UNCHANGED <<requestVars, forwardVars, queue, notified>>
    <3>1. UNCHANGED <<request, inHand, forwarder, toForward, offered, queue, notified>>
          BY <2>8 DEF requestVars, forwardVars
    <3>2. Phases' = Phases /\ InWay' = InWay
          BY <3>1 DEF Phases, Phase, InWay
    <3>3. QED
          BY <3>1, <3>2 DEF D!vars, Phases, InWay
  <2>9. CASE Wake \/ \E o \in Outcome : ScanDone(o)
        BY <2>8, <2>9 DEF Wake, ScanDone, queueVars
  <2>10. ASSUME NEW s \in Scans, ListenerStep(s)
         PROVE  UNCHANGED D!vars
    <3>1. UNCHANGED <<requestVars, forwardVars, queue, notified>>
          BY <2>10 DEF ListenerStep, ReceiveAdded, RegisterDone, ReceiveDone, queueVars
    <3>2. UNCHANGED <<request, inHand, forwarder, toForward, offered, queue, notified>>
          BY <3>1 DEF requestVars, forwardVars
    <3>3. Phases' = Phases /\ InWay' = InWay
          BY <3>2 DEF Phases, Phase, InWay
    <3>4. QED
          BY <3>2, <3>3 DEF D!vars, Phases, InWay
  <2>11. CASE UNCHANGED vars
         BY <2>8, <2>11 DEF vars, queueVars
  <2>12. QED
         BY <2>1, <2>2, <2>3, <2>4, <2>5, <2>6, <2>7, <2>9, <2>10, <2>11
            DEF Next, Calm, RequestStep, ForwarderStep
<1>2. QED
      BY Invariance, InitDiscovers, <1>1, PTL DEF Spec, NoNetworkLost, D!Spec
=============================================================================
