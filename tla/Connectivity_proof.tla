------------------------- MODULE Connectivity_proof -------------------------
(***************************************************************************)
(* The safety of Connectivity, for any number of onion services and of     *)
(* changes of the network.                                                 *)
(***************************************************************************)
EXTENDS Connectivity, TLAPS

\* While a Listen runs, s.cancel is there for Stop to find.
Kept == holder # None => holder \in cancel

\* Between two broadcasts there is nobody left to send to; who is owed is registered.
Orderly ==
    /\ cast.pc # "range" => cast.to = None /\ cast.todo = {}
    /\ cast.todo \subseteq clients
    /\ owed \subseteq clients

IInv == TypeOK /\ Kept /\ StopReachesListen /\ Orderly /\ NewsOnTheWay

LEMMA Initially == Init => IInv
<1> USE NodesAssumption, NoneAssumption, ChangeBoundAssumption
<1>1. ASSUME Init PROVE TypeOK
  <2>1. cast \in [pc : {"select", "range", "ended"}, value : Values,
                  to : Subscribers \cup {None}, todo : SUBSET Subscribers]
        BY <1>1 DEF Init, Quiet, Values
  <2>2. pending \in [Values -> Nat] /\ waiting \in [Services -> Nat]
        BY <1>1 DEF Init
  <2>3. loop \in [Subscribers -> {"new", "insert", "select", "start", "delete", "stop", "ended"}]
        BY <1>1 DEF Init
  <2>4. changes \in 0..ChangeBound
        BY <1>1 DEF Init
  <2>5. up \in BOOLEAN /\ cancelled \in BOOLEAN /\ late \in BOOLEAN
        BY <1>1 DEF Init
  <2>6. /\ signaller = "new" /\ process = "running" /\ holder = None
        /\ clients = {} /\ cancel = {} /\ owed = {}
        BY <1>1 DEF Init
  <2>7. QED
        BY <2>1, <2>2, <2>3, <2>4, <2>5, <2>6 DEF TypeOK
<1>2. Init => Kept /\ StopReachesListen
      BY DEF Init, Kept, StopReachesListen
<1>3. Init => Orderly /\ NewsOnTheWay
      BY DEF Init, Orderly, NewsOnTheWay, Quiet
<1>4. QED
      BY <1>1, <1>2, <1>3 DEF IInv

(***************************************************************************)
(* Each conjunct is preserved.                                             *)
(***************************************************************************)
LEMMA NextTypeOK == TypeOK /\ [Next]_vars => TypeOK'
<1> USE NodesAssumption, NoneAssumption, ChangeBoundAssumption
    DEF TypeOK, Goto, Values, Subscribers, supplicantVars, onionVars
<1> SUFFICES ASSUME TypeOK, [Next]_vars PROVE TypeOK'
    OBVIOUS
<1>1. ASSUME NEW s \in Subscribers, Subscribe(s) PROVE TypeOK'
      BY <1>1 DEF Subscribe
<1>2. ASSUME NEW s \in Subscribers, Subscribed(s) PROVE TypeOK'
      BY <1>2 DEF Subscribed
<1>3. ASSUME NEW s \in Subscribers, Start(s) PROVE TypeOK'
      BY <1>3 DEF Start
<1>4. ASSUME NEW s \in Subscribers, Leave(s) PROVE TypeOK'
      BY <1>4 DEF Leave
<1>5. ASSUME NEW s \in Subscribers, Unsubscribe(s) PROVE TypeOK'
      BY <1>5 DEF Unsubscribe
<1>6. ASSUME NEW s \in Subscribers, StopServed(s) PROVE TypeOK'
      BY <1>6 DEF StopServed
<1>7. ASSUME NEW s \in Subscribers, Visit(s) PROVE TypeOK'
      BY <1>7 DEF Visit
<1>8. ASSUME NEW s \in Subscribers, Send(s) PROVE TypeOK'
      BY <1>8 DEF Send
<1>9. ASSUME NEW s \in Services, Publish(s) PROVE TypeOK'
  <2>1. waiting[s] - 1 \in Nat
        BY <1>9 DEF Publish
  <2>2. waiting' \in [Services -> Nat]
        BY <1>9, <2>1 DEF Publish
  <2>3. cancel' \in SUBSET Services /\ late' \in BOOLEAN /\ cancelled' \in BOOLEAN /\ holder' \in Services
        BY <1>9 DEF Publish
  <2>4. UNCHANGED <<supplicantVars, pending, signaller, cast, clients, loop, process, owed>>
        BY <1>9 DEF Publish
  <2>5. QED
        BY <2>2, <2>3, <2>4
<1>10. ASSUME NEW s \in Services, Published(s) PROVE TypeOK'
      BY <1>10 DEF Published
<1>11. ASSUME NEW v \in Values, Change(v) PROVE TypeOK'
      BY <1>11 DEF Change
<1>12. ASSUME NEW v \in Values, Signal(v) PROVE TypeOK'
      BY <1>12 DEF Signal
<1>13. CASE Listen
      BY <1>13 DEF Listen
<1>14. CASE SignalsEnd
      BY <1>14 DEF SignalsEnd
<1>15. CASE Take
      BY <1>15 DEF Take
<1>16. CASE RangeEnds
      BY <1>16 DEF RangeEnds, Quiet
<1>17. CASE BroadcasterStops
      BY <1>17 DEF BroadcasterStops
<1>18. CASE MapRace
      BY <1>18 DEF MapRace
<1>19. CASE Stop
      BY <1>19 DEF Stop
<1>20. CASE NetworkStop
      BY <1>20 DEF NetworkStop
<1>21. CASE UNCHANGED vars
      BY <1>21 DEF vars, supplicantVars, onionVars
<1>22. QED
       BY <1>1, <1>2, <1>3, <1>4, <1>5, <1>6, <1>7, <1>8, <1>9, <1>10, <1>11,
          <1>12, <1>13, <1>14, <1>15, <1>16, <1>17, <1>18, <1>19, <1>20, <1>21
       DEF Next, SubscriberStep, BroadcasterStep, SignallerStep

LEMMA NextKept == IInv /\ [Next]_vars => Kept' /\ StopReachesListen'
<1> DEFINE Reached == Kept /\ StopReachesListen
<1> USE NodesAssumption, NoneAssumption DEF IInv, Kept, StopReachesListen, onionVars, Subscribers, Goto
<1> SUFFICES ASSUME IInv, [Next]_vars PROVE Reached'
    OBVIOUS
<1>1. ASSUME NEW s \in Subscribers, Subscribe(s) PROVE Reached'
      BY <1>1 DEF Subscribe, TypeOK
<1>2. ASSUME NEW s \in Subscribers, Subscribed(s) PROVE Reached'
      BY <1>2 DEF Subscribed, TypeOK
<1>3. ASSUME NEW s \in Subscribers, Start(s) PROVE Reached'
      BY <1>3 DEF Start, TypeOK
<1>4. ASSUME NEW s \in Subscribers, Leave(s) PROVE Reached'
      BY <1>4 DEF Leave, TypeOK
<1>5. ASSUME NEW s \in Subscribers, Unsubscribe(s) PROVE Reached'
      BY <1>5 DEF Unsubscribe, TypeOK
<1>6. ASSUME NEW s \in Subscribers, StopServed(s) PROVE Reached'
      BY <1>6 DEF StopServed, TypeOK
<1>7. ASSUME NEW s \in Subscribers, Visit(s) PROVE Reached'
      BY <1>7 DEF Visit
<1>8. ASSUME NEW s \in Subscribers, Send(s) PROVE Reached'
      BY <1>8 DEF Send, TypeOK
<1>9. ASSUME NEW s \in Services, Publish(s) PROVE Reached'
      BY <1>9 DEF Publish, TypeOK
<1>10. ASSUME NEW s \in Services, Published(s) PROVE Reached'
      BY <1>10 DEF Published, TypeOK
<1>11. ASSUME NEW v \in Values, Change(v) PROVE Reached'
      BY <1>11 DEF Change
<1>12. ASSUME NEW v \in Values, Signal(v) PROVE Reached'
      BY <1>12 DEF Signal
<1>13. CASE Listen
      BY <1>13 DEF Listen
<1>14. CASE SignalsEnd
      BY <1>14 DEF SignalsEnd
<1>15. CASE Take
      BY <1>15 DEF Take
<1>16. CASE RangeEnds
      BY <1>16 DEF RangeEnds, Quiet
<1>17. CASE BroadcasterStops
      BY <1>17 DEF BroadcasterStops
<1>18. CASE MapRace
      BY <1>18 DEF MapRace
<1>19. CASE Stop
      BY <1>19 DEF Stop
<1>20. CASE NetworkStop
      BY <1>20 DEF NetworkStop
<1>21. CASE UNCHANGED vars
      BY <1>21 DEF vars, supplicantVars, onionVars
<1>22. QED
       BY <1>1, <1>2, <1>3, <1>4, <1>5, <1>6, <1>7, <1>8, <1>9, <1>10, <1>11,
          <1>12, <1>13, <1>14, <1>15, <1>16, <1>17, <1>18, <1>19, <1>20, <1>21
       DEF Next, SubscriberStep, BroadcasterStep, SignallerStep

\* The broadcaster is orderly, and the news is on its way.
LEMMA NextNews == IInv /\ [Next]_vars => Orderly' /\ NewsOnTheWay'
<1> DEFINE Coming == Orderly /\ NewsOnTheWay
<1> USE NodesAssumption, NoneAssumption
    DEF IInv, Orderly, NewsOnTheWay, TypeOK, onionVars, supplicantVars, Subscribers, Goto
<1> SUFFICES ASSUME IInv, [Next]_vars PROVE Coming'
    OBVIOUS
<1>1. ASSUME NEW s \in Subscribers, Subscribe(s) PROVE Coming'
      BY <1>1 DEF Subscribe
<1>2. ASSUME NEW s \in Subscribers, Subscribed(s) PROVE Coming'
      BY <1>2 DEF Subscribed
<1>3. ASSUME NEW s \in Subscribers, Start(s) PROVE Coming'
      BY <1>3 DEF Start
<1>4. ASSUME NEW s \in Subscribers, Leave(s) PROVE Coming'
      BY <1>4 DEF Leave
<1>5. ASSUME NEW s \in Subscribers, Unsubscribe(s) PROVE Coming'
      BY <1>5 DEF Unsubscribe
<1>6. ASSUME NEW s \in Subscribers, StopServed(s) PROVE Coming'
      BY <1>6 DEF StopServed
<1>7. ASSUME NEW s \in Subscribers, Visit(s) PROVE Coming'
      BY <1>7 DEF Visit
<1>8. ASSUME NEW s \in Subscribers, Send(s) PROVE Coming'
      BY <1>8 DEF Send
<1>9. ASSUME NEW s \in Services, Publish(s) PROVE Coming'
      BY <1>9 DEF Publish
<1>10. ASSUME NEW s \in Services, Published(s) PROVE Coming'
      BY <1>10 DEF Published
<1>11. ASSUME NEW v \in Values, Change(v) PROVE Coming'
  <2>1. UNCHANGED <<signaller, cast, clients>>
        BY <1>11 DEF Change
  <2>2. pending' = pending \/ (pending' = [pending EXCEPT ![v] = @ + 1] /\ pending[v] \in Nat)
        BY <1>11 DEF Change
  <2>3. "on" \in Values /\ (pending["on"] > 0 => pending'["on"] > 0)
        BY <2>2 DEF Values
  <2>4. owed' \subseteq clients /\ (owed' # owed => pending'["on"] > 0)
        BY <1>11 DEF Change, Values
  <2>5. QED
        BY <2>1, <2>3, <2>4
<1>12. ASSUME NEW v \in Values, Signal(v) PROVE Coming'
      BY <1>12 DEF Signal
<1>13. CASE Listen
      BY <1>13 DEF Listen
<1>14. CASE SignalsEnd
      BY <1>14 DEF SignalsEnd
<1>15. CASE Take
      BY <1>15 DEF Take
<1>16. CASE RangeEnds
      BY <1>16 DEF RangeEnds, Quiet
<1>17. CASE BroadcasterStops
      BY <1>17 DEF BroadcasterStops
<1>18. CASE MapRace
      BY <1>18 DEF MapRace
<1>19. CASE Stop
      BY <1>19 DEF Stop
<1>20. CASE NetworkStop
      BY <1>20 DEF NetworkStop
<1>21. CASE UNCHANGED vars
      BY <1>21 DEF vars
<1>22. QED
       BY <1>1, <1>2, <1>3, <1>4, <1>5, <1>6, <1>7, <1>8, <1>9, <1>10, <1>11,
          <1>12, <1>13, <1>14, <1>15, <1>16, <1>17, <1>18, <1>19, <1>20, <1>21
       DEF Next, SubscriberStep, BroadcasterStep, SignallerStep

(***************************************************************************)
(* Theorems                                                                *)
(***************************************************************************)
\* Every reachable state satisfies the inductive invariant.
THEOREM Invariance == Spec => []IInv
<1>1. IInv /\ [Next]_vars => IInv'
      BY NextTypeOK, NextKept, NextNews DEF IInv
<1>2. QED
      BY Initially, <1>1, PTL DEF Spec

\* Type correctness of the broadcast, its subscribers and the onion services.
THEOREM TypeCorrect == Spec => []TypeOK
<1>1. IInv => TypeOK
      BY DEF IInv
<1>2. QED
      BY Invariance, <1>1, PTL

\* Stop reaches a Listen that had begun before it, however many services share the
\* mutex and however often each of them was started (onion/service.go:57-85).
THEOREM StopIsEffective == Spec => []StopReachesListen
<1>1. IInv => StopReachesListen
      BY DEF IInv
<1>2. QED
      BY Invariance, <1>1, PTL

\* Nobody who is registered when the network comes up is forgotten, for any number of
\* subscribers and changes: until it has heard, the news is with D-Bus, with the
\* signaller or with the broadcaster (network/wpa.go:73-82, network/wpa/interface.go).
THEOREM NewsIsKept == Spec => []NewsOnTheWay
<1>1. IInv => NewsOnTheWay
      BY DEF IInv
<1>2. QED
      BY Invariance, <1>1, PTL
=============================================================================
