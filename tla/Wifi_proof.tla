----------------------------- MODULE Wifi_proof -----------------------------
(***************************************************************************)
(* The safety of Wifi, for any number of networks, requests and restarts.  *)
(***************************************************************************)
EXTENDS Wifi, TLAPS

(***************************************************************************)
(* The inductive invariant.                                                *)
(***************************************************************************)
\* Only c's network is there, and it is the one c is to connect to.
Only(c, on) ==
    /\ networks[c] = [wifi |-> wifi[c], enabled |-> on]
    /\ \A d \in Connectors \ {c} : networks[d] = None

\* A connector that nobody overlapped is by itself, and wpa_supplicant as it left it.
ByItself(c) ==
    /\ Busy = {c}
    /\ c = Attempt => wifi[c] = saved
    /\ conn[c] = "add" => \A d \in Connectors : networks[d] = None
    /\ conn[c] = "enable" => Only(c, FALSE)
    /\ conn[c] = "save" => Only(c, TRUE)

Apart == \A c \in Connectors : c \in Busy /\ c \notin contested => ByItself(c)

Settled == alone # None => Busy = {}

\* What a connector has of its own, if others leave it that.  The attempt saves nothing.
Owns(c) ==
    /\ conn[c] = "add" => networks[c] = None
    /\ conn[c] = "enable" => networks[c] \in {None, [wifi |-> wifi[c], enabled |-> FALSE]}
    /\ conn[c] = "save" => c # Attempt
    /\ conn[c] = "read" => c = Attempt

Own == \A c \in Connectors : Owns(c)

IInv == TypeOK /\ Apart /\ Settled /\ Own /\ ConnectedIsSaved

LEMMA Initially == Init => IInv
<1> USE NoneAssumption, AttemptAssumption, RestartBoundAssumption DEF Init, Connectors
<1> SUFFICES ASSUME Init PROVE IInv
    OBVIOUS
<1>1. TypeOK
      BY DEF TypeOK, Network
<1>2. Busy = {}
      BY DEF Busy
<1>3. Apart /\ Settled /\ Own /\ ConnectedIsSaved
      BY <1>2 DEF Apart, Settled, Own, Owns, ConnectedIsSaved
<1>4. QED
      BY <1>1, <1>3 DEF IInv

(***************************************************************************)
(* Each conjunct is preserved.                                             *)
(***************************************************************************)
LEMMA NextTypeOK == IInv /\ [Next]_vars => TypeOK'
<1> USE NoneAssumption, AttemptAssumption, RestartBoundAssumption
    DEF IInv, TypeOK, Connectors, Network, Goto, Finish, Begin
<1> SUFFICES ASSUME IInv, [Next]_vars PROVE TypeOK'
    OBVIOUS
<1>0. Busy \in SUBSET Connectors
      BY DEF Busy
<1>1. CASE Read
      BY <1>1, <1>0 DEF Read, GetWifi
<1>2. CASE Restart
      BY <1>2 DEF Restart
<1>3. ASSUME NEW c \in Connectors, Fail(c) PROVE TypeOK'
      BY <1>3 DEF Fail
<1>4. ASSUME NEW c \in Connectors, RemoveAll(c) PROVE TypeOK'
      BY <1>4 DEF RemoveAll
<1>5. ASSUME NEW c \in Connectors, Add(c) PROVE TypeOK'
      BY <1>5 DEF Add
<1>6. ASSUME NEW c \in Connectors, Enable(c) PROVE TypeOK'
  <2>1. networks[c] \in Network /\ wifi[c] \in Wifis
        BY <1>6 DEF Enable
  <2>2. networks' \in [Connectors -> Network \cup {None}]
        BY <1>6, <2>1 DEF Enable
  <2>3. conn' \in [Connectors -> {"idle", "read", "remove", "add", "enable", "save"}]
        BY <1>6 DEF Enable
  <2>4. \A d \in Connectors : conn'[d] \notin {"idle", "read"} => wifi'[d] \in Wifis
        BY <1>6 DEF Enable
  <2>5. alone' \in Wifis \cup {None}
        BY <1>6, <2>1 DEF Enable
  <2>6. UNCHANGED <<saved, wifi, restarts, contested>>
        BY <1>6 DEF Enable
  <2>7. QED
        BY <2>2, <2>3, <2>4, <2>5, <2>6
<1>7. ASSUME NEW c \in Connectors, Save(c) PROVE TypeOK'
      BY <1>7 DEF Save, SaveWifi
<1>8. ASSUME NEW c \in Connectors, NEW w \in Wifis, Request(c, w) PROVE TypeOK'
      BY <1>8, <1>0 DEF Request
<1>9. CASE UNCHANGED vars
      BY <1>9 DEF vars
<1>10. QED
       BY <1>1, <1>2, <1>3, <1>4, <1>5, <1>6, <1>7, <1>8, <1>9 DEF Next

LEMMA NextOwn == IInv /\ [Next]_vars => Own'
<1> USE NoneAssumption, AttemptAssumption DEF IInv, TypeOK, Connectors, Goto, Finish, Begin
<1> SUFFICES ASSUME IInv, [Next]_vars, NEW d \in Connectors PROVE Owns(d)'
    BY DEF Own
<1>0. Owns(d)
      BY DEF Own
<1>1. CASE Read
      BY <1>0, <1>1 DEF Read, GetWifi, Owns
<1>2. CASE Restart
      BY <1>2 DEF Restart, Owns
<1>3. ASSUME NEW c \in Connectors, Fail(c) PROVE Owns(d)'
      BY <1>0, <1>3 DEF Fail, Owns
<1>4. ASSUME NEW c \in Connectors, RemoveAll(c) PROVE Owns(d)'
      BY <1>0, <1>4 DEF RemoveAll, Owns
<1>5. ASSUME NEW c \in Connectors, Add(c) PROVE Owns(d)'
      BY <1>0, <1>5 DEF Add, Owns
<1>6. ASSUME NEW c \in Connectors, Enable(c) PROVE Owns(d)'
      BY <1>0, <1>6 DEF Enable, Owns
<1>7. ASSUME NEW c \in Connectors, Save(c) PROVE Owns(d)'
      BY <1>0, <1>7 DEF Save, SaveWifi, Owns
<1>8. ASSUME NEW c \in Connectors, NEW w \in Wifis, Request(c, w) PROVE Owns(d)'
      BY <1>0, <1>8 DEF Request, Owns
<1>9. CASE UNCHANGED vars
      BY <1>0, <1>9 DEF vars, Owns
<1>10. QED
       BY <1>1, <1>2, <1>3, <1>4, <1>5, <1>6, <1>7, <1>8, <1>9 DEF Next

\* A connector that goes on, without one that nobody overlapped losing what it has.
LEMMA GoesOn ==
    ASSUME IInv, NEW c \in Connectors, c \in Busy, Busy' = Busy, contested' = contested,
           alone' = alone, c \notin contested => ByItself(c)'
    PROVE  Apart' /\ Settled' /\ ConnectedIsSaved'
<1> USE DEF IInv
<1>1. Apart'
  <2> SUFFICES ASSUME NEW d \in Connectors, d \in Busy, d \notin contested PROVE ByItself(d)'
      BY DEF Apart, Connectors
  <2>1. ByItself(d)
        BY DEF Apart
  <2>2. d = c
        BY <2>1 DEF ByItself
  <2>3. QED
        BY <2>2
<1>2. alone' = None
      BY DEF Settled
<1>3. QED
      BY <1>1, <1>2 DEF Settled, ConnectedIsSaved

LEMMA NextApart == IInv /\ [Next]_vars => Apart' /\ Settled' /\ ConnectedIsSaved'
<1> USE NoneAssumption, AttemptAssumption DEF IInv, TypeOK, Connectors, Goto
<1> SUFFICES ASSUME IInv, [Next]_vars PROVE Apart' /\ Settled' /\ ConnectedIsSaved'
    OBVIOUS
<1>1. ASSUME NEW c \in Connectors, NEW w \in Wifis, conn[c] \in {"idle", "read"},
             c = Attempt => w = saved, Begin(c, w), UNCHANGED <<saved, networks>>
      PROVE  Apart' /\ Settled' /\ ConnectedIsSaved'
  <2>1. Busy' = Busy \cup {c}
        BY <1>1 DEF Begin, Busy
  <2>2. alone' = None
        BY <1>1 DEF Begin
  <2>3. CASE Busy = {}
    <3>1. Busy' = {c} /\ conn'[c] = "remove" /\ wifi'[c] = w /\ saved' = saved
          BY <1>1, <2>1, <2>3 DEF Begin
    <3>2. ByItself(c)'
          BY <3>1, <1>1 DEF ByItself
    <3>3. QED
          BY <3>1, <3>2, <2>2 DEF Apart, Settled, ConnectedIsSaved
  <2>4. CASE Busy # {}
    <3>1. Busy' \subseteq contested'
          BY <1>1, <2>1, <2>4 DEF Begin
    <3>2. QED
          BY <3>1, <2>2 DEF Apart, Settled, ConnectedIsSaved
  <2>5. QED
        BY <2>3, <2>4
<1>2. CASE Read
  <2>1. CASE saved # None /\ Begin(Attempt, saved)
        BY <1>2, <1>1, <2>1 DEF Read
  <2>2. CASE Goto(Attempt, "idle") /\ UNCHANGED <<wifi, contested, alone>>
    <3>1. UNCHANGED <<saved, networks>> /\ conn[Attempt] = "read" /\ conn'[Attempt] = "idle"
          BY <1>2, <2>2 DEF Read
    <3>2. \A d \in Connectors \ {Attempt} : conn'[d] = conn[d]
          BY <2>2
    <3>3. QED
      <4>1. Busy' = Busy
            BY <3>1, <3>2 DEF Busy
      <4>2. \A d \in Connectors : d \in Busy => conn'[d] = conn[d]
            BY <3>1, <3>2 DEF Busy
      <4>3. QED
            BY <2>2, <3>1, <4>1, <4>2 DEF Apart, Settled, ConnectedIsSaved, ByItself, Only
  <2>3. QED
        BY <1>2, <2>1, <2>2 DEF Read, GetWifi
<1>3. CASE Restart
      BY <1>3 DEF Restart, Apart, Settled, ConnectedIsSaved, Busy
<1>4. ASSUME NEW c \in Connectors, Fail(c) PROVE Apart' /\ Settled' /\ ConnectedIsSaved'
      BY <1>4 DEF Fail, Apart, Settled, ConnectedIsSaved, ByItself, Only, Busy
<1>5. ASSUME NEW c \in Connectors, RemoveAll(c) PROVE Apart' /\ Settled' /\ ConnectedIsSaved'
  <2>1. c \in Busy /\ Busy' = Busy
        BY <1>5 DEF RemoveAll, Busy
  <2>2. ASSUME c \notin contested PROVE ByItself(c)'
        BY <1>5, <2>1, <2>2 DEF RemoveAll, Apart, ByItself
  <2>3. QED
        BY <1>5, <2>1, <2>2, GoesOn DEF RemoveAll
<1>6. ASSUME NEW c \in Connectors, Add(c) PROVE Apart' /\ Settled' /\ ConnectedIsSaved'
  <2>1. c \in Busy /\ Busy' = Busy
        BY <1>6 DEF Add, Busy
  <2>2. ASSUME c \notin contested PROVE ByItself(c)'
        BY <1>6, <2>1, <2>2 DEF Add, Apart, ByItself, Only
  <2>3. QED
        BY <1>6, <2>1, <2>2, GoesOn DEF Add
<1>7. ASSUME NEW c \in Connectors, Enable(c) PROVE Apart' /\ Settled' /\ ConnectedIsSaved'
  <2>1. c \in Busy
        BY <1>7 DEF Enable, Busy
  <2>2. ASSUME c \notin contested PROVE Only(c, TRUE)' /\ ByItself(c)
    <3>1. ByItself(c) /\ Only(c, FALSE)
          BY <1>7, <2>1, <2>2 DEF Enable, Apart, ByItself
    <3>2. networks'[c] = [wifi |-> wifi[c], enabled |-> TRUE]
      <4>1. networks'[c] = [networks[c] EXCEPT !.enabled = TRUE]
            BY <1>7 DEF Enable
      <4>2. networks[c] \in [wifi : Wifis, enabled : BOOLEAN] /\ networks[c].wifi = wifi[c]
            BY <1>7, <3>1 DEF Enable, Only, Network
      <4>3. networks'[c] \in [wifi : Wifis, enabled : BOOLEAN]
               /\ networks'[c].wifi = wifi[c] /\ networks'[c].enabled = TRUE
            BY <4>1, <4>2
      <4>4. QED
            BY <4>3
    <3>3. \A d \in Connectors \ {c} : networks'[d] = None
          BY <1>7, <3>1 DEF Enable, Only
    <3>4. wifi' = wifi
          BY <1>7 DEF Enable
    <3>5. QED
          BY <3>1, <3>2, <3>3, <3>4 DEF Only
  <2>3. CASE c # Attempt
    <3>1. Busy' = Busy
          BY <1>7, <2>3 DEF Enable, Busy
    <3>2. ASSUME c \notin contested PROVE ByItself(c)'
          BY <1>7, <2>2, <2>3, <3>1, <3>2 DEF Enable, ByItself
    <3>3. QED
          BY <1>7, <2>1, <2>3, <3>1, <3>2, GoesOn DEF Enable
  <2>4. CASE c = Attempt /\ c \in contested
    <3>1. alone' = None /\ contested' = contested /\ Busy' \subseteq Busy
          BY <1>7, <2>4 DEF Enable, Finish, Busy
    <3>2. ASSUME NEW d \in Busy', d \notin contested PROVE FALSE
      <4>1. d \in Connectors /\ d \in Busy
            BY <3>1, <3>2 DEF Busy
      <4>2. Busy = {d}
            BY <4>1, <3>2 DEF Apart, ByItself
      <4>3. QED
            BY <4>2, <3>2, <2>1, <2>4
    <3>3. QED
          BY <3>1, <3>2 DEF Apart, Settled, ConnectedIsSaved
  <2>5. CASE c = Attempt /\ c \notin contested
    <3>1. Busy' = {} /\ alone' = wifi[c] /\ wifi'[c] = wifi[c] /\ saved' = saved
          BY <1>7, <2>2, <2>5 DEF Enable, Finish, Busy, ByItself
    <3>2. saved = wifi[c]
          BY <2>2, <2>5 DEF ByItself
    <3>3. QED
          BY <3>1, <3>2, <2>2, <2>5 DEF Apart, Settled, ConnectedIsSaved, Only
  <2>6. QED
        BY <2>3, <2>4, <2>5
<1>8. ASSUME NEW c \in Connectors, Save(c) PROVE Apart' /\ Settled' /\ ConnectedIsSaved'
  <2>1. c \in Busy /\ c # Attempt /\ Busy' = Busy \ {c} /\ contested' = contested
        BY <1>8 DEF Save, Finish, Own, Owns, Busy
  <2>2. Apart'
    <3>1. SUFFICES ASSUME NEW d \in Connectors, d \in Busy', d \notin contested PROVE FALSE
          BY <2>1 DEF Apart
    <3>2. Busy = {d}
          BY <2>1, <3>1 DEF Apart, ByItself
    <3>3. QED
          BY <2>1, <3>1, <3>2
  <2>3. CASE alone' = None
        BY <2>2, <2>3 DEF Settled, ConnectedIsSaved
  <2>4. CASE alone' # None
    <3>1. alone = None
          BY <2>1 DEF Settled
    <3>2. c \notin contested /\ alone' = wifi[c] /\ saved' = wifi[c] /\ networks' = networks
          BY <1>8, <2>4, <3>1 DEF Save, SaveWifi, Finish
    <3>3. Busy = {c} /\ Only(c, TRUE)
          BY <1>8, <2>1, <3>2 DEF Apart, ByItself, Save
    <3>4. QED
          BY <2>1, <2>2, <3>2, <3>3 DEF Settled, ConnectedIsSaved, Only
  <2>5. QED
        BY <2>3, <2>4
<1>9. ASSUME NEW c \in Connectors, NEW w \in Wifis, Request(c, w)
      PROVE  Apart' /\ Settled' /\ ConnectedIsSaved'
      BY <1>9, <1>1 DEF Request
<1>10. CASE UNCHANGED vars
       BY <1>10 DEF vars, Apart, Settled, ConnectedIsSaved, ByItself, Only, Busy
<1>11. QED
       BY <1>2, <1>3, <1>4, <1>5, <1>6, <1>7, <1>8, <1>9, <1>10 DEF Next

(***************************************************************************)
(* Theorems                                                                *)
(***************************************************************************)
\* Every reachable state satisfies the inductive invariant.
THEOREM Invariance == Spec => []IInv
<1>1. IInv /\ [Next]_vars => IInv'
      BY NextTypeOK, NextOwn, NextApart DEF IInv
<1>2. QED
      BY Initially, <1>1, PTL DEF Spec

\* Type correctness of the connections.
THEOREM TypeCorrect == Spec => []TypeOK
<1>1. IInv => TypeOK
      BY DEF IInv
<1>2. QED
      BY Invariance, <1>1, PTL

\* A connection that nobody overlapped leaves the device on the wifi that is saved
\* (network/wpa.go:112-142, dispenser/network.go:55-105).
THEOREM ConnectedComesBack == Spec => []ConnectedIsSaved
<1>1. IInv => ConnectedIsSaved
      BY DEF IInv
<1>2. QED
      BY Invariance, <1>1, PTL

(***************************************************************************)
(* The refinement of Station.                                              *)
(***************************************************************************)
Ups     == {<<c, networks[c].wifi>> : c \in Enabled}
Tasks   == [c \in Connectors |-> IF c \in Busy THEN wifi[c] ELSE None]
Phases  == [c \in Connectors |-> Phase(c)]
Crossed == contested \cap Busy

LEMMA ActiveIsBusy ==
    ASSUME TypeOK
    PROVE  S!Active = Busy /\ \A c \in Busy : S!Mine(c) = <<c, wifi[c]>>
<1>1. \A c \in Connectors : Phase(c) # "idle" <=> c \in Busy
      BY DEF TypeOK, Phase, Busy
<1>2. Busy \subseteq Connectors
      BY DEF Busy
<1>3. QED
      BY <1>1, <1>2 DEF S!Active, S!Mine

LEMMA InitHolds == Init => S!Init
<1> SUFFICES ASSUME Init PROVE S!Init
    OBVIOUS
<1>1. Busy = {} /\ Enabled = {}
      BY DEF Init, Busy, Enabled
<1>2. Ups = {} /\ Crossed = {}
      BY <1>1 DEF Ups, Crossed
<1>3. \A c \in Connectors : Phase(c) = "idle"
      BY DEF Init, Phase
<1>4. QED
      BY <1>1, <1>2, <1>3 DEF Init, S!Init, Ups, Crossed

\* What a connector that moves on does to the others' phases and tasks: nothing.
LEMMA Moves ==
    ASSUME TypeOK, NEW c \in Connectors, NEW pc, Goto(c, pc),
           \A d \in Connectors \ {c} : wifi'[d] = wifi[d]
    PROVE  /\ conn'[c] = pc
           /\ Phases' = [Phases EXCEPT ![c] = Phase(c)']
           /\ Tasks' = [Tasks EXCEPT ![c] = IF c \in Busy' THEN wifi'[c] ELSE None]
           /\ Busy' = IF pc \in {"idle", "read"} THEN Busy \ {c} ELSE Busy \cup {c}
<1>1. conn'[c] = pc /\ \A d \in Connectors \ {c} : conn'[d] = conn[d]
      BY DEF TypeOK, Goto
<1>2. \A d \in Connectors \ {c} : Phase(d)' = Phase(d)
      BY <1>1 DEF Phase
<1>3. \A d \in Connectors \ {c} : d \in Busy' <=> d \in Busy
      BY <1>1 DEF Busy
<1>4. /\ Phases' = [Phases EXCEPT ![c] = Phase(c)']
      /\ Tasks' = [Tasks EXCEPT ![c] = IF c \in Busy' THEN wifi'[c] ELSE None]
      BY <1>2, <1>3 DEF Phases, Tasks
<1>5. c \in Busy' <=> pc \notin {"idle", "read"}
      BY <1>1 DEF Busy
<1>6. Busy' = IF pc \in {"idle", "read"} THEN Busy \ {c} ELSE Busy \cup {c}
      BY <1>3, <1>5 DEF Busy
<1>7. QED
      BY <1>1, <1>4, <1>6

LEMMA BeginHolds ==
    ASSUME TypeOK, NEW c \in Connectors, NEW w \in Wifis, conn[c] \in {"idle", "read"},
           Begin(c, w), UNCHANGED <<saved, networks>>
    PROVE  S!Begin(c, w)
<1>1. /\ Phases' = [Phases EXCEPT ![c] = "begun"] /\ Tasks' = [Tasks EXCEPT ![c] = w]
      /\ Busy' = Busy \cup {c}
  <2>1. conn'[c] = "remove" /\ wifi'[c] = w
        BY DEF Begin, TypeOK
  <2>2. c \in Busy' /\ Phase(c)' = "begun"
        BY <2>1 DEF Busy, Phase
  <2>3. QED
    <3>1. Goto(c, "remove") /\ \A d \in Connectors \ {c} : wifi'[d] = wifi[d]
          BY DEF Begin, Goto, TypeOK
    <3>2. QED
          BY <2>1, <2>2, <3>1, Moves
<1>2. Crossed' = IF Busy = {} THEN {} ELSE Busy \cup {c}
      BY <1>1 DEF Begin, Crossed
<1>3. Ups' = Ups
      BY DEF Ups, Enabled
<1>4. Phases[c] = "idle"
      BY DEF Phases, Phase
<1>5. QED
      BY <1>1, <1>2, <1>3, <1>4, ActiveIsBusy DEF S!Begin, S!Advance, Ups, Tasks, Phases, Crossed

LEMMA ClearHolds ==
    ASSUME TypeOK, NEW c \in Connectors, RemoveAll(c)
    PROVE  S!Clear(c)
<1>1. conn[c] = "remove" /\ conn'[c] = "add" /\ UNCHANGED <<wifi, saved, contested>>
      BY DEF RemoveAll, Goto, TypeOK
<1>2. c \in Busy /\ Phases[c] = "begun" /\ Phase(c)' = "cleared"
      BY <1>1 DEF Busy, Phase, Phases
<1>3. Phases' = [Phases EXCEPT ![c] = "cleared"] /\ Busy' = Busy
      BY <1>2, Moves DEF RemoveAll
<1>4. Tasks' = Tasks /\ Crossed' = Crossed
      BY <1>1, <1>3 DEF Tasks, Crossed
<1>5. Ups' = {}
      BY DEF RemoveAll, Ups, Enabled
<1>6. QED
      BY <1>1, <1>2, <1>3, <1>4, <1>5 DEF S!Clear, S!Advance, Ups, Tasks, Phases, Crossed

\* A network that is added is not enabled yet.
LEMMA AddHolds ==
    ASSUME TypeOK, Own, NEW c \in Connectors, Add(c)
    PROVE  UNCHANGED S!vars
<1>1. conn[c] = "add" /\ conn'[c] = "enable" /\ UNCHANGED <<wifi, saved, contested>>
      BY DEF Add, Goto, TypeOK
<1>2. c \in Busy /\ Phase(c) = "cleared" /\ Phase(c)' = "cleared"
      BY <1>1 DEF Busy, Phase
<1>3. Phases' = Phases /\ Busy' = Busy
  <2>1. Phases' = [Phases EXCEPT ![c] = "cleared"] /\ Busy' = Busy
        BY <1>2, Moves DEF Add
  <2>2. QED
        BY <1>2, <2>1 DEF Phases, Busy
<1>4. Tasks' = Tasks /\ Crossed' = Crossed
      BY <1>1, <1>3 DEF Tasks, Crossed
<1>5. Ups' = Ups
  <2>1. networks[c] = None
        BY <1>1 DEF Own, Owns
  <2>2. /\ networks'[c] # None /\ ~networks'[c].enabled
        /\ \A d \in Connectors \ {c} : networks'[d] = networks[d]
    <3>1. /\ networks'[c] = [wifi |-> wifi[c], enabled |-> FALSE] /\ wifi[c] \in Wifis
          /\ \A d \in Connectors \ {c} : networks'[d] = networks[d]
          BY <1>1 DEF Add, TypeOK
    <3>2. networks'[c] \in [wifi : Wifis, enabled : BOOLEAN] /\ ~networks'[c].enabled
          BY <3>1
    <3>3. QED
          BY <3>1, <3>2, NoneAssumption
  <2>3. Enabled' = Enabled /\ c \notin Enabled
        BY <2>1, <2>2 DEF Enabled
  <2>4. QED
        BY <2>2, <2>3 DEF Ups, Enabled
<1>6. QED
      BY <1>1, <1>3, <1>4, <1>5 DEF S!vars, Ups, Tasks, Phases, Crossed

\* A connector that ends.
LEMMA Ends ==
    ASSUME TypeOK, NEW c \in Connectors, Goto(c, "idle"), UNCHANGED <<wifi, contested>>
    PROVE  /\ Phases' = [Phases EXCEPT ![c] = "idle"]
           /\ Tasks' = [Tasks EXCEPT ![c] = None]
           /\ Crossed' = Crossed \ {c}
<1>1. conn'[c] = "idle"
      BY DEF Goto, TypeOK
<1>2. c \notin Busy' /\ Phase(c)' = "idle"
      BY <1>1 DEF Busy, Phase
<1>3. Busy' = Busy \ {c} /\ Phases' = [Phases EXCEPT ![c] = "idle"] /\ Tasks' = [Tasks EXCEPT ![c] = None]
      BY <1>2, Moves
<1>4. QED
      BY <1>3 DEF Crossed

LEMMA EnableHolds ==
    ASSUME IInv, NEW c \in Connectors, Enable(c)
    PROVE  S!Enable(c)
<1> USE DEF IInv
<1>1. conn[c] = "enable" /\ networks[c] = [wifi |-> wifi[c], enabled |-> FALSE] /\ wifi[c] \in Wifis
      BY DEF Enable, Own, Owns, TypeOK
<1>2. c \in Busy /\ Phases[c] = "cleared" /\ UNCHANGED <<wifi, saved, contested>>
      BY <1>1 DEF Busy, Phases, Phase, Enable
<1>3. Ups' = Ups \cup {<<c, wifi[c]>>}
  <2>1. networks'[c] = [networks[c] EXCEPT !.enabled = TRUE]
        BY <1>1 DEF Enable, TypeOK
  <2>2. networks'[c] # None /\ networks'[c].enabled /\ networks'[c].wifi = wifi[c]
    <3>1. networks[c] \in [wifi : Wifis, enabled : BOOLEAN] /\ networks[c].wifi = wifi[c]
          BY <1>1
    <3>2. networks'[c] \in [wifi : Wifis, enabled : BOOLEAN] /\ networks'[c].enabled /\ networks'[c].wifi = wifi[c]
          BY <2>1, <3>1
    <3>3. QED
          BY <3>2, NoneAssumption
  <2>3. \A d \in Connectors \ {c} : networks'[d] = networks[d]
        BY DEF Enable, TypeOK
  <2>4. Enabled' = Enabled \cup {c} /\ c \notin Enabled
        BY <1>1, <2>2, <2>3 DEF Enabled
  <2>5. QED
        BY <2>2, <2>3, <2>4 DEF Ups, Enabled
<1>4. ASSUME c \notin contested
      PROVE  Ups = {} /\ (c = Attempt => wifi[c] = saved)
  <2>1. ByItself(c)
        BY <1>2, <1>4 DEF Apart
  <2>2. \A d \in Connectors : networks[d] = None \/ ~networks[d].enabled
        BY <1>1, <2>1 DEF ByItself, Only
  <2>3. Enabled = {}
        BY <2>2 DEF Enabled
  <2>4. QED
        BY <2>1, <2>3 DEF ByItself, Ups
<1>5. Tasks[c] = wifi[c] /\ (c \notin Crossed => c \notin contested)
      BY <1>2 DEF Tasks, Crossed
<1>6. CASE c = Attempt
  <2>1. /\ Phases' = [Phases EXCEPT ![c] = "idle"] /\ Tasks' = [Tasks EXCEPT ![c] = None]
        /\ Crossed' = Crossed \ {c}
        BY <1>2, <1>6, Ends DEF Enable, Finish
  <2>2. QED
        BY <1>2, <1>3, <1>4, <1>5, <1>6, <2>1, ActiveIsBusy
           DEF S!Enable, S!Ends, Ups, Tasks, Phases, Crossed
<1>7. CASE c # Attempt
  <2>1. conn'[c] = "save" /\ Goto(c, "save")
        BY <1>7 DEF Enable, Goto, TypeOK
  <2>2. Phase(c)' = "enabled"
        BY <2>1 DEF Phase
  <2>3. Phases' = [Phases EXCEPT ![c] = "enabled"] /\ Busy' = Busy
        BY <1>2, <2>1, <2>2, Moves
  <2>4. Tasks' = Tasks /\ Crossed' = Crossed
        BY <1>2, <2>3 DEF Tasks, Crossed
  <2>5. QED
        BY <1>2, <1>3, <1>4, <1>5, <2>3, <2>4, ActiveIsBusy
           DEF S!Enable, Ups, Tasks, Phases, Crossed
<1>8. QED
      BY <1>6, <1>7

LEMMA GiveUpHolds ==
    ASSUME TypeOK, NEW c \in Busy, Goto(c, "idle"), UNCHANGED <<wifi, contested, saved, networks>>
    PROVE  S!GiveUp(c)
<1>1. c \in Connectors /\ Phases[c] # "idle"
      BY DEF Busy, Phases, Phase, TypeOK
<1>2. Ups' = Ups
      BY DEF Ups, Enabled
<1>3. QED
      BY <1>1, <1>2, Ends DEF S!GiveUp, S!Ends, Ups, Tasks, Phases, Crossed

LEMMA SaveHolds ==
    ASSUME IInv, NEW c \in Connectors, Save(c)
    PROVE  S!Keep(c) \/ S!GiveUp(c)
<1> USE DEF IInv
<1>1. /\ conn[c] = "save" /\ Goto(c, "idle") /\ UNCHANGED <<networks, wifi, contested>>
      /\ saved' \in {saved, wifi[c]}
      BY DEF Save, SaveWifi, Finish
<1>2. c \in Busy /\ Phases[c] = "enabled"
      BY <1>1 DEF Busy, Phases, Phase
<1>3. Tasks[c] = wifi[c] /\ (c \notin Crossed => c \notin contested) /\ Ups' = Ups
      BY <1>1, <1>2 DEF Tasks, Crossed, Ups, Enabled
<1>4. ASSUME c \notin contested
      PROVE  Ups = {<<c, wifi[c]>>}
  <2>1. Only(c, TRUE)
        BY <1>1, <1>2, <1>4 DEF Apart, ByItself
  <2>2. networks[c] # None /\ networks[c].enabled /\ networks[c].wifi = wifi[c]
    <3>1. networks[c] = [wifi |-> wifi[c], enabled |-> TRUE] /\ wifi[c] \in Wifis
          BY <1>1, <2>1 DEF Only, TypeOK
    <3>2. networks[c] \in [wifi : Wifis, enabled : BOOLEAN] /\ networks[c].enabled /\ networks[c].wifi = wifi[c]
          BY <3>1
    <3>3. QED
          BY <3>2, NoneAssumption
  <2>3. Enabled = {c}
        BY <2>1, <2>2 DEF Only, Enabled
  <2>4. QED
        BY <2>2, <2>3 DEF Ups
<1>5. CASE saved' = saved
      BY <1>1, <1>2, <1>5, GiveUpHolds
<1>6. CASE saved' = wifi[c]
      BY <1>1, <1>2, <1>3, <1>4, <1>6, Ends, ActiveIsBusy
         DEF S!Keep, S!Ends, Ups, Tasks, Phases, Crossed
<1>7. QED
      BY <1>1, <1>5, <1>6

LEMMA RestartHolds == Restart => S!Restart
<1> SUFFICES ASSUME Restart PROVE S!Restart
    OBVIOUS
<1>1. Busy' = {} /\ \A c \in Connectors : Phase(c)' = "idle"
      BY DEF Restart, Busy, Phase
<1>2. Crossed' = {} /\ Tasks' = [c \in Connectors |-> None] /\ Phases' = [c \in Connectors |-> "idle"]
      BY <1>1 DEF Crossed, Tasks, Phases
<1>3. Ups' \in {Ups, {}} /\ saved' = saved
      BY DEF Restart, Ups, Enabled
<1>4. QED
      BY <1>2, <1>3 DEF S!Restart, Ups, Tasks, Phases, Crossed

\* Wifi implements Station: of connections that cross each has its own network enabled
\* once at most and saves only that, networks from before it are gone, and one that
\* nobody crosses leaves the saved network as the only one (Connect, ConnectToWifi,
\* maybeAttemptSavedWifiConnection, SetWifiConnection).
THEOREM Refinement == Spec => ConnectionsHold
<1>1. IInv /\ [Next]_vars => [S!Next]_(S!vars)
  <2> SUFFICES ASSUME IInv, [Next]_vars PROVE [S!Next]_(S!vars)
      OBVIOUS
  <2>0. TypeOK /\ Own
        BY DEF IInv
  <2>1. CASE Read
    <3>1. CASE saved # None /\ Begin(Attempt, saved)
      <4>1. PICK w \in Wifis : w = saved
            BY <2>0, <3>1 DEF TypeOK
      <4>2. Attempt \in Connectors /\ S!Begin(Attempt, w)
            BY <2>0, <2>1, <3>1, <4>1, BeginHolds DEF Read, Connectors
      <4>3. QED
            BY <4>2 DEF S!Next
    <3>2. CASE Goto(Attempt, "idle") /\ UNCHANGED <<wifi, contested>>
      <4>1. Attempt \in Connectors /\ Attempt \notin Busy /\ Phases[Attempt] = "idle"
            BY <2>1 DEF Read, Connectors, Busy, Phases, Phase
      <4>2. Tasks[Attempt] = None /\ Attempt \notin Crossed
            BY <4>1 DEF Tasks, Crossed
      <4>3. Phases' = Phases /\ Tasks' = Tasks /\ Crossed' = Crossed
        <5>1. /\ Phases' = [Phases EXCEPT ![Attempt] = "idle"]
              /\ Tasks' = [Tasks EXCEPT ![Attempt] = None]
              /\ Crossed' = Crossed \ {Attempt}
              BY <2>0, <3>2, <4>1, Ends
        <5>2. QED
              BY <4>1, <4>2, <5>1 DEF Phases, Tasks
      <4>4. saved' = saved /\ Ups' = Ups
            BY <2>1 DEF Read, Ups, Enabled
      <4>5. QED
            BY <4>3, <4>4 DEF S!vars, Ups, Tasks, Phases, Crossed
    <3>3. QED
          BY <2>1, <3>1, <3>2 DEF Read, GetWifi
  <2>2. CASE Restart
        BY <2>2, RestartHolds DEF S!Next
  <2>3. ASSUME NEW c \in Connectors, Fail(c)
        PROVE  S!Next
    <3>1. c \in Busy
          BY <2>3 DEF Fail, Busy
    <3>2. QED
          BY <2>0, <2>3, <3>1, GiveUpHolds DEF Fail, S!Next
  <2>4. ASSUME NEW c \in Connectors, RemoveAll(c)
        PROVE  S!Next
        BY <2>0, <2>4, ClearHolds DEF S!Next
  <2>5. ASSUME NEW c \in Connectors, Add(c)
        PROVE  UNCHANGED S!vars
        BY <2>0, <2>5, AddHolds
  <2>6. ASSUME NEW c \in Connectors, Enable(c)
        PROVE  S!Next
        BY <2>6, EnableHolds DEF S!Next
  <2>7. ASSUME NEW c \in Connectors, Save(c)
        PROVE  S!Next
        BY <2>7, SaveHolds DEF S!Next
  <2>8. ASSUME NEW c \in Connectors, NEW w \in Wifis, Request(c, w)
        PROVE  S!Next
    <3>1. S!Begin(c, w)
          BY <2>0, <2>8, BeginHolds DEF Request
    <3>2. QED
          BY <3>1 DEF S!Next
  <2>9. CASE UNCHANGED vars
        BY <2>9 DEF vars, S!vars, Enabled, Busy, Phase
  <2>10. QED
         BY <2>1, <2>2, <2>3, <2>4, <2>5, <2>6, <2>7, <2>8, <2>9 DEF Next
<1>2. QED
      BY Invariance, InitHolds, <1>1, PTL DEF Spec, ConnectionsHold, S!Spec
=============================================================================
