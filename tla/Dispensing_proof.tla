-------------------------- MODULE Dispensing_proof --------------------------
(***************************************************************************)
(* Proofs about Dispensing, for every set of payments and any number of    *)
(* touches.  IInv strengthens the run loop's safety properties to an       *)
(* inductive invariant, in three parts: where the goroutines and channels  *)
(* may be relative to each other (Lifecycle), what the handler is doing    *)
(* for whom (Duty), and who will turn a running motor or buzzer off        *)
(* (Owners).                                                               *)
(***************************************************************************)
EXTENDS Dispensing, TLAPS

\* Channels and goroutines: made together by RunAndWait, closed in order.
Lifecycle ==
    /\ main = "init" <=> done = "nil"
    /\ handler = "off" <=> done = "nil"
    /\ dispenses = "none" <=> done = "nil"
    /\ dispenses \in {"closed", "nil"} => done = "closed"
    /\ dispenses = "nil" => main \in {"defers", "stopping", "exited"}
    /\ main \in {"closing", "clearing", "defers", "stopping", "exited"} => done = "closed"
    /\ handler \in {"cancel", "exited"} => done = "closed"
    /\ handler = "stuck" => dispenses = "nil"
    /\ crashed => done # "open"
    /\ machineDone => main \in {"stopping", "exited"}
    /\ main = "exited" => drivers = {}
    /\ drivers # {"motor", "buzzer"} => machineDone
    /\ "motor" \notin drivers => ~motor
    /\ "buzzer" \notin drivers => ~buzzer

\* The handler and its payment; the touch goroutines and their client.
Duty ==
    /\ \A p \in Payments : pay[p] = "dispensing" <=> serving = p
    /\ handler \in {"off", "subscribe", "select", "cancel", "exited"} => ~Paying
    /\ handler \in {"off", "subscribe"} => ~on
    /\ handler = "sleep" => Paying /\ on
    /\ subscribed <=> handler \notin {"off", "subscribe", "exited"}
    /\ touch = "notify" => (touchOn <=> held)
    /\ edge = "press" => ~held

\* A commanded dispense ends with its payment or with the finger's release.
Owed == on /\ (Paying \/ ReleasePending)

Owners ==
    /\ on => Paying \/ ReleasePending \/ handler \in {"cancel", "exited"}
    /\ motor => \/ Owed
                \/ ~on /\ handler \in {"buzzer", "motor"}
                \/ handler \in {"cancel", "exited"}
    /\ buzzer => \/ Owed
                 \/ ~on /\ handler = "buzzer"
                 \/ main = "noise" /\ noise \in {2, 4}
                 \/ handler \in {"cancel", "exited"}

IInv == TypeOK /\ Lifecycle /\ Duty /\ Owners

\* The type invariant, preserved by every step.
LEMMA TypeStep == TypeOK /\ [Next]_vars => TypeOK'
<1> SUFFICES ASSUME TypeOK, [Next]_vars PROVE TypeOK'
    OBVIOUS
<1> USE NoPaymentAssumption, TouchBoundAssumption DEF TypeOK, MachineTypeOK, MainPC, HandlerPC, MainAt, HandlerAt,
       mainVars, chanVars, handlerVars, settingVars, endVars, machineVars, driverVars, touchVars
<1>1. CASE StartRun
    BY <1>1 DEF StartRun
<1>2. CASE Listen
    BY <1>2 DEF Listen
<1>3. CASE ListenFails
    BY <1>3 DEF ListenFails
<1>4. CASE Noise
    BY <1>4 DEF Noise, BuzzerReceives
<1>5. CASE AwaitDone
    BY <1>5 DEF AwaitDone
<1>6. CASE CloseDispenses
    BY <1>6 DEF CloseDispenses
<1>7. CASE ClearDispenses
    BY <1>7 DEF ClearDispenses
<1>8. CASE StopMachine
    BY <1>8 DEF StopMachine, CloseDone
<1>9. CASE Exit
    BY <1>9 DEF Exit, AllFinished
<1>10. CASE Interrupt
  <2>1. interrupted' \in BOOLEAN /\ crashed' \in BOOLEAN
    BY <1>10, Zenon DEF Interrupt
  <2>2. QED
    BY <1>10, <2>1 DEF Interrupt
<1>11. CASE Subscribe
    BY <1>11 DEF Subscribe, SubscribeTouches
<1>12. CASE TakeTouch
    BY <1>12 DEF TakeTouch, TouchTaken, Toggle
<1>13. CASE ToggleBuzzer
    BY <1>13 DEF ToggleBuzzer, BuzzerReceives
<1>14. CASE ToggleMotor
    BY <1>14 DEF ToggleMotor, MotorReceives
<1>15. CASE ReadDispenses
    BY <1>15 DEF ReadDispenses
<1>16. CASE SendDispense
    BY <1>16 DEF SendDispense
<1>17. CASE SendPanics
    BY <1>17 DEF SendPanics
<1>18. CASE Wake
  <2>1. on' \in BOOLEAN
    BY <1>18, Zenon DEF Wake, Toggle
  <2>2. QED
    BY <1>18, <2>1 DEF Wake, Toggle
<1>19. CASE HandlerDone
    BY <1>19 DEF HandlerDone
<1>20. CASE CancelTouches
  <2>1. subscribed' \in BOOLEAN
    BY <1>20, Zenon DEF CancelTouches, UnsubscribeTouches
  <2>2. QED
    BY <1>20, <2>1 DEF CancelTouches, UnsubscribeTouches
<1>21. CASE NotifierDone
    BY <1>21 DEF NotifierDone
<1>22. CASE ChangeSetting
    BY <1>22 DEF ChangeSetting
<1>23. ASSUME NEW p \in Payments, TakePayment(p) PROVE TypeOK'
    BY <1>23 DEF TakePayment, Toggle
<1>24. ASSUME NEW p \in Payments, Settle(p) PROVE TypeOK'
    BY <1>24 DEF Settle
<1>25. CASE Alone(MotorExit)
  <2>1. motor' \in BOOLEAN
    BY <1>25, Zenon DEF Alone, MotorExit
  <2>2. QED
    BY <1>25, <2>1 DEF Alone, MotorExit
<1>26. CASE Alone(BuzzerExit)
  <2>1. buzzer' \in BOOLEAN
    BY <1>26, Zenon DEF Alone, BuzzerExit
  <2>2. QED
    BY <1>26, <2>1 DEF Alone, BuzzerExit
<1>27. CASE Alone(EdgeHigh)
    BY <1>27 DEF Alone, EdgeHigh
<1>28. CASE Alone(EdgeLow)
  <2>1. armed' \in BOOLEAN
    BY <1>28, Zenon DEF Alone, EdgeLow
  <2>2. QED
    BY <1>28, <2>1 DEF Alone, EdgeLow
<1>29. CASE Alone(HandleEdge)
    BY <1>29 DEF Alone, HandleEdge
<1>30. CASE Alone(TouchExit)
    BY <1>30 DEF Alone, TouchExit
<1>31. CASE UNCHANGED vars
    BY <1>31 DEF vars
<1>32. QED
    BY <1>1, <1>2, <1>3, <1>4, <1>5, <1>6, <1>7, <1>8, <1>9, <1>10, <1>11, <1>12, <1>13, <1>14,
       <1>15, <1>16, <1>17, <1>18, <1>19, <1>20, <1>21, <1>22, <1>23, <1>24, <1>25, <1>26, <1>27, <1>28, <1>29, <1>30, <1>31
    DEF Next, MainStep, HandlerStep, ToggleStep, Alone, MachineNext

\* Goroutines and channels come and go in the order of RunAndWait.
LEMMA LifecycleStep == IInv /\ [Next]_vars => Lifecycle'
<1> SUFFICES ASSUME IInv, [Next]_vars PROVE Lifecycle'
    OBVIOUS
<1> USE NoPaymentAssumption, TouchBoundAssumption DEF Lifecycle, IInv, TypeOK, MachineTypeOK, MainPC, HandlerPC, Alive, MainAt, HandlerAt, Paying,
       mainVars, chanVars, handlerVars, settingVars, endVars, machineVars, driverVars, touchVars
<1>1. CASE StartRun
    BY <1>1 DEF StartRun
<1>2. CASE Listen
    BY <1>2 DEF Listen
<1>3. CASE ListenFails
    BY <1>3 DEF ListenFails
<1>4. CASE Noise
    BY <1>4 DEF Noise, BuzzerReceives
<1>5. CASE AwaitDone
    BY <1>5 DEF AwaitDone
<1>6. CASE CloseDispenses
    BY <1>6 DEF CloseDispenses
<1>7. CASE ClearDispenses
    BY <1>7 DEF ClearDispenses
<1>8. CASE StopMachine
    BY <1>8 DEF StopMachine, CloseDone
<1>9. CASE Exit
    BY <1>9 DEF Exit, AllFinished
<1>10. CASE Interrupt
    BY <1>10 DEF Interrupt
<1>11. CASE Subscribe
    BY <1>11 DEF Subscribe, SubscribeTouches
<1>12. CASE TakeTouch
    BY <1>12 DEF TakeTouch, TouchTaken, Toggle
<1>13. CASE ToggleBuzzer
    BY <1>13 DEF ToggleBuzzer, BuzzerReceives
<1>14. CASE ToggleMotor
    BY <1>14 DEF ToggleMotor, MotorReceives
<1>15. CASE ReadDispenses
    BY <1>15 DEF ReadDispenses
<1>16. CASE SendDispense
    BY <1>16 DEF SendDispense
<1>17. CASE SendPanics
    BY <1>17 DEF SendPanics
<1>18. CASE Wake
    BY <1>18 DEF Wake, Toggle
<1>19. CASE HandlerDone
    BY <1>19 DEF HandlerDone
<1>20. CASE CancelTouches
    BY <1>20 DEF CancelTouches, UnsubscribeTouches
<1>21. CASE NotifierDone
    BY <1>21 DEF NotifierDone
<1>22. CASE ChangeSetting
    BY <1>22 DEF ChangeSetting
<1>23. ASSUME NEW p \in Payments, TakePayment(p) PROVE Lifecycle'
    BY <1>23 DEF TakePayment, Toggle
<1>24. ASSUME NEW p \in Payments, Settle(p) PROVE Lifecycle'
    BY <1>24 DEF Settle
<1>25. CASE Alone(MotorExit)
    BY <1>25 DEF Alone, MotorExit
<1>26. CASE Alone(BuzzerExit)
    BY <1>26 DEF Alone, BuzzerExit
<1>27. CASE Alone(EdgeHigh)
    BY <1>27 DEF Alone, EdgeHigh
<1>28. CASE Alone(EdgeLow)
    BY <1>28 DEF Alone, EdgeLow
<1>29. CASE Alone(HandleEdge)
    BY <1>29 DEF Alone, HandleEdge
<1>30. CASE Alone(TouchExit)
    BY <1>30 DEF Alone, TouchExit
<1>31. CASE UNCHANGED vars
    BY <1>31 DEF vars
<1>32. QED
    BY <1>1, <1>2, <1>3, <1>4, <1>5, <1>6, <1>7, <1>8, <1>9, <1>10, <1>11, <1>12, <1>13, <1>14,
       <1>15, <1>16, <1>17, <1>18, <1>19, <1>20, <1>21, <1>22, <1>23, <1>24, <1>25, <1>26, <1>27, <1>28, <1>29, <1>30, <1>31
    DEF Next, MainStep, HandlerStep, ToggleStep, Alone, MachineNext

\* The handler serves the one payment that is being dispensed.
LEMMA DutyStep == IInv /\ [Next]_vars => Duty'
<1> SUFFICES ASSUME IInv, [Next]_vars PROVE Duty'
    OBVIOUS
<1> USE NoPaymentAssumption, TouchBoundAssumption DEF Lifecycle, Duty, IInv, TypeOK, MachineTypeOK, MainPC, HandlerPC, Alive, MainAt, HandlerAt, Paying,
       mainVars, chanVars, handlerVars, settingVars, endVars, machineVars, driverVars, touchVars
<1>1. CASE StartRun
    BY <1>1 DEF StartRun
<1>2. CASE Listen
    BY <1>2 DEF Listen
<1>3. CASE ListenFails
    BY <1>3 DEF ListenFails
<1>4. CASE Noise
    BY <1>4 DEF Noise, BuzzerReceives
<1>5. CASE AwaitDone
    BY <1>5 DEF AwaitDone
<1>6. CASE CloseDispenses
    BY <1>6 DEF CloseDispenses
<1>7. CASE ClearDispenses
    BY <1>7 DEF ClearDispenses
<1>8. CASE StopMachine
    BY <1>8 DEF StopMachine, CloseDone
<1>9. CASE Exit
    BY <1>9 DEF Exit, AllFinished
<1>10. CASE Interrupt
    BY <1>10 DEF Interrupt
<1>11. CASE Subscribe
    BY <1>11 DEF Subscribe, SubscribeTouches
<1>12. CASE TakeTouch
    BY <1>12 DEF TakeTouch, TouchTaken, Toggle
<1>13. CASE ToggleBuzzer
    BY <1>13 DEF ToggleBuzzer, BuzzerReceives
<1>14. CASE ToggleMotor
    BY <1>14 DEF ToggleMotor, MotorReceives
<1>15. CASE ReadDispenses
    BY <1>15 DEF ReadDispenses
<1>16. CASE SendDispense
    BY <1>16 DEF SendDispense
<1>17. CASE SendPanics
    BY <1>17 DEF SendPanics
<1>18. CASE Wake
    BY <1>18 DEF Wake, Toggle
<1>19. CASE HandlerDone
    BY <1>19 DEF HandlerDone
<1>20. CASE CancelTouches
    BY <1>20 DEF CancelTouches, UnsubscribeTouches
<1>21. CASE NotifierDone
    BY <1>21 DEF NotifierDone
<1>22. CASE ChangeSetting
    BY <1>22 DEF ChangeSetting
<1>23. ASSUME NEW p \in Payments, TakePayment(p) PROVE Duty'
    BY <1>23 DEF TakePayment, Toggle
<1>24. ASSUME NEW p \in Payments, Settle(p) PROVE Duty'
    BY <1>24 DEF Settle
<1>25. CASE Alone(MotorExit)
    BY <1>25 DEF Alone, MotorExit
<1>26. CASE Alone(BuzzerExit)
    BY <1>26 DEF Alone, BuzzerExit
<1>27. CASE Alone(EdgeHigh)
    BY <1>27 DEF Alone, EdgeHigh
<1>28. CASE Alone(EdgeLow)
    BY <1>28 DEF Alone, EdgeLow
<1>29. CASE Alone(HandleEdge)
    BY <1>29 DEF Alone, HandleEdge
<1>30. CASE Alone(TouchExit)
    BY <1>30 DEF Alone, TouchExit
<1>31. CASE UNCHANGED vars
    BY <1>31 DEF vars
<1>32. QED
    BY <1>1, <1>2, <1>3, <1>4, <1>5, <1>6, <1>7, <1>8, <1>9, <1>10, <1>11, <1>12, <1>13, <1>14,
       <1>15, <1>16, <1>17, <1>18, <1>19, <1>20, <1>21, <1>22, <1>23, <1>24, <1>25, <1>26, <1>27, <1>28, <1>29, <1>30, <1>31
    DEF Next, MainStep, HandlerStep, ToggleStep, Alone, MachineNext

\* A motor or buzzer that runs has an owner, whichever step is taken.
LEMMA OwnersStep == IInv /\ [Next]_vars => Owners'
<1> SUFFICES ASSUME IInv, [Next]_vars PROVE Owners'
    OBVIOUS
<1> USE NoPaymentAssumption, TouchBoundAssumption DEF Lifecycle, Duty, Owners, Owed, ReleasePending, IInv, TypeOK, MachineTypeOK, MainPC, HandlerPC, Alive, MainAt, HandlerAt, Paying,
       mainVars, chanVars, handlerVars, settingVars, endVars, machineVars, driverVars, touchVars
<1>1. CASE StartRun
    BY <1>1 DEF StartRun
<1>2. CASE Listen
    BY <1>2 DEF Listen
<1>3. CASE ListenFails
    BY <1>3 DEF ListenFails
<1>4. CASE Noise
    BY <1>4 DEF Noise, BuzzerReceives
<1>5. CASE AwaitDone
    BY <1>5 DEF AwaitDone
<1>6. CASE CloseDispenses
    BY <1>6 DEF CloseDispenses
<1>7. CASE ClearDispenses
    BY <1>7 DEF ClearDispenses
<1>8. CASE StopMachine
    BY <1>8 DEF StopMachine, CloseDone
<1>9. CASE Exit
    BY <1>9 DEF Exit, AllFinished
<1>10. CASE Interrupt
    BY <1>10 DEF Interrupt
<1>11. CASE Subscribe
    BY <1>11 DEF Subscribe, SubscribeTouches
<1>12. CASE TakeTouch
    BY <1>12 DEF TakeTouch, TouchTaken, Toggle
<1>13. CASE ToggleBuzzer
    BY <1>13 DEF ToggleBuzzer, BuzzerReceives
<1>14. CASE ToggleMotor
    BY <1>14 DEF ToggleMotor, MotorReceives
<1>15. CASE ReadDispenses
    BY <1>15 DEF ReadDispenses
<1>16. CASE SendDispense
    BY <1>16 DEF SendDispense
<1>17. CASE SendPanics
    BY <1>17 DEF SendPanics
<1>18. CASE Wake
    BY <1>18 DEF Wake, Toggle
<1>19. CASE HandlerDone
    BY <1>19 DEF HandlerDone
<1>20. CASE CancelTouches
    BY <1>20 DEF CancelTouches, UnsubscribeTouches
<1>21. CASE NotifierDone
    BY <1>21 DEF NotifierDone
<1>22. CASE ChangeSetting
    BY <1>22 DEF ChangeSetting
<1>23. ASSUME NEW p \in Payments, TakePayment(p) PROVE Owners'
    BY <1>23 DEF TakePayment, Toggle
<1>24. ASSUME NEW p \in Payments, Settle(p) PROVE Owners'
    BY <1>24 DEF Settle
<1>25. CASE Alone(MotorExit)
    BY <1>25 DEF Alone, MotorExit
<1>26. CASE Alone(BuzzerExit)
    BY <1>26 DEF Alone, BuzzerExit
<1>27. CASE Alone(EdgeHigh)
    BY <1>27 DEF Alone, EdgeHigh
<1>28. CASE Alone(EdgeLow)
    BY <1>28 DEF Alone, EdgeLow
<1>29. CASE Alone(HandleEdge)
    BY <1>29 DEF Alone, HandleEdge
<1>30. CASE Alone(TouchExit)
    BY <1>30 DEF Alone, TouchExit
<1>31. CASE UNCHANGED vars
    BY <1>31 DEF vars
<1>32. QED
    BY <1>1, <1>2, <1>3, <1>4, <1>5, <1>6, <1>7, <1>8, <1>9, <1>10, <1>11, <1>12, <1>13, <1>14,
       <1>15, <1>16, <1>17, <1>18, <1>19, <1>20, <1>21, <1>22, <1>23, <1>24, <1>25, <1>26, <1>27, <1>28, <1>29, <1>30, <1>31
    DEF Next, MainStep, HandlerStep, ToggleStep, Alone, MachineNext

\* IInv is inductive: it holds initially and every step preserves it.
THEOREM Invariance == Spec => []IInv
<1>1. Init => IInv
  <2> SUFFICES ASSUME Init PROVE IInv
    OBVIOUS
  <2> USE DEF Init, MachineInit
  <2>1. /\ motor \in BOOLEAN /\ buzzer \in BOOLEAN /\ machineDone \in BOOLEAN
        /\ touchOn \in BOOLEAN /\ subscribed \in BOOLEAN /\ armed \in BOOLEAN
        /\ held \in BOOLEAN /\ on \in BOOLEAN /\ dispenseOnTouch \in BOOLEAN
        /\ buzzOnDispense \in BOOLEAN /\ interrupted \in BOOLEAN /\ crashed \in BOOLEAN
    BY Zenon
  <2>2. TypeOK
    BY <2>1, TouchBoundAssumption DEF TypeOK, MachineTypeOK, MainPC, HandlerPC
  <2>3. Lifecycle /\ Duty /\ Owners
    BY NoPaymentAssumption DEF Lifecycle, Duty, Owners, Paying
  <2>. QED
    BY <2>2, <2>3 DEF IInv
<1>2. IInv /\ [Next]_vars => IInv'
    BY TypeStep, LifecycleStep, DutyStep, OwnersStep DEF IInv
<1>. QED
    BY <1>1, <1>2, PTL DEF Spec

\* Every variable stays in its type.
THEOREM TypeCorrect == Spec => []TypeOK
<1>1. IInv => TypeOK
    BY DEF IInv
<1>. QED
    BY <1>1, Invariance, PTL

\* A running motor always has somebody committed to stopping it.
THEOREM MotorIsOwned == Spec => []MotorHasOwner
<1>1. IInv => MotorHasOwner
    BY DEF IInv, Lifecycle, Owners, Owed, MotorHasOwner
<1>. QED
    BY <1>1, Invariance, PTL

\* A sounding buzzer always has somebody committed to stopping it.
THEOREM BuzzerIsOwned == Spec => []BuzzerHasOwner
<1>1. IInv => BuzzerHasOwner
    BY DEF IInv, Lifecycle, Owners, Owed, BuzzerHasOwner
<1>. QED
    BY <1>1, Invariance, PTL

\* No channel panic and no send on the nil channel before Stop.
THEOREM RunIsSafe == Spec => []SafeWhileRunning
<1>1. IInv => SafeWhileRunning
    BY DEF IInv, Lifecycle, SafeWhileRunning
<1>. QED
    BY <1>1, Invariance, PTL

\* A main that returned has left both pins low.
THEOREM ExitIsOff == Spec => []OffAfterExit
<1>1. IInv => OffAfterExit
    BY DEF IInv, Lifecycle, OffAfterExit
<1>. QED
    BY <1>1, Invariance, PTL

(***************************************************************************)
(* Refinement of Vending.                                                  *)
(***************************************************************************)
\* While the handler serves nobody, no payment has the motor.
LEMMA NobodyServed == IInv /\ ~Paying => V!Served = {}
<1> SUFFICES ASSUME IInv, ~Paying, NEW p \in Payments,
                    Turn(p) \in {"taken", "spinning"}
             PROVE FALSE
    BY DEF V!Served
<1>. QED
    BY NoPaymentAssumption DEF IInv, TypeOK, Duty, Paying, Turn

\* Most steps change nothing that Vending sees.
LEMMA TurnsKept ==
    ASSUME (\A p \in Payments : Turn(p)' = Turn(p)),
           motor' = motor, ("motor" \notin drivers') = ("motor" \notin drivers)
    PROVE  UNCHANGED V!vars
BY DEF V!vars

\* The step that changes one turn is a Vending move of that payment.
LEMMA TurnMoved ==
    ASSUME NEW p \in Payments, NEW to,
           Turn(p)' = to,
           \A q \in Payments \ {p} : Turn(q)' = Turn(q)
    PROVE  V!Move(p, Turn(p), to)
BY DEF V!Move

THEOREM Refinement == Spec => OneTurnPerPayment
<1>1. Init => V!Init
    BY DEF Init, MachineInit, V!Init, Turn
<1>2. IInv /\ [Next]_vars => [V!Next]_(V!vars)
  <2> SUFFICES ASSUME IInv, [Next]_vars PROVE [V!Next]_(V!vars)
    OBVIOUS
  <2> USE NoPaymentAssumption
      DEF IInv, TypeOK, MachineTypeOK, Duty, Paying, Turn, HandlerAt, MainAt,
          mainVars, chanVars, handlerVars, settingVars, endVars, machineVars, driverVars, touchVars
  <2>1. ASSUME NEW p \in Payments, Settle(p) PROVE V!Settle(p)
    BY <2>1, TurnMoved DEF Settle, V!Settle
  <2>2. ASSUME NEW p \in Payments, TakePayment(p) PROVE V!Take(p)
    BY <2>2, TurnMoved, NobodyServed DEF TakePayment, Toggle, V!Take
  <2>3. CASE ToggleMotor
    <3>1. CASE ~Paying
      BY <2>3, <3>1, NobodyServed DEF ToggleMotor, MotorReceives, V!Next, V!Touch
    <3>2. CASE Paying /\ on
      BY <2>3, <3>2, TurnMoved DEF ToggleMotor, MotorReceives, V!Next, V!Spin
    <3>3. CASE Paying /\ ~on
      BY <2>3, <3>3, TurnMoved DEF ToggleMotor, MotorReceives, V!Next, V!Finish
    <3>. QED
      BY <3>1, <3>2, <3>3
  <2>4. CASE Alone(MotorExit)
    BY <2>4 DEF Alone, MotorExit, V!Next, V!Halt
  <2>5. CASE StartRun
    BY <2>5, TurnsKept DEF StartRun, Lifecycle
  <2>6. CASE Listen
    BY <2>6, TurnsKept DEF Listen
  <2>7. CASE ListenFails
    BY <2>7, TurnsKept DEF ListenFails
  <2>8. CASE Noise
    BY <2>8, TurnsKept DEF Noise, BuzzerReceives
  <2>9. CASE AwaitDone
    BY <2>9, TurnsKept DEF AwaitDone
  <2>10. CASE CloseDispenses
    BY <2>10, TurnsKept DEF CloseDispenses
  <2>11. CASE ClearDispenses
    BY <2>11, TurnsKept DEF ClearDispenses
  <2>12. CASE StopMachine
    BY <2>12, TurnsKept DEF StopMachine, CloseDone
  <2>13. CASE Exit
    BY <2>13, TurnsKept DEF Exit, AllFinished
  <2>14. CASE Interrupt
    BY <2>14, TurnsKept DEF Interrupt
  <2>15. CASE Subscribe
    BY <2>15, TurnsKept DEF Subscribe, SubscribeTouches
  <2>16. CASE TakeTouch
    BY <2>16, TurnsKept DEF TakeTouch, TouchTaken, Toggle
  <2>17. CASE ToggleBuzzer
    BY <2>17, TurnsKept DEF ToggleBuzzer, BuzzerReceives
  <2>18. CASE ReadDispenses
    BY <2>18, TurnsKept DEF ReadDispenses
  <2>19. CASE SendDispense
    BY <2>19, TurnsKept DEF SendDispense
  <2>20. CASE SendPanics
    BY <2>20, TurnsKept DEF SendPanics
  <2>21. CASE Wake
    BY <2>21, TurnsKept DEF Wake, Toggle
  <2>22. CASE HandlerDone
    BY <2>22, TurnsKept DEF HandlerDone
  <2>23. CASE CancelTouches
    BY <2>23, TurnsKept DEF CancelTouches, UnsubscribeTouches
  <2>24. CASE NotifierDone
    BY <2>24, TurnsKept DEF NotifierDone
  <2>25. CASE ChangeSetting
    BY <2>25, TurnsKept DEF ChangeSetting
  <2>26. CASE Alone(BuzzerExit)
    BY <2>26, TurnsKept DEF Alone, BuzzerExit
  <2>27. CASE Alone(EdgeHigh)
    BY <2>27, TurnsKept DEF Alone, EdgeHigh
  <2>28. CASE Alone(EdgeLow)
    BY <2>28, TurnsKept DEF Alone, EdgeLow
  <2>29. CASE Alone(HandleEdge)
    BY <2>29, TurnsKept DEF Alone, HandleEdge
  <2>30. CASE Alone(TouchExit)
    BY <2>30, TurnsKept DEF Alone, TouchExit
  <2>31. CASE UNCHANGED vars
    BY <2>31, TurnsKept DEF vars
  <2>. QED
    BY <2>1, <2>2, <2>3, <2>4, <2>5, <2>6, <2>7, <2>8, <2>9, <2>10, <2>11, <2>12,
       <2>13, <2>14, <2>15, <2>16, <2>17, <2>18, <2>19, <2>20, <2>21, <2>22, <2>23, <2>24,
       <2>25, <2>26, <2>27, <2>28, <2>29, <2>30, <2>31
    DEF Next, MainStep, HandlerStep, ToggleStep, Alone, MachineNext, V!Next
<1>. QED
    BY <1>1, <1>2, Invariance, PTL DEF Spec, OneTurnPerPayment, V!Spec

=============================================================================
