------------------------------ MODULE Machine ------------------------------
(***************************************************************************)
(* The candy dispenser's hardware controller, machine/dispenser.go: the    *)
(* goroutines driveMotor, driveBuzzer and handleTouch, the edge goroutine  *)
(* that debounces the touch pin, and Stop.                                 *)
(*                                                                         *)
(* Every channel of the machine is unbuffered, so a send and its receive   *)
(* are one step: MotorReceives(on) is driveMotor taking a value some other *)
(* goroutine is blocked sending, and the module that composes the machine  *)
(* conjoins it with that goroutine's step.  The GPIO write that follows    *)
(* the receive is part of the step, since no other goroutine reads a pin.  *)
(***************************************************************************)
EXTENDS Naturals

CONSTANT TouchBound    \* how many touches the environment makes

ASSUME TouchBoundAssumption == TouchBound \in Nat

VARIABLES
    motor,        \* the motor pin is High
    buzzer,       \* the buzzer pin is High
    drivers,      \* the drive goroutines still in their select loop
    machineDone,  \* m.done is closed
    touch,        \* where handleTouch is: "select", "notify" or "exited"
    touchOn,      \* the touch value handleTouch received last
    subscribed,   \* the dispenser's client is in m.touchesClients
    edge,         \* what the edge goroutine is blocked sending on edges
    armed,        \* notifyAfterThrottledTime is set
    held,         \* hasSentHigh
    presses       \* touches made so far, bounded by TouchBound

driverVars == <<motor, buzzer, drivers>>
touchVars  == <<touch, touchOn, subscribed, edge, armed, held, presses>>
machineVars == <<driverVars, machineDone, touchVars>>

MachineTypeOK ==
    /\ motor \in BOOLEAN
    /\ buzzer \in BOOLEAN
    /\ drivers \in SUBSET {"motor", "buzzer"}
    /\ machineDone \in BOOLEAN
    /\ touch \in {"select", "notify", "exited"}
    /\ touchOn \in BOOLEAN
    /\ subscribed \in BOOLEAN
    /\ edge \in {"none", "press", "release"}
    /\ armed \in BOOLEAN
    /\ held \in BOOLEAN
    /\ presses \in 0..TouchBound

\* Start has spawned the goroutines; the pins are low and nobody is subscribed.
MachineInit ==
    /\ motor = FALSE
    /\ buzzer = FALSE
    /\ drivers = {"motor", "buzzer"}
    /\ machineDone = FALSE
    /\ touch = "select"
    /\ touchOn = FALSE
    /\ subscribed = FALSE
    /\ edge = "none"
    /\ armed = FALSE
    /\ held = FALSE
    /\ presses = 0

(***************************************************************************)
(* The drive goroutines.                                                   *)
(***************************************************************************)
MotorReceives(on) ==
    /\ "motor" \in drivers
    /\ motor' = on
    /\ UNCHANGED <<buzzer, drivers>>

BuzzerReceives(on) ==
    /\ "buzzer" \in drivers
    /\ buzzer' = on
    /\ UNCHANGED <<motor, drivers>>

\* Mutant of MotorExit: the goroutine leaves without p.Out(gpio.Low).
MotorExitHigh ==
    /\ machineDone
    /\ "motor" \in drivers
    /\ drivers' = drivers \ {"motor"}
    /\ UNCHANGED <<motor, buzzer, machineDone, touchVars>>

\* select picks m.done: the pin is pulled low and the goroutine ends.
MotorExit ==
    /\ machineDone
    /\ "motor" \in drivers
    /\ motor' = FALSE
    /\ drivers' = drivers \ {"motor"}
    /\ UNCHANGED <<buzzer, machineDone, touchVars>>

BuzzerExit ==
    /\ machineDone
    /\ "buzzer" \in drivers
    /\ buzzer' = FALSE
    /\ drivers' = drivers \ {"buzzer"}
    /\ UNCHANGED <<motor, machineDone, touchVars>>

(***************************************************************************)
(* The edge goroutine.  A first High only arms the throttle; a later High  *)
(* sends a touch start once; a Low disarms it and, after a touch start,    *)
(* sends the touch stop.  Whether 2ms have passed is left open.            *)
(***************************************************************************)
EdgeHigh ==
    /\ edge = "none"
    /\ ~held
    /\ presses < TouchBound
    /\ armed' = TRUE
    /\ IF armed
       THEN edge' = "press" /\ presses' = presses + 1
       ELSE UNCHANGED <<edge, presses>>
    /\ UNCHANGED <<driverVars, machineDone, touch, touchOn, subscribed, held>>

EdgeLow ==
    /\ edge = "none"
    /\ armed \/ held
    /\ armed' = FALSE
    /\ edge' = IF held THEN "release" ELSE "none"
    /\ UNCHANGED <<driverVars, machineDone, touch, touchOn, subscribed, held, presses>>

(***************************************************************************)
(* handleTouch receives what the edge goroutine sends and then blocks in   *)
(* notifyTouchesClients until the one client there is has taken it.        *)
(***************************************************************************)
HandleEdge ==
    /\ touch = "select"
    /\ edge # "none"
    /\ touchOn' = (edge = "press")
    /\ held' = (edge = "press")
    /\ edge' = "none"
    /\ touch' = IF subscribed THEN "notify" ELSE "select"
    /\ UNCHANGED <<driverVars, machineDone, subscribed, armed, presses>>

\* The client receives the touch: its half is conjoined by the dispenser.
TouchTaken ==
    /\ touch = "notify"
    /\ touch' = "select"
    /\ UNCHANGED <<touchOn, subscribed, edge, armed, held, presses>>

TouchExit ==
    /\ machineDone
    /\ touch = "select"
    /\ touch' = "exited"
    /\ UNCHANGED <<driverVars, machineDone, touchOn, subscribed, edge, armed, held, presses>>

SubscribeTouches ==
    /\ subscribed' = TRUE
    /\ UNCHANGED <<touch, touchOn, edge, armed, held, presses>>

UnsubscribeTouches ==
    /\ subscribed' = FALSE
    /\ UNCHANGED <<touch, touchOn, edge, armed, held, presses>>

(***************************************************************************)
(* Stop: close m.done, then wait for the three goroutines of the group.    *)
(***************************************************************************)
CloseDone ==
    /\ machineDone' = TRUE
    /\ UNCHANGED <<driverVars, touchVars>>

AllFinished == drivers = {} /\ touch = "exited"

\* A finger that was reported pressed still owes the dispenser its release.
ReleasePending == held \/ (touch = "notify" /\ ~touchOn)

MachineNext ==
    \/ MotorExit \/ BuzzerExit
    \/ EdgeHigh \/ EdgeLow
    \/ HandleEdge \/ TouchExit
=============================================================================
