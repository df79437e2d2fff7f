----------------------------- MODULE Dispensing -----------------------------
(***************************************************************************)
(* The dispenser's run loop, dispenser/dispenser.go, on the machine of     *)
(* machine/dispenser.go:                                                   *)
(*                                                                         *)
(*   main      RunAndWait, then the deferred calls of sweetdMain           *)
(*   handler   handleDispenses and, inside it, ToggleDispense              *)
(*   notifier  notifyDispenseSubscribers                                   *)
(*                                                                         *)
(* with one goroutine of handleLightningNodeInvoices for every payment,    *)
(* blocked on d.payments, the interrupt goroutine of main.go, and API      *)
(* calls that change the two settings ToggleDispense reads.                *)
(*                                                                         *)
(* RunAndWait hands its WaitGroup to the goroutines by value, so its own   *)
(* counter stays 0 and wg.Wait() returns at once: teardown waits for       *)
(* nobody.  Nothing in the program calls SubscribeDispenses, so the        *)
(* notifier takes each dispense state and passes it to no one.             *)
(***************************************************************************)
EXTENDS Machine

CONSTANTS
    Payments,    \* settled invoices
    NoPayment    \* the handler serves no payment

ASSUME NoPaymentAssumption == NoPayment \notin Payments

VARIABLES
    main,            \* where RunAndWait and the deferred calls are
    noise,           \* the next command of DiagnosticNoise, 1..4
    done,            \* d.done: "nil", "open" or "closed"
    dispenses,       \* d.dispenses: "none" yet made, "open", "closed", or closed
                     \* and the field set to "nil"
    handler,         \* where handleDispenses is
    on,              \* the argument of its latest ToggleDispense
    serving,         \* the payment it serves
    notifier,        \* where notifyDispenseSubscribers is
    pay,             \* the life of each payment
    dispenseOnTouch, \* d.dispenseOnTouch
    buzzOnDispense,  \* d.buzzOnDispense
    interrupted,     \* the interrupt goroutine has called Stop
    crashed          \* a goroutine other than main has panicked

mainVars    == <<main, noise>>
chanVars    == <<done, dispenses>>
handlerVars == <<handler, on, serving, pay>>
settingVars == <<dispenseOnTouch, buzzOnDispense>>
endVars     == <<interrupted, crashed>>

vars == <<machineVars, mainVars, chanVars, handlerVars, notifier, settingVars, endVars>>

MainPC == {"init", "pos", "api", "noise", "waiting", "closing", "clearing",
           "defers", "stopping", "exited"}

HandlerPC == {"off", "subscribe", "select", "buzzer", "motor", "notify", "sending",
              "stuck", "sleep", "cancel", "exited"}

TypeOK ==
    /\ MachineTypeOK
    /\ main \in MainPC
    /\ noise \in 1..4
    /\ done \in {"nil", "open", "closed"}
    /\ dispenses \in {"none", "open", "closed", "nil"}
    /\ handler \in HandlerPC
    /\ on \in BOOLEAN
    /\ serving \in Payments \cup {NoPayment}
    /\ notifier \in {"off", "select", "exited"}
    /\ pay \in [Payments -> {"none", "waiting", "dispensing", "dispensed"}]
    /\ dispenseOnTouch \in BOOLEAN
    /\ buzzOnDispense \in BOOLEAN
    /\ interrupted \in BOOLEAN
    /\ crashed \in BOOLEAN

\* NewDispenser has returned and RunAndWait is about to be called.
Init ==
    /\ MachineInit
    /\ main = "init"
    /\ noise = 1
    /\ done = "nil"
    /\ dispenses = "none"
    /\ handler = "off"
    /\ on = FALSE
    /\ serving = NoPayment
    /\ notifier = "off"
    /\ pay = [p \in Payments |-> "none"]
    /\ dispenseOnTouch = FALSE
    /\ buzzOnDispense = FALSE
    /\ interrupted = FALSE
    /\ crashed = FALSE

\* The process ends when main returns or when another goroutine panics.
Alive == ~crashed /\ main # "exited"

MainAt(pc)    == Alive /\ main = pc
HandlerAt(pc) == Alive /\ handler = pc

(***************************************************************************)
(* RunAndWait                                                              *)
(***************************************************************************)
\* Makes the channels, restores the settings from the database, whatever they
\* are there, and spawns the goroutines.
StartRun ==
    /\ MainAt("init")
    /\ main' = "pos"
    /\ done' = "open"
    /\ dispenses' = "open"
    /\ dispenseOnTouch' \in BOOLEAN
    /\ buzzOnDispense' \in BOOLEAN
    /\ handler' = "subscribe"
    /\ notifier' = "select"
    /\ UNCHANGED <<machineVars, noise, on, serving, pay, endVars>>

\* runPos, and after it runApi, could listen.
Listen ==
    /\ MainAt("pos") \/ MainAt("api")
    /\ main' = IF main = "pos" THEN "api" ELSE "noise"
    /\ UNCHANGED <<machineVars, noise, chanVars, handlerVars, notifier, settingVars, endVars>>

\* Mutant of ListenFails: the error path forgets d.Stop().
ListenFailsWithoutStop ==
    /\ MainAt("pos") \/ MainAt("api")
    /\ main' = "closing"
    /\ UNCHANGED <<machineVars, noise, chanVars, handlerVars, notifier, settingVars, endVars>>

\* runPos or runApi could not: d.Stop(), which panics when the interrupt closed
\* d.done before.  A panic of main still runs the deferred calls of sweetdMain.
ListenFails ==
    /\ MainAt("pos") \/ MainAt("api")
    /\ IF done = "open"
       THEN done' = "closed" /\ main' = "closing"
       ELSE main' = "defers" /\ UNCHANGED done
    /\ UNCHANGED <<machineVars, noise, dispenses, handlerVars, notifier, settingVars, endVars>>

\* Mutant of Noise: it does not stop after the fourth command.
NoiseUncounted ==
    /\ MainAt("noise")
    /\ BuzzerReceives(noise \in {1, 3})
    /\ noise' = noise + 1
    /\ UNCHANGED <<main, machineDone, touchVars, chanVars, handlerVars, notifier,
                   settingVars, endVars>>

\* DiagnosticNoise: the buzzer twice on and off.
Noise ==
    /\ MainAt("noise")
    /\ BuzzerReceives(noise \in {1, 3})
    /\ IF noise = 4
       THEN main' = "waiting" /\ UNCHANGED noise
       ELSE noise' = noise + 1 /\ UNCHANGED main
    /\ UNCHANGED <<machineDone, touchVars, chanVars, handlerVars, notifier, settingVars, endVars>>

AwaitDone ==
    /\ MainAt("waiting")
    /\ done = "closed"
    /\ main' = "closing"
    /\ UNCHANGED <<machineVars, noise, chanVars, handlerVars, notifier, settingVars, endVars>>

\* close(d.dispenses)
CloseDispenses ==
    /\ MainAt("closing")
    /\ main' = "clearing"
    /\ dispenses' = "closed"
    /\ UNCHANGED <<machineVars, noise, done, handlerVars, notifier, settingVars, endVars>>

\* Mutant of ClearDispenses: the goroutines share the WaitGroup, so wg.Wait() waits.
ClearDispensesAndWait ==
    /\ MainAt("clearing")
    /\ IF dispenses = "nil"
       THEN handler = "exited" /\ notifier = "exited" /\ main' = "defers"
       ELSE UNCHANGED main
    /\ dispenses' = "nil"
    /\ UNCHANGED <<machineVars, noise, done, handlerVars, notifier, settingVars, endVars>>

\* d.dispenses = nil; wg.Wait() on a counter nobody raised; return
ClearDispenses ==
    /\ MainAt("clearing")
    /\ main' = "defers"
    /\ dispenses' = "nil"
    /\ UNCHANGED <<machineVars, noise, done, handlerVars, notifier, settingVars, endVars>>

\* The deferred calls of sweetdMain reach machine.Stop.
StopMachine ==
    /\ MainAt("defers")
    /\ main' = "stopping"
    /\ CloseDone
    /\ UNCHANGED <<noise, chanVars, handlerVars, notifier, settingVars, endVars>>

\* machine.Stop returns and so does main.
Exit ==
    /\ MainAt("stopping")
    /\ AllFinished
    /\ main' = "exited"
    /\ UNCHANGED <<machineVars, noise, chanVars, handlerVars, notifier, settingVars, endVars>>

\* The interrupt goroutine calls Stop once.  Closing a nil or a closed channel
\* panics, and this panic runs no deferred call of main.
Interrupt ==
    /\ Alive
    /\ ~interrupted
    /\ interrupted' = TRUE
    /\ IF done = "open"
       THEN done' = "closed" /\ UNCHANGED crashed
       ELSE crashed' = TRUE /\ UNCHANGED done
    /\ UNCHANGED <<machineVars, mainVars, dispenses, handlerVars, notifier, settingVars>>

(***************************************************************************)
(* handleDispenses and ToggleDispense                                      *)
(***************************************************************************)
Subscribe ==
    /\ HandlerAt("subscribe")
    /\ handler' = "select"
    /\ SubscribeTouches
    /\ UNCHANGED <<driverVars, machineDone, mainVars, chanVars, on, serving, pay, notifier,
                   settingVars, endVars>>

\* Mutant of Toggle: the buzzer is commanded only when it is to buzz.
ToggleWhenBuzzing(value) ==
    /\ on' = value
    /\ handler' = IF buzzOnDispense THEN "buzzer" ELSE "motor"

\* Entering ToggleDispense(value): the buzzer is commanded when it is to buzz,
\* and always when the dispense ends.
Toggle(value) ==
    /\ on' = value
    /\ handler' = IF buzzOnDispense \/ ~value THEN "buzzer" ELSE "motor"

\* Mutant of TakeTouch: touches are ignored altogether while the setting is off.
TakeTouchWhenEnabled ==
    /\ HandlerAt("select")
    /\ TouchTaken
    /\ IF dispenseOnTouch THEN Toggle(touchOn) ELSE UNCHANGED <<on, handler>>
    /\ UNCHANGED <<driverVars, machineDone, mainVars, chanVars, serving, pay, notifier,
                   settingVars, endVars>>

\* Mutant of TakeTouch: touches are also handled during the sleep of a payment.
TakeTouchAsleep ==
    /\ HandlerAt("select") \/ HandlerAt("sleep")
    /\ TouchTaken
    /\ Toggle(dispenseOnTouch /\ touchOn)
    /\ UNCHANGED <<driverVars, machineDone, mainVars, chanVars, serving, pay, notifier,
                   settingVars, endVars>>

TakeTouch ==
    /\ HandlerAt("select")
    /\ TouchTaken
    /\ Toggle(dispenseOnTouch /\ touchOn)
    /\ UNCHANGED <<driverVars, machineDone, mainVars, chanVars, serving, pay, notifier,
                   settingVars, endVars>>

TakePayment(p) ==
    /\ HandlerAt("select")
    /\ pay[p] = "waiting"
    /\ pay' = [pay EXCEPT ![p] = "dispensing"]
    /\ serving' = p
    /\ Toggle(TRUE)
    /\ UNCHANGED <<machineVars, mainVars, chanVars, notifier, settingVars, endVars>>

ToggleBuzzer ==
    /\ HandlerAt("buzzer")
    /\ BuzzerReceives(on)
    /\ handler' = "motor"
    /\ UNCHANGED <<machineDone, touchVars, mainVars, chanVars, on, serving, pay, notifier,
                   settingVars, endVars>>

ToggleMotor ==
    /\ HandlerAt("motor")
    /\ MotorReceives(on)
    /\ handler' = "notify"
    /\ UNCHANGED <<machineDone, touchVars, mainVars, chanVars, on, serving, pay, notifier,
                   settingVars, endVars>>

\* d.dispenses is read: a send on the nil channel blocks for good.
ReadDispenses ==
    /\ HandlerAt("notify")
    /\ handler' = IF dispenses = "nil" THEN "stuck" ELSE "sending"
    /\ UNCHANGED <<machineVars, mainVars, chanVars, on, serving, pay, notifier,
                   settingVars, endVars>>

\* The notifier takes the state and ToggleDispense returns: into the 1.5s sleep
\* after a payment's first toggle, else back to the select.
SendDispense ==
    /\ HandlerAt("sending")
    /\ dispenses = "open"
    /\ notifier = "select"
    /\ handler' = IF serving # NoPayment /\ on THEN "sleep" ELSE "select"
    /\ IF serving # NoPayment /\ ~on
       THEN /\ pay' = [pay EXCEPT ![serving] = "dispensed"]
            /\ serving' = NoPayment
       ELSE UNCHANGED <<pay, serving>>
    /\ UNCHANGED <<machineVars, mainVars, chanVars, on, notifier, settingVars, endVars>>

\* A send on the closed channel, or blocked on it when it was closed.
SendPanics ==
    /\ HandlerAt("sending")
    /\ dispenses \in {"closed", "nil"}
    /\ crashed' = TRUE
    /\ UNCHANGED <<machineVars, mainVars, chanVars, handlerVars, notifier, settingVars, interrupted>>

Wake ==
    /\ HandlerAt("sleep")
    /\ Toggle(FALSE)
    /\ UNCHANGED <<machineVars, mainVars, chanVars, serving, pay, notifier, settingVars, endVars>>

HandlerDone ==
    /\ HandlerAt("select")
    /\ done = "closed"
    /\ handler' = "cancel"
    /\ UNCHANGED <<machineVars, mainVars, chanVars, on, serving, pay, notifier, settingVars, endVars>>

CancelTouches ==
    /\ HandlerAt("cancel")
    /\ handler' = "exited"
    /\ UnsubscribeTouches
    /\ UNCHANGED <<driverVars, machineDone, mainVars, chanVars, on, serving, pay, notifier,
                   settingVars, endVars>>

(***************************************************************************)
(* notifyDispenseSubscribers, the invoice goroutines and the API           *)
(***************************************************************************)
\* Mutant of NotifierDone: the notifier takes one look and leaves.
NotifierStops ==
    /\ Alive
    /\ notifier = "select"
    /\ notifier' = "exited"
    /\ UNCHANGED <<machineVars, mainVars, chanVars, handlerVars, settingVars, endVars>>

NotifierDone ==
    /\ Alive
    /\ notifier = "select"
    /\ done = "closed"
    /\ notifier' = "exited"
    /\ UNCHANGED <<machineVars, mainVars, chanVars, handlerVars, settingVars, endVars>>

\* A settled invoice reaches handleLightningNodeInvoices, which blocks on d.payments.
Settle(p) ==
    /\ Alive
    /\ main # "init"
    /\ pay[p] = "none"
    /\ pay' = [pay EXCEPT ![p] = "waiting"]
    /\ UNCHANGED <<machineVars, mainVars, chanVars, handler, on, serving, notifier,
                   settingVars, endVars>>

\* SetDispenseOnTouch and SetBuzzOnDispense, once the API has been served.  Both are
\* operations of api.Dispenser; no handler calls the second yet.
ChangeSetting ==
    /\ Alive
    /\ main \notin {"init", "pos", "api"}
    /\ dispenseOnTouch' \in BOOLEAN
    /\ buzzOnDispense' \in BOOLEAN
    /\ (dispenseOnTouch' = dispenseOnTouch) # (buzzOnDispense' = buzzOnDispense)
    /\ UNCHANGED <<machineVars, mainVars, chanVars, handlerVars, notifier, endVars>>

(***************************************************************************)
(* The specification                                                       *)
(***************************************************************************)
MainStep ==
    \/ StartRun \/ Listen \/ ListenFails \/ Noise \/ AwaitDone
    \/ CloseDispenses \/ ClearDispenses \/ StopMachine \/ Exit

ToggleStep ==
    \/ ToggleBuzzer \/ ToggleMotor \/ ReadDispenses \/ SendDispense
    \/ SendPanics \/ Wake

HandlerStep ==
    \/ Subscribe \/ TakeTouch \/ ToggleStep \/ HandlerDone \/ CancelTouches
    \/ \E p \in Payments : TakePayment(p)

\* A step of the machine's goroutines leaves the dispenser's own state alone.
Alone(MachineStep) ==
    /\ Alive
    /\ MachineStep
    /\ UNCHANGED <<mainVars, chanVars, handlerVars, notifier, settingVars, endVars>>

Next ==
    \/ MainStep
    \/ Interrupt
    \/ HandlerStep
    \/ NotifierDone
    \/ ChangeSetting
    \/ \E p \in Payments : Settle(p)
    \/ Alone(MachineNext)

Spec == Init /\ [][Next]_vars

(***************************************************************************)
(* Fairness.  A goroutine that can run eventually does (WF).  Where it     *)
(* waits in a select with several ready cases, Go picks one of them at     *)
(* random and serves blocked senders in order, so a case that is ready     *)
(* again and again is eventually picked (SF).  Touches, payments, settings *)
(* and the interrupt are the environment's: nothing forces them.  Steps    *)
(* that nothing but themselves disables share one condition.               *)
(***************************************************************************)
Fairness ==
    /\ WF_vars(MainStep)
    /\ WF_vars(Subscribe \/ ToggleStep \/ CancelTouches)
    /\ SF_vars(TakeTouch)
    /\ \A p \in Payments : SF_vars(TakePayment(p))
    /\ SF_vars(HandlerDone)
    /\ WF_vars(NotifierDone \/ Alone(MotorExit \/ BuzzerExit))
    /\ WF_vars(Alone(HandleEdge))
    /\ SF_vars(Alone(TouchExit))

FairSpec == Spec /\ Fairness

(***************************************************************************)
(* Properties                                                              *)
(***************************************************************************)
Paying == serving # NoPayment

\* Whenever the motor runs, somebody is committed to turning it off: the handler
\* is about to, serves a payment and will, or still has the finger's release to
\* come; otherwise the dispenser is being stopped.  Holds whatever the order of
\* touches, payments and changes of dispenseOnTouch (dispenser.go:246-271).
MotorHasOwner ==
    motor => \/ ~on /\ handler \in {"buzzer", "motor"}
             \/ on /\ (Paying \/ ReleasePending)
             \/ done = "closed"

\* The same for the buzzer, which DiagnosticNoise shares with the handler, and
\* whatever buzzOnDispense becomes during a dispense: "Always make sure that
\* buzzing stops" (dispenser.go:419).
BuzzerHasOwner ==
    buzzer => \/ main = "noise" /\ noise \in {2, 4}
              \/ ~on /\ handler = "buzzer"
              \/ on /\ (Paying \/ ReleasePending)
              \/ done = "closed"

\* While the run loop is up, between the make and the close of d.done, no goroutine
\* panics on a channel and the handler never blocks for good (dispenser.go:403-430).
SafeWhileRunning == done = "open" => ~crashed /\ handler # "stuck"

\* When main has returned through machine.Stop both pins are low, although nobody
\* waited for the handler (machine/dispenser.go:64-75).
OffAfterExit == main = "exited" => ~motor /\ ~buzzer

\* How far the motor turn of payment p is, as Vending counts it.
Turn(p) ==
    IF pay[p] # "dispensing" THEN pay[p]
    ELSE IF handler \in {"buzzer", "motor"}
         THEN IF on THEN "taken" ELSE "spinning"
         ELSE IF on THEN "spinning" ELSE "dispensed"

V == INSTANCE Vending WITH
        ledger <- [p \in Payments |-> Turn(p)],
        halted <- "motor" \notin drivers

\* Each payment gets one motor turn, which touches do not cut short and only the
\* machine's Stop may: the handler implements Vending (dispenser.go:246-271).
OneTurnPerPayment == V!Spec

\* A payment the handler is told of is dispensed, unless the dispenser stops first
\* (handleDispenses, dispenser.go:257-265, with the notifier behind it).
PaymentDispensed ==
    \A p \in Payments : pay[p] = "waiting" ~> pay[p] = "dispensed" \/ done = "closed" \/ crashed

\* Stop ends the process, and not only the run loop, or a goroutine panics, unless
\* handleTouch is left for good sending a touch to the handler, which has cancelled or
\* blocks itself (dispenser.go:400-415, machine/dispenser.go:64-75, 225-251).
StopEndsProcess ==
    done = "closed" ~> main = "exited" \/ crashed \/ [](touch = "notify" /\ handler # "select")

\* The deferred calls "will properly be executed in the case of a graceful shutdown"
\* (main.go:298), the machine's Stop among them: a process that has ended has not
\* left the motor running.  noise = 4: the dispenser had started.
MotorOffAtEnd == ~Alive /\ noise = 4 => ~motor
=============================================================================
