------------------------------ MODULE Vending ------------------------------
(***************************************************************************)
(* What the dispenser promises about money and candy.  A settled payment   *)
(* is taken once, gets one uninterrupted turn of the motor, and is then    *)
(* done; touches move the motor only between payments; halting the machine *)
(* is the one thing that may cut a turn short.                             *)
(***************************************************************************)
CONSTANT Payments

VARIABLES
    ledger,   \* each payment: "none", "waiting", "taken", "spinning", "dispensed"
    motor,    \* the motor turns
    halted    \* the machine has been stopped

vars == <<ledger, motor, halted>>

Init ==
    /\ ledger = [p \in Payments |-> "none"]
    /\ motor = FALSE
    /\ halted = FALSE

Served == {p \in Payments : ledger[p] \in {"taken", "spinning"}}

Move(p, from, to) ==
    /\ ledger[p] = from
    /\ ledger' = [ledger EXCEPT ![p] = to]

Settle(p) ==
    /\ Move(p, "none", "waiting")
    /\ UNCHANGED <<motor, halted>>

Take(p) ==
    /\ Served = {}
    /\ Move(p, "waiting", "taken")
    /\ UNCHANGED <<motor, halted>>

Spin(p) ==
    /\ ~halted
    /\ Move(p, "taken", "spinning")
    /\ motor' = TRUE
    /\ UNCHANGED halted

Finish(p) ==
    /\ ~halted
    /\ Move(p, "spinning", "dispensed")
    /\ motor' = FALSE
    /\ UNCHANGED halted

Touch ==
    /\ ~halted
    /\ Served = {}
    /\ motor' \in BOOLEAN
    /\ UNCHANGED <<ledger, halted>>

Halt ==
    /\ ~halted
    /\ halted' = TRUE
    /\ motor' = FALSE
    /\ UNCHANGED ledger

Next ==
    \/ \E p \in Payments : Settle(p) \/ Take(p) \/ Spin(p) \/ Finish(p)
    \/ Touch
    \/ Halt

Spec == Init /\ [][Next]_vars
=============================================================================
