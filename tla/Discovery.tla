------------------------------ MODULE Discovery ------------------------------
(***************************************************************************)
(* What a scan promises the phone: every network of its list is skipped or *)
(* told, in the order of the queue and once, however many scans share the  *)
(* queue; and the scan ends only when none of its networks is left behind. *)
(***************************************************************************)
EXTENDS Naturals, Sequences

CONSTANTS
    Scans,
    Wifis,
    Size       \* of the queue

VARIABLES
    scan,      \* each scan: "new", "listing" or "ended"
    coming,    \* networks of its list that nobody has looked at yet
    taken,     \* those on their way to the queue
    queue,     \* networks to be told, with the scan each comes from
    told       \* how often the phone has been told of each

vars == <<scan, coming, taken, queue, told>>

Init ==
    /\ scan = [s \in Scans |-> "new"]
    /\ coming = [s \in Scans |-> {}]
    /\ taken = [s \in Scans |-> {}]
    /\ queue = <<>>
    /\ told = [d \in [scan : Scans, wifi : Wifis] |-> 0]

List(s, networks) ==
    /\ scan[s] = "new"
    /\ scan' = [scan EXCEPT ![s] = "listing"]
    /\ coming' = [coming EXCEPT ![s] = networks]
    /\ UNCHANGED <<taken, queue, told>>

\* A network whose properties cannot be read, or that hides its name.
Skip(s, w) ==
    /\ w \in coming[s]
    /\ coming' = [coming EXCEPT ![s] = @ \ {w}]
    /\ UNCHANGED <<scan, taken, queue, told>>

Take(s, w) ==
    /\ w \in coming[s]
    /\ coming' = [coming EXCEPT ![s] = @ \ {w}]
    /\ taken' = [taken EXCEPT ![s] = @ \cup {w}]
    /\ UNCHANGED <<scan, queue, told>>

Enqueue(s, w) ==
    /\ w \in taken[s]
    /\ Len(queue) < Size
    /\ taken' = [taken EXCEPT ![s] = @ \ {w}]
    /\ queue' = Append(queue, [scan |-> s, wifi |-> w])
    /\ UNCHANGED <<scan, coming, told>>

Tell ==
    /\ queue # <<>>
    /\ queue' = Tail(queue)
    /\ told' = [told EXCEPT ![Head(queue)] = @ + 1]
    /\ UNCHANGED <<scan, coming, taken>>

End(s) ==
    /\ scan[s] = "listing"
    /\ coming[s] = {}
    /\ taken[s] = {}
    /\ scan' = [scan EXCEPT ![s] = "ended"]
    /\ UNCHANGED <<coming, taken, queue, told>>

Next ==
    \/ \E s \in Scans :
          \/ \E networks \in SUBSET Wifis : List(s, networks)
          \/ \E w \in Wifis : Skip(s, w) \/ Take(s, w) \/ Enqueue(s, w)
          \/ End(s)
    \/ Tell

Spec == Init /\ [][Next]_vars
=============================================================================
