------------------------------- MODULE Billing -------------------------------
(***************************************************************************)
(* What a node promises the dispenser.  An invoice that is settled comes   *)
(* on the streams that are open, at most once to every handler on each of  *)
(* them, and one that is not settled to nobody; a handler passes on what   *)
(* it has been given before it takes the next.  What is due to a handler   *)
(* that listens stays due: it does not get lost before it is delivered or  *)
(* the handler is silenced, which happens only once the node has been      *)
(* stopped.                                                                *)
(***************************************************************************)
EXTENDS Naturals

CONSTANTS
    Ids,       \* invoices
    Starts,    \* of the node, each with a stream and a handler
    None       \* no invoice

VARIABLES
    settled,   \* invoices that somebody has paid
    open,      \* streams that bring what is settled
    listening, \* handlers that have subscribed and have not been silenced
    due,       \* <<i, k, h>>: handler h may yet be given invoice i by stream k
    serving,   \* what each handler is about to pass on
    paid,      \* how often each invoice has been passed on
    stopped    \* the node has been stopped before

vars == <<settled, open, listening, due, serving, paid, stopped>>

Init ==
    /\ settled = {}
    /\ open = {}
    /\ listening = {}
    /\ due = {}
    /\ serving = [h \in Starts |-> None]
    /\ paid = [i \in Ids |-> 0]
    /\ stopped = FALSE

Open(k) ==
    /\ k \notin open
    /\ open' = open \cup {k}
    /\ UNCHANGED <<settled, listening, due, serving, paid, stopped>>

Close(k) ==
    /\ k \in open
    /\ open' = open \ {k}
    /\ UNCHANGED <<settled, listening, due, serving, paid, stopped>>

Settle(i) ==
    /\ i \notin settled
    /\ settled' = settled \cup {i}
    /\ due' = due \cup {i} \X open \X Starts
    /\ UNCHANGED <<open, listening, serving, paid, stopped>>

\* Invoices may lapse whose delivery had begun when the handler came.
Subscribe(h) ==
    /\ h \notin listening
    /\ listening' = listening \cup {h}
    /\ UNCHANGED <<settled, open, serving, paid, stopped>>
    /\ due' \subseteq due
    /\ \A d \in due \ due' : d[3] = h

\* An invoice passes by handlers that do not listen.
Lapse ==
    /\ UNCHANGED <<settled, open, listening, serving, paid, stopped>>
    /\ due' \subseteq due
    /\ \A d \in due \ due' : d[3] \notin listening

Deliver(i, k, h) ==
    /\ k \in open
    /\ serving[h] = None
    /\ serving' = [serving EXCEPT ![h] = i]
    /\ <<i, k, h>> \in due
    /\ due' = due \ {<<i, k, h>>}
    /\ UNCHANGED <<settled, open, listening, paid, stopped>>

Pay(h) ==
    /\ serving[h] # None
    /\ paid' = [paid EXCEPT ![serving[h]] = @ + 1]
    /\ serving' = [serving EXCEPT ![h] = None]
    /\ UNCHANGED <<settled, open, listening, due, stopped>>

Stop ==
    /\ stopped' = TRUE
    /\ UNCHANGED <<settled, open, listening, due, serving, paid>>

Silence ==
    /\ stopped
    /\ listening' = {}
    /\ UNCHANGED <<settled, open, due, serving, paid, stopped>>

Next ==
    \/ Lapse
    \/ \E h \in Starts : Pay(h) \/ Subscribe(h) \/ Open(h) \/ Close(h)
    \/ \E i \in Ids : Settle(i) \/ \E k, h \in Starts : Deliver(i, k, h)
    \/ Stop \/ Silence

Spec == Init /\ [][Next]_vars
=============================================================================
