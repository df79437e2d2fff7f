------------------------------ MODULE Directory ------------------------------
(***************************************************************************)
(* What the node manager promises its callers.  A call acts on what is     *)
(* saved when it begins, and on the list when it returns.  A node that was *)
(* created stays saved until it is deleted, and one that was deleted comes *)
(* back only through a call that was changing it meanwhile.  After a start *)
(* the list is empty, and gets each saved node once, or none when they     *)
(* cannot be read.  Unless calls have raced for the list, with each other  *)
(* or with that, it changes otherwise only by a saved node being put at    *)
(* its end or one that is no longer saved being taken out, and by nobody   *)
(* but the call that created or deleted the node.                          *)
(***************************************************************************)
EXTENDS Naturals, SequencesExt

CONSTANTS Ids, Requests, None

VARIABLES
    saved,       \* nodes that a start finds
    list,        \* nodes in use
    created,     \* nodes there have been
    confirmed,   \* nodes whose creation was answered with success
    call,        \* what each caller is waiting for
    loaded,      \* whether what is saved has been listed: "reading", "listing", ...
    raced,       \* calls have raced for the list since the last start
    contested    \* nodes that were deleted and changed at a time

vars == <<saved, list, created, confirmed, call, loaded, raced, contested>>

NoCall == [op |-> "none", id |-> None]

Init ==
    /\ saved = {}
    /\ list = <<>>
    /\ created = {}
    /\ confirmed = {}
    /\ call = [r \in Requests |-> NoCall]
    /\ loaded = "reading"
    /\ raced = FALSE
    /\ contested = {}

Begin(r, op, i) ==
    /\ call[r] = NoCall
    /\ call' = [call EXCEPT ![r] = [op |-> op, id |-> i]]

Return(r) == call' = [call EXCEPT ![r] = NoCall]

Create(r, i) ==
    /\ i \notin created
    /\ Begin(r, "add", i)
    /\ created' = created \cup {i}
    /\ saved' = saved \cup {i}
    /\ UNCHANGED <<list, confirmed>>

\* What a race may have made of the list.
Scrambled == raced /\ list' \in Seq(created)

Confirm(r) ==
    /\ call[r].op = "add"
    /\ Return(r)
    /\ confirmed' = confirmed \cup {call[r].id}
    /\ UNCHANGED <<saved, created>>
    /\ \/ call[r].id \in saved /\ list' = Append(list, call[r].id)
       \/ Scrambled

Delete(r, i) ==
    /\ i \in created
    /\ Begin(r, "delete", i)
    /\ saved' = saved \ {i}
    /\ UNCHANGED <<list, created, confirmed>>

Unlist(r) ==
    /\ call[r].op = "delete"
    /\ Return(r)
    /\ UNCHANGED <<saved, created, confirmed>>
    /\ \/ /\ call[r].id \notin saved
          /\ \E n \in DOMAIN list : list[n] = call[r].id /\ list' = RemoveAt(list, n)
       \/ Scrambled

Change(r, i) ==
    /\ i \in ToSet(list)
    /\ Begin(r, "change", i)
    /\ UNCHANGED <<saved, list, created, confirmed>>

\* A change writes back what it has read.
WriteBack(r) ==
    /\ call[r].op = "change"
    /\ call[r].id \in saved \cup contested
    /\ Return(r)
    /\ saved' = saved \cup {call[r].id}
    /\ UNCHANGED <<list, created, confirmed>>

\* A call has failed; a deletion does not while the node is listed.
End(r) ==
    /\ call[r] # NoCall
    /\ call[r].op = "delete" => call[r].id \notin ToSet(list)
    /\ Return(r)
    /\ UNCHANGED <<saved, list, created, confirmed>>

Wait == UNCHANGED <<saved, list, created, confirmed, call>>

CallStep(r) ==
    \/ \E i \in Ids : Create(r, i) \/ Delete(r, i) \/ Change(r, i)
    \/ Confirm(r) \/ Unlist(r) \/ WriteBack(r) \/ End(r)

\* What is saved is read, all of it or nothing.
ReadSaved ==
    /\ loaded = "reading"
    /\ loaded' \in {"listing", "done", "failed"}
    /\ loaded' = "done" => saved = {} \/ raced
    /\ Wait

\* And listed, a node that is not there yet at a time.
ListSaved ==
    /\ loaded = "listing"
    /\ UNCHANGED <<saved, created, confirmed, call>>
    /\ \/ \E i \in saved \ ToSet(list) : list' = Append(list, i)
       \/ Scrambled
    /\ loaded' \in {"listing", "done"}
    /\ loaded' = "done" => saved \subseteq ToSet(list') \/ raced

\* A node that was deleted while it was read takes the process down.
Die ==
    /\ loaded = "listing"
    /\ raced
    /\ loaded' = "dead"
    /\ Wait

\* Two creations at a time, a deletion and any other call, or either before all is listed.
Overlap ==
    \/ \E r, s \in Requests :
          /\ r # s
          /\ \/ call[r].op = "add" /\ call[s].op = "add"
             \/ call[r].op = "delete" /\ call[s].op # "none"
    \/ /\ loaded \in {"reading", "listing"}
       /\ \E r \in Requests : call[r].op \in {"add", "delete"}

Clash ==
    {i \in Ids : \E r, s \in Requests :
        call[r] = [op |-> "delete", id |-> i] /\ call[s] = [op |-> "change", id |-> i]}

\* The process ends, and starts again.
Restart ==
    /\ list' = <<>>
    /\ call' = [r \in Requests |-> NoCall]
    /\ loaded' = "reading"
    /\ raced' = FALSE
    /\ UNCHANGED <<saved, created, confirmed, contested>>

Next ==
    \/ /\ loaded # "dead"
       /\ \/ UNCHANGED loaded /\ (Wait \/ \E r \in Requests : CallStep(r))
          \/ ReadSaved \/ ListSaved \/ Die
       /\ raced' \in {raced, raced \/ Overlap'}
       /\ contested' = contested \cup Clash'
    \/ Restart

Spec == Init /\ [][Next]_vars
=============================================================================
