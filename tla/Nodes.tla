------------------------------- MODULE Nodes -------------------------------
(***************************************************************************)
(* The node manager, nodeman/nodeman.go, with the nodes bucket of the      *)
(* database (sweetdb/nodes.go) and the API requests that reach it          *)
(* (api/nodes.go, dispenser/nodes.go).                                     *)
(*                                                                         *)
(* Every request runs in a goroutine of its own, and so does Load, which   *)
(* begins as the daemon does and has the API beside it.  A database call   *)
(* is one transaction, and nothing else is synchronised.  The list n.nodes *)
(* is read and written by all of them: an append extends the list as it    *)
(* was read, and a removal deletes at an index found before, whatever      *)
(* others have written in between.  That two versions of the list may      *)
(* share an array is left out.  A panic inside a request ends only that    *)
(* request (net/http recovers it), one inside Load the process.            *)
(*                                                                         *)
(* Of a node its id is kept.  Its flag, which Invoices has, its name and   *)
(* what else is in its row decide nothing that is stated here.             *)
(***************************************************************************)
EXTENDS Integers, SequencesExt

CONSTANTS
    Ids,           \* uuids of nodes
    Requests,      \* API requests in flight at a time
    None,          \* no node
    RestartBound   \* restarts

ASSUME IdsAssumption == IsFiniteSet(Ids)
ASSUME RestartBoundAssumption == RestartBound \in Nat

VARIABLES
    saved,      \* the nodes bucket
    nodes,      \* n.nodes
    invalid,    \* ids whose lightning node cannot be constructed
    req,        \* what each request does
    load,       \* what Load does
    restarts,
    used,       \* history: ids generated so far
    acked,      \* history: nodes whose creation was answered with success
    removed,    \* history: nodes deleted from the bucket by a request
    raced,      \* history: requests and Load raced for n.nodes since the last restart
    contested   \* history: ids that a DELETE and a PATCH worked on at a time

histVars == <<used, acked, removed>>

vars == <<saved, nodes, invalid, req, load, restarts, histVars, raced, contested>>

ASSUME NoneAssumption == None \notin Ids

\* A request: where it is, what it is to do to which node, and what it has read: the
\* list, or an index into it.
Request == [pc   : {"idle", "construct", "append", "find", "shift", "read", "save"},
            op   : {"none", "add", "delete", "change"},
            id   : Ids \cup {None},
            seen : Seq(Ids),
            at   : Nat]

Idle == [pc |-> "idle", op |-> "none", id |-> None, seen |-> <<>>, at |-> 0]

\* Load: where it is, the keys it has read, which of them is next, those it has read a nil
\* row for, and the list as it has read it.
Loader == [pc   : {"keys", "kind", "row", "list", "append", "done", "failed", "dead"},
           keys : Seq(Ids),
           at   : Nat,
           nil  : SUBSET Ids,
           seen : Seq(Ids)]

ToLoad == [pc |-> "keys", keys |-> <<>>, at |-> 1, nil |-> {}, seen |-> <<>>]

TypeOK ==
    /\ saved \in SUBSET Ids
    /\ nodes \in Seq(Ids)
    /\ invalid \in SUBSET Ids
    /\ req \in [Requests -> Request]
    /\ load \in Loader
    /\ restarts \in 0..RestartBound
    /\ used \in SUBSET Ids
    /\ acked \in SUBSET used
    /\ removed \in SUBSET used
    /\ raced \in BOOLEAN
    /\ contested \in SUBSET Ids

\* The first start, with an empty bucket.
Init ==
    /\ saved = {}
    /\ nodes = <<>>
    /\ invalid = {}
    /\ req = [r \in Requests |-> Idle]
    /\ load = ToLoad
    /\ restarts = 0
    /\ used = {}
    /\ acked = {}
    /\ removed = {}
    /\ raced = FALSE
    /\ contested = {}

Begin(r, pc, op, i) ==
    /\ req[r].pc = "idle"
    /\ req' = [req EXCEPT ![r] = [pc |-> pc, op |-> op, id |-> i, seen |-> <<>>, at |-> 0]]

\* The request is answered, with success or with an error.
Answer(r) == req' = [req EXCEPT ![r] = Idle]

(***************************************************************************)
(* AddNode                                                                 *)
(***************************************************************************)
\* A new uuid, and the node saved under it, whether its certificate is any good or
\* not.  A failed save changes nothing.
Add(r, i) ==
    /\ i \notin used
    /\ Begin(r, "construct", "add", i)
    /\ used' = used \cup {i}
    /\ saved' = saved \cup {i}
    /\ invalid' \in {invalid, invalid \cup {i}}
    /\ UNCHANGED <<nodes, restarts, acked, removed>>

\* NewLndNode or NewLocalNode; on its error the row stays.
Construct(r) ==
    /\ req[r].pc = "construct"
    /\ IF req[r].id \in invalid
       THEN Answer(r)
       ELSE req' = [req EXCEPT ![r].pc = "append", ![r].seen = nodes]
    /\ UNCHANGED <<saved, nodes, invalid, restarts, histVars>>

\* n.nodes = append(n.nodes, node)
AppendNode(r) ==
    /\ req[r].pc = "append"
    /\ nodes' = Append(req[r].seen, req[r].id)
    /\ acked' = acked \cup {req[r].id}
    /\ Answer(r)
    /\ UNCHANGED <<saved, invalid, restarts, used, removed>>

(***************************************************************************)
(* RemoveNode.  The node itself is not stopped.                            *)
(***************************************************************************)
Delete(r, i) ==
    /\ i \in used
    /\ Begin(r, "find", "delete", i)
    /\ saved' = saved \ {i}
    /\ removed' = removed \cup {i}
    /\ UNCHANGED <<nodes, invalid, restarts, used, acked>>

\* Mutant of Find: an index that was not found is not looked at.
FindUnchecked(r) ==
    /\ req[r].pc = "find"
    /\ req' = [req EXCEPT ![r].pc = "shift",
                          ![r].at = IF req[r].id \in ToSet(nodes)
                                    THEN CHOOSE n \in DOMAIN nodes : nodes[n] = req[r].id
                                    ELSE -1]
    /\ UNCHANGED <<saved, nodes, invalid, restarts, histVars>>

\* The last index at which the list has the node.
Find(r) ==
    /\ req[r].pc = "find"
    /\ IF req[r].id \in ToSet(nodes)
       THEN req' = [req EXCEPT ![r].pc = "shift",
                               ![r].at = CHOOSE n \in DOMAIN nodes :
                                            /\ nodes[n] = req[r].id
                                            /\ \A m \in DOMAIN nodes : nodes[m] = req[r].id => m <= n]
       ELSE Answer(r)
    /\ UNCHANGED <<saved, nodes, invalid, restarts, histVars>>

\* Mutant of Shift: the list is truncated and nothing shifted.
ShiftNothing(r) ==
    /\ req[r].pc = "shift"
    /\ nodes' = IF req[r].at \in DOMAIN nodes THEN Front(nodes) ELSE nodes
    /\ Answer(r)
    /\ UNCHANGED <<saved, invalid, restarts, histVars>>

\* Shift, erase and truncate; an index that is out of range by now panics.
Shift(r) ==
    /\ req[r].pc = "shift"
    /\ nodes' = IF req[r].at \in DOMAIN nodes THEN RemoveAt(nodes, req[r].at) ELSE nodes
    /\ Answer(r)
    /\ UNCHANGED <<saved, invalid, restarts, histVars>>

(***************************************************************************)
(* EnableNode, DisableNode and RenameNode, for a PATCH of a node that is   *)
(* in the list (for any other, the request panics and changes nothing).    *)
(* Starting or stopping a node that could not be constructed panics too.   *)
(***************************************************************************)
Patch(r, i) ==
    /\ i \in ToSet(nodes)
    /\ Begin(r, "read", "change", i)
    /\ UNCHANGED <<saved, nodes, invalid, restarts, histVars>>

\* Mutant of Read: a node whose row is missing is saved from memory.
ReadOrMemory(r) ==
    /\ req[r].pc = "read"
    /\ req' = [req EXCEPT ![r].pc = "save"]
    /\ UNCHANGED <<saved, nodes, invalid, restarts, histVars>>

\* n.db.GetNode; when the row is missing SaveNode refuses the nil.
Read(r) ==
    /\ req[r].pc = "read"
    /\ IF req[r].id \in saved THEN req' = [req EXCEPT ![r].pc = "save"] ELSE Answer(r)
    /\ UNCHANGED <<saved, nodes, invalid, restarts, histVars>>

\* The row is saved as it was read: the type switch has cases for the structs, and the row
\* is a pointer to one.  Or there is an error.  What follows changes the flag or the name in
\* memory.
SaveRow(r) ==
    /\ req[r].pc = "save"
    /\ saved' \in {saved, saved \cup {req[r].id}}
    /\ Answer(r)
    /\ UNCHANGED <<nodes, invalid, restarts, histVars>>

(***************************************************************************)
(* Load.  GetNodes reads the keys, and then row by row, each in two        *)
(* transactions; then the rows are listed one by one.                      *)
(***************************************************************************)
Loading == load.pc \in {"keys", "kind", "row", "list", "append"}

LoadKeys ==
    /\ load.pc = "keys"
    /\ \E keys \in SetToSeqs(saved) :
          load' = [load EXCEPT !.pc = IF keys = <<>> THEN "done" ELSE "kind", !.keys = keys]
    /\ UNCHANGED nodes

\* The first transaction of GetNode, which reads the kind of the node.
LoadKind ==
    /\ load.pc = "kind"
    /\ load.keys[load.at] \in saved
    /\ load' = [load EXCEPT !.pc = "row"]
    /\ UNCHANGED nodes

\* A row that is missing, or that the database fails to read, ends GetNodes with an error,
\* which is logged: nothing is listed.  Nor is there a row for a key whose memory the database
\* has used again: the keys are read after their transaction.  That such a key turns into
\* that of another node is left out.
LoadFails ==
    /\ load.pc \in {"keys", "kind", "row"}
    /\ load' = [load EXCEPT !.pc = "failed"]
    /\ UNCHANGED nodes

\* Load goes on with the next key as pc, or from the first as then.
Advance(pc, then) ==
    IF load.at < Len(load.keys)
    THEN [load EXCEPT !.pc = pc, !.at = @ + 1]
    ELSE [load EXCEPT !.pc = then, !.at = 1]

\* The second.  A row that has gone in between is returned as a pointer that is nil.
LoadRow ==
    /\ load.pc = "row"
    /\ load' = [Advance("kind", "list")
                   EXCEPT !.nil = @ \cup ({load.keys[load.at]} \ saved)]
    /\ UNCHANGED nodes

\* Load dereferences the row.  It lists the node also when it cannot be constructed.
LoadNode ==
    /\ load.pc = "list"
    /\ load' = IF load.keys[load.at] \in load.nil
               THEN [load EXCEPT !.pc = "dead"]
               ELSE [load EXCEPT !.pc = "append", !.seen = nodes]
    /\ UNCHANGED nodes

\* n.nodes = append(n.nodes, ...)
LoadAppend ==
    /\ load.pc = "append"
    /\ nodes' = Append(load.seen, load.keys[load.at])
    /\ load' = Advance("list", "done")

LoadStep ==
    /\ LoadKeys \/ LoadKind \/ LoadFails \/ LoadRow \/ LoadNode \/ LoadAppend
    /\ UNCHANGED <<saved, invalid, req, restarts, histVars>>

\* The process ends, and the daemon starts again.
Restart ==
    /\ restarts < RestartBound
    /\ restarts' = restarts + 1
    /\ nodes' = <<>>
    /\ req' = [r \in Requests |-> Idle]
    /\ load' = ToLoad
    /\ UNCHANGED <<saved, invalid, histVars>>

(***************************************************************************)
(* The specification, with the history of the overlaps                     *)
(***************************************************************************)
RequestStep(r) ==
    /\ \/ \E i \in Ids : Add(r, i) \/ Delete(r, i) \/ Patch(r, i)
       \/ Construct(r) \/ AppendNode(r)
       \/ Find(r) \/ Shift(r)
       \/ Read(r) \/ SaveRow(r)
    /\ UNCHANGED load

\* Two appends at a time, a removal and any other request, or one that adds or removes a
\* node while Load is not over.
Racing ==
    \/ \E r, s \in Requests :
          /\ r # s
          /\ \/ req[r].pc = "append" /\ req[s].pc = "append"
             \/ req[r].op = "delete" /\ req[s].pc # "idle"
    \/ Loading /\ \E r \in Requests : req[r].op \in {"add", "delete"}

Contested ==
    {i \in Ids : \E r, s \in Requests :
        /\ req[r].id = i /\ req[r].op = "delete"
        /\ req[s].id = i /\ req[s].op = "change"}

Next ==
    \/ /\ load.pc # "dead"
       /\ LoadStep \/ \E r \in Requests : RequestStep(r)
       /\ raced' = (raced \/ Racing')
       /\ contested' = contested \cup Contested'
    \/ /\ Restart
       /\ raced' = FALSE
       /\ UNCHANGED contested

Spec == Init /\ [][Next]_vars

(***************************************************************************)
(* Properties                                                              *)
(***************************************************************************)
\* A node whose creation was answered with success is in the database until a request
\* removes it: no restart, and no race between requests, loses it (nodeman.go:120-196).
AckedIsSaved == acked \ removed \subseteq saved

\* Once Load is over, and with no request in flight, the list holds saved nodes only, each
\* once, and all of them save those that could not be constructed when they were added, as
\* long as no removal overlapped another request, no two appends did, nothing was added or
\* removed before Load was over, and Load could read the database.  Load reads a row twice
\* and lists nodes that somebody else may be adding (nodeman.go:59-104, 120-220,
\* sweetdb/nodes.go:44-67, 97-124).
ListMirrorsBucket ==
    ~raced /\ ~Loading /\ (\A r \in Requests : req[r].pc = "idle") =>
        /\ ToSet(nodes) \subseteq saved
        /\ IsInjective(nodes)
        /\ load.pc # "failed" => saved \subseteq ToSet(nodes) \cup invalid

\* A removed node stays out of the database, unless a PATCH that had read its row saved
\* it back during the removal (nodeman.go:198-247).
RemovedStaysRemoved == removed \cap saved \subseteq contested

\* The call that each request stands for.
Calls == [r \in Requests |-> [op |-> req[r].op, id |-> req[r].id]]

Loaded == IF load.pc \in {"keys", "kind", "row"} THEN "reading"
          ELSE IF load.pc \in {"list", "append"} THEN "listing" ELSE load.pc

D == INSTANCE Directory
     WITH list <- nodes, created <- used, confirmed <- acked, call <- Calls, loaded <- Loaded

\* Unless requests and Load have raced, the list changes by whole calls and by Load: an
\* addition that was saved comes last, a removal takes out the node whose row it has
\* deleted, a PATCH leaves list and bucket alone, and Load lists every saved node once, or
\* none when it could not read them.  A race can lose, misplace or repeat nodes of the list,
\* until the next start, bring back a deleted one, and end the process under Load, but
\* nothing else (nodeman.go:59-104, 120-305, sweetdb/nodes.go:44-124).
CallsTakeEffect == D!Spec
=============================================================================
