----------------------------- MODULE Nodes_proof -----------------------------
(***************************************************************************)
(* The safety of Nodes, for any number of nodes, requests and restarts.    *)
(***************************************************************************)
EXTENDS Nodes, FiniteSetTheorems, SequenceTheorems, TLAPS

(***************************************************************************)
(* The inductive invariant.                                                *)
(***************************************************************************)
Listed == {nodes[n] : n \in DOMAIN nodes}

Adding(r)   == req[r].pc \in {"construct", "append"}
Removing(r) == req[r].pc \in {"find", "shift"}
Patching(r) == req[r].pc \in {"read", "save"}

\* What a request holds at each place.
Holds(r) ==
    /\ req[r].pc = "idle" => req[r].op = "none" /\ req[r].id = None
    /\ req[r].pc # "idle" => req[r].id \in used
    /\ Adding(r) => req[r].op = "add" /\ req[r].id \in saved \cup removed
    /\ Removing(r) => req[r].op = "delete"
    /\ Patching(r) => req[r].op = "change"
    /\ req[r].pc = "append" => \A n \in DOMAIN req[r].seen : req[r].seen[n] \in used

Requested == \A r \in Requests : Holds(r)

\* What Load holds.
AtKey == load.pc \in {"kind", "row", "list", "append"}

LoadHolds ==
    /\ \A n \in DOMAIN load.keys : load.keys[n] \in used
    /\ \A n \in DOMAIN load.seen : load.seen[n] \in used
    /\ load.pc = "keys" => load.at = 1
    /\ AtKey => load.at \in DOMAIN load.keys

\* Only ids that were generated are saved or listed, and they are until they are removed.
Generated == saved \subseteq used /\ Listed \subseteq used /\ used \subseteq saved \cup removed

\* A PATCH is about to save a removed node only if it is contested.
SavesBack == \A r \in Requests : req[r].pc = "save" /\ req[r].id \in removed => req[r].id \in contested

\* What a request adds to the list is saved and not there yet; what it removes is
\* where it found it.
InStep(r) ==
    /\ Adding(r) => req[r].id \in saved \ Listed
    /\ Adding(r) => \A s \in Requests \ {r} : Adding(s) => req[s].id # req[r].id
    /\ req[r].pc = "append" => req[r].seen = nodes
    /\ Removing(r) => req[r].id \notin saved
    /\ req[r].pc = "shift" => req[r].at \in DOMAIN nodes /\ nodes[req[r].at] = req[r].id
    /\ Patching(r) => req[r].id \in saved

\* As long as nothing is added or removed, Load lists what it has read, which is what is
\* saved, in its order.
Lists(n) == Len(nodes) = n /\ \A m \in 1..n : nodes[m] = load.keys[m]

LoadInStep ==
    /\ load.pc # "dead"
    /\ load.pc \in {"keys", "kind", "row"} => Lists(0)
    /\ Loading => load.nil = {}
    /\ AtKey => IsInjective(load.keys) /\ ToSet(load.keys) = saved
    /\ load.pc \in {"list", "append"} => Lists(load.at - 1)
    /\ load.pc = "append" => load.seen = nodes

\* Up to what a request is about to do to it, and once Load is over, the list mirrors the
\* bucket.
Mirrors ==
    /\ IsInjective(nodes)
    /\ \A i \in Listed : i \in saved \/ \E r \in Requests : Removing(r) /\ req[r].id = i
    /\ load.pc = "done" =>
          \A i \in saved : i \in invalid \cup Listed \/ \E r \in Requests : Adding(r) /\ req[r].id = i

Orderly == ~raced => ~Racing /\ Mirrors /\ LoadInStep /\ \A r \in Requests : InStep(r)

IInv == /\ TypeOK /\ Requested /\ LoadHolds /\ Generated
        /\ AckedIsSaved /\ SavesBack /\ RemovedStaysRemoved
        /\ Orderly

LEMMA IdleIs == Idle \in Request
<1>1. <<>> \in Seq(Ids)
      OBVIOUS
<1>2. QED
      BY <1>1 DEF Idle, Request

LEMMA ToLoadIs == ToLoad \in Loader
<1>1. <<>> \in Seq(Ids)
      OBVIOUS
<1>2. QED
      BY <1>1 DEF ToLoad, Loader

LEMMA Initially == Init => IInv
<1> USE NoneAssumption, RestartBoundAssumption DEF Init
<1> SUFFICES ASSUME Init PROVE IInv
    OBVIOUS
<1>1. TypeOK
  <2>1. nodes \in Seq(Ids) /\ req \in [Requests -> Request] /\ load \in Loader
        BY IdleIs, ToLoadIs
  <2>2. saved \in SUBSET Ids /\ invalid \in SUBSET Ids /\ restarts \in 0..RestartBound
        OBVIOUS
  <2>3. used \in SUBSET Ids /\ acked \in SUBSET used /\ removed \in SUBSET used
        OBVIOUS
  <2>4. raced \in BOOLEAN /\ contested \in SUBSET Ids
        OBVIOUS
  <2>5. QED
        BY <2>1, <2>2, <2>3, <2>4, Zenon DEF TypeOK
<1>2. saved = {} /\ Listed = {}
      BY DEF Listed
<1>3. Requested /\ Generated /\ AckedIsSaved /\ SavesBack /\ RemovedStaysRemoved
      BY <1>2 DEF Requested, Holds, Generated, AckedIsSaved, SavesBack, RemovedStaysRemoved,
                  Idle, Adding, Removing, Patching
<1>4. LoadHolds
      BY DEF LoadHolds, ToLoad, AtKey
<1>5. ~Racing /\ \A r \in Requests : InStep(r)
      BY <1>2 DEF Racing, InStep, Idle, Adding, Removing, Patching
<1>6. Mirrors /\ LoadInStep
      BY <1>2 DEF Mirrors, IsInjective, LoadInStep, ToLoad, AtKey, Lists
<1>7. QED
      BY <1>1, <1>3, <1>4, <1>5, <1>6 DEF IInv, Orderly

(***************************************************************************)
(* Sequences                                                               *)
(***************************************************************************)
\* Removing an element shifts those behind it.
LEMMA RemoveAtIs ==
    ASSUME NEW S, NEW s \in Seq(S), NEW at \in DOMAIN s
    PROVE  /\ RemoveAt(s, at) \in Seq(S)
           /\ Len(RemoveAt(s, at)) = Len(s) - 1
           /\ \A n \in 1..Len(s) - 1 : RemoveAt(s, at)[n] = IF n < at THEN s[n] ELSE s[n + 1]
<1> DEFINE front == SubSeq(s, 1, at - 1)
           back  == SubSeq(s, at + 1, Len(s))
<1>1. at \in 1..Len(s) /\ Len(s) \in Nat
      OBVIOUS
<1>2. /\ front \in Seq(S) /\ Len(front) = at - 1
      /\ \A n \in 1..at - 1 : front[n] = s[n]
      BY <1>1
<1>3. /\ back \in Seq(S) /\ Len(back) = Len(s) - at
      /\ \A n \in 1..Len(s) - at : back[n] = s[n + at]
      BY <1>1
<1>4. front \o back = RemoveAt(s, at)
      BY DEF RemoveAt
<1> HIDE DEF front, back
<1>5. /\ front \o back \in Seq(S)
      /\ Len(front \o back) = Len(s) - 1
      BY <1>1, <1>2, <1>3
<1>6. ASSUME NEW n \in 1..Len(s) - 1
      PROVE  (front \o back)[n] = IF n < at THEN s[n] ELSE s[n + 1]
  <2>1. CASE n < at
    <3>1. n \in 1..at - 1
          BY <2>1, <1>1
    <3>2. (front \o back)[n] = front[n]
          BY <3>1, <1>1, <1>2, <1>3
    <3>3. QED
          BY <3>1, <3>2, <2>1, <1>2
  <2>2. CASE ~(n < at)
    <3>1. n - (at - 1) \in 1..Len(s) - at
          BY <2>2, <1>1
    <3>2. (front \o back)[n] = back[n - (at - 1)]
      <4>1. \A m \in 1..Len(front) + Len(back) :
               (front \o back)[m] = IF m <= Len(front) THEN front[m] ELSE back[m - Len(front)]
            BY <1>2, <1>3, ConcatProperties
      <4>2. QED
            BY <4>1, <2>2, <1>1, <1>2, <1>3
    <3>3. (n - (at - 1)) + at = n + 1
          BY <1>1
    <3>4. back[n - (at - 1)] = s[(n - (at - 1)) + at]
          BY <3>1, <1>3
    <3>5. QED
          BY <3>2, <3>3, <3>4, <2>2
  <2>3. QED
        BY <2>1, <2>2
<1>7. QED
      BY <1>4, <1>5, <1>6

\* A sequence that Load may list has every saved node once.
LEMMA LoadedIs ==
    ASSUME NEW S, IsFiniteSet(S), NEW s \in SetToSeqs(S)
    PROVE  s \in Seq(S) /\ IsInjective(s) /\ {s[n] : n \in DOMAIN s} = S
<1> DEFINE Places == 1..Cardinality(S)
<1>1. Cardinality(S) \in Nat
      BY FS_CardinalityType
<1>2. s \in [Places -> S] /\ \A m, n \in Places : m # n => s[m] # s[n]
      BY DEF SetToSeqs
<1>3. s \in Injection(Places, S) /\ IsInjective(s)
      BY <1>2 DEF Injection, IsInjective
<1>4. Cardinality(Places) = Cardinality(S)
      BY <1>1, FS_Interval
<1>5. s \in Surjection(Places, S)
      BY <1>3, <1>4, FS_Injection
<1>6. \A i \in S : \E n \in Places : s[n] = i
      BY <1>5 DEF Surjection
<1>7. s \in Seq(S)
      BY <1>1, <1>2
<1>8. QED
      BY <1>2, <1>3, <1>6, <1>7

(***************************************************************************)
(* Each conjunct is preserved.                                             *)
(***************************************************************************)
LEMMA SavedIsFinite == TypeOK => IsFiniteSet(saved)
BY IdsAssumption, FS_Subset DEF TypeOK

\* TypeOK, less Load and the overlaps.
CoreTypeOK ==
    /\ saved \in SUBSET Ids
    /\ nodes \in Seq(Ids)
    /\ invalid \in SUBSET Ids
    /\ req \in [Requests -> Request]
    /\ restarts \in 0..RestartBound
    /\ used \in SUBSET Ids
    /\ acked \in SUBSET used
    /\ removed \in SUBSET used

\* Find finds the node where the list has it last.
LEMMA FindIs ==
    ASSUME TypeOK, NEW i \in ToSet(nodes)
    PROVE  LET n == CHOOSE n \in DOMAIN nodes :
                       nodes[n] = i /\ \A m \in DOMAIN nodes : nodes[m] = i => m <= n
           IN  n \in DOMAIN nodes /\ nodes[n] = i
<1> DEFINE At  == {n \in DOMAIN nodes : nodes[n] = i}
           Off == {Len(nodes) - n : n \in At}
<1>1. Len(nodes) \in Nat /\ DOMAIN nodes = 1..Len(nodes)
      BY DEF TypeOK
<1>2. PICK n \in DOMAIN nodes : nodes[n] = i
      BY DEF ToSet
<1>3. Off \subseteq Nat /\ Off # {}
      BY <1>1, <1>2
<1>4. PICK x \in Off : \A y \in Off : ~(<<y, x>> \in OpToRel(<, Nat))
      BY <1>3, NatLessThanWellFounded, WFMin
<1>5. ASSUME NEW y \in Off PROVE x <= y
  <2>1. x \in Nat /\ y \in Nat /\ ~(<<y, x>> \in OpToRel(<, Nat))
        BY <1>3, <1>4
  <2>2. y < x => <<y, x>> \in OpToRel(<, Nat)
        BY <2>1 DEF OpToRel
  <2>3. ~(y < x)
        BY <2>1, <2>2, Zenon
  <2>4. x \in Nat /\ y \in Nat
        BY <2>1
  <2> HIDE DEF Off
  <2>5. QED
        BY <2>3, <2>4
<1>6. PICK l \in At : x = Len(nodes) - l
      BY <1>4
<1>7. ASSUME NEW m \in At PROVE m <= l
  <2>1. Len(nodes) - m \in Off
        OBVIOUS
  <2>2. Len(nodes) - l <= Len(nodes) - m
        BY <2>1, <1>5, <1>6
  <2>3. QED
        BY <2>2, <1>1
<1>8. \E k \in DOMAIN nodes : nodes[k] = i /\ \A m \in DOMAIN nodes : nodes[m] = i => m <= k
      BY <1>6, <1>7
<1>9. QED
      BY <1>8

\* Where Load is with the keys.
LEMMA AtKeyIs ==
    ASSUME TypeOK, LoadHolds, AtKey
    PROVE  /\ load \in Loader /\ load.keys \in Seq(Ids) /\ load.seen \in Seq(Ids)
           /\ Len(load.keys) \in Nat /\ load.at \in 1..Len(load.keys)
           /\ load.keys[load.at] \in Ids
<1>1. load \in Loader
      BY DEF TypeOK
<1>2. load.keys \in Seq(Ids) /\ load.at \in DOMAIN load.keys /\ load.seen \in Seq(Ids)
      BY <1>1 DEF Loader, LoadHolds
<1>3. QED
      BY <1>1, <1>2

LEMMA LoadRowDoes ==
    ASSUME TypeOK, LoadHolds, LoadRow
    PROVE  /\ AtKey /\ load.at \in 1..Len(load.keys) /\ Len(load.keys) \in Nat
           /\ load' \in Loader
           /\ \/ load'.pc = "kind" /\ load'.at = load.at + 1 /\ load.at < Len(load.keys)
              \/ load'.pc = "list" /\ load'.at = 1
           /\ load'.keys = load.keys /\ load'.seen = load.seen
           /\ load'.nil = load.nil \cup ({load.keys[load.at]} \ saved)
           /\ nodes' = nodes
<1>1. AtKey /\ nodes' = nodes
      BY DEF LoadRow, AtKey
<1>2. load \in Loader /\ load.at \in 1..Len(load.keys) /\ Len(load.keys) \in Nat /\ load.keys[load.at] \in Ids
      BY <1>1, AtKeyIs
<1> DEFINE nil == load.nil \cup ({load.keys[load.at]} \ saved)
<1>3. nil \in SUBSET Ids
      BY <1>2 DEF Loader
<1>4. CASE load.at < Len(load.keys)
  <2>1. load' = [load EXCEPT !.pc = "kind", !.at = load.at + 1, !.nil = nil]
        BY <1>2, <1>4 DEF LoadRow, Advance, Loader
  <2>2. load.at + 1 \in Nat
        BY <1>2
  <2> HIDE DEF nil
  <2>3. /\ load' \in Loader /\ load'.pc = "kind" /\ load'.at = load.at + 1
        /\ load'.keys = load.keys /\ load'.seen = load.seen /\ load'.nil = nil
        BY <1>2, <1>3, <2>1, <2>2 DEF Loader
  <2>4. QED
        BY <1>1, <1>2, <1>4, <2>3 DEF nil
<1>5. CASE ~(load.at < Len(load.keys))
  <2>1. load' = [load EXCEPT !.pc = "list", !.at = 1, !.nil = nil]
        BY <1>2, <1>5 DEF LoadRow, Advance, Loader
  <2> HIDE DEF nil
  <2>2. /\ load' \in Loader /\ load'.pc = "list" /\ load'.at = 1
        /\ load'.keys = load.keys /\ load'.seen = load.seen /\ load'.nil = nil
        BY <1>2, <1>3, <2>1 DEF Loader
  <2>3. QED
        BY <1>1, <1>2, <2>2 DEF nil
<1>6. QED
      BY <1>4, <1>5

LEMMA LoadAppendDoes ==
    ASSUME TypeOK, LoadHolds, LoadAppend
    PROVE  /\ AtKey /\ load.at \in 1..Len(load.keys) /\ Len(load.keys) \in Nat
           /\ load' \in Loader
           /\ \/ load'.pc = "list" /\ load'.at = load.at + 1 /\ load.at < Len(load.keys)
              \/ load'.pc = "done" /\ load'.at = 1 /\ load.at = Len(load.keys)
           /\ load'.keys = load.keys /\ load'.seen = load.seen /\ load'.nil = load.nil
           /\ load.keys \in Seq(Ids) /\ load.keys[load.at] \in Ids /\ load.seen \in Seq(Ids)
           /\ nodes' = Append(load.seen, load.keys[load.at])
<1>1. AtKey /\ nodes' = Append(load.seen, load.keys[load.at])
      BY DEF LoadAppend, AtKey
<1>2. /\ load \in Loader /\ load.at \in 1..Len(load.keys) /\ Len(load.keys) \in Nat
      /\ load.keys \in Seq(Ids) /\ load.keys[load.at] \in Ids /\ load.seen \in Seq(Ids)
      BY <1>1, AtKeyIs
<1>3. CASE load.at < Len(load.keys)
  <2>1. load' = [load EXCEPT !.pc = "list", !.at = load.at + 1]
        BY <1>3 DEF LoadAppend, Advance
  <2>2. load.at + 1 \in Nat
        BY <1>2
  <2>3. /\ load' \in Loader /\ load'.pc = "list" /\ load'.at = load.at + 1
        /\ load'.keys = load.keys /\ load'.seen = load.seen /\ load'.nil = load.nil
        BY <1>2, <2>1, <2>2 DEF Loader
  <2>4. QED
        BY <1>1, <1>2, <1>3, <2>3
<1>4. CASE ~(load.at < Len(load.keys))
  <2>1. load' = [load EXCEPT !.pc = "done", !.at = 1]
        BY <1>4 DEF LoadAppend, Advance
  <2>2. /\ load' \in Loader /\ load'.pc = "done" /\ load'.at = 1
        /\ load'.keys = load.keys /\ load'.seen = load.seen /\ load'.nil = load.nil
        BY <1>2, <2>1 DEF Loader
  <2>3. load.at = Len(load.keys)
        BY <1>2, <1>4
  <2>4. QED
        BY <1>1, <1>2, <2>2, <2>3
<1>5. QED
      BY <1>3, <1>4

LEMMA LoadTyped ==
    ASSUME TypeOK, LoadHolds,
           LoadKeys \/ LoadKind \/ LoadFails \/ LoadRow \/ LoadNode \/ LoadAppend
    PROVE  load' \in Loader /\ nodes' \in Seq(Ids)
<1>0. load \in Loader /\ nodes \in Seq(Ids) /\ saved \subseteq Ids
      BY DEF TypeOK
<1>1. CASE LoadKeys
  <2>1. PICK keys \in SetToSeqs(saved) :
           load' = [load EXCEPT !.pc = IF keys = <<>> THEN "done" ELSE "kind", !.keys = keys]
        BY <1>1 DEF LoadKeys
  <2>2. keys \in Seq(Ids)
        BY <1>0, SavedIsFinite, LoadedIs
  <2>3. QED
        BY <1>0, <1>1, <2>1, <2>2 DEF LoadKeys, Loader
<1>2. CASE LoadKind \/ LoadFails
      BY <1>0, <1>2 DEF LoadKind, LoadFails, Loader
<1>3. CASE LoadRow
      BY <1>0, <1>3, LoadRowDoes
<1>4. CASE LoadNode
      BY <1>0, <1>4 DEF LoadNode, Loader
<1>5. CASE LoadAppend
  <2>1. /\ load' \in Loader
        /\ load.seen \in Seq(Ids) /\ load.keys[load.at] \in Ids
        /\ nodes' = Append(load.seen, load.keys[load.at])
        BY <1>5, LoadAppendDoes
  <2>2. \A s \in Seq(Ids), i \in Ids : Append(s, i) \in Seq(Ids)
        OBVIOUS
  <2>3. QED
        BY <2>1, <2>2
<1>6. QED
      BY <1>1, <1>2, <1>3, <1>4, <1>5

LEMMA NextTypeOK == IInv /\ [Next]_vars => TypeOK'
<1> USE RestartBoundAssumption
    DEF IInv, TypeOK, Begin, Answer, histVars, CoreTypeOK
<1> SUFFICES ASSUME IInv, [Next]_vars PROVE TypeOK'
    OBVIOUS
<1>0. Idle \in Request
      BY IdleIs
<1>1. ASSUME NEW r \in Requests, NEW i \in Ids, Add(r, i) PROVE CoreTypeOK'
      BY <1>0, <1>1 DEF Add, Request
<1>2. ASSUME NEW r \in Requests, NEW i \in Ids, Delete(r, i) PROVE CoreTypeOK'
      BY <1>2 DEF Delete, Request
<1>3. ASSUME NEW r \in Requests, NEW i \in Ids, Patch(r, i)
      PROVE  CoreTypeOK'
      BY <1>3 DEF Patch, Request
<1>4. ASSUME NEW r \in Requests, Construct(r) PROVE CoreTypeOK'
  <2>1. req[r] \in Request
        OBVIOUS
  <2>2. [req[r] EXCEPT !.pc = "append", !.seen = nodes] \in Request
        BY <2>1 DEF Request
  <2>3. QED
        BY <1>0, <1>4, <2>2 DEF Construct
<1>5. ASSUME NEW r \in Requests, AppendNode(r) PROVE CoreTypeOK'
  <2>1. req[r] \in Request /\ req[r].id \in used
        BY <1>5 DEF AppendNode, Requested, Holds
  <2>2. nodes' \in Seq(Ids)
        BY <1>5, <2>1 DEF AppendNode, Request
  <2>3. QED
        BY <1>0, <1>5, <2>1, <2>2 DEF AppendNode
<1>6. ASSUME NEW r \in Requests, Find(r) PROVE CoreTypeOK'
  <2>1. req[r] \in Request
        OBVIOUS
  <2>2. ASSUME NEW n \in Nat PROVE [req[r] EXCEPT !.pc = "shift", !.at = n] \in Request
        BY <2>1 DEF Request
  <2> DEFINE n == CHOOSE n \in DOMAIN nodes :
                     /\ nodes[n] = req[r].id
                     /\ \A m \in DOMAIN nodes : nodes[m] = req[r].id => m <= n
  <2>3. req[r].id \in ToSet(nodes) => n \in Nat
    <3>1. \A m \in DOMAIN nodes : m \in Nat
          OBVIOUS
    <3>2. QED
          BY <3>1, FindIs
  <2>4. req' = [req EXCEPT ![r] = [req[r] EXCEPT !.pc = "shift", !.at = n]] \/ req' = [req EXCEPT ![r] = Idle]
        BY <1>6 DEF Find
  <2>5. req[r].id \notin ToSet(nodes) => req' = [req EXCEPT ![r] = Idle]
        BY <1>6 DEF Find
  <2> HIDE DEF n
  <2>6. req' \in [Requests -> Request]
        BY <1>0, <2>2, <2>3, <2>4, <2>5
  <2>7. QED
        BY <1>6, <2>6 DEF Find
<1>7. ASSUME NEW r \in Requests, Shift(r) PROVE CoreTypeOK'
      BY <1>0, <1>7, RemoveAtIs DEF Shift
<1>8. ASSUME NEW r \in Requests, Read(r) PROVE CoreTypeOK'
  <2>1. [req[r] EXCEPT !.pc = "save"] \in Request
        BY DEF Request
  <2>2. QED
        BY <1>0, <1>8, <2>1 DEF Read
<1>9. ASSUME NEW r \in Requests, SaveRow(r) PROVE CoreTypeOK'
  <2>1. req[r].id \in used
        BY <1>9 DEF SaveRow, Requested, Holds
  <2>2. QED
        BY <1>0, <1>9, <2>1 DEF SaveRow
<1>10. ASSUME LoadStep PROVE CoreTypeOK'
      BY <1>10, LoadTyped DEF LoadStep
<1>11. ASSUME Restart PROVE CoreTypeOK'
      BY <1>0, <1>11 DEF Restart
<1>12. ASSUME UNCHANGED vars PROVE CoreTypeOK'
      BY <1>12 DEF vars
<1>13. raced' \in BOOLEAN /\ contested' \in SUBSET Ids
      BY DEF Next, Contested, vars
<1>14. load' \in Loader
  <2>1. CASE LoadStep
        BY <2>1, LoadTyped DEF LoadStep
  <2>2. CASE ~LoadStep
        BY <2>2, ToLoadIs DEF Next, RequestStep, Restart, vars
  <2>3. QED
        BY <2>1, <2>2
<1>15. QED
      BY <1>13, <1>14, <1>1, <1>2, <1>3, <1>4, <1>5, <1>6, <1>7, <1>8, <1>9, <1>10, <1>11, <1>12
      DEF Next, RequestStep, CoreTypeOK

(***************************************************************************)
(* What each step does.                                                    *)
(***************************************************************************)
\* It leaves the other requests alone.
Alone(r) == \A s \in Requests \ {r} : req'[s] = req[s]

At(r, pc, op, i) == req[r].pc = pc /\ req[r].op = op /\ req[r].id = i

Moves(r, pc) == req'[r].pc = pc /\ req'[r].op = req[r].op /\ req'[r].id = req[r].id

Answered(r) == req[r].pc = "idle" /\ req[r].op = "none" /\ req[r].id = None

LEMMA AddDoes ==
    ASSUME TypeOK, NEW r \in Requests, NEW i \in Ids, Add(r, i)
    PROVE  /\ req[r].pc = "idle" /\ i \notin used
           /\ Alone(r) /\ At(r, "construct", "add", i)'
           /\ saved' = saved \cup {i} /\ used' = used \cup {i}
           /\ invalid \subseteq invalid'
           /\ UNCHANGED <<nodes, acked, removed>>
<1>1. req \in [Requests -> Request]
      BY DEF TypeOK
<1>2. QED
      BY <1>1 DEF Add, Begin, Alone, At

LEMMA ConstructDoes ==
    ASSUME TypeOK, NEW r \in Requests, Construct(r)
    PROVE  /\ req[r].pc = "construct"
           /\ Alone(r)
           /\ \/ req[r].id \in invalid /\ Answered(r)'
              \/ Moves(r, "append") /\ req'[r].seen = nodes
           /\ UNCHANGED <<saved, nodes, invalid, used, acked, removed>>
<1>1. req \in [Requests -> Request]
      BY DEF TypeOK
<1>2. Alone(r)
      BY <1>1 DEF Construct, Answer, Alone
<1>3. \/ req[r].id \in invalid /\ Answered(r)'
      \/ Moves(r, "append") /\ req'[r].seen = nodes
  <2>1. CASE req[r].id \in invalid
        BY <2>1, <1>1 DEF Construct, Answer, Answered, Idle
  <2>2. CASE req[r].id \notin invalid
        BY <2>2, <1>1 DEF Construct, Moves, Request
  <2>3. QED
        BY <2>1, <2>2
<1>4. req[r].pc = "construct" /\ UNCHANGED <<saved, nodes, invalid, used, acked, removed>>
      BY DEF Construct, histVars
<1>5. QED
      BY <1>2, <1>3, <1>4

LEMMA AppendDoes ==
    ASSUME TypeOK, NEW r \in Requests, AppendNode(r)
    PROVE  /\ req[r].pc = "append"
           /\ Alone(r) /\ Answered(r)'
           /\ nodes' = Append(req[r].seen, req[r].id) /\ acked' = acked \cup {req[r].id}
           /\ UNCHANGED <<saved, invalid, used, removed>>
<1>1. req \in [Requests -> Request] /\ req[r] \in Request
      BY DEF TypeOK
<1>2. QED
      BY <1>1 DEF AppendNode, Answer, Alone, Answered, Idle

LEMMA DeleteDoes ==
    ASSUME TypeOK, NEW r \in Requests, NEW i \in Ids, Delete(r, i)
    PROVE  /\ req[r].pc = "idle" /\ i \in used
           /\ Alone(r) /\ At(r, "find", "delete", i)'
           /\ saved' = saved \ {i} /\ removed' = removed \cup {i}
           /\ UNCHANGED <<nodes, invalid, used, acked>>
<1>1. req \in [Requests -> Request] /\ req[r] \in Request
      BY DEF TypeOK
<1>2. QED
      BY <1>1 DEF Delete, Begin, Alone, At

LEMMA FindDoes ==
    ASSUME TypeOK, NEW r \in Requests, Find(r)
    PROVE  /\ req[r].pc = "find"
           /\ Alone(r)
           /\ \/ req[r].id \notin Listed /\ Answered(r)'
              \/ /\ Moves(r, "shift")
                 /\ req'[r].at \in DOMAIN nodes /\ nodes[req'[r].at] = req[r].id
           /\ UNCHANGED <<saved, nodes, invalid, used, acked, removed>>
<1>1. req \in [Requests -> Request] /\ req[r] \in Request
      BY DEF TypeOK
<1> DEFINE n == CHOOSE n \in DOMAIN nodes :
                   /\ nodes[n] = req[r].id
                   /\ \A m \in DOMAIN nodes : nodes[m] = req[r].id => m <= n
<1>2. CASE req[r].id \in ToSet(nodes)
  <2>1. n \in DOMAIN nodes /\ nodes[n] = req[r].id
        BY <1>2, FindIs
  <2>2. req' = [req EXCEPT ![r].pc = "shift", ![r].at = n]
        BY <1>2 DEF Find
  <2> HIDE DEF n
  <2>3. Alone(r) /\ Moves(r, "shift") /\ req'[r].at = n
        BY <1>1, <2>2 DEF Alone, Moves, Request
  <2>4. QED
        BY <2>1, <2>3 DEF Find, histVars
<1>3. CASE req[r].id \notin ToSet(nodes)
      BY <1>1, <1>3 DEF Find, Answer, Alone, Answered, Idle, ToSet, Listed, histVars
<1>4. QED
      BY <1>2, <1>3

LEMMA ShiftDoes ==
    ASSUME TypeOK, NEW r \in Requests, Shift(r)
    PROVE  /\ req[r].pc = "shift"
           /\ Alone(r) /\ Answered(r)'
           /\ nodes' = IF req[r].at \in DOMAIN nodes THEN RemoveAt(nodes, req[r].at) ELSE nodes
           /\ UNCHANGED <<saved, invalid, used, acked, removed>>
<1>1. req \in [Requests -> Request] /\ req[r] \in Request
      BY DEF TypeOK
<1>2. QED
      BY <1>1 DEF Shift, Answer, Alone, Answered, Idle, histVars

LEMMA PatchDoes ==
    ASSUME TypeOK, NEW r \in Requests, NEW i \in Ids, Patch(r, i)
    PROVE  /\ req[r].pc = "idle" /\ i \in Listed
           /\ Alone(r) /\ At(r, "read", "change", i)'
           /\ UNCHANGED <<saved, nodes, invalid, used, acked, removed>>
<1>1. req \in [Requests -> Request] /\ req[r] \in Request
      BY DEF TypeOK
<1>2. QED
      BY <1>1 DEF Patch, Begin, Alone, At, ToSet, Listed, histVars

LEMMA ReadDoes ==
    ASSUME TypeOK, NEW r \in Requests, Read(r)
    PROVE  /\ req[r].pc = "read"
           /\ Alone(r)
           /\ \/ Answered(r)'
              \/ /\ req[r].id \in saved
                 /\ Moves(r, "save")
           /\ UNCHANGED <<saved, nodes, invalid, used, acked, removed>>
<1>1. req \in [Requests -> Request] /\ req[r] \in Request
      BY DEF TypeOK
<1>2. CASE req[r].id \in saved
      BY <1>1, <1>2 DEF Read, Alone, Moves, Request, histVars
<1>3. CASE req[r].id \notin saved
      BY <1>1, <1>3 DEF Read, Answer, Alone, Answered, Idle, histVars
<1>4. QED
      BY <1>2, <1>3

LEMMA SaveRowDoes ==
    ASSUME TypeOK, NEW r \in Requests, SaveRow(r)
    PROVE  /\ req[r].pc = "save"
           /\ Alone(r) /\ Answered(r)'
           /\ saved' = saved \/ saved' = saved \cup {req[r].id}
           /\ UNCHANGED <<nodes, invalid, used, acked, removed>>
<1>1. req \in [Requests -> Request] /\ req[r] \in Request
      BY DEF TypeOK
<1>2. QED
      BY <1>1 DEF SaveRow, Answer, Alone, Answered, Idle, histVars

(***************************************************************************)
(* The list                                                                *)
(***************************************************************************)
LEMMA AppendList ==
    ASSUME TypeOK, NEW s \in Seq(Ids), NEW i \in Ids, nodes' = Append(s, i)
    PROVE  /\ DOMAIN nodes' = 1..Len(s) + 1
           /\ \A n \in DOMAIN nodes' : nodes'[n] = IF n <= Len(s) THEN s[n] ELSE i
           /\ Listed' = {s[n] : n \in DOMAIN s} \cup {i}
<1>1. Len(s) \in Nat /\ DOMAIN s = 1..Len(s)
      OBVIOUS
<1>2. DOMAIN nodes' = 1..Len(s) + 1
      OBVIOUS
<1>3. \A n \in DOMAIN nodes' : nodes'[n] = IF n <= Len(s) THEN s[n] ELSE i
      BY <1>1
<1>4. Len(s) + 1 \in DOMAIN nodes' /\ nodes'[Len(s) + 1] = i
      BY <1>1, <1>2, <1>3
<1>5. \A n \in DOMAIN s : n \in DOMAIN nodes' /\ nodes'[n] = s[n]
      BY <1>1, <1>2, <1>3
<1>6. \A n \in DOMAIN nodes' : n \in DOMAIN s \/ nodes'[n] = i
      BY <1>1, <1>2, <1>3
<1>7. Listed' = {s[n] : n \in DOMAIN s} \cup {i}
      BY <1>4, <1>5, <1>6 DEF Listed
<1>8. QED
      BY <1>2, <1>3, <1>7

LEMMA RemoveFromList ==
    ASSUME TypeOK, NEW at \in DOMAIN nodes, nodes' = RemoveAt(nodes, at)
    PROVE  /\ Listed' \subseteq Listed
           /\ IsInjective(nodes) => IsInjective(nodes)' /\ Listed' = Listed \ {nodes[at]}
<1>1. /\ Len(nodes) \in Nat /\ DOMAIN nodes = 1..Len(nodes)
      /\ DOMAIN nodes' = 1..Len(nodes) - 1
      /\ \A n \in DOMAIN nodes' : nodes'[n] = nodes[IF n < at THEN n ELSE n + 1]
  <2>1. nodes \in Seq(Ids)
        BY DEF TypeOK
  <2>2. /\ nodes' \in Seq(Ids) /\ Len(nodes') = Len(nodes) - 1
        /\ \A n \in 1..Len(nodes) - 1 : nodes'[n] = IF n < at THEN nodes[n] ELSE nodes[n + 1]
        BY <2>1, RemoveAtIs
  <2>3. QED
        BY <2>1, <2>2
<1> DEFINE From(n) == IF n < at THEN n ELSE n + 1
<1>2. \A n \in DOMAIN nodes' : From(n) \in DOMAIN nodes \ {at} /\ nodes'[n] = nodes[From(n)]
      BY <1>1
<1>3. \A m, n \in DOMAIN nodes' : From(m) = From(n) => m = n
      BY <1>1
<1>4. \A m \in DOMAIN nodes \ {at} : \E n \in DOMAIN nodes' : From(n) = m
  <2> SUFFICES ASSUME NEW m \in DOMAIN nodes \ {at} PROVE \E n \in DOMAIN nodes' : From(n) = m
      OBVIOUS
  <2>1. CASE m < at
        BY <2>1, <1>1
  <2>2. CASE m > at
    <3>1. m - 1 \in DOMAIN nodes' /\ From(m - 1) = m
          BY <2>2, <1>1
    <3>2. QED
          BY <3>1
  <2>3. QED
        BY <2>1, <2>2, <1>1
<1> HIDE DEF From
<1>5. Listed' \subseteq Listed
      BY <1>2 DEF Listed
<1>6. ASSUME IsInjective(nodes)
      PROVE  IsInjective(nodes)' /\ Listed' = Listed \ {nodes[at]}
  <2>1. IsInjective(nodes)'
        BY <1>2, <1>3, <1>6 DEF IsInjective
  <2>2. \A i \in Listed' : i # nodes[at]
        BY <1>2, <1>6 DEF IsInjective, Listed
  <2>3. \A i \in Listed \ {nodes[at]} : i \in Listed'
        BY <1>2, <1>4 DEF Listed
  <2>4. QED
        BY <1>5, <2>1, <2>2, <2>3
<1>7. QED
      BY <1>5, <1>6

(***************************************************************************)
(* What the requests hold, and what was acknowledged.                      *)
(***************************************************************************)
LEMMA OthersHold ==
    ASSUME NEW r \in Requests, Requested, Alone(r), used \subseteq used',
           saved \cup removed \subseteq saved' \cup removed', Holds(r)'
    PROVE  Requested'
<1> SUFFICES ASSUME NEW s \in Requests \ {r} PROVE Holds(s)'
    BY DEF Requested
<1>1. Holds(s) /\ req'[s] = req[s]
      BY DEF Requested, Alone
<1>2. QED
      BY <1>1 DEF Holds, Adding, Removing, Patching

LEMMA NextRequested == IInv /\ [Next]_vars => Requested' /\ Generated' /\ AckedIsSaved'
<1> USE DEF IInv, AckedIsSaved, Generated, At, Moves, Answered, Holds, Adding, Removing, Patching
<1> SUFFICES ASSUME IInv, [Next]_vars PROVE Requested' /\ Generated' /\ AckedIsSaved'
    OBVIOUS
<1>0. \A r \in Requests : Holds(r)
      BY DEF Requested
<1>1. ASSUME NEW r \in Requests, NEW i \in Ids, Add(r, i) PROVE Requested' /\ Generated' /\ AckedIsSaved'
  <2>1. Holds(r)'
        BY <1>1, AddDoes
  <2>2. QED
        BY <1>1, <2>1, AddDoes, OthersHold DEF Listed
<1>2. ASSUME NEW r \in Requests, NEW i \in Ids, Delete(r, i) PROVE Requested' /\ Generated' /\ AckedIsSaved'
  <2>1. Holds(r)'
        BY <1>2, DeleteDoes
  <2>2. QED
        BY <1>2, <2>1, DeleteDoes, OthersHold DEF Listed
<1>3. ASSUME NEW r \in Requests, NEW i \in Ids, Patch(r, i)
      PROVE  Requested' /\ Generated' /\ AckedIsSaved'
  <2>1. saved' = saved
        BY <1>3, PatchDoes
  <2>2. Holds(r)'
        BY <1>3, PatchDoes
  <2>3. QED
        BY <1>3, <2>1, <2>2, PatchDoes, OthersHold DEF Listed
<1>4. ASSUME NEW r \in Requests, Construct(r) PROVE Requested' /\ Generated' /\ AckedIsSaved'
  <2>1. saved' = saved
        BY <1>4, ConstructDoes
  <2>2. \A n \in DOMAIN nodes : nodes[n] \in used
        BY DEF Listed
  <2>3. Holds(r)'
        BY <1>0, <1>4, <2>1, <2>2, ConstructDoes
  <2>4. QED
        BY <1>4, <2>1, <2>3, ConstructDoes, OthersHold DEF Listed
<1>5. ASSUME NEW r \in Requests, AppendNode(r) PROVE Requested' /\ Generated' /\ AckedIsSaved'
  <2>1. saved' = saved
        BY <1>5, AppendDoes
  <2>2. Holds(r)'
        BY <1>5, AppendDoes
  <2>3. req[r] \in Request /\ req[r].id \in used /\ used \subseteq Ids
        BY <1>0, <1>5, AppendDoes DEF TypeOK
  <2>4. req[r].seen \in Seq(Ids) /\ req[r].id \in Ids
        BY <2>3 DEF Request
  <2>5. Listed' \subseteq used'
    <3>1. Listed' = {req[r].seen[n] : n \in DOMAIN req[r].seen} \cup {req[r].id}
          BY <1>5, <2>4, AppendDoes, AppendList
    <3>2. \A n \in DOMAIN req[r].seen : req[r].seen[n] \in used
          BY <1>0, <1>5, AppendDoes
    <3>3. used' = used
          BY <1>5, AppendDoes
    <3>4. QED
          BY <3>1, <3>2, <3>3, <2>3
  <2>6. Requested'
        BY <1>5, <2>1, <2>2, AppendDoes, OthersHold
  <2>7. req[r].id \in saved \cup removed
        BY <1>0, <1>5, AppendDoes
  <2>8. QED
        BY <1>5, <2>1, <2>5, <2>6, <2>7, AppendDoes
<1>6. ASSUME NEW r \in Requests, Find(r) PROVE Requested' /\ Generated' /\ AckedIsSaved'
  <2>1. saved' = saved
        BY <1>6, FindDoes
  <2>2. Holds(r)'
        BY <1>0, <1>6, FindDoes
  <2>3. QED
        BY <1>6, <2>1, <2>2, FindDoes, OthersHold DEF Listed
<1>7. ASSUME NEW r \in Requests, Shift(r) PROVE Requested' /\ Generated' /\ AckedIsSaved'
  <2>1. saved' = saved
        BY <1>7, ShiftDoes
  <2>2. Holds(r)'
        BY <1>7, ShiftDoes
  <2>3. Listed' \subseteq Listed
    <3>1. CASE req[r].at \in DOMAIN nodes
          BY <1>7, <3>1, ShiftDoes, RemoveFromList
    <3>2. CASE req[r].at \notin DOMAIN nodes
          BY <1>7, <3>2, ShiftDoes DEF Listed
    <3>3. QED
          BY <3>1, <3>2
  <2>4. QED
        BY <1>7, <2>1, <2>2, <2>3, ShiftDoes, OthersHold
<1>8. ASSUME NEW r \in Requests, Read(r) PROVE Requested' /\ Generated' /\ AckedIsSaved'
  <2>1. saved' = saved
        BY <1>8, ReadDoes
  <2>2. Holds(r)'
        BY <1>0, <1>8, ReadDoes
  <2>3. QED
        BY <1>8, <2>1, <2>2, ReadDoes, OthersHold DEF Listed
<1>9. ASSUME NEW r \in Requests, SaveRow(r) PROVE Requested' /\ Generated' /\ AckedIsSaved'
  <2>1. req[r].id \in used
        BY <1>0, <1>9 DEF SaveRow
  <2>2. Holds(r)'
        BY <1>9, SaveRowDoes
  <2>3. QED
        BY <1>9, <2>1, <2>2, SaveRowDoes, OthersHold DEF Listed
<1>10. ASSUME LoadStep PROVE Requested' /\ Generated' /\ AckedIsSaved'
  <2>1. UNCHANGED <<saved, req, used, acked, removed>>
        BY <1>10 DEF LoadStep, histVars
  <2>2. Requested'
        BY <2>1 DEF Requested
  <2>3. Listed' \subseteq used
    <3>1. CASE nodes' = nodes
          BY <3>1 DEF Listed
    <3>2. CASE LoadAppend
      <4>1. AtKey
            BY <3>2 DEF LoadAppend, AtKey
      <4>2. Listed' = {load.seen[n] : n \in DOMAIN load.seen} \cup {load.keys[load.at]}
            BY <3>2, LoadAppendDoes, AppendList
      <4>3. QED
            BY <4>1, <4>2 DEF LoadHolds
    <3>3. QED
          BY <1>10, <3>1, <3>2 DEF LoadStep, LoadKeys, LoadKind, LoadFails, LoadRow, LoadNode
  <2>4. QED
        BY <2>1, <2>2, <2>3
<1>11. CASE Restart
  <2>1. saved' = saved /\ UNCHANGED <<used, acked, removed>>
        BY <1>11 DEF Restart, histVars
  <2>2. Listed' = {}
        BY <1>11 DEF Restart, Listed
  <2>3. Requested'
        BY <1>11 DEF Restart, Requested, Idle
  <2>4. QED
        BY <2>1, <2>2, <2>3
<1>12. CASE UNCHANGED vars
      BY <1>12 DEF vars, histVars, Requested, Listed
<1>13. QED
      BY <1>1, <1>2, <1>3, <1>4, <1>5, <1>6, <1>7, <1>8, <1>9, <1>10, <1>11, <1>12 DEF Next, RequestStep

LEMMA NextLoadHolds == IInv /\ [Next]_vars => LoadHolds'
<1> SUFFICES ASSUME IInv, [Next]_vars PROVE LoadHolds'
    OBVIOUS
<1>0. /\ TypeOK /\ LoadHolds /\ saved \subseteq used /\ Listed \subseteq used
      /\ load \in Loader
      BY DEF IInv, Generated, TypeOK
<1>1. CASE LoadStep
  <2>0. used' = used
        BY <1>1 DEF LoadStep, histVars
  <2>1. CASE LoadKeys
    <3>1. PICK keys \in SetToSeqs(saved) :
             load' = [load EXCEPT !.pc = IF keys = <<>> THEN "done" ELSE "kind", !.keys = keys]
          BY <2>1 DEF LoadKeys
    <3>2. keys \in Seq(saved)
          BY <1>0, SavedIsFinite, LoadedIs
    <3>3. load.at = 1 /\ \A n \in DOMAIN load.seen : load.seen[n] \in used
          BY <1>0, <2>1 DEF LoadKeys, LoadHolds
    <3>4. /\ load'.pc = IF keys = <<>> THEN "done" ELSE "kind"
          /\ load'.keys = keys /\ load'.at = load.at /\ load'.seen = load.seen
          BY <1>0, <3>1 DEF Loader
    <3>5. keys # <<>> => 1 \in DOMAIN keys
          BY <3>2
    <3>6. QED
          BY <1>0, <2>0, <3>2, <3>3, <3>4, <3>5 DEF LoadHolds, AtKey
  <2>2. CASE LoadKind \/ LoadFails
    <3>1. /\ load'.pc \in {"row", "failed"}
          /\ load'.pc = "row" => load.pc = "kind"
          /\ load'.keys = load.keys /\ load'.at = load.at /\ load'.seen = load.seen
          BY <1>0, <2>2 DEF LoadKind, LoadFails, Loader
    <3>2. QED
          BY <1>0, <2>0, <3>1 DEF LoadHolds, AtKey
  <2>3. CASE LoadRow \/ LoadAppend
    <3>1. /\ load'.keys = load.keys /\ load'.seen = load.seen
          /\ load'.at \in 1..Len(load.keys)
          /\ load'.pc \in {"kind", "list", "done"}
          BY <1>0, <2>3, LoadRowDoes, LoadAppendDoes
    <3>2. load.keys \in Seq(Ids)
          BY <1>0 DEF Loader
    <3>3. QED
          BY <1>0, <2>0, <3>1, <3>2 DEF LoadHolds
  <2>4. CASE LoadNode
    <3>1. /\ load'.pc \in {"dead", "append"} /\ load.pc = "list"
          /\ load'.keys = load.keys /\ load'.at = load.at
          /\ load'.seen = load.seen \/ load'.seen = nodes
          BY <1>0, <2>4 DEF LoadNode, Loader
    <3>2. \A n \in DOMAIN nodes : nodes[n] \in used
          BY <1>0 DEF Listed
    <3>3. QED
          BY <1>0, <2>0, <3>1, <3>2 DEF LoadHolds, AtKey
  <2>5. QED
        BY <1>1, <2>1, <2>2, <2>3, <2>4 DEF LoadStep
<1>2. CASE \E r \in Requests : RequestStep(r)
  <2>1. load' = load /\ used \subseteq used'
        BY <1>2 DEF RequestStep, Add, Delete, Patch, Construct, AppendNode, Find, Shift, Read,
                    SaveRow, histVars
  <2>2. QED
        BY <1>0, <2>1 DEF LoadHolds, AtKey
<1>3. CASE Restart
      BY <1>3 DEF Restart, ToLoad, LoadHolds, AtKey
<1>4. CASE UNCHANGED vars
      BY <1>0, <1>4 DEF vars, histVars, LoadHolds, AtKey
<1>5. QED
      BY <1>1, <1>2, <1>3, <1>4 DEF Next

(***************************************************************************)
(* What was removed                                                        *)
(***************************************************************************)
LEMMA NextRemoved == IInv /\ [Next]_vars => SavesBack' /\ RemovedStaysRemoved'
<1> USE DEF IInv, SavesBack, RemovedStaysRemoved, At, Moves, Answered, Alone
<1> SUFFICES ASSUME IInv, [Next]_vars PROVE SavesBack' /\ RemovedStaysRemoved'
    OBVIOUS
<1>0. contested \subseteq contested'
      BY DEF Next, vars
<1>1. ASSUME NEW r \in Requests, NEW i \in Ids, Add(r, i) PROVE SavesBack' /\ RemovedStaysRemoved'
  <2>1. i \notin removed
        BY <1>1, AddDoes DEF TypeOK
  <2>2. QED
        BY <1>0, <1>1, <2>1, AddDoes
<1>2. ASSUME NEW r \in Requests, NEW i \in Ids, Delete(r, i), contested' = contested \cup Contested'
      PROVE  SavesBack' /\ RemovedStaysRemoved'
  <2>1. RemovedStaysRemoved'
        BY <1>0, <1>2, DeleteDoes
  <2>2. ASSUME NEW s \in Requests, req'[s].pc = "save", req'[s].id \in removed'
        PROVE  req'[s].id \in contested'
    <3>1. s # r /\ req'[s] = req[s]
          BY <1>2, <2>2, DeleteDoes
    <3>2. CASE req[s].id \in removed
          BY <1>0, <2>2, <3>1, <3>2
    <3>3. CASE req[s].id = i
      <4>1. req'[s].op = "change"
            BY <2>2, <3>1 DEF Requested, Holds, Patching
      <4>2. req'[r].id = i /\ req'[r].op = "delete" /\ req'[s].id = i
            BY <1>2, <3>1, <3>3, DeleteDoes
      <4>3. i \in Contested'
            BY <4>1, <4>2 DEF Contested
      <4>4. QED
            BY <1>2, <4>2, <4>3
    <3>4. QED
          BY <1>2, <2>2, <3>1, <3>2, <3>3, DeleteDoes
  <2>3. QED
        BY <2>1, <2>2
<1>3. ASSUME NEW r \in Requests, NEW i \in Ids, Patch(r, i) PROVE SavesBack' /\ RemovedStaysRemoved'
  <2>1. saved' = saved
        BY <1>3, PatchDoes
  <2>2. QED
        BY <1>0, <1>3, <2>1, PatchDoes
<1>4. ASSUME NEW r \in Requests, Construct(r) PROVE SavesBack' /\ RemovedStaysRemoved'
  <2>1. saved' = saved
        BY <1>4, ConstructDoes
  <2>2. QED
        BY <1>0, <1>4, <2>1, ConstructDoes
<1>5. ASSUME NEW r \in Requests, AppendNode(r) PROVE SavesBack' /\ RemovedStaysRemoved'
  <2>1. saved' = saved
        BY <1>5, AppendDoes
  <2>2. QED
        BY <1>0, <1>5, <2>1, AppendDoes
<1>6. ASSUME NEW r \in Requests, Find(r) PROVE SavesBack' /\ RemovedStaysRemoved'
  <2>1. saved' = saved
        BY <1>6, FindDoes
  <2>2. QED
        BY <1>0, <1>6, <2>1, FindDoes
<1>7. ASSUME NEW r \in Requests, Shift(r) PROVE SavesBack' /\ RemovedStaysRemoved'
  <2>1. saved' = saved
        BY <1>7, ShiftDoes
  <2>2. QED
        BY <1>0, <1>7, <2>1, ShiftDoes
<1>8. ASSUME NEW r \in Requests, Read(r) PROVE SavesBack' /\ RemovedStaysRemoved'
  <2>1. saved' = saved
        BY <1>8, ReadDoes
  <2>2. QED
        BY <1>0, <1>8, <2>1, ReadDoes
<1>9. ASSUME NEW r \in Requests, SaveRow(r) PROVE SavesBack' /\ RemovedStaysRemoved'
  <2>1. req[r].id \in removed => req[r].id \in contested
        BY <1>9 DEF SaveRow
  <2>2. QED
        BY <1>0, <1>9, <2>1, SaveRowDoes
<1>10. ASSUME LoadStep PROVE SavesBack' /\ RemovedStaysRemoved'
  <2>1. UNCHANGED <<saved, req, removed>>
        BY <1>10 DEF LoadStep, histVars
  <2>2. QED
        BY <1>0, <2>1
<1>11. CASE Restart
  <2>1. saved' = saved /\ removed' = removed
        BY <1>11 DEF Restart, histVars
  <2>2. QED
        BY <1>0, <1>11, <2>1 DEF Restart, Idle
<1>12. CASE UNCHANGED vars
      BY <1>12 DEF vars, histVars
<1>13. QED
      BY <1>1, <1>2, <1>3, <1>4, <1>5, <1>6, <1>7, <1>8, <1>9, <1>10, <1>11, <1>12 DEF Next, RequestStep

(***************************************************************************)
(* The list and the bucket                                                 *)
(***************************************************************************)
\* Nobody else is under way next to a removal.
LEMMA RemovesAlone ==
    ASSUME Requested, ~Racing, NEW r \in Requests, Removing(r), NEW s \in Requests \ {r}
    PROVE  req[s].pc = "idle"
BY DEF Requested, Holds, Racing

LEMMA NextInOrder ==
    ASSUME IInv, \E r \in Requests : RequestStep(r), ~raced, Requested', ~Racing'
    PROVE  Mirrors' /\ \A s \in Requests : InStep(s)'
<1> USE DEF At, Moves, Answered, Alone, Adding, Removing, Patching
<1>0. /\ TypeOK /\ Requested /\ Generated
      /\ ~Racing /\ Mirrors /\ \A s \in Requests : InStep(s)
      /\ load' = load
      BY DEF IInv, Orderly, RequestStep
<1>1. ASSUME NEW r \in Requests, NEW i \in Ids, Add(r, i) PROVE Mirrors' /\ \A s \in Requests : InStep(s)'
  <2>1. saved' = saved \cup {i} /\ Listed' = Listed /\ i \notin Listed /\ i \notin used
        BY <1>0, <1>1, AddDoes DEF Generated, Listed
  <2>2. Mirrors'
        BY <1>0, <1>1, <2>1, AddDoes DEF Mirrors
  <2>3. InStep(r)'
        BY <1>0, <1>1, <2>1, AddDoes DEF InStep, Requested, Holds
  <2>4. ASSUME NEW s \in Requests \ {r} PROVE InStep(s)'
    <3>1. ~Removing(s)'
          BY <1>0, <1>1, <2>4, AddDoes DEF Requested, Holds, Racing
    <3>2. InStep(s) /\ Holds(s)
          BY <1>0 DEF Requested
    <3>3. QED
          BY <1>0, <1>1, <2>1, <2>4, <3>1, <3>2, AddDoes DEF InStep, Holds, Requested
  <2>5. QED
        BY <2>2, <2>3, <2>4
<1>2. ASSUME NEW r \in Requests, NEW i \in Ids, Delete(r, i) PROVE Mirrors' /\ \A s \in Requests : InStep(s)'
  <2>1. saved' = saved \ {i} /\ Listed' = Listed /\ nodes' = nodes
        BY <1>0, <1>2, DeleteDoes DEF Listed
  <2>2. \A s \in Requests \ {r} : req'[s].pc = "idle" /\ req[s].pc = "idle"
        BY <1>0, <1>2, DeleteDoes DEF Racing
  <2>3. Mirrors'
        BY <1>0, <1>2, <2>1, <2>2, DeleteDoes DEF Mirrors
  <2>4. QED
        BY <1>0, <1>2, <2>1, <2>2, <2>3, DeleteDoes DEF InStep
<1>3. ASSUME NEW r \in Requests, NEW i \in Ids, Patch(r, i) PROVE Mirrors' /\ \A s \in Requests : InStep(s)'
  <2>1. saved' = saved /\ nodes' = nodes /\ Listed' = Listed
        BY <1>0, <1>3, PatchDoes DEF Listed
  <2>6. i \in saved
        BY <1>0, <1>3, PatchDoes DEF Mirrors, Racing, Requested, Holds
  <2>2. Mirrors'
        BY <1>0, <1>3, <2>1, PatchDoes DEF Mirrors
  <2>3. InStep(r)'
        BY <1>0, <1>3, <2>1, <2>6, PatchDoes DEF InStep, Requested, Holds
  <2>4. ASSUME NEW s \in Requests \ {r} PROVE InStep(s)'
        BY <1>0, <1>3, <2>1, <2>6, PatchDoes DEF InStep, Requested, Holds
  <2>5. QED
        BY <2>2, <2>3, <2>4
<1>4. ASSUME NEW r \in Requests, Construct(r) PROVE Mirrors' /\ \A s \in Requests : InStep(s)'
  <2>1. saved' = saved /\ nodes' = nodes /\ Listed' = Listed
        BY <1>0, <1>4, ConstructDoes DEF Listed
  <2>2. Mirrors'
        BY <1>0, <1>4, <2>1, ConstructDoes DEF Mirrors
  <2>3. InStep(r)'
        BY <1>0, <1>4, <2>1, ConstructDoes DEF InStep, Requested, Holds
  <2>4. ASSUME NEW s \in Requests \ {r} PROVE InStep(s)'
        BY <1>0, <1>4, <2>1, ConstructDoes DEF InStep, Requested, Holds
  <2>5. QED
        BY <2>2, <2>3, <2>4
<1>5. ASSUME NEW r \in Requests, AppendNode(r) PROVE Mirrors' /\ \A s \in Requests : InStep(s)'
  <2>1. req[r].seen = nodes /\ req[r].id \in saved \ Listed /\ req[r].id \in Ids /\ nodes \in Seq(Ids)
        BY <1>0, <1>5, AppendDoes DEF InStep, TypeOK
  <2>2. nodes' = Append(nodes, req[r].id)
        BY <1>0, <1>5, <2>1, AppendDoes
  <2>3. /\ DOMAIN nodes' = 1..Len(nodes) + 1
        /\ \A n \in DOMAIN nodes' : nodes'[n] = IF n <= Len(nodes) THEN nodes[n] ELSE req[r].id
        /\ Listed' = Listed \cup {req[r].id}
        BY <1>0, <2>1, <2>2, AppendList DEF Listed
  <2>4. saved' = saved
        BY <1>0, <1>5, AppendDoes
  <2>5. IsInjective(nodes)'
    <3>1. Len(nodes) \in Nat /\ DOMAIN nodes = 1..Len(nodes)
          BY <2>1
    <3>2. \A n \in DOMAIN nodes : nodes[n] # req[r].id
          BY <2>1 DEF Listed
    <3>3. QED
          BY <1>0, <2>3, <3>1, <3>2 DEF Mirrors, IsInjective
  <2>6. \A s \in Requests \ {r} : ~Removing(s)
        BY <1>0, <1>5, AppendDoes DEF Racing, Requested, Holds
  <2>7. \A s \in Requests \ {r} : req[s].pc # "append"
        BY <1>0, <1>5, AppendDoes DEF Racing
  <2>8. Mirrors'
        BY <1>0, <1>5, <2>1, <2>3, <2>4, <2>5, <2>6, AppendDoes DEF Mirrors
  <2>9. ASSUME NEW s \in Requests PROVE InStep(s)'
        BY <1>0, <1>5, <2>1, <2>3, <2>4, <2>6, <2>7, AppendDoes DEF InStep
  <2>10. QED
        BY <2>8, <2>9
<1>6. ASSUME NEW r \in Requests, Find(r) PROVE Mirrors' /\ \A s \in Requests : InStep(s)'
  <2>1. saved' = saved /\ nodes' = nodes /\ Listed' = Listed
        BY <1>0, <1>6, FindDoes DEF Listed
  <2>2. Mirrors'
        BY <1>0, <1>6, <2>1, FindDoes DEF Mirrors
  <2>3. InStep(r)'
        BY <1>0, <1>6, <2>1, FindDoes DEF InStep, Requested, Holds
  <2>4. ASSUME NEW s \in Requests \ {r} PROVE InStep(s)'
        BY <1>0, <1>6, <2>1, FindDoes DEF InStep, Requested, Holds
  <2>5. QED
        BY <2>2, <2>3, <2>4
<1>7. ASSUME NEW r \in Requests, Shift(r) PROVE Mirrors' /\ \A s \in Requests : InStep(s)'
  <2>1. req[r].at \in DOMAIN nodes /\ nodes[req[r].at] = req[r].id /\ req[r].id \notin saved
        BY <1>0, <1>7, ShiftDoes DEF InStep
  <2>2. IsInjective(nodes)' /\ Listed' = Listed \ {req[r].id}
        BY <1>0, <1>7, <2>1, ShiftDoes, RemoveFromList DEF Mirrors
  <2>3. saved' = saved
        BY <1>0, <1>7, ShiftDoes
  <2>4. \A s \in Requests : req'[s].pc = "idle"
        BY <1>0, <1>7, ShiftDoes DEF Racing, Requested, Holds
  <2>5. \A s \in Requests \ {r} : req[s].pc = "idle"
        BY <1>0, <1>7, ShiftDoes DEF Racing, Requested, Holds
  <2>6. Mirrors'
        BY <1>0, <1>7, <2>1, <2>2, <2>3, <2>5, ShiftDoes DEF Mirrors
  <2>7. QED
        BY <2>4, <2>6 DEF InStep
<1>8. ASSUME NEW r \in Requests, Read(r) PROVE Mirrors' /\ \A s \in Requests : InStep(s)'
  <2>1. saved' = saved /\ nodes' = nodes /\ Listed' = Listed
        BY <1>0, <1>8, ReadDoes DEF Listed
  <2>2. Mirrors'
        BY <1>0, <1>8, <2>1, ReadDoes DEF Mirrors
  <2>3. InStep(r)'
        BY <1>0, <1>8, <2>1, ReadDoes DEF InStep, Requested, Holds
  <2>4. ASSUME NEW s \in Requests \ {r} PROVE InStep(s)'
        BY <1>0, <1>8, <2>1, ReadDoes DEF InStep, Requested, Holds
  <2>5. QED
        BY <2>2, <2>3, <2>4
<1>9. ASSUME NEW r \in Requests, SaveRow(r) PROVE Mirrors' /\ \A s \in Requests : InStep(s)'
  <2>1. req[r].id \in saved
        BY <1>0, <1>9 DEF SaveRow, InStep
  <2>2. saved' = saved /\ nodes' = nodes /\ Listed' = Listed
        BY <1>0, <1>9, <2>1, SaveRowDoes DEF Listed
  <2>3. Mirrors'
        BY <1>0, <1>9, <2>1, <2>2, SaveRowDoes DEF Mirrors
  <2>4. InStep(r)'
        BY <1>0, <1>9, <2>1, <2>2, SaveRowDoes DEF InStep
  <2>5. ASSUME NEW s \in Requests \ {r} PROVE InStep(s)'
        BY <1>0, <1>9, <2>1, <2>2, SaveRowDoes DEF InStep
  <2>6. QED
        BY <2>3, <2>4, <2>5
<1>11. QED
      BY <1>1, <1>2, <1>3, <1>4, <1>5, <1>6, <1>7, <1>8, <1>9 DEF RequestStep

\* While Load is at work nothing is added or removed.
LEMMA LoadsAlone ==
    ASSUME Requested, ~Racing, Loading, NEW r \in Requests
    PROVE  ~Adding(r) /\ ~Removing(r)
BY DEF Requested, Holds, Racing

\* Neither the bucket nor the list changes under Load.
LEMMA RequestLeavesLoad ==
    ASSUME IInv, \E r \in Requests : RequestStep(r), ~raced, ~Racing'
    PROVE  LoadInStep'
<1>0. TypeOK /\ Requested /\ ~Racing /\ LoadInStep /\ (\A s \in Requests : InStep(s)) /\ load' = load
      BY DEF IInv, Orderly, RequestStep
<1>1. CASE ~Loading
      BY <1>0, <1>1 DEF LoadInStep, Loading, AtKey
<1>2. CASE Loading
  <2>1. PICK r \in Requests : RequestStep(r)
        OBVIOUS
  <2>2. ~Adding(r) /\ ~Removing(r)
        BY <1>0, <1>2, LoadsAlone
  <2>3. Loading'
        BY <1>0, <1>2 DEF Loading
  <2>4. ASSUME NEW i \in Ids, Add(r, i) \/ Delete(r, i) PROVE FALSE
        BY <1>0, <2>3, <2>4, AddDoes, DeleteDoes DEF At, Racing
  <2>5. \/ \E i \in Ids : Patch(r, i)
        \/ Read(r) \/ SaveRow(r)
        BY <2>1, <2>2, <2>4 DEF RequestStep, Adding, Removing, Construct, AppendNode, Find, Shift
  <2>6. SaveRow(r) => req[r].id \in saved
        BY <1>0 DEF SaveRow, InStep, Patching
  <2>7. nodes' = nodes /\ saved' = saved
        BY <1>0, <2>5, <2>6, PatchDoes, ReadDoes, SaveRowDoes
  <2>8. QED
        BY <1>0, <2>7 DEF LoadInStep, Loading, AtKey, Lists
<1>3. QED
      BY <1>1, <1>2

\* A node that Load appends is saved and not yet listed.
LEMMA LoadLists ==
    ASSUME IInv, ~raced, LoadAppend
    PROVE  /\ load.keys[load.at] \in saved \ Listed
           /\ nodes' = Append(nodes, load.keys[load.at])
           /\ Len(nodes') = load.at /\ \A n \in 1..load.at : nodes'[n] = load.keys[n]
           /\ load'.pc = "done" => saved \subseteq Listed'
<1> DEFINE key == load.keys[load.at]
<1>0. TypeOK /\ LoadHolds /\ LoadInStep /\ AtKey /\ load.pc = "append"
      BY DEF IInv, Orderly, LoadAppend, AtKey
<1>1. /\ load.at \in 1..Len(load.keys) /\ Len(load.keys) \in Nat
      /\ load.keys \in Seq(Ids) /\ key \in Ids
      BY <1>0, LoadAppendDoes
<1>2. /\ IsInjective(load.keys) /\ ToSet(load.keys) = saved
      /\ Lists(load.at - 1)
      /\ load.seen = nodes /\ nodes \in Seq(Ids)
      BY <1>0 DEF LoadInStep, TypeOK
<1>3. nodes' = Append(nodes, key)
      BY <1>2 DEF LoadAppend
<1>4. key \in saved
      BY <1>1, <1>2 DEF ToSet
<1>5. key \notin Listed
  <2>1. ASSUME NEW n \in DOMAIN nodes PROVE nodes[n] # key
    <3>1. n \in 1..load.at - 1 /\ nodes[n] = load.keys[n]
          BY <1>2 DEF Lists
    <3>2. n \in DOMAIN load.keys /\ load.at \in DOMAIN load.keys /\ n # load.at
          BY <1>1, <3>1
    <3>3. QED
          BY <1>2, <3>1, <3>2 DEF IsInjective
  <2>2. QED
        BY <2>1 DEF Listed
<1>6. /\ DOMAIN nodes' = 1..Len(nodes) + 1
      /\ \A n \in DOMAIN nodes' : nodes'[n] = IF n <= Len(nodes) THEN nodes[n] ELSE key
      /\ Len(nodes') = Len(nodes) + 1
      BY <1>0, <1>1, <1>2, <1>3, AppendList
<1>7. Len(nodes') = load.at /\ \A n \in 1..load.at : nodes'[n] = load.keys[n]
  <2>1. Len(nodes) = load.at - 1 /\ \A n \in 1..load.at - 1 : nodes[n] = load.keys[n]
        BY <1>2 DEF Lists
  <2>2. DOMAIN nodes' = 1..load.at
        BY <1>1, <1>6, <2>1
  <2>3. ASSUME NEW n \in 1..load.at PROVE nodes'[n] = load.keys[n]
    <3>1. CASE n = load.at
          BY <1>1, <1>6, <2>1, <2>2, <3>1
    <3>2. CASE n # load.at
      <4>1. n \in 1..load.at - 1
            BY <1>1, <3>2
      <4>2. n <= Len(nodes) /\ n \in DOMAIN nodes'
            BY <1>1, <2>1, <2>2, <4>1
      <4>3. QED
            BY <1>6, <2>1, <4>1, <4>2
    <3>3. QED
          BY <3>1, <3>2
  <2>4. QED
        BY <1>1, <1>6, <2>1, <2>3
<1>8. load'.pc = "done" => saved \subseteq Listed'
  <2> SUFFICES ASSUME load'.pc = "done" PROVE saved \subseteq Listed'
      OBVIOUS
  <2>1. load.at = Len(load.keys)
        BY <1>0, <1>1, LoadAppendDoes
  <2>2. \A n \in DOMAIN load.keys : n \in DOMAIN nodes' /\ nodes'[n] = load.keys[n]
        BY <1>1, <1>2, <1>6, <1>7, <2>1 DEF Lists
  <2>3. QED
        BY <1>2, <2>2 DEF ToSet, Listed
<1>9. QED
      BY <1>3, <1>4, <1>5, <1>7, <1>8

LEMMA LoadInOrder ==
    ASSUME IInv, LoadStep, ~raced
    PROVE  Mirrors' /\ LoadInStep' /\ \A s \in Requests : InStep(s)'
<1>0. /\ TypeOK /\ Requested /\ LoadHolds /\ ~Racing /\ Mirrors /\ LoadInStep
      /\ \A s \in Requests : InStep(s)
      BY DEF IInv, Orderly
<1>1. UNCHANGED <<saved, invalid, req>> /\ Loading
      BY DEF LoadStep, LoadKeys, LoadKind, LoadFails, LoadRow, LoadNode, LoadAppend, Loading
<1>2. load \in Loader /\ nodes \in Seq(Ids)
      BY <1>0 DEF TypeOK
<1>3. \A s \in Requests : ~Adding(s) /\ ~Removing(s)
      BY <1>0, <1>1, LoadsAlone
<1>4. \A s \in Requests : InStep(s)'
      BY <1>0, <1>1, <1>3 DEF InStep, Adding, Removing, Patching
<1>5. Listed \subseteq saved /\ IsInjective(nodes)
      BY <1>0, <1>3 DEF Mirrors
<1>6. ASSUME nodes' = nodes, load'.pc = "done" => saved = {}
      PROVE  Mirrors'
      BY <1>1, <1>5, <1>6 DEF Mirrors, Listed, IsInjective
<1>7. CASE LoadKeys
  <2>1. PICK keys \in SetToSeqs(saved) :
           load' = [load EXCEPT !.pc = IF keys = <<>> THEN "done" ELSE "kind", !.keys = keys]
        BY <1>7 DEF LoadKeys
  <2>2. IsInjective(keys) /\ ToSet(keys) = saved
        BY <1>0, SavedIsFinite, LoadedIs DEF ToSet
  <2>3. /\ load'.pc = IF keys = <<>> THEN "done" ELSE "kind"
        /\ load'.keys = keys /\ load'.nil = load.nil /\ nodes' = nodes
        BY <1>2, <1>7, <2>1 DEF Loader, LoadKeys
  <2>4. Lists(0) /\ load.nil = {}
        BY <1>0, <1>1, <1>7 DEF LoadKeys, LoadInStep
  <2>5. keys = <<>> => saved = {}
        BY <2>2 DEF ToSet
  <2>6. LoadInStep'
        BY <1>1, <2>2, <2>3, <2>4 DEF LoadInStep, AtKey, Lists
  <2>7. QED
        BY <1>4, <1>6, <2>3, <2>5, <2>6
<1>8. CASE LoadKind \/ LoadFails
  <2>1. /\ load'.pc \in {"row", "failed"}
        /\ nodes' = nodes
        /\ load'.keys = load.keys /\ load'.nil = load.nil /\ load'.at = load.at
        /\ load'.pc = "row" => load.pc = "kind"
        BY <1>2, <1>8 DEF LoadKind, LoadFails, Loader
  <2>2. LoadInStep'
        BY <1>0, <1>1, <2>1 DEF LoadInStep, Loading, AtKey, Lists
  <2>3. QED
        BY <1>4, <1>6, <2>1, <2>2
<1>9. CASE LoadRow
  <2>1. AtKey /\ load.pc = "row" /\ load.nil = {} /\ Lists(0)
        BY <1>0, <1>1, <1>9 DEF LoadRow, AtKey, LoadInStep
  <2>2. /\ load.at \in 1..Len(load.keys) /\ Len(load.keys) \in Nat
        /\ load.keys[load.at] \in saved
    <3>1. load.at \in DOMAIN load.keys
          BY <1>0, <2>1 DEF LoadHolds
    <3>2. QED
          BY <1>0, <1>9, <2>1, <3>1, LoadRowDoes DEF LoadInStep, ToSet
  <2>3. /\ load'.pc = "kind" \/ (load'.pc = "list" /\ load'.at = 1)
        /\ load'.keys = load.keys /\ load'.nil = {} /\ nodes' = nodes
        BY <1>0, <1>9, <2>1, <2>2, LoadRowDoes
  <2>4. LoadInStep'
        BY <1>0, <1>1, <2>1, <2>3 DEF LoadInStep, AtKey, Lists
  <2>5. QED
        BY <1>4, <1>6, <2>3, <2>4
<1>10. CASE LoadNode
  <2>1. AtKey /\ load.pc = "list" /\ load.nil = {} /\ Lists(load.at - 1)
        BY <1>0, <1>1, <1>10 DEF LoadNode, AtKey, LoadInStep
  <2>2. /\ load'.pc = "append" /\ load'.seen = nodes /\ nodes' = nodes
        /\ load'.keys = load.keys /\ load'.nil = {} /\ load'.at = load.at
        BY <1>2, <1>10, <2>1 DEF LoadNode, Loader
  <2>3. LoadInStep'
        BY <1>0, <1>1, <2>1, <2>2 DEF LoadInStep, AtKey, Lists
  <2>4. QED
        BY <1>4, <1>6, <2>2, <2>3
<1>11. CASE LoadAppend
  <2> DEFINE key == load.keys[load.at]
  <2>1. AtKey /\ load.pc = "append" /\ load.nil = {}
        BY <1>0, <1>1, <1>11 DEF LoadAppend, AtKey, LoadInStep
  <2>2. /\ load.at \in 1..Len(load.keys) /\ Len(load.keys) \in Nat /\ key \in Ids
        BY <1>0, <1>11, LoadAppendDoes
  <2>3. /\ key \in saved \ Listed /\ nodes' = Append(nodes, key)
        /\ Len(nodes') = load.at /\ \A n \in 1..load.at : nodes'[n] = load.keys[n]
        /\ load'.pc = "done" => saved \subseteq Listed'
        BY <1>11, LoadLists
  <2>4. /\ \/ load'.pc = "list" /\ load'.at = load.at + 1
           \/ load'.pc = "done"
        /\ load'.keys = load.keys /\ load'.nil = {}
        BY <1>0, <1>11, <2>1, LoadAppendDoes
  <2>5. /\ DOMAIN nodes' = 1..Len(nodes) + 1
        /\ \A n \in DOMAIN nodes' : nodes'[n] = IF n <= Len(nodes) THEN nodes[n] ELSE key
        /\ Listed' = Listed \cup {key}
        BY <1>0, <1>2, <2>2, <2>3, AppendList DEF Listed
  <2>6. IsInjective(nodes)'
    <3>1. Len(nodes) \in Nat /\ DOMAIN nodes = 1..Len(nodes)
          BY <1>2
    <3>2. \A n \in DOMAIN nodes : nodes[n] # key
          BY <2>3 DEF Listed
    <3>3. QED
          BY <1>5, <2>5, <3>1, <3>2 DEF IsInjective
  <2>7. Mirrors'
        BY <1>1, <1>5, <2>3, <2>5, <2>6 DEF Mirrors
  <2>8. load'.pc = "list" => Lists(load.at - 1)'
    <3>1. load'.pc = "list" => (load.at - 1)' = load.at
          BY <2>2, <2>4
    <3>2. QED
          BY <2>3, <2>4, <3>1 DEF Lists
  <2>9. LoadInStep'
        BY <1>0, <1>1, <2>1, <2>4, <2>8 DEF LoadInStep, AtKey
  <2>10. QED
        BY <1>4, <2>7, <2>9
<1>12. QED
      BY <1>7, <1>8, <1>9, <1>10, <1>11 DEF LoadStep

LEMMA NextOrderly == IInv /\ [Next]_vars => Orderly'
<1> SUFFICES ASSUME IInv, [Next]_vars, ~raced'
             PROVE  ~Racing' /\ Mirrors' /\ LoadInStep' /\ \A r \in Requests : InStep(r)'
    BY DEF Orderly
<1>1. CASE (\E r \in Requests : RequestStep(r)) /\ raced' = (raced \/ Racing')
  <2>1. ~raced /\ ~Racing'
        BY <1>1
  <2>2. Requested'
        BY NextRequested
  <2>3. QED
        BY <1>1, <2>1, <2>2, NextInOrder, RequestLeavesLoad
<1>2. CASE LoadStep /\ raced' = (raced \/ Racing')
  <2>1. ~raced /\ ~Racing'
        BY <1>2
  <2>2. QED
        BY <1>2, <2>1, LoadInOrder
<1>3. CASE Restart
  <2>1. nodes' = <<>> /\ load' = ToLoad
        BY <1>3 DEF Restart
  <2>2. IsInjective(nodes)' /\ Listed' = {}
        BY <2>1 DEF Listed, IsInjective
  <2>3. \A r \in Requests : req'[r].pc = "idle" /\ req'[r].op = "none"
        BY <1>3 DEF Restart, Idle
  <2>4. ~Racing'
        BY <2>3 DEF Racing
  <2>5. Mirrors' /\ LoadInStep'
        BY <2>1, <2>2 DEF Mirrors, LoadInStep, ToLoad, AtKey, Lists
  <2>6. QED
        BY <2>3, <2>4, <2>5 DEF InStep, Adding, Removing, Patching
<1>4. CASE UNCHANGED vars
  <2>1. ~raced /\ UNCHANGED <<saved, nodes, invalid, req, load>>
        BY <1>4 DEF vars
  <2>2. ~Racing /\ Mirrors /\ LoadInStep /\ \A r \in Requests : InStep(r)
        BY <2>1 DEF IInv, Orderly
  <2>3. Listed' = Listed /\ Racing' = Racing
        BY <2>1 DEF Listed, Racing, Loading
  <2>4. LoadInStep'
        BY <2>1, <2>2 DEF LoadInStep, Loading, AtKey, Lists
  <2>5. QED
        BY <2>1, <2>2, <2>3, <2>4 DEF Mirrors, InStep, Adding, Removing, Patching, IsInjective
<1>5. QED
      BY <1>1, <1>2, <1>3, <1>4 DEF Next

(***************************************************************************)
(* The node manager implements Directory: each request is a call, which    *)
(* begins and returns where the request does.                              *)
(***************************************************************************)
\* A step of one request changes its own call and no other.
LEMMA CallMoves ==
    ASSUME NEW r \in Requests, Alone(r)
    PROVE  Calls' = [Calls EXCEPT ![r] = Calls'[r]]
BY DEF Calls, Alone

LEMMA CallWaits ==
    ASSUME NEW r \in Requests, NEW pc, Alone(r), Moves(r, pc)
    PROVE  Calls' = Calls
<1>1. Calls'[r] = Calls[r]
      BY DEF Calls, Moves
<1>2. QED
      BY <1>1, CallMoves DEF Calls

LEMMA CallReturns ==
    ASSUME NEW r \in Requests, Alone(r), Answered(r)'
    PROVE  D!Return(r)
<1>1. Calls'[r] = D!NoCall
      BY DEF Calls, Answered, D!NoCall
<1>2. QED
      BY <1>1, CallMoves DEF D!Return

LEMMA CallBegins ==
    ASSUME NEW r \in Requests, Holds(r), req[r].pc = "idle", NEW pc, NEW op, NEW i,
           Alone(r), At(r, pc, op, i)'
    PROVE  D!Begin(r, op, i)
<1>1. Calls[r] = D!NoCall
      BY DEF Calls, Holds, D!NoCall
<1>2. Calls'[r] = [op |-> op, id |-> i]
      BY DEF Calls, At
<1>3. QED
      BY <1>1, <1>2, CallMoves DEF D!Begin

\* What a request that is under way is called for.
LEMMA CallIs ==
    ASSUME NEW r \in Requests, Holds(r)
    PROVE  /\ Calls[r].id = req[r].id
           /\ Adding(r) => Calls[r].op = "add"
           /\ Removing(r) => Calls[r].op = "delete"
           /\ Patching(r) => Calls[r].op = "change"
<1>1. Calls[r] = [op |-> req[r].op, id |-> req[r].id]
      BY DEF Calls
<1>2. QED
      BY <1>1 DEF Holds, Adding, Removing, Patching

LEMMA CallBusy ==
    ASSUME NEW r \in Requests, Holds(r), Adding(r) \/ Removing(r) \/ Patching(r)
    PROVE  Calls[r] # D!NoCall /\ Calls[r].op # "none"
BY CallIs DEF D!NoCall

\* Requests that race are calls that overlap.
LEMMA RacingOverlaps == Requested /\ TypeOK /\ Racing => D!Overlap
<1> SUFFICES ASSUME Requested, TypeOK, Racing PROVE D!Overlap
    OBVIOUS
<1>0. \A r \in Requests : Holds(r) /\ Calls[r].op = req[r].op
      BY DEF Requested, Calls
<1>1. ASSUME NEW r \in Requests, NEW s \in Requests, r # s,
             req[r].pc = "append" /\ req[s].pc = "append"
      PROVE  D!Overlap
  <2>1. Calls[r].op = "add" /\ Calls[s].op = "add"
        BY <1>0, <1>1, CallIs DEF Adding
  <2>2. QED
        BY <1>1, <2>1 DEF D!Overlap
<1>2. ASSUME NEW r \in Requests, NEW s \in Requests, r # s,
             req[r].op = "delete" /\ req[s].pc # "idle"
      PROVE  D!Overlap
  <2>1. Calls[r].op = "delete"
        BY <1>0, <1>2
  <2>2. Adding(s) \/ Removing(s) \/ Patching(s)
        BY <1>2 DEF TypeOK, Request, Adding, Removing, Patching
  <2>3. Calls[s].op # "none"
        BY <1>0, <2>2, CallBusy
  <2>4. QED
        BY <1>2, <2>1, <2>3 DEF D!Overlap
<1>3. ASSUME Loading, NEW r \in Requests, req[r].op \in {"add", "delete"}
      PROVE  D!Overlap
  <2>1. Loaded \in {"reading", "listing"}
        BY <1>3 DEF Loading, Loaded
  <2>2. QED
        BY <1>0, <1>3, <2>1 DEF D!Overlap
<1>4. QED
      BY <1>1, <1>2, <1>3 DEF Racing

LEMMA ContestedClash == Contested = D!Clash
<1>1. ASSUME NEW r \in Requests, NEW i \in Ids, NEW op
      PROVE  (req[r].id = i /\ req[r].op = op) <=> (Calls[r] = [op |-> op, id |-> i])
      BY DEF Calls
<1>2. QED
      BY <1>1 DEF Contested, D!Clash

LEMMA ToSetIsListed == ToSet(nodes) = Listed /\ D!ToSet(nodes) = Listed
BY DEF ToSet, D!ToSet, Listed

\* A list of nodes that were generated.
LEMMA ListTyped == TypeOK /\ Generated => nodes \in Seq(used)
BY DEF TypeOK, Generated, Listed

LEMMA InitDirects == Init => D!Init
<1> SUFFICES ASSUME Init PROVE D!Init
    OBVIOUS
<1>1. Calls = [r \in Requests |-> D!NoCall]
      BY DEF Init, Calls, Idle, D!NoCall
<1>2. Loaded = "reading"
      BY DEF Init, Loaded, ToLoad
<1>3. QED
      BY <1>1, <1>2 DEF Init, D!Init

LEMMA AddDirects ==
    ASSUME IInv, NEW r \in Requests, NEW i \in Ids, Add(r, i)
    PROVE  D!CallStep(r)
<1>1. TypeOK /\ Holds(r)
      BY DEF IInv, Requested
<1>2. D!Begin(r, "add", i)
      BY <1>1, AddDoes, CallBegins
<1>3. D!Create(r, i)
      BY <1>1, <1>2, AddDoes DEF D!Create
<1>4. QED
      BY <1>3 DEF D!CallStep

LEMMA ConstructDirects ==
    ASSUME IInv, NEW r \in Requests, Construct(r)
    PROVE  D!Wait \/ D!CallStep(r)
<1>1. TypeOK /\ Holds(r)
      BY DEF IInv, Requested
<1>2. UNCHANGED <<saved, nodes, used, acked>>
      BY <1>1, ConstructDoes
<1>3. CASE Answered(r)'
  <2>1. Calls[r] # D!NoCall /\ Calls[r].op = "add"
        BY <1>1, ConstructDoes, CallBusy, CallIs DEF Adding
  <2>2. D!Return(r)
        BY <1>1, <1>3, ConstructDoes, CallReturns
  <2>3. QED
        BY <1>2, <2>1, <2>2 DEF D!End, D!CallStep
<1>4. CASE Moves(r, "append")
  <2>1. Calls' = Calls
        BY <1>1, <1>4, ConstructDoes, CallWaits
  <2>2. QED
        BY <1>2, <2>1 DEF D!Wait
<1>5. QED
      BY <1>1, <1>3, <1>4, ConstructDoes

LEMMA AppendDirects ==
    ASSUME IInv, IInv', NEW r \in Requests, AppendNode(r)
    PROVE  D!CallStep(r)
<1>1. TypeOK /\ Holds(r)
      BY DEF IInv, Requested
<1>2. saved' = saved /\ used' = used /\ acked' = acked \cup {req[r].id}
      BY <1>1, AppendDoes
<1>3. D!Return(r)
      BY <1>1, AppendDoes, CallReturns
<1>4. Calls[r].op = "add" /\ Calls[r].id = req[r].id
      BY <1>1, AppendDoes, CallIs DEF Adding
<1>5. \/ req[r].id \in saved /\ nodes' = Append(nodes, req[r].id)
      \/ raced /\ nodes' \in Seq(used)
  <2>1. CASE raced
    <3>1. (nodes \in Seq(used))'
          BY ListTyped, PTL DEF IInv
    <3>2. QED
          BY <2>1, <3>1, <1>2
  <2>2. CASE ~raced
    <3>1. InStep(r)
          BY <2>2 DEF IInv, Orderly
    <3>2. QED
          BY <1>1, <3>1, AppendDoes DEF InStep, Adding
  <2>3. QED
        BY <2>1, <2>2
<1>6. D!Confirm(r)
      BY <1>2, <1>3, <1>4, <1>5 DEF D!Confirm, D!Scrambled
<1>7. QED
      BY <1>6 DEF D!CallStep

LEMMA DeleteDirects ==
    ASSUME IInv, NEW r \in Requests, NEW i \in Ids, Delete(r, i)
    PROVE  D!CallStep(r)
<1>1. TypeOK /\ Holds(r)
      BY DEF IInv, Requested
<1>2. D!Begin(r, "delete", i)
      BY <1>1, DeleteDoes, CallBegins
<1>3. D!Delete(r, i)
      BY <1>1, <1>2, DeleteDoes DEF D!Delete
<1>4. QED
      BY <1>3 DEF D!CallStep

LEMMA FindDirects ==
    ASSUME IInv, NEW r \in Requests, Find(r)
    PROVE  D!Wait \/ D!CallStep(r)
<1>1. TypeOK /\ Holds(r)
      BY DEF IInv, Requested
<1>2. UNCHANGED <<saved, nodes, used, acked>>
      BY <1>1, FindDoes
<1>3. CASE req[r].id \notin Listed /\ Answered(r)'
  <2>1. Calls[r] # D!NoCall /\ Calls[r].id = req[r].id
        BY <1>1, FindDoes, CallBusy, CallIs DEF Removing
  <2>2. D!Return(r)
        BY <1>1, <1>3, FindDoes, CallReturns
  <2>3. QED
        BY <1>2, <1>3, <2>1, <2>2, ToSetIsListed DEF D!End, D!CallStep
<1>4. CASE Moves(r, "shift")
  <2>1. Calls' = Calls
        BY <1>1, <1>4, FindDoes, CallWaits
  <2>2. QED
        BY <1>2, <2>1 DEF D!Wait
<1>5. QED
      BY <1>1, <1>3, <1>4, FindDoes

LEMMA ShiftDirects ==
    ASSUME IInv, IInv', NEW r \in Requests, Shift(r)
    PROVE  D!CallStep(r)
<1>1. TypeOK /\ Holds(r)
      BY DEF IInv, Requested
<1>2. saved' = saved /\ used' = used /\ acked' = acked
      BY <1>1, ShiftDoes
<1>3. D!Return(r)
      BY <1>1, ShiftDoes, CallReturns
<1>4. Calls[r].op = "delete" /\ Calls[r].id = req[r].id
      BY <1>1, ShiftDoes, CallIs DEF Removing
<1>5. \/ /\ req[r].id \notin saved
         /\ \E n \in DOMAIN nodes : nodes[n] = req[r].id /\ nodes' = D!RemoveAt(nodes, n)
      \/ raced /\ nodes' \in Seq(used)
  <2>1. CASE raced
    <3>1. (nodes \in Seq(used))'
          BY ListTyped, PTL DEF IInv
    <3>2. QED
          BY <2>1, <3>1, <1>2
  <2>2. CASE ~raced
    <3>1. InStep(r)
          BY <2>2 DEF IInv, Orderly
    <3>2. req[r].id \notin saved /\ req[r].at \in DOMAIN nodes /\ nodes[req[r].at] = req[r].id
          BY <1>1, <3>1, ShiftDoes DEF InStep, Removing
    <3>3. nodes' = D!RemoveAt(nodes, req[r].at)
          BY <1>1, <3>2, ShiftDoes DEF RemoveAt, D!RemoveAt
    <3>4. QED
          BY <3>2, <3>3
  <2>3. QED
        BY <2>1, <2>2
<1>6. D!Unlist(r)
      BY <1>2, <1>3, <1>4, <1>5 DEF D!Unlist, D!Scrambled
<1>7. QED
      BY <1>6 DEF D!CallStep

LEMMA PatchDirects ==
    ASSUME IInv, NEW r \in Requests, NEW i \in Ids, Patch(r, i)
    PROVE  D!CallStep(r)
<1>1. TypeOK /\ Holds(r)
      BY DEF IInv, Requested
<1>2. D!Begin(r, "change", i)
      BY <1>1, PatchDoes, CallBegins
<1>3. UNCHANGED <<saved, nodes, used, acked>> /\ i \in Listed
      BY <1>1, PatchDoes
<1>4. D!Change(r, i)
      BY <1>2, <1>3, ToSetIsListed DEF D!Change
<1>5. QED
      BY <1>4 DEF D!CallStep

LEMMA ReadDirects ==
    ASSUME IInv, NEW r \in Requests, Read(r)
    PROVE  D!Wait \/ D!CallStep(r)
<1>1. TypeOK /\ Holds(r)
      BY DEF IInv, Requested
<1>2. UNCHANGED <<saved, nodes, used, acked>>
      BY <1>1, ReadDoes
<1>3. CASE Answered(r)'
  <2>1. Calls[r] # D!NoCall /\ Calls[r].op = "change"
        BY <1>1, ReadDoes, CallBusy, CallIs DEF Patching
  <2>2. D!Return(r)
        BY <1>1, <1>3, ReadDoes, CallReturns
  <2>3. QED
        BY <1>2, <2>1, <2>2 DEF D!End, D!CallStep
<1>4. CASE Moves(r, "save")
  <2>1. Calls' = Calls
        BY <1>1, <1>4, ReadDoes, CallWaits
  <2>2. QED
        BY <1>2, <2>1 DEF D!Wait
<1>5. QED
      BY <1>1, <1>3, <1>4, ReadDoes

LEMMA SaveRowDirects ==
    ASSUME IInv, NEW r \in Requests, SaveRow(r)
    PROVE  D!CallStep(r)
<1>1. TypeOK /\ Holds(r) /\ req[r].pc = "save"
      BY DEF IInv, Requested, SaveRow
<1>2. UNCHANGED <<nodes, used, acked>> /\ D!Return(r)
      BY <1>1, SaveRowDoes, CallReturns
<1>3. Calls[r] # D!NoCall /\ Calls[r].op = "change" /\ Calls[r].id = req[r].id
      BY <1>1, CallBusy, CallIs DEF Patching
<1>4. CASE saved' = saved
      BY <1>2, <1>3, <1>4 DEF D!End, D!CallStep
<1>5. CASE saved' = saved \cup {req[r].id}
  <2>1. req[r].id \in saved \cup contested
        BY <1>1 DEF IInv, Generated, SavesBack, Holds
  <2>2. QED
        BY <1>2, <1>3, <1>5, <2>1 DEF D!WriteBack, D!CallStep
<1>6. QED
      BY <1>1, <1>4, <1>5, SaveRowDoes

LEMMA LoadDirects ==
    ASSUME IInv, IInv', LoadStep
    PROVE  \/ UNCHANGED Loaded /\ D!Wait
           \/ D!ReadSaved \/ D!ListSaved \/ D!Die
<1>0. TypeOK /\ LoadHolds /\ load \in Loader
      BY DEF IInv, TypeOK
<1>1. UNCHANGED <<saved, used, acked>> /\ Calls' = Calls
      BY DEF LoadStep, histVars, Calls
<1>2. ~raced => LoadInStep
      BY DEF IInv, Orderly
<1>3. CASE LoadKeys
  <2>1. PICK keys \in SetToSeqs(saved) :
           load' = [load EXCEPT !.pc = IF keys = <<>> THEN "done" ELSE "kind", !.keys = keys]
        BY <1>3 DEF LoadKeys
  <2>2. keys = <<>> => saved = {}
        BY <1>0, SavedIsFinite, LoadedIs
  <2>3. load'.pc = IF keys = <<>> THEN "done" ELSE "kind"
        BY <1>0, <2>1 DEF Loader
  <2>4. Loaded = "reading" /\ Loaded' = IF keys = <<>> THEN "done" ELSE "reading"
        BY <1>3, <2>3 DEF LoadKeys, Loaded
  <2>5. D!Wait
        BY <1>1, <1>3 DEF LoadKeys, D!Wait
  <2>6. QED
        BY <2>2, <2>4, <2>5 DEF D!ReadSaved
<1>4. CASE LoadKind \/ LoadFails
  <2>1. Loaded = "reading" /\ Loaded' \in {"reading", "failed"}
        BY <1>0, <1>4 DEF LoadKind, LoadFails, Loaded, Loader
  <2>2. D!Wait
        BY <1>1, <1>4 DEF LoadKind, LoadFails, D!Wait
  <2>3. QED
        BY <2>1, <2>2 DEF D!ReadSaved
<1>5. CASE LoadRow
  <2>1. load'.pc \in {"kind", "list"}
        BY <1>0, <1>5, LoadRowDoes
  <2>2. Loaded = "reading" /\ Loaded' \in {"reading", "listing"}
        BY <1>5, <2>1 DEF LoadRow, Loaded
  <2>3. D!Wait
        BY <1>1, <1>5 DEF LoadRow, D!Wait
  <2>4. QED
        BY <2>2, <2>3 DEF D!ReadSaved
<1>6. CASE LoadNode
  <2>1. D!Wait /\ Loaded = "listing"
        BY <1>1, <1>6 DEF LoadNode, D!Wait, Loaded
  <2>2. CASE load.keys[load.at] \in load.nil
    <3>1. load.nil # {} /\ Loading
          BY <1>6, <2>2 DEF LoadNode, Loading
    <3>2. raced
          BY <1>2, <3>1 DEF LoadInStep
    <3>3. Loaded' = "dead"
          BY <1>0, <1>6, <2>2 DEF LoadNode, Loaded, Loader
    <3>4. QED
          BY <2>1, <3>2, <3>3 DEF D!Die
  <2>3. CASE load.keys[load.at] \notin load.nil
    <3>1. Loaded' = "listing"
          BY <1>0, <1>6, <2>3 DEF LoadNode, Loaded, Loader
    <3>2. QED
          BY <2>1, <3>1
  <2>4. QED
        BY <2>2, <2>3
<1>7. CASE LoadAppend
  <2>1. load'.pc \in {"list", "done"}
        BY <1>0, <1>7, LoadAppendDoes
  <2>2. /\ Loaded = "listing" /\ Loaded' \in {"listing", "done"}
        /\ Loaded' = "done" => load'.pc = "done"
        BY <1>7, <2>1 DEF LoadAppend, Loaded
  <2>3. CASE raced
    <3>1. (nodes \in Seq(used))'
          BY ListTyped, PTL DEF IInv
    <3>2. nodes' \in Seq(used)
          BY <1>1, <3>1
    <3>3. QED
          BY <1>1, <2>2, <2>3, <3>2 DEF D!ListSaved, D!Scrambled
  <2>4. CASE ~raced
    <3>1. /\ load.keys[load.at] \in saved \ Listed
          /\ nodes' = Append(nodes, load.keys[load.at])
          /\ load'.pc = "done" => saved \subseteq Listed'
          BY <1>7, <2>4, LoadLists
    <3>2. D!ToSet(nodes) = Listed /\ D!ToSet(nodes') = Listed'
          BY DEF D!ToSet, Listed
    <3>3. QED
          BY <1>1, <2>2, <3>1, <3>2 DEF D!ListSaved
  <2>5. QED
        BY <2>3, <2>4
<1>8. QED
      BY <1>3, <1>4, <1>5, <1>6, <1>7 DEF LoadStep

LEMMA RestartDirects == Restart /\ raced' = FALSE /\ UNCHANGED contested => D!Restart
<1> SUFFICES ASSUME Restart, raced' = FALSE, UNCHANGED contested PROVE D!Restart
    OBVIOUS
<1>1. UNCHANGED <<saved, used, acked>> /\ nodes' = <<>>
      BY DEF Restart, histVars
<1>2. Calls' = [r \in Requests |-> D!NoCall]
      BY DEF Restart, Calls, Idle, D!NoCall
<1>3. Loaded' = "reading"
      BY DEF Restart, Loaded, ToLoad
<1>4. QED
      BY <1>1, <1>2, <1>3 DEF D!Restart

\* The history of the overlaps.
LEMMA OverlapsDirect ==
    ASSUME IInv, IInv', raced' = (raced \/ Racing'), contested' = contested \cup Contested'
    PROVE  raced' \in {raced, raced \/ D!Overlap'} /\ contested' = contested \cup D!Clash'
<1>1. raced \in BOOLEAN
      BY DEF IInv, TypeOK
<1>2. Racing' => D!Overlap'
      BY RacingOverlaps, PTL DEF IInv
<1>3. (Contested = D!Clash)'
      BY ContestedClash, PTL
<1>4. CASE Racing'
      BY <1>1, <1>2, <1>3, <1>4
<1>5. CASE ~Racing'
      BY <1>1, <1>3, <1>5
<1>6. QED
      BY <1>4, <1>5

LEMMA RequestDirects ==
    ASSUME IInv, IInv', NEW r \in Requests, RequestStep(r)
    PROVE  D!Wait \/ D!CallStep(r)
<1>1. CASE \E i \in Ids : Add(r, i) \/ Delete(r, i)
      BY <1>1, AddDirects, DeleteDirects
<1>2. CASE \E i \in Ids : Patch(r, i)
      BY <1>2, PatchDirects
<1>3. CASE Construct(r) \/ AppendNode(r)
      BY <1>3, ConstructDirects, AppendDirects
<1>4. CASE Find(r) \/ Shift(r)
      BY <1>4, FindDirects, ShiftDirects
<1>5. CASE Read(r) \/ SaveRow(r)
      BY <1>5, ReadDirects, SaveRowDirects
<1>6. QED
      BY <1>1, <1>2, <1>3, <1>4, <1>5 DEF RequestStep

LEMMA NextDirects == IInv /\ IInv' /\ [Next]_vars => [D!Next]_(D!vars)
<1> SUFFICES ASSUME IInv, IInv', [Next]_vars PROVE [D!Next]_(D!vars)
    OBVIOUS
<1>1. CASE /\ load.pc # "dead"
           /\ LoadStep \/ \E r \in Requests : RequestStep(r)
           /\ raced' = (raced \/ Racing')
           /\ contested' = contested \cup Contested'
  <2>1. Loaded # "dead"
        BY <1>1 DEF Loaded
  <2>2. \/ UNCHANGED Loaded /\ (D!Wait \/ \E r \in Requests : D!CallStep(r))
        \/ D!ReadSaved \/ D!ListSaved \/ D!Die
    <3>1. CASE LoadStep
          BY <3>1, LoadDirects
    <3>2. CASE \E r \in Requests : RequestStep(r)
      <4>1. Loaded' = Loaded
            BY <3>2 DEF RequestStep, Loaded
      <4>2. QED
            BY <3>2, <4>1, RequestDirects
    <3>3. QED
          BY <1>1, <3>1, <3>2
  <2>3. raced' \in {raced, raced \/ D!Overlap'} /\ contested' = contested \cup D!Clash'
        BY <1>1, OverlapsDirect
  <2>4. QED
        BY <2>1, <2>2, <2>3 DEF D!Next
<1>2. CASE Restart /\ raced' = FALSE /\ UNCHANGED contested
      BY <1>2, RestartDirects DEF D!Next
<1>3. CASE UNCHANGED vars
      BY <1>3 DEF vars, histVars, D!vars, Calls, Loaded
<1>4. QED
      BY <1>1, <1>2, <1>3 DEF Next

(***************************************************************************)
(* The theorems.                                                           *)
(***************************************************************************)
\* The inductive invariant holds in every behaviour.
THEOREM Invariance == Spec => []IInv
<1>1. IInv /\ [Next]_vars => IInv'
      BY NextTypeOK, NextRequested, NextLoadHolds, NextRemoved, NextOrderly DEF IInv
<1>2. QED
      BY Initially, <1>1, PTL DEF Spec

\* Every variable keeps its type.
THEOREM TypeCorrect == Spec => []TypeOK
<1>1. IInv => TypeOK
      BY DEF IInv
<1>2. QED
      BY <1>1, Invariance, PTL

\* No restart and no race loses an acknowledged node (nodeman.go:120-196).
THEOREM AckedStaySaved == Spec => []AckedIsSaved
<1>1. IInv => AckedIsSaved
      BY DEF IInv
<1>2. QED
      BY <1>1, Invariance, PTL

\* Only a PATCH that overlapped the removal brings a node back (nodeman.go:198-247).
THEOREM RemovedStayRemoved == Spec => []RemovedStaysRemoved
<1>1. IInv => RemovedStaysRemoved
      BY DEF IInv
<1>2. QED
      BY <1>1, Invariance, PTL

\* Once Load is over and when nothing raced, the list and the bucket agree, as far as Load
\* could read it (nodeman.go:59-104, 120-220).
THEOREM ListMirrors == Spec => []ListMirrorsBucket
<1>1. IInv => ListMirrorsBucket
  <2> SUFFICES ASSUME IInv, ~raced, ~Loading, \A r \in Requests : req[r].pc = "idle"
               PROVE  /\ ToSet(nodes) \subseteq saved
                      /\ IsInjective(nodes)
                      /\ load.pc # "failed" => saved \subseteq ToSet(nodes) \cup invalid
      BY DEF ListMirrorsBucket
  <2>1. Mirrors /\ load.pc # "dead" /\ load \in Loader
        BY DEF IInv, Orderly, LoadInStep, TypeOK
  <2>2. ToSet(nodes) = Listed
        BY DEF ToSet, Listed
  <2>3. load.pc \in {"failed", "done"}
        BY <2>1 DEF Loading, Loader
  <2>4. QED
        BY <2>1, <2>2, <2>3 DEF Mirrors, Adding, Removing
<1>2. QED
      BY <1>1, Invariance, PTL

\* Each request, and Load, acts as a whole on list and bucket, unless they have raced, and
\* what a race can do has the bounds of Directory (nodeman.go:59-104, 120-305).
THEOREM Refinement == Spec => CallsTakeEffect
<1>1. Init => D!Init
      BY InitDirects
<1>2. IInv /\ IInv' /\ [Next]_vars => [D!Next]_(D!vars)
      BY NextDirects
<1>3. QED
      BY <1>1, <1>2, Invariance, PTL DEF Spec, CallsTakeEffect, D!Spec
=============================================================================
