--------------------------- MODULE Updates_proof ---------------------------
(***************************************************************************)
(* Proofs about Updates, for every number of updates, clients, progress    *)
(* lines and restarts.  IInv says who holds the flag m.updating (Holder),  *)
(* what may be said of an installation (Truth) and who still owes the      *)
(* database its outcome (Debt).                                            *)
(***************************************************************************)
EXTENDS Updates, TLAPS

Live == {"running", "succeeded", "failed"}
Busy == {"claimed", "created", "saved"}

\* One goroutine at a time works on m.update: a StartUpdate that has won the swap, or
\* the one waiting for the process that this StartUpdate launched.
Holder ==
    /\ waiter = "wait" <=> proc \in Live
    /\ waiter # "none" =>
          /\ updating
          /\ update = installing /\ installing \in Ids
          /\ request[installing] = "returned"
    /\ \A i \in Ids : request[i] \in Busy => updating /\ waiter = "none"
    /\ \A i, j \in Ids : request[i] \in Busy /\ request[j] \in Busy => i = j
    /\ \A i \in Ids : request[i] \in {"created", "saved"} => update = i

\* Who is called installed has been; an installation has no outcome while it runs.
Truth ==
    /\ state = "installed" => update \in Ids /\ outcome[update] = "succeeded"
    /\ \A i \in Ids : db[i] = "installed" => outcome[i] = "succeeded"
    /\ \A i \in Ids : request[i] \in Busy \cup {"idle"} => outcome[i] = None
    /\ proc = "running" => outcome[installing] = None
    /\ proc = "succeeded" => outcome[installing] = "succeeded"

\* An outcome is in the database or in the log, or the goroutine that waited for it
\* has yet to save it, or the device was restarted before it could.
Debt ==
    /\ waiter = "save" => state \notin {None, "started"}
    /\ \A i \in Ids : outcome[i] # None =>
          \/ db[i] \notin {None, "started"} \/ i \in logged
          \/ installing = i /\ waiter \in {"wait", "save"}
          \/ request[i] = "lost"

\* An installation has its outcome once it has ended, and what is saved or about to be
\* saved of an update does not run ahead of it.
Records ==
    /\ proc = "failed" => outcome[installing] = "failed"
    /\ waiter \in {"save", "notify"} => outcome[installing] # None
    /\ waiter = "save" /\ state = "failed" => outcome[installing] = "failed"
    /\ \A i \in Ids :
          /\ request[i] \in {"idle", "claimed", "created"} => db[i] = None
          /\ request[i] = "created" => state \in {"started", "cancelled", "completed"}
          /\ request[i] = "saved" \/ (waiter \in {"wait", "save"} /\ installing = i)
                => db[i] \notin {"installed", "failed"}

IInv == TypeOK /\ Holder /\ Truth /\ Debt /\ Records

\* What Holder, Truth and Debt speak of, and the notifications leave alone.
coreVars == <<updating, update, state, request, db, logged, installing, proc, outcome, waiter>>

\* A step of the notifications: of the goroutines that send them or of the clients.
Notifying ==
    \/ \E i \in Ids : ReadProgress(i) \/ ReaderMoves(i)
    \/ \E n \in Notifiers : NotifyStep(n)
    \/ \E c \in Clients : ClientStep(c)

\* Notifications leave the rest alone.
LEMMA NotifyingIsApart == Notifying => UNCHANGED coreVars
BY DEF Notifying, coreVars, ReadProgress, ReaderMoves, NotifyStep, Visit, Deliver, ClientStep,
       Subscribe, PumpReady, PumpLeaves, BeginNotify, memVars, procVars, clientVars,
       notifyVars

\* The type invariant, preserved by every step.
LEMMA TypeStep == IInv /\ [Next]_vars => TypeOK'
<1> SUFFICES ASSUME IInv, [Next]_vars PROVE TypeOK'
    OBVIOUS
<1> USE NoneAssumption, BoundAssumption
    DEF IInv, TypeOK, RequestMoves, BeginNotify, memVars, procVars, notifyVars, clientVars
<1>1. ASSUME NEW i \in Ids, Claim(i) PROVE TypeOK'
      BY <1>1 DEF Claim
<1>2. ASSUME NEW i \in Ids, Create(i) PROVE TypeOK'
      BY <1>2 DEF Create, State
<1>3. ASSUME NEW i \in Ids, SaveStarted(i) PROVE TypeOK'
      BY <1>3 DEF SaveStarted
<1>4. ASSUME NEW i \in Ids, StartFails(i) PROVE TypeOK'
      BY <1>4 DEF StartFails
<1>5. ASSUME NEW i \in Ids, LaunchFails(i) PROVE TypeOK'
      BY <1>5 DEF LaunchFails, State
<1>6. ASSUME NEW i \in Ids, Launch(i) PROVE TypeOK'
      BY <1>6 DEF Launch
<1>7. ASSUME NEW i \in Ids, ReadProgress(i) PROVE TypeOK'
  <2>1. lines' \in [Ids -> 0..ProgressBound]
        BY <1>7 DEF ReadProgress
  <2>2. todo' \in [Notifiers -> SUBSET Clients]
        BY <1>7 DEF ReadProgress, Subscribed
  <2>3. reader' \in [Ids -> {"none", "reading", "notify"}]
        BY <1>7 DEF ReadProgress
  <2>4. UNCHANGED <<memVars, request, db, logged, procVars, target, waiter, clientVars, cancel,
                    artifact, restarts>>
        BY <1>7 DEF ReadProgress
  <2>5. QED
        BY <2>1, <2>2, <2>3, <2>4
<1>8. ASSUME NEW i \in Ids, ReaderMoves(i) PROVE TypeOK'
      BY <1>8 DEF ReaderMoves
<1>9. CASE MenderEnds
  <2>1. installing \in Ids
        BY <1>9 DEF MenderEnds, Holder, Live
  <2>2. QED
        BY <1>9, <2>1 DEF MenderEnds
<1>10. CASE WaitReturns
      BY <1>10 DEF WaitReturns, State
<1>11. CASE SaveOutcome
  <2>1. update \in Ids
        BY <1>11 DEF SaveOutcome, Holder
  <2>2. todo' \in [Notifiers -> SUBSET Clients]
        BY <1>11 DEF SaveOutcome, Subscribed
  <2>3. db' \in [Ids -> State \cup {None}] /\ logged' \in SUBSET Ids /\ waiter' = "notify"
        BY <1>11, <2>1 DEF SaveOutcome
  <2>4. UNCHANGED <<memVars, request, procVars, target, reader, lines, clientVars, cancel,
                    artifact, restarts>>
        BY <1>11 DEF SaveOutcome
  <2>5. QED
        BY <2>2, <2>3, <2>4
<1>12. CASE Release
      BY <1>12 DEF Release
<1>13. ASSUME NEW n \in Notifiers, NEW c \in Clients, Visit(n, c) PROVE TypeOK'
      BY <1>13 DEF Visit
<1>14. ASSUME NEW n \in Notifiers, NEW c \in Clients, Deliver(n, c) PROVE TypeOK'
      BY <1>14 DEF Deliver
<1>15. ASSUME NEW c \in Clients, Subscribe(c) PROVE TypeOK'
  <2>1. todo' \in [Notifiers -> SUBSET Clients]
        BY <1>15 DEF Subscribe
  <2>2. QED
        BY <1>15, <2>1 DEF Subscribe
<1>16. ASSUME NEW c \in Clients, PumpReady(c) PROVE TypeOK'
      BY <1>16 DEF PumpReady
<1>17. ASSUME NEW c \in Clients, PumpLeaves(c) PROVE TypeOK'
      BY <1>17 DEF PumpLeaves
<1>18. CASE CancelKill
  <2>1. installing \in Ids
        BY <1>18 DEF CancelKill, Holder, Live
  <2>2. QED
        BY <1>18, <2>1 DEF CancelKill
<1>19. CASE CancelMark
      BY <1>19 DEF CancelMark, State
<1>20. CASE Decide
      BY <1>20 DEF Decide, CommitUpdate, State
<1>21. CASE Restart
  <2>1. restarts' \in 0..RestartBound
        BY <1>21 DEF Restart
  <2>2. /\ request' \in [Ids -> {"idle", "claimed", "created", "saved", "returned", "lost"}]
        /\ reader' \in [Ids -> {"none", "reading", "notify"}]
        BY <1>21 DEF Restart
  <2>3. /\ todo' \in [Notifiers -> SUBSET Clients]
        /\ target' \in [Notifiers -> Clients \cup {None}]
        BY <1>21 DEF Restart
  <2>4. /\ watched' \in [Clients -> Ids \cup {None}]
        /\ pump' \in [Clients -> {"none", "upgrading", "select", "writing", "gone"}]
        BY <1>21 DEF Restart
  <2>5. QED
        BY <1>21, <2>1, <2>2, <2>3, <2>4 DEF Restart
<1>22. CASE UNCHANGED vars
      BY <1>22 DEF vars
<1>23. QED
      BY <1>1, <1>2, <1>3, <1>4, <1>5, <1>6, <1>7, <1>8, <1>9, <1>10, <1>11, <1>12, <1>13, <1>14,
         <1>15, <1>16, <1>17, <1>18, <1>19, <1>20, <1>21, <1>22
      DEF Next, StartStep, WaiterStep, NotifyStep, ClientStep

\* Who holds the flag.
LEMMA HolderStep == IInv /\ [Next]_vars => Holder'
<1> SUFFICES ASSUME IInv, [Next]_vars PROVE Holder'
    OBVIOUS
<1> USE NoneAssumption DEF IInv, TypeOK, Holder, RequestMoves, BeginNotify, memVars, procVars, Live, Busy
<1>1. ASSUME NEW i \in Ids, Claim(i) PROVE Holder'
      BY <1>1 DEF Claim
<1>2. ASSUME NEW i \in Ids, Create(i) PROVE Holder'
      BY <1>2 DEF Create
<1>3. ASSUME NEW i \in Ids, SaveStarted(i) PROVE Holder'
      BY <1>3 DEF SaveStarted
<1>4. ASSUME NEW i \in Ids, StartFails(i) PROVE Holder'
      BY <1>4 DEF StartFails
<1>5. ASSUME NEW i \in Ids, LaunchFails(i) PROVE Holder'
      BY <1>5 DEF LaunchFails
<1>6. ASSUME NEW i \in Ids, Launch(i) PROVE Holder'
      BY <1>6 DEF Launch
<1>7. CASE MenderEnds
      BY <1>7 DEF MenderEnds
<1>8. CASE WaitReturns
      BY <1>8 DEF WaitReturns
<1>9. CASE SaveOutcome
      BY <1>9 DEF SaveOutcome
<1>10. CASE Release
      BY <1>10 DEF Release
<1>11. CASE CancelKill
      BY <1>11 DEF CancelKill
<1>12. CASE CancelMark
      BY <1>12 DEF CancelMark
<1>13. CASE Decide
      BY <1>13 DEF Decide, CommitUpdate
<1>14. CASE Restart
      BY <1>14 DEF Restart
<1>15. CASE UNCHANGED coreVars
      BY <1>15 DEF coreVars
<1>16. QED
  <2>1. Notifying \/ UNCHANGED vars => UNCHANGED coreVars
        BY NotifyingIsApart DEF vars, coreVars, memVars, procVars
  <2>2. QED
        BY <2>1, <1>1, <1>2, <1>3, <1>4, <1>5, <1>6, <1>7, <1>8, <1>9, <1>10, <1>11, <1>12, <1>13, <1>14, <1>15
        DEF Next, Notifying, StartStep, WaiterStep

\* What may be said of an installation.
LEMMA TruthStep == IInv /\ [Next]_vars => Truth'
<1> SUFFICES ASSUME IInv, [Next]_vars PROVE Truth'
    OBVIOUS
<1> USE NoneAssumption DEF IInv, TypeOK, Holder, Truth, RequestMoves, BeginNotify, memVars, procVars, Live, Busy, State
<1>1. ASSUME NEW i \in Ids, Claim(i) PROVE Truth'
      BY <1>1 DEF Claim
<1>2. ASSUME NEW i \in Ids, Create(i) PROVE Truth'
      BY <1>2 DEF Create
<1>3. ASSUME NEW i \in Ids, SaveStarted(i) PROVE Truth'
      BY <1>3 DEF SaveStarted
<1>4. ASSUME NEW i \in Ids, StartFails(i) PROVE Truth'
      BY <1>4 DEF StartFails
<1>5. ASSUME NEW i \in Ids, LaunchFails(i) PROVE Truth'
      BY <1>5 DEF LaunchFails
<1>6. ASSUME NEW i \in Ids, Launch(i) PROVE Truth'
      BY <1>6 DEF Launch
<1>7. CASE MenderEnds
  <2>1. /\ installing \in Ids
        /\ \A i \in Ids : i # installing => outcome'[i] = outcome[i]
        /\ outcome'[installing] = proc'
        /\ outcome[installing] = None
        /\ request[installing] = "returned"
        BY <1>7 DEF MenderEnds
  <2>2. UNCHANGED <<state, update, db, request, installing>> /\ proc' # "running"
        BY <1>7 DEF MenderEnds
  <2>3. QED
        BY <2>1, <2>2
<1>8. CASE WaitReturns
      BY <1>8 DEF WaitReturns
<1>9. CASE SaveOutcome
      BY <1>9 DEF SaveOutcome
<1>10. CASE Release
      BY <1>10 DEF Release
<1>11. CASE CancelKill
  <2>1. CASE proc = "running"
    <3>1. /\ installing \in Ids
          /\ outcome' = [outcome EXCEPT ![installing] = "failed"] /\ proc' = "failed"
          /\ outcome[installing] = None
          /\ request[installing] = "returned"
          BY <1>11, <2>1 DEF CancelKill
    <3>2. UNCHANGED <<state, update, db, request, installing>>
          BY <1>11 DEF CancelKill
    <3>3. QED
          BY <3>1, <3>2
  <2>2. CASE proc # "running"
        BY <1>11, <2>2 DEF CancelKill
  <2>3. QED
        BY <2>1, <2>2
<1>12. CASE CancelMark
      BY <1>12 DEF CancelMark
<1>13. CASE Decide
      BY <1>13 DEF Decide, CommitUpdate
<1>14. CASE Restart
      BY <1>14 DEF Restart
<1>15. CASE UNCHANGED coreVars
      BY <1>15 DEF coreVars
<1>16. QED
  <2>1. Notifying \/ UNCHANGED vars => UNCHANGED coreVars
        BY NotifyingIsApart DEF vars, coreVars, memVars, procVars
  <2>2. QED
        BY <2>1, <1>1, <1>2, <1>3, <1>4, <1>5, <1>6, <1>7, <1>8, <1>9, <1>10, <1>11, <1>12, <1>13, <1>14, <1>15
        DEF Next, Notifying, StartStep, WaiterStep

\* The outcome that is still to be saved.
LEMMA DebtStep == IInv /\ [Next]_vars => Debt'
<1> SUFFICES ASSUME IInv, [Next]_vars PROVE Debt'
    OBVIOUS
<1> USE NoneAssumption DEF IInv, TypeOK, Holder, Truth, Debt, RequestMoves, BeginNotify, memVars, procVars, Live, Busy, State
<1>1. ASSUME NEW i \in Ids, Claim(i) PROVE Debt'
      BY <1>1 DEF Claim
<1>2. ASSUME NEW i \in Ids, Create(i) PROVE Debt'
      BY <1>2 DEF Create
<1>3. ASSUME NEW i \in Ids, SaveStarted(i) PROVE Debt'
      BY <1>3 DEF SaveStarted
<1>4. ASSUME NEW i \in Ids, StartFails(i) PROVE Debt'
      BY <1>4 DEF StartFails
<1>5. ASSUME NEW i \in Ids, LaunchFails(i) PROVE Debt'
      BY <1>5 DEF LaunchFails
<1>6. ASSUME NEW i \in Ids, Launch(i) PROVE Debt'
      BY <1>6 DEF Launch
<1>7. CASE MenderEnds
      BY <1>7 DEF MenderEnds
<1>8. CASE WaitReturns
      BY <1>8 DEF WaitReturns
<1>9. CASE SaveOutcome
      BY <1>9 DEF SaveOutcome
<1>10. CASE Release
      BY <1>10 DEF Release
<1>11. CASE CancelKill
      BY <1>11 DEF CancelKill
<1>12. CASE CancelMark
      BY <1>12 DEF CancelMark
<1>13. CASE Decide
      BY <1>13 DEF Decide, CommitUpdate
<1>14. CASE Restart
      BY <1>14 DEF Restart
<1>15. CASE UNCHANGED coreVars
      BY <1>15 DEF coreVars
<1>16. QED
  <2>1. Notifying \/ UNCHANGED vars => UNCHANGED coreVars
        BY NotifyingIsApart DEF vars, coreVars, memVars, procVars
  <2>2. QED
        BY <2>1, <1>1, <1>2, <1>3, <1>4, <1>5, <1>6, <1>7, <1>8, <1>9, <1>10, <1>11, <1>12, <1>13, <1>14, <1>15
        DEF Next, Notifying, StartStep, WaiterStep

\* What is recorded of an update, and when.
LEMMA RecordsStep == IInv /\ [Next]_vars => Records'
<1> SUFFICES ASSUME IInv, [Next]_vars PROVE Records'
    OBVIOUS
<1> USE NoneAssumption DEF IInv, TypeOK, Holder, Truth, Records, RequestMoves, BeginNotify, memVars, procVars, Live, Busy, State
<1>1. ASSUME NEW i \in Ids, Claim(i) PROVE Records'
      BY <1>1 DEF Claim
<1>2. ASSUME NEW i \in Ids, Create(i) PROVE Records'
      BY <1>2 DEF Create
<1>3. ASSUME NEW i \in Ids, SaveStarted(i) PROVE Records'
      BY <1>3 DEF SaveStarted
<1>4. ASSUME NEW i \in Ids, StartFails(i) PROVE Records'
      BY <1>4 DEF StartFails
<1>5. ASSUME NEW i \in Ids, LaunchFails(i) PROVE Records'
      BY <1>5 DEF LaunchFails
<1>6. ASSUME NEW i \in Ids, Launch(i) PROVE Records'
      BY <1>6 DEF Launch
<1>7. CASE MenderEnds
      BY <1>7 DEF MenderEnds
<1>8. CASE WaitReturns
      BY <1>8 DEF WaitReturns
<1>9. CASE SaveOutcome
      BY <1>9 DEF SaveOutcome, Debt
<1>10. CASE Release
      BY <1>10 DEF Release
<1>11. CASE CancelKill
      BY <1>11 DEF CancelKill
<1>12. CASE CancelMark
      BY <1>12 DEF CancelMark
<1>13. CASE Decide
      BY <1>13 DEF Decide, CommitUpdate
<1>14. CASE Restart
      BY <1>14 DEF Restart
<1>15. CASE UNCHANGED coreVars
      BY <1>15 DEF coreVars
<1>16. QED
  <2>1. Notifying \/ UNCHANGED vars => UNCHANGED coreVars
        BY NotifyingIsApart DEF vars, coreVars, memVars, procVars
  <2>2. QED
        BY <2>1, <1>1, <1>2, <1>3, <1>4, <1>5, <1>6, <1>7, <1>8, <1>9, <1>10, <1>11, <1>12, <1>13, <1>14, <1>15
        DEF Next, Notifying, StartStep, WaiterStep

\* The inductive invariant: TypeOK, Holder, Truth and Debt hold in every reachable state.
THEOREM Invariance == Spec => []IInv
<1>1. Init => IInv
  <2>1. Init => TypeOK
    <3>1. 0 \in 0..RestartBound /\ 0 \in 0..ProgressBound
          BY BoundAssumption
    <3>2. Init => /\ todo \in [Notifiers -> SUBSET Clients]
                  /\ target \in [Notifiers -> Clients \cup {None}]
          BY DEF Init
    <3>3. QED
          BY <3>1, <3>2 DEF Init, TypeOK
  <2>2. Init => Holder
        BY DEF Init, Holder, Live, Busy
  <2>3. Init => Truth
        BY NoneAssumption DEF Init, Truth, State
  <2>4. Init => Debt
        BY DEF Init, Debt
  <2>5. Init => Records
        BY DEF Init, Records
  <2>6. QED
        BY <2>1, <2>2, <2>3, <2>4, <2>5 DEF IInv
<1>2. IInv /\ [Next]_vars => IInv'
      BY TypeStep, HolderStep, TruthStep, DebtStep, RecordsStep DEF IInv
<1>3. QED
      BY <1>1, <1>2, PTL DEF Spec

\* Every variable keeps its type.
THEOREM TypeCorrect == Spec => []TypeOK
<1>1. IInv => TypeOK
      BY DEF IInv
<1>2. QED
      BY <1>1, Invariance, PTL

\* However many requests start updates, and whatever is cancelled, committed or
\* restarted meanwhile: the mender process there is installs m.update, under the flag,
\* and no other StartUpdate has got past its compare-and-swap (mender.go:113-222).
THEOREM OneAtATime == Spec => []OneInstallation
<1>1. IInv => OneInstallation
      BY DEF IInv, Holder, OneInstallation, Live, Busy, TypeOK
<1>2. QED
      BY <1>1, Invariance, PTL

\* No update is called installed, in memory or in the database, that mender did not
\* install.
THEOREM InstalledIsHonest == Spec => []InstalledIsTrue
<1>1. IInv => InstalledIsTrue
      BY DEF IInv, Truth, InstalledIsTrue
<1>2. QED
      BY <1>1, Invariance, PTL

\* No outcome is lost on the way to the database without a line in the log, except to
\* a restart.
THEOREM OutcomeIsSaved == Spec => []OutcomeSaved
<1>1. IInv => OutcomeSaved
      BY DEF IInv, Holder, Debt, OutcomeSaved
<1>2. QED
      BY <1>1, Invariance, PTL

(***************************************************************************)
(* Updates implements Installer.                                           *)
(***************************************************************************)
LEMMA StageAdvances ==
    ASSUME NEW i \in Ids, NEW from, NEW to, Stage(i) = from, Stage(i)' = to,
           \A j \in Ids \ {i} : Stage(j)' = Stage(j)
    PROVE  L!Advance(i, from, to)
BY DEF L!Advance

LEMMA StagesStay ==
    ASSUME \A j \in Ids : Stage(j)' = Stage(j)
    PROVE  UNCHANGED [j \in Ids |-> Stage(j)]
OBVIOUS

\* Most steps change nothing that Installer sees.
LEMMA SameTurn ==
    ASSUME UNCHANGED <<updating, Turn, db, logged, artifact>>, \A j \in Ids : Stage(j)' = Stage(j)
    PROVE  UNCHANGED L!vars
BY DEF L!vars

\* Whose turn it is: the request that has won the swap, or the waiting goroutine.
LEMMA TurnIs ==
    ASSUME IInv
    PROVE  /\ \A i \in Ids : request[i] \in Busy => Turn = {i} /\ Stage(i) = "begun"
           /\ waiter # "none" => Turn = {installing}
           /\ ~updating => Turn = {}
           /\ \A i \in Ids : request[i] = "idle" => Stage(i) = "new"
BY NoneAssumption DEF IInv, Holder, Truth, Turn, Stage, Busy

\* Every behaviour of the updater is one of Installer, for any number of updates,
\* clients and restarts: the compare-and-swap and the goroutines behind it are a lock
\* whose holder alone writes the record (mender.go:113-222).
THEOREM Refinement == Spec => UpdatesTakeTurns
<1>1. Init => L!Init
      BY DEF Init, L!Init, Turn, Stage
<1>2. IInv /\ [Next]_vars => [L!Next]_(L!vars)
  <2> SUFFICES ASSUME IInv, [Next]_vars PROVE [L!Next]_(L!vars)
      OBVIOUS
  <2> USE NoneAssumption, TurnIs DEF RequestMoves, memVars, procVars, Busy
  <2>1. ASSUME NEW i \in Ids, Claim(i) PROVE L!Begin(i)
    <3>1. Stage(i)' = "begun" /\ \A j \in Ids \ {i} : Stage(j)' = Stage(j)
          BY <2>1 DEF Claim, Stage, IInv, TypeOK, Truth
    <3>2. Turn' = {i}
          BY <2>1 DEF Claim, Turn, IInv, TypeOK, Holder
    <3>3. L!Advance(i, "new", "begun")
          BY <2>1, <3>1, StageAdvances DEF Claim
    <3>4. QED
          BY <2>1, <3>2, <3>3 DEF Claim, L!Begin
  <2>2. ASSUME NEW i \in Ids, Create(i) PROVE UNCHANGED L!vars
    <3>1. \A j \in Ids : Stage(j)' = Stage(j)
          BY <2>2 DEF Create, Stage, IInv, TypeOK
    <3>2. Turn' = Turn
          BY <2>2 DEF Create, Turn, IInv, TypeOK
    <3>3. QED
          BY <2>2, <3>1, <3>2, SameTurn DEF Create
  <2>3. ASSUME NEW i \in Ids, SaveStarted(i) PROVE L!Announce(i)
    <3>1. \A j \in Ids : Stage(j)' = Stage(j)
          BY <2>3 DEF SaveStarted, Stage, IInv, TypeOK
    <3>2. Turn' = Turn
          BY <2>3 DEF SaveStarted, Turn, IInv, TypeOK
    <3>3. state \in {"started", "cancelled", "completed"} /\ L!Write(i, state)
          BY <2>3 DEF SaveStarted, IInv, Records, L!Write
    <3>4. QED
          BY <2>3, <3>1, <3>2, <3>3, StagesStay DEF SaveStarted, L!Announce
  <2>4. ASSUME NEW i \in Ids, StartFails(i) \/ LaunchFails(i) PROVE L!GiveUp(i)
    <3>1. request[i] \in Busy /\ request' = [request EXCEPT ![i] = "returned"]
          BY <2>4 DEF StartFails, LaunchFails
    <3>2. UNCHANGED <<updating, waiter, installing, proc, outcome, artifact>>
          BY <2>4 DEF StartFails, LaunchFails
    <3>3. Stage(i)' = "over" /\ \A j \in Ids \ {i} : Stage(j)' = Stage(j)
          BY <3>1, <3>2 DEF Stage, IInv, TypeOK, Truth, Holder, Live
    <3>4. Turn' = {}
          BY <3>1, <3>2 DEF Turn, IInv, TypeOK, Holder
    <3>5. \/ UNCHANGED <<db, logged>>
          \/ L!Write(i, "failed") /\ UNCHANGED logged
          \/ logged' = logged \cup {i} /\ UNCHANGED db
          BY <2>4 DEF StartFails, LaunchFails, L!Write
    <3>6. L!Advance(i, "begun", "over")
          BY <3>1, <3>3, StageAdvances
    <3>7. QED
          BY <3>1, <3>2, <3>4, <3>5, <3>6 DEF L!GiveUp
  <2>5. ASSUME NEW i \in Ids, Launch(i) PROVE L!Run(i)
    <3>1. Stage(i)' = "running" /\ \A j \in Ids \ {i} : Stage(j)' = Stage(j)
          BY <2>5 DEF Launch, Stage, IInv, TypeOK, Truth, Holder, Live
    <3>2. Turn' = {i} /\ Turn = {i}
          BY <2>5 DEF Launch, Turn, IInv, TypeOK, Holder
    <3>3. L!Advance(i, "begun", "running")
          BY <2>5, <3>1, StageAdvances DEF Launch
    <3>4. QED
          BY <2>5, <3>2, <3>3 DEF Launch, L!Run
  <2>6. ASSUME NEW i \in Ids, i = installing, MenderEnds \/ (CancelKill /\ proc = "running")
        PROVE  L!End(i)
    <3>1. /\ waiter # "none" /\ request[i] = "returned"
          /\ proc = "running" /\ outcome[i] = None
          BY <2>6 DEF MenderEnds, IInv, Holder, Truth, Live
    <3>2. /\ outcome' = [outcome EXCEPT ![i] = proc']
          /\ \/ proc' = "succeeded" /\ artifact' = "installed"
             \/ proc' = "failed" /\ UNCHANGED artifact
          /\ UNCHANGED <<updating, request, db, logged, installing, waiter>>
          BY <2>6 DEF MenderEnds, CancelKill
    <3>3. Stage(i) = "running"
          BY <2>6, <3>1 DEF Stage
    <3>4. Stage(i)' = proc' /\ \A j \in Ids \ {i} : Stage(j)' = Stage(j)
          BY <2>6, <3>1, <3>2 DEF Stage, State, IInv, TypeOK
    <3>5. Turn = {i} /\ Turn' = Turn
          BY <2>6, <3>1, <3>2 DEF Turn
    <3>6. L!Advance(i, "running", "succeeded") \/ proc' # "succeeded"
          BY <3>1, <3>3, <3>4, StageAdvances
    <3>7. L!Advance(i, "running", "failed") \/ proc' # "failed"
          BY <3>1, <3>3, <3>4, StageAdvances
    <3>8. QED
          BY <3>1, <3>2, <3>5, <3>6, <3>7 DEF L!End
  <2>7. ASSUME WaitReturns \/ (CancelKill /\ proc # "running") PROVE UNCHANGED L!vars
    <3>1. /\ proc \in {"succeeded", "failed"} /\ proc' # "running"
          /\ waiter # "none" /\ waiter' # "none"
          /\ UNCHANGED <<updating, request, db, logged, installing, outcome, artifact>>
          BY <2>7 DEF WaitReturns, CancelKill, IInv, Holder, Live
    <3>2. \A j \in Ids : Stage(j)' = Stage(j)
          BY <3>1 DEF Stage
    <3>3. Turn' = Turn
          BY <3>1 DEF Turn
    <3>4. QED
          BY <3>1, <3>2, <3>3, SameTurn
  <2>8. CASE SaveOutcome
    <3>1. /\ installing \in Ids /\ update = installing /\ outcome[installing] \in {"succeeded", "failed"}
          /\ db[installing] \notin {"installed", "failed"}
          /\ state \in {"cancelled", "completed", outcome[installing]} \cup
                         {IF outcome[installing] = "succeeded" THEN "installed" ELSE "failed"}
          BY <2>8 DEF SaveOutcome, IInv, TypeOK, Holder, Truth, Debt, Records, State
    <3>2. \A j \in Ids : Stage(j)' = Stage(j)
          BY <2>8 DEF SaveOutcome, Stage
    <3>3. Turn' = Turn /\ Turn = {installing}
          BY <2>8 DEF SaveOutcome, Turn
    <3>4. Stage(installing) = outcome[installing]
          BY <3>1 DEF Stage, State
    <3>5. /\ \/ L!Write(installing, state) /\ UNCHANGED logged
             \/ logged' = logged \cup {installing} /\ UNCHANGED db
          /\ UNCHANGED <<updating, artifact>>
          BY <2>8, <3>1 DEF SaveOutcome, L!Write
    <3>6. state \in {"cancelled", "completed",
                     IF Stage(installing) = "succeeded" THEN "installed" ELSE "failed"}
          BY <3>1, <3>4 DEF IInv, TypeOK, State
    <3>7. L!Conclude(installing)
          BY <3>1, <3>2, <3>3, <3>4, <3>5, <3>6, StagesStay DEF L!Conclude, L!Ended, L!Final
    <3>8. QED
          BY <3>1, <3>7 DEF L!Next
  <2>9. CASE Release
    <3>1. /\ installing \in Ids /\ request[installing] = "returned"
          /\ outcome[installing] \in {"succeeded", "failed"}
          /\ db[installing] \notin {None, "started"} \/ installing \in logged
          BY <2>9 DEF Release, IInv, TypeOK, Holder, Debt, Records
    <3>2. \A j \in Ids : Stage(j)' = Stage(j)
          BY <2>9 DEF Release, Stage
    <3>3. Turn' = {} /\ Turn = {installing}
          BY <2>9 DEF Release, Turn, IInv, Holder
    <3>4. Stage(installing) = outcome[installing]
          BY <3>1 DEF Stage, State
    <3>5. L!Release(installing)
          BY <2>9, <3>1, <3>2, <3>3, <3>4, StagesStay DEF Release, L!Release, L!Ended
    <3>6. QED
          BY <3>1, <3>5 DEF L!Next
  <2>10. CASE CancelMark \/ Notifying \/ UNCHANGED vars
    <3>1. UNCHANGED <<updating, request, db, logged, installing, proc, outcome, waiter, artifact>>
          BY <2>10, NotifyingIsApart
          DEF CancelMark, Notifying, coreVars, vars, ReadProgress, ReaderMoves, NotifyStep, Visit,
              Deliver, ClientStep, Subscribe, PumpReady, PumpLeaves
    <3>2. Turn' = Turn /\ \A j \in Ids : Stage(j)' = Stage(j)
          BY <3>1 DEF Turn, Stage
    <3>3. QED
          BY <3>1, <3>2, SameTurn
  <2>11. CASE Decide
    <3>1. UNCHANGED <<updating, request, db, logged, installing, proc, outcome, waiter>>
          BY <2>11 DEF Decide
    <3>2. Turn' = Turn /\ \A j \in Ids : Stage(j)' = Stage(j)
          BY <3>1 DEF Turn, Stage
    <3>3. L!Commit
          BY <2>11, <3>1, <3>2, StagesStay DEF Decide, CommitUpdate, L!Commit
    <3>4. QED
          BY <3>3 DEF L!Next
  <2>12. CASE Restart
    <3>1. /\ updating' = FALSE /\ waiter' = "none" /\ proc' = "none"
          /\ UNCHANGED <<db, logged, installing, outcome, artifact>>
          /\ \A j \in Ids : request'[j] = IF request[j] = "idle" THEN "idle" ELSE "lost"
          BY <2>12 DEF Restart
    <3>2. Turn' = {}
          BY <3>1 DEF Turn
    <3>3. \A j \in Ids : Stage(j)' = IF Stage(j) \in {"begun", "running"} THEN "over" ELSE Stage(j)
          BY <3>1 DEF Stage, IInv, TypeOK
    <3>4. L!Restart
          BY <3>1, <3>2, <3>3 DEF L!Restart
    <3>5. QED
          BY <3>4 DEF L!Next
  <2>13. ASSUME NEW i \in Ids, StartStep(i) PROVE L!Next \/ UNCHANGED L!vars
    <3>1. CASE Create(i)
          BY <3>1, <2>2
    <3>2. CASE ~Create(i)
          BY <3>2, <2>13, <2>1, <2>3, <2>4, <2>5 DEF StartStep, L!Next
    <3>3. QED
          BY <3>1, <3>2
  <2>14. CASE MenderEnds \/ CancelKill
    <3>1. CASE MenderEnds \/ (CancelKill /\ proc = "running")
      <4>1. installing \in Ids
            BY <3>1 DEF MenderEnds, IInv, Holder, Live
      <4>2. QED
            BY <3>1, <4>1, <2>6 DEF L!Next
    <3>2. CASE CancelKill /\ proc # "running"
          BY <3>2, <2>7
    <3>3. QED
          BY <2>14, <3>1, <3>2
  <2>15. QED
        BY <2>7, <2>8, <2>9, <2>10, <2>11, <2>12, <2>13, <2>14
        DEF Next, WaiterStep, Notifying
<1>3. QED
      BY <1>1, <1>2, Invariance, PTL DEF Spec, UpdatesTakeTurns, L!Spec
=============================================================================
