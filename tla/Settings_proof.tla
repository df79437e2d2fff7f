--------------------------- MODULE Settings_proof ---------------------------
(***************************************************************************)
(* The safety of Settings, for any number of settings, values, requests,   *)
(* operations and restarts.                                                *)
(***************************************************************************)
EXTENDS Settings, TLAPS

(***************************************************************************)
(* The inductive invariant.                                                *)
(***************************************************************************)
\* Requests are served once everything is restored.
Served == boot # "serving" => \A r \in Requests : req[r] = Idle

\* Of two requests that save one setting, the setting is contested; a request that is
\* about to save any other has the dispenser go by its value.
Savers ==
    \A r \in Requests, f \in Fields : Saving(r, f) =>
        /\ req[r].value \in Values
        /\ \A q \in Requests \ {r} : Saving(q, f) => f \in contested
        /\ f \notin contested => mem[f] = req[r].value

\* What a request claims to have saved is there, and nobody is about to save another.
Claims ==
    \A f \in Fields :
        /\ \A r \in Requests : claim[r][f] # None => db[f] = claim[r][f]
        /\ (\E q \in Requests : Saving(q, f)) =>
              promise[f] = None /\ \A r \in Requests : claim[r][f] = None

\* The dispenser agrees with the database from the moment it has restored the settings.
InAgreement ==
    \A f \in Fields :
        boot # "settings" /\ f \notin contested \cup unsaved /\ ~(\E r \in Requests : Saving(r, f))
            => mem[f] = db[f]

\* A generated key that is about to be saved replaces none; that of the point of
\* sale is in use when the API's turn comes.
Keys ==
    /\ boot = "settings" => restoring = "pos"
    /\ boot = "save" => key[restoring] # 0
    /\ boot = "save" /\ restoring \notin trouble => dbKey[restoring] = 0
    /\ boot \in {"read", "save"} /\ restoring = "api" /\ "pos" \notin trouble =>
          key["pos"] = dbKey["pos"] /\ dbKey["pos"] # 0

Due == due \subseteq answered /\ ~rogue

KeptAll == \A f \in Fields : Kept(f)

Settled == Served /\ Savers /\ Claims /\ InAgreement /\ KeptAll

IInv == TypeOK /\ Settled /\ Keys /\ OneAddress /\ Due

LEMMA IdleIs == Idle \in Request
<1>1. (CHOOSE f \in Fields : TRUE) \in Fields
      BY FieldsAssumption
<1>2. QED
      BY <1>1, BoundAssumption DEF Idle, Request, Setting

LEMMA IdleHas == Idle.pc = "idle" /\ ~Idle.reboot
BY DEF Idle

LEMMA Initially == Init => IInv
<1> USE DEF Init
<1> SUFFICES ASSUME Init PROVE IInv
    OBVIOUS
<1>1. TypeOK
  <2>1. Idle \in Request /\ None \in Setting
        BY IdleIs DEF Setting
  <2>2. db \in [Fields -> Setting] /\ mem \in [Fields -> Setting] /\ promise \in [Fields -> Setting]
        BY <2>1
  <2>3. req \in [Requests -> Request] /\ claim \in [Requests -> [Fields -> Setting]]
        BY <2>1
  <2>4. /\ dbKey \in [Services -> Nat] /\ key \in [Services -> Nat] /\ minted \in Nat
        /\ served \in [Services -> SUBSET Nat] /\ trouble \in SUBSET Services
        OBVIOUS
  <2>5. /\ boot \in {"settings", "read", "save", "serving"} /\ restoring \in Services
        /\ restarts \in 0..RestartBound
        BY BoundAssumption DEF Services
  <2>6. /\ due \in SUBSET Requests /\ answered \in SUBSET Requests /\ rogue \in BOOLEAN
        /\ contested \in SUBSET Fields /\ unsaved \in SUBSET Fields
        OBVIOUS
  <2>7. QED
        BY <2>2, <2>3, <2>4, <2>5, <2>6, Zenon DEF TypeOK
<1>2. Served /\ Savers /\ Claims /\ InAgreement /\ KeptAll
      BY DEF Served, Savers, Claims, InAgreement, KeptAll, Kept, Saving, Idle
<1>3. Keys /\ OneAddress /\ Due
      BY DEF Keys, OneAddress, Due, Services
<1>4. QED
      BY <1>1, <1>2, <1>3 DEF IInv, Settled

(***************************************************************************)
(* What each step of a request does.                                       *)
(***************************************************************************)
\* It leaves the other requests alone.
Alone(r) == \A q \in Requests \ {r} : req'[q] = req[q]

LEMMA BeginDoes ==
    ASSUME TypeOK, NEW r \in Requests, Begin(r)
    PROVE  /\ Alone(r) /\ req' \in [Requests -> Request]
           /\ req[r].pc # "save" /\ req'[r].pc = "ops"
<1>1. req \in [Requests -> Request]
      BY DEF TypeOK
<1>2. [Idle EXCEPT !.pc = "ops"] \in Request /\ [Idle EXCEPT !.pc = "ops"].pc = "ops"
      BY IdleIs DEF Request
<1>3. QED
      BY <1>1, <1>2 DEF Begin, Alone

LEMMA SetMemoryDoes ==
    ASSUME TypeOK, NEW r \in Requests, NEW f \in Fields, NEW v \in Values, SetMemory(r, f, v)
    PROVE  /\ Alone(r) /\ req' \in [Requests -> Request]
           /\ req[r].pc = "ops"
           /\ req'[r].pc = "save" /\ req'[r].field = f /\ req'[r].value = v
<1>1. req \in [Requests -> Request] /\ req[r] \in Request
      BY DEF TypeOK
<1> DEFINE new == [req[r] EXCEPT !.pc = "save", !.ops = @ + 1, !.field = f, !.value = v]
<1>2. new \in Request
  <2>1. req[r].ops + 1 \in 0..OpBound
        BY <1>1, BoundAssumption DEF SetMemory, Operation, Request
  <2>2. QED
        BY <1>1, <2>1 DEF Request, Setting
<1>3. new.pc = "save" /\ new.field = f /\ new.value = v
      BY <1>1 DEF Request
<1>4. req' = [req EXCEPT ![r] = new]
      BY DEF SetMemory
<1> HIDE DEF new
<1>5. req[r].pc = "ops"
      BY DEF SetMemory, Operation
<1>6. Alone(r) /\ req' \in [Requests -> Request] /\ req'[r] = new
      BY <1>1, <1>2, <1>4 DEF Alone
<1>7. QED
      BY <1>3, <1>5, <1>6

LEMMA SaveDoes ==
    ASSUME TypeOK, NEW r \in Requests, Save(r)
    PROVE  /\ Alone(r) /\ req' \in [Requests -> Request]
           /\ req[r].pc = "save" /\ req'[r].pc # "save"
           /\ req'[r].reboot => req[r].reboot
<1>1. req \in [Requests -> Request] /\ req[r] \in Request
      BY DEF TypeOK
<1> DEFINE new == [req[r] EXCEPT !.pc = "ops"]
<1>2. new \in Request /\ new.pc = "ops" /\ new.reboot = req[r].reboot
      BY <1>1 DEF Request
<1>3. req' = [req EXCEPT ![r] = new] \/ req' = [req EXCEPT ![r] = Idle]
      BY DEF Save
<1>4. Idle \in Request /\ Idle.pc = "idle" /\ ~Idle.reboot
      BY IdleIs DEF Idle
<1> HIDE DEF new
<1>5. QED
      BY <1>1, <1>2, <1>3, <1>4 DEF Save, Alone

LEMMA SetRebootDoes ==
    ASSUME TypeOK, NEW r \in Requests, SetReboot(r)
    PROVE  /\ Alone(r) /\ req' \in [Requests -> Request]
           /\ req[r].pc = "ops" /\ req'[r].pc = "ops"
<1>1. req \in [Requests -> Request] /\ req[r] \in Request
      BY DEF TypeOK
<1> DEFINE new == [req[r] EXCEPT !.ops = @ + 1, !.reboot = TRUE]
<1>2. new \in Request /\ new.pc = req[r].pc
  <2>1. req[r].ops + 1 \in 0..OpBound
        BY <1>1, BoundAssumption DEF SetReboot, Operation, Request
  <2>2. QED
        BY <1>1, <2>1 DEF Request
<1>3. req' = [req EXCEPT ![r] = new]
      BY DEF SetReboot
<1> HIDE DEF new
<1>4. QED
      BY <1>1, <1>2, <1>3 DEF SetReboot, Operation, Alone

LEMMA AnswerDoes ==
    ASSUME TypeOK, NEW r \in Requests, Refuse(r) \/ Respond(r)
    PROVE  /\ Alone(r) /\ req' \in [Requests -> Request]
           /\ req[r].pc = "ops" /\ req'[r].pc = "idle"
<1>1. Idle \in Request /\ Idle.pc = "idle"
      BY IdleIs DEF Idle
<1>2. QED
      BY <1>1 DEF TypeOK, Refuse, Respond, Operation, Alone

(***************************************************************************)
(* The types                                                               *)
(***************************************************************************)
LEMMA NextKeyType ==
    ASSUME restoring \in Services, served \in [Services -> SUBSET Nat],
           boot \in {"settings", "read", "save", "serving"},
           key' \in [Services -> Nat], NextKey
    PROVE  /\ boot' \in {"settings", "read", "save", "serving"} /\ restoring' \in Services
           /\ served' \in [Services -> SUBSET Nat]
BY DEF NextKey, Services

LEMMA BootType ==
    ASSUME TypeOK, RestoreSettings \/ ReadKey \/ SaveKey
    PROVE  TypeOK'
<1> USE DEF TypeOK
<1>1. CASE RestoreSettings
  <2>1. mem' \in [Fields -> Setting] /\ unsaved' \in SUBSET Fields
        BY <1>1 DEF RestoreSettings, Setting
  <2>2. QED
        BY <1>1, <2>1 DEF RestoreSettings, keyVars, powerVars
<1>2. CASE ReadKey
  <2>1. key' \in [Services -> Nat] /\ minted' \in Nat /\ trouble' \in SUBSET Services
        BY <1>2 DEF ReadKey, Mint
  <2>2. /\ boot' \in {"settings", "read", "save", "serving"} /\ restoring' \in Services
        /\ served' \in [Services -> SUBSET Nat]
        BY <1>2, <2>1, NextKeyType DEF ReadKey, Mint
  <2>3. QED
        BY <1>2, <2>1, <2>2 DEF ReadKey, settingVars, powerVars
<1>3. CASE SaveKey
  <2>1. key' = key /\ dbKey' \in [Services -> Nat] /\ trouble' \in SUBSET Services
        BY <1>3 DEF SaveKey
  <2>2. /\ boot' \in {"settings", "read", "save", "serving"} /\ restoring' \in Services
        /\ served' \in [Services -> SUBSET Nat]
        BY <1>3, <2>1, NextKeyType DEF SaveKey
  <2>3. QED
        BY <1>3, <2>1, <2>2 DEF SaveKey, settingVars, powerVars
<1>4. QED
      BY <1>1, <1>2, <1>3

LEMMA RequestType ==
    ASSUME TypeOK, NEW r \in Requests,
           \/ Begin(r) \/ Save(r) \/ Refuse(r) \/ Respond(r) \/ SetReboot(r)
           \/ \E f \in Fields, v \in Values : SetMemory(r, f, v)
    PROVE  TypeOK'
<1> None \in Setting /\ Values \subseteq Setting
    BY DEF Setting
<1>1. CASE Begin(r)
  <2>1. req' \in [Requests -> Request]
        BY <1>1, BeginDoes
  <2>2. claim' \in [Requests -> [Fields -> Setting]]
        BY <1>1 DEF Begin, TypeOK
  <2>3. QED
        BY <1>1, <2>1, <2>2 DEF Begin, TypeOK, keyVars, bootVars, powerVars
<1>2. CASE Save(r)
  <2>1. req' \in [Requests -> Request]
        BY <1>2, SaveDoes
  <2>2. req[r] \in Request
        BY DEF TypeOK
  <2>3. req[r].field \in Fields /\ req[r].value \in Setting
        BY <2>2 DEF Request
  <2>4. db' \in [Fields -> Setting] /\ unsaved' \in SUBSET Fields
        BY <1>2, <2>3 DEF Save, TypeOK
  <2>5. claim' \in [Requests -> [Fields -> Setting]]
    <3>1. CASE claim' = claim
          BY <3>1 DEF TypeOK
    <3>2. CASE claim' = [claim EXCEPT ![r] = [claim[r] EXCEPT ![req[r].field] = req[r].value]]
          BY <3>2, <2>3 DEF TypeOK
    <3>3. QED
          BY <1>2, <3>1, <3>2 DEF Save
  <2>6. QED
        BY <1>2, <2>1, <2>4, <2>5 DEF Save, TypeOK, keyVars, bootVars, powerVars
<1>3. CASE Refuse(r)
  <2>1. req' \in [Requests -> Request]
        BY <1>3, AnswerDoes
  <2>2. QED
        BY <1>3, <2>1 DEF Refuse, TypeOK, settingVars, keyVars, bootVars, powerVars
<1>4. CASE Respond(r)
  <2>1. req' \in [Requests -> Request]
        BY <1>4, AnswerDoes
  <2>2. promise' \in [Fields -> Setting]
        BY <1>4 DEF Respond, TypeOK
  <2>3. due' \in SUBSET Requests /\ answered' \in SUBSET Requests
        BY <1>4 DEF Respond, TypeOK
  <2>4. QED
        BY <1>4, <2>1, <2>2, <2>3 DEF Respond, TypeOK, keyVars, bootVars
<1>5. CASE SetReboot(r)
  <2>1. req' \in [Requests -> Request]
        BY <1>5, SetRebootDoes
  <2>2. QED
        BY <1>5, <2>1 DEF SetReboot, TypeOK, settingVars, keyVars, bootVars, powerVars
<1>6. ASSUME NEW f \in Fields, NEW v \in Values, SetMemory(r, f, v)
      PROVE  TypeOK'
  <2>1. req' \in [Requests -> Request]
        BY <1>6, SetMemoryDoes
  <2>2. mem' \in [Fields -> Setting] /\ promise' \in [Fields -> Setting]
        BY <1>6 DEF SetMemory, TypeOK
  <2>3. claim' \in [Requests -> [Fields -> Setting]]
        BY <1>6 DEF SetMemory, TypeOK
  <2>4. contested' \in SUBSET Fields
        BY <1>6 DEF SetMemory, TypeOK
  <2>5. QED
        BY <1>6, <2>1, <2>2, <2>3, <2>4 DEF SetMemory, TypeOK, keyVars, bootVars, powerVars
<1>7. QED
      BY <1>1, <1>2, <1>3, <1>4, <1>5, <1>6

LEMMA DownType ==
    ASSUME TypeOK, Down, rogue' \in BOOLEAN
    PROVE  TypeOK'
<1>1. req' \in [Requests -> Request]
      BY IdleIs DEF Down
<1>2. /\ mem' \in [Fields -> Setting] /\ key' \in [Services -> Nat]
      /\ claim' \in [Requests -> [Fields -> Setting]]
      BY DEF Down, Setting
<1>3. /\ boot' \in {"settings", "read", "save", "serving"} /\ restoring' \in Services
      /\ restarts' \in 0..RestartBound
      BY BoundAssumption DEF Down, Services, TypeOK
<1>4. QED
      BY <1>1, <1>2, <1>3 DEF Down, TypeOK

LEMMA TypeStep == TypeOK /\ [Next]_vars => TypeOK'
<1> SUFFICES ASSUME TypeOK, [Next]_vars PROVE TypeOK'
    OBVIOUS
<1>1. CASE RestoreSettings \/ ReadKey \/ SaveKey
      BY <1>1, BootType
<1>2. ASSUME NEW r \in Requests, RequestStep(r)
      PROVE  TypeOK'
  <2>1. CASE Reboot(r)
    <3>1. CASE Down /\ rogue' = (rogue \/ r \notin answered)
          BY <3>1, DownType DEF TypeOK
    <3>2. CASE /\ due' = due \ {r} /\ answered' = answered \ {r}
               /\ UNCHANGED <<settingVars, keyVars, bootVars, req, rogue>>
          BY <3>2 DEF TypeOK, settingVars, keyVars, bootVars
    <3>3. QED
          BY <2>1, <3>1, <3>2 DEF Reboot
  <2>2. QED
        BY <1>2, <2>1, RequestType DEF RequestStep
<1>3. CASE Restart
      BY <1>3, DownType DEF Restart, TypeOK
<1>4. CASE UNCHANGED vars
      BY <1>4 DEF vars, TypeOK, settingVars, keyVars, bootVars, powerVars
<1>5. QED
      BY <1>1, <1>2, <1>3, <1>4 DEF Next

(***************************************************************************)
(* The settings                                                            *)
(***************************************************************************)
\* Who saves what afterwards: the others what they did before.
LEMMA OthersSave ==
    ASSUME NEW r \in Requests, Alone(r)
    PROVE  \A q \in Requests \ {r}, f \in Fields : Saving(q, f)' <=> Saving(q, f)
BY DEF Alone, Saving

LEMMA SetMemorySettles ==
    ASSUME TypeOK, Settled, NEW r \in Requests, NEW f \in Fields, NEW v \in Values, SetMemory(r, f, v)
    PROVE  Settled'
<1>1. /\ Alone(r) /\ req[r].pc = "ops"
      /\ req'[r].pc = "save" /\ req'[r].field = f /\ req'[r].value = v
      BY SetMemoryDoes
<1>2. \A g \in Fields : ~Saving(r, g) /\ (Saving(r, g)' <=> g = f)
      BY <1>1 DEF Saving
<1>3. \A q \in Requests \ {r}, g \in Fields : Saving(q, g)' <=> Saving(q, g)
      BY <1>1, OthersSave
<1>4. /\ UNCHANGED <<db, unsaved, boot>>
      /\ \A g \in Fields : mem'[g] = (IF g = f THEN v ELSE mem[g])
      /\ \A g \in Fields : promise'[g] = (IF g = f THEN None ELSE promise[g])
      /\ \A q \in Requests, g \in Fields : claim'[q][g] = (IF g = f THEN None ELSE claim[q][g])
      BY DEF SetMemory, TypeOK, bootVars
<1>5. /\ \A g \in Fields \ {f} : g \in contested' <=> g \in contested
      /\ (\E q \in Requests : Saving(q, f)) => f \in contested'
      BY DEF SetMemory
<1>6. Served'
  <2>1. boot = "serving"
        BY <1>1, IdleHas DEF Settled, Served
  <2>2. QED
        BY <2>1, <1>4 DEF Served
<1>7. Savers'
  <2> SUFFICES ASSUME NEW q \in Requests, NEW g \in Fields, Saving(q, g)'
               PROVE  /\ req'[q].value \in Values
                      /\ \A p \in Requests \ {q} : Saving(p, g)' => g \in contested'
                      /\ g \notin contested' => mem'[g] = req'[q].value
      BY DEF Savers
  <2>1. CASE g = f
    <3>1. CASE q = r
          BY <2>1, <3>1, <1>1, <1>3, <1>4, <1>5
    <3>2. CASE q # r
      <4>1. Saving(q, f) /\ f \in contested' /\ req'[q].value = req[q].value
            BY <2>1, <3>2, <1>1, <1>3, <1>5 DEF Alone
      <4>2. req[q].value \in Values
            BY <4>1 DEF Settled, Savers
      <4>3. QED
            BY <2>1, <4>1, <4>2
    <3>3. QED
          BY <3>1, <3>2
  <2>2. CASE g # f
    <3>1. q # r /\ Saving(q, g) /\ req'[q].value = req[q].value
          BY <2>2, <1>2, <1>3, <1>1 DEF Alone
    <3>2. \A p \in Requests \ {q} : Saving(p, g)' => Saving(p, g)
          BY <2>2, <1>2, <1>3
    <3>3. QED
          BY <2>2, <3>1, <3>2, <1>4, <1>5 DEF Settled, Savers
  <2>3. QED
        BY <2>1, <2>2
<1>8. Claims'
      BY <1>2, <1>3, <1>4 DEF Settled, Claims
<1>9. InAgreement'
      BY <1>2, <1>3, <1>4, <1>5 DEF Settled, InAgreement
<1>10. KeptAll'
      BY <1>4 DEF Settled, KeptAll, Kept
<1>11. QED
      BY <1>6, <1>7, <1>8, <1>9, <1>10 DEF Settled

LEMMA SaveSettles ==
    ASSUME TypeOK, Settled, NEW r \in Requests, Save(r)
    PROVE  Settled'
<1> DEFINE f == req[r].field
<1>1. /\ Alone(r) /\ req[r].pc = "save" /\ req'[r].pc # "save" /\ f \in Fields
      /\ Saving(r, f)
  <2>1. req[r] \in Request
        BY DEF TypeOK
  <2>2. QED
        BY <2>1, SaveDoes DEF Request, Saving
<1>2. \A q \in Requests, g \in Fields : Saving(q, g)' <=> q # r /\ Saving(q, g)
      BY <1>1, OthersSave DEF Saving
<1>3. UNCHANGED <<mem, contested, promise, boot>>
      BY DEF Save, bootVars
<1>4. /\ promise[f] = None /\ \A q \in Requests : claim[q][f] = None
      /\ \A q \in Requests \ {r} : Saving(q, f) => f \in contested
      /\ f \notin contested => mem[f] = req[r].value
      BY <1>1 DEF Settled, Claims, Savers
<1>5. /\ \A g \in Fields \ {f} : db'[g] = db[g] /\ (g \in unsaved' <=> g \in unsaved)
      /\ f \in unsaved' \/ db'[f] = req[r].value
      BY <1>1 DEF Save, TypeOK
<1>6. \/ claim' = claim
      \/ /\ f \notin contested /\ db'[f] = req[r].value
         /\ \A q \in Requests, g \in Fields :
               claim'[q][g] = (IF q = r /\ g = f THEN req[r].value ELSE claim[q][g])
  <2>1. CASE claim' = claim
        BY <2>1
  <2>2. CASE /\ f \notin contested /\ db' = [db EXCEPT ![f] = req[r].value]
             /\ claim' = [claim EXCEPT ![r] = [claim[r] EXCEPT ![f] = req[r].value]]
    <3> DEFINE row == [claim[r] EXCEPT ![f] = req[r].value]
    <3>1. \A g \in Fields : row[g] = (IF g = f THEN req[r].value ELSE claim[r][g])
          BY <1>1 DEF TypeOK
    <3>2. \A q \in Requests : claim'[q] = (IF q = r THEN row ELSE claim[q])
          BY <2>2 DEF TypeOK
    <3>3. db'[f] = req[r].value
          BY <2>2, <1>1 DEF TypeOK
    <3> HIDE DEF row
    <3>4. ASSUME NEW q \in Requests, NEW g \in Fields
          PROVE  claim'[q][g] = (IF q = r /\ g = f THEN req[r].value ELSE claim[q][g])
          BY <3>1, <3>2
    <3>5. QED
          BY <2>2, <3>3, <3>4
  <2>3. QED
        BY <2>1, <2>2 DEF Save
<1> HIDE DEF f
<1>7. Served'
  <2>1. boot = "serving"
        BY <1>1, IdleHas DEF Settled, Served
  <2>2. QED
        BY <2>1, <1>3 DEF Served
<1>8. Savers'
  <2>1. \A q \in Requests \ {r} : req'[q] = req[q]
        BY <1>1 DEF Alone
  <2>2. QED
        BY <2>1, <1>2, <1>3 DEF Settled, Savers
<1>9. Claims'
  <2> SUFFICES ASSUME NEW g \in Fields
               PROVE  /\ \A q \in Requests : claim'[q][g] # None => db'[g] = claim'[q][g]
                      /\ (\E q \in Requests : Saving(q, g)') =>
                            promise'[g] = None /\ \A q \in Requests : claim'[q][g] = None
      BY DEF Claims
  <2>1. CASE g = f
        BY <2>1, <1>2, <1>3, <1>4, <1>6
  <2>2. CASE g # f
        BY <2>2, <1>1, <1>2, <1>3, <1>5, <1>6 DEF Settled, Claims
  <2>3. QED
        BY <2>1, <2>2
<1>10. InAgreement'
  <2> SUFFICES ASSUME NEW g \in Fields, boot' # "settings", g \notin contested' \cup unsaved',
                      ~(\E q \in Requests : Saving(q, g)')
               PROVE  mem'[g] = db'[g]
      BY DEF InAgreement
  <2>1. CASE g = f
        BY <2>1, <1>3, <1>4, <1>5
  <2>2. CASE g # f
    <3>1. ~(\E q \in Requests : Saving(q, g))
          BY <2>2, <1>1, <1>2 DEF Saving, f
    <3>2. QED
          BY <2>2, <3>1, <1>3, <1>5 DEF Settled, InAgreement
  <2>3. QED
        BY <2>1, <2>2
<1>11. KeptAll'
      BY <1>3, <1>4, <1>5 DEF Settled, KeptAll, Kept
<1>12. QED
      BY <1>7, <1>8, <1>9, <1>10, <1>11 DEF Settled

LEMMA OthersSettle ==
    ASSUME TypeOK, Settled, NEW r \in Requests, Begin(r) \/ Refuse(r) \/ Respond(r) \/ SetReboot(r)
    PROVE  Settled'
<1>1. Alone(r) /\ req[r].pc # "save" /\ req'[r].pc # "save"
      BY BeginDoes, AnswerDoes, SetRebootDoes
<1>2. \A q \in Requests, g \in Fields : Saving(q, g)' <=> Saving(q, g)
      BY <1>1, OthersSave DEF Saving
<1>3. UNCHANGED <<db, mem, contested, unsaved, boot>>
      BY DEF Begin, Refuse, Respond, SetReboot, settingVars, bootVars
<1>4. \A q \in Requests, g \in Fields : claim'[q][g] \in {None, claim[q][g]}
      BY DEF Begin, Refuse, Respond, SetReboot, settingVars, TypeOK
<1>5. \A g \in Fields : promise'[g] = promise[g] \/ (promise'[g] = claim[r][g] /\ claim[r][g] # None)
      BY DEF Begin, Refuse, Respond, SetReboot, settingVars, TypeOK
<1>6. Served'
  <2>1. boot = "serving"
    <3>1. CASE Begin(r)
          BY <3>1 DEF Begin
    <3>2. CASE req[r].pc = "ops"
          BY <3>2, IdleHas DEF Settled, Served
    <3>3. QED
          BY <3>1, <3>2, AnswerDoes, SetRebootDoes
  <2>2. QED
        BY <2>1, <1>3 DEF Served
<1>7. Savers'
  <2>1. \A q \in Requests, g \in Fields : Saving(q, g) => req'[q] = req[q]
        BY <1>1 DEF Alone, Saving
  <2>2. QED
        BY <2>1, <1>2, <1>3 DEF Settled, Savers
<1>8. Claims'
      BY <1>2, <1>3, <1>4, <1>5 DEF Settled, Claims
<1>9. InAgreement'
      BY <1>2, <1>3 DEF Settled, InAgreement
<1>10. KeptAll'
      BY <1>3, <1>5 DEF Settled, KeptAll, Kept, Claims
<1>11. QED
      BY <1>6, <1>7, <1>8, <1>9, <1>10 DEF Settled

LEMMA DownSettles ==
    ASSUME Settled, Down
    PROVE  Settled'
<1>1. \A q \in Requests, g \in Fields : ~Saving(q, g)' /\ claim'[q][g] = None
      BY DEF Down, Saving, Idle
<1>2. /\ Served' /\ boot' = "settings"
      /\ UNCHANGED <<db, promise>>
      BY DEF Down, Served
<1>3. Savers' /\ InAgreement'
      BY <1>1, <1>2 DEF Savers, InAgreement
<1>4. Claims' /\ KeptAll'
      BY <1>1, <1>2 DEF Settled, Claims, KeptAll, Kept
<1>5. QED
      BY <1>2, <1>3, <1>4 DEF Settled

LEMMA BootSettles ==
    ASSUME TypeOK, Settled, RestoreSettings \/ ReadKey \/ SaveKey
    PROVE  Settled'
<1>1. /\ boot # "serving" /\ UNCHANGED <<db, claim, promise, req>>
      BY DEF RestoreSettings, ReadKey, SaveKey, settingVars
<1>2. \A q \in Requests, g \in Fields : ~Saving(q, g) /\ ~Saving(q, g)'
      BY <1>1, IdleHas DEF Settled, Served, Saving
<1>3. Served' /\ Savers' /\ Claims' /\ KeptAll'
      BY <1>1, <1>2 DEF Settled, Served, Savers, Claims, KeptAll, Kept
<1>4. InAgreement'
  <2>1. CASE RestoreSettings
        BY <2>1, <1>1 DEF RestoreSettings, InAgreement
  <2>2. CASE ReadKey \/ SaveKey
    <3>1. boot # "settings" /\ UNCHANGED <<mem, contested, unsaved>>
          BY <2>2 DEF ReadKey, SaveKey, settingVars
    <3>2. QED
          BY <3>1, <1>1, <1>2 DEF Settled, InAgreement
  <2>3. QED
        BY <2>1, <2>2
<1>5. QED
      BY <1>3, <1>4 DEF Settled

LEMMA SettledStep == TypeOK /\ Settled /\ [Next]_vars => Settled'
<1> SUFFICES ASSUME TypeOK, Settled, [Next]_vars PROVE Settled'
    OBVIOUS
<1>1. ASSUME UNCHANGED <<settingVars, bootVars, req>>
      PROVE  Settled'
      BY <1>1 DEF Settled, Served, Savers, Claims, InAgreement, KeptAll, Kept, Saving,
                  settingVars, bootVars
<1>2. CASE RestoreSettings \/ ReadKey \/ SaveKey
      BY <1>2, BootSettles
<1>3. ASSUME NEW r \in Requests, RequestStep(r)
      PROVE  Settled'
  <2>1. CASE Reboot(r)
        BY <2>1, <1>1, DownSettles DEF Reboot
  <2>2. CASE \E f \in Fields, v \in Values : SetMemory(r, f, v)
        BY <2>2, SetMemorySettles
  <2>3. QED
        BY <1>3, <2>1, <2>2, SaveSettles, OthersSettle DEF RequestStep
<1>4. CASE Restart
      BY <1>4, DownSettles DEF Restart
<1>5. CASE UNCHANGED vars
      BY <1>5, <1>1 DEF vars
<1>6. QED
      BY <1>2, <1>3, <1>4, <1>5 DEF Next

(***************************************************************************)
(* The keys                                                                *)
(***************************************************************************)
\* Once a key is restored and in the bucket, the next is up, or all are in use.
LEMMA NextKeyKeeps ==
    ASSUME TypeOK, key' \in [Services -> Nat], NextKey,
           \A s \in Services : s \notin trouble' => served[s] \subseteq {dbKey'[s]} \ {0},
           restoring \notin trouble' => key'[restoring] = dbKey'[restoring] /\ dbKey'[restoring] # 0,
           restoring = "api" /\ "pos" \notin trouble' => key'["pos"] = dbKey'["pos"] /\ dbKey'["pos"] # 0
    PROVE  Keys' /\ OneAddress'
<1>1. CASE restoring = "pos"
      BY <1>1 DEF NextKey, Keys, OneAddress
<1>2. CASE restoring = "api"
  <2>1. /\ boot' = "serving"
        /\ \A s \in Services : served'[s] = served[s] \cup {key'[s]}
        BY <1>2 DEF NextKey
  <2>2. \A s \in Services : s \notin trouble' => key'[s] = dbKey'[s] /\ dbKey'[s] # 0
        BY <1>2 DEF Services
  <2>3. QED
        BY <2>1, <2>2 DEF Keys, OneAddress
<1>3. QED
      BY <1>1, <1>2 DEF TypeOK, Services

LEMMA ReadKeyKeeps ==
    ASSUME TypeOK, Keys, OneAddress, ReadKey
    PROVE  Keys' /\ OneAddress'
<1>1. /\ boot = "read" /\ dbKey' = dbKey
      /\ restoring \in Services
      /\ \A s \in Services : dbKey[s] \in Nat /\ key[s] \in Nat
      BY DEF ReadKey, TypeOK
<1>2. CASE /\ dbKey[restoring] # 0 /\ NextKey /\ trouble' = trouble
           /\ key' = [key EXCEPT ![restoring] = dbKey[restoring]]
  <2>1. key' \in [Services -> Nat] /\ key'[restoring] = dbKey[restoring]
        BY <1>1, <1>2 DEF TypeOK
  <2>2. restoring = "api" => key'["pos"] = key["pos"]
        BY <1>2 DEF TypeOK, Services
  <2>3. \A s \in Services : s \notin trouble' => served[s] \subseteq {dbKey'[s]} \ {0}
        BY <1>1, <1>2 DEF OneAddress
  <2>4. restoring = "api" /\ "pos" \notin trouble' => key'["pos"] = dbKey'["pos"] /\ dbKey'["pos"] # 0
        BY <1>1, <1>2, <2>2 DEF Keys
  <2>5. QED
        BY <1>1, <1>2, <2>1, <2>3, <2>4, NextKeyKeeps
<1>3. CASE /\ Mint /\ trouble \subseteq trouble'
           /\ dbKey[restoring] = 0 \/ restoring \in trouble'
  <2>1. /\ boot' = "save" /\ restoring' = restoring /\ served' = served
        /\ key' = [key EXCEPT ![restoring] = minted + 1]
        BY <1>3 DEF Mint
  <2>2. key'[restoring] # 0
        BY <1>1, <2>1 DEF TypeOK
  <2>3. restoring = "api" => key'["pos"] = key["pos"]
        BY <2>1 DEF TypeOK, Services
  <2>4. Keys'
        BY <1>1, <1>3, <2>1, <2>2, <2>3 DEF Keys
  <2>5. OneAddress'
        BY <1>1, <1>3, <2>1 DEF OneAddress
  <2>6. QED
        BY <2>4, <2>5
<1>4. QED
      BY <1>2, <1>3 DEF ReadKey

LEMMA SaveKeyKeeps ==
    ASSUME TypeOK, Keys, OneAddress, SaveKey
    PROVE  Keys' /\ OneAddress'
<1>1. /\ boot = "save" /\ key' = key /\ NextKey /\ key[restoring] # 0
      /\ restoring \in Services /\ key' \in [Services -> Nat]
      BY DEF SaveKey, Keys, TypeOK
<1>2. CASE /\ dbKey' = [dbKey EXCEPT ![restoring] = key[restoring]] /\ trouble' = trouble
  <2>1. \A s \in Services : dbKey'[s] = (IF s = restoring THEN key[s] ELSE dbKey[s])
        BY <1>2 DEF TypeOK
  <2>2. \A s \in Services : s \notin trouble' => served[s] \subseteq {dbKey'[s]} \ {0}
    <3>1. restoring \notin trouble => served[restoring] = {}
          BY <1>1 DEF Keys, OneAddress
    <3>2. QED
          BY <1>2, <2>1, <3>1 DEF OneAddress
  <2>3. restoring = "api" /\ "pos" \notin trouble' => key'["pos"] = dbKey'["pos"] /\ dbKey'["pos"] # 0
        BY <1>1, <1>2, <2>1 DEF Keys, Services
  <2>4. key'[restoring] = dbKey'[restoring] /\ dbKey'[restoring] # 0
        BY <1>1, <2>1
  <2>5. QED
        BY <1>1, <2>2, <2>3, <2>4, NextKeyKeeps
<1>3. CASE trouble' = trouble \cup {restoring} /\ dbKey' = dbKey
  <2>1. \A s \in Services : s \notin trouble' => served[s] \subseteq {dbKey'[s]} \ {0}
        BY <1>3 DEF OneAddress
  <2>2. restoring = "api" /\ "pos" \notin trouble' => key'["pos"] = dbKey'["pos"] /\ dbKey'["pos"] # 0
        BY <1>1, <1>3 DEF Keys
  <2>3. QED
        BY <1>1, <1>3, <2>1, <2>2, NextKeyKeeps
<1>4. QED
      BY <1>2, <1>3 DEF SaveKey

LEMMA KeysStep == TypeOK /\ Keys /\ OneAddress /\ [Next]_vars => Keys' /\ OneAddress'
<1> SUFFICES ASSUME TypeOK, Keys, OneAddress, [Next]_vars PROVE Keys' /\ OneAddress'
    OBVIOUS
<1>1. ASSUME UNCHANGED <<keyVars, bootVars>>
      PROVE  Keys' /\ OneAddress'
      BY <1>1 DEF Keys, OneAddress, keyVars, bootVars
<1>2. ASSUME Down
      PROVE  Keys' /\ OneAddress'
      BY <1>2 DEF Down, Keys, OneAddress
<1>3. CASE RestoreSettings
      BY <1>3 DEF RestoreSettings, Keys, OneAddress, keyVars
<1>4. ASSUME NEW r \in Requests, RequestStep(r)
      PROVE  Keys' /\ OneAddress'
      BY <1>1, <1>2, <1>4 DEF RequestStep, Begin, Save, Refuse, Respond, SetMemory, SetReboot, Reboot
<1>5. CASE Restart
      BY <1>2, <1>5 DEF Restart
<1>6. CASE UNCHANGED vars
      BY <1>1, <1>6 DEF vars
<1>7. QED
      BY <1>3, <1>4, <1>5, <1>6, ReadKeyKeeps, SaveKeyKeeps DEF Next

(***************************************************************************)
(* The requests to reboot                                                  *)
(***************************************************************************)
LEMMA DueStep == TypeOK /\ Due /\ [Next]_vars => Due'
<1> SUFFICES ASSUME TypeOK, Due, [Next]_vars PROVE Due'
    OBVIOUS
<1>1. ASSUME UNCHANGED powerVars
      PROVE  Due'
      BY <1>1 DEF Due, powerVars
<1>2. ASSUME NEW r \in Requests, RequestStep(r)
      PROVE  Due'
  <2>1. CASE Respond(r)
        BY <2>1 DEF Respond, Due
  <2>2. CASE Reboot(r)
    <3>1. r \in answered
          BY <2>2 DEF Reboot, Due
    <3>2. CASE Down /\ rogue' = (rogue \/ r \notin answered)
          BY <3>1, <3>2 DEF Down, Due
    <3>3. CASE due' = due \ {r} /\ answered' = answered \ {r} /\ rogue' = rogue
          BY <3>3 DEF Due
    <3>4. QED
          BY <2>2, <3>2, <3>3 DEF Reboot
  <2>3. CASE UNCHANGED powerVars
        BY <2>3, <1>1
  <2>4. QED
        BY <1>2, <2>1, <2>2, <2>3 DEF RequestStep, Begin, Save, Refuse, SetMemory, SetReboot
<1>3. CASE Restart
      BY <1>3 DEF Restart, Down, Due
<1>4. CASE UNCHANGED vars
      BY <1>1, <1>4 DEF vars
<1>5. QED
      BY <1>1, <1>2, <1>3, <1>4 DEF Next, RestoreSettings, ReadKey, SaveKey

(***************************************************************************)
(* The theorems                                                            *)
(***************************************************************************)
\* The invariant holds from the first boot on.
THEOREM Invariance == Spec => []IInv
<1>1. IInv /\ [Next]_vars => IInv'
      BY TypeStep, SettledStep, KeysStep, DueStep DEF IInv
<1>2. QED
      BY Initially, <1>1, PTL DEF Spec

\* Every variable keeps to its type.
THEOREM TypeCorrect == Spec => []TypeOK
<1>1. IInv => TypeOK
      BY DEF IInv
<1>2. QED
      BY Invariance, <1>1, PTL

\* What a PATCH was answered to have set is in the database, through any restart, and
\* the dispenser goes by it (SetName, SetDispenseOnTouch and restoreConfigs).
THEOREM SettingsAreKept == Spec => []SettingsKept
<1>1. IInv => SettingsKept
      BY DEF IInv, Settled, KeptAll, InAgreement, Agrees, SettingsKept
<1>2. QED
      BY Invariance, <1>1, PTL

\* The address of an onion service survives every restart that the database does not
\* fail in (restoreConfigs).
THEOREM AddressesLast == Spec => []OneAddress
<1>1. IInv => OneAddress
      BY DEF IInv
<1>2. QED
      BY Invariance, <1>1, PTL

\* Only a PATCH that was answered with success reboots the device (patchDispenser).
THEOREM ErrorsDoNotReboot == Spec => []OnlyAnsweredReboots
<1>1. IInv => OnlyAnsweredReboots
      BY DEF IInv, Due, OnlyAnsweredReboots
<1>2. QED
      BY Invariance, <1>1, PTL
=============================================================================
