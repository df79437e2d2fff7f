------------------------------ MODULE Settings ------------------------------
(***************************************************************************)
(* The dispenser's settings and its onion addresses: how they are restored *)
(* at startup (restoreConfigs, dispenser/dispenser.go), changed by PATCH   *)
(* requests (api/dispenser.go) and kept (sweetdb/settings.go).             *)
(*                                                                         *)
(* A PATCH is a list of operations, carried out one after the other in a   *)
(* goroutine of its own.  The setters write the field of the dispenser     *)
(* first and the database next, and nothing keeps two requests apart.  An  *)
(* operation that fails ends the request; what was done stays.  Reboot and *)
(* shutdown, which are one here, are left to goroutines that wait for the  *)
(* answer.                                                                 *)
(*                                                                         *)
(* A database call is one transaction, and may fail.  The process may end  *)
(* at any time: among the reasons is the characteristic of pairing/ble.go  *)
(* that reads the API's onion address and panics before there is one.      *)
(* buzzOnDispense, which no request changes, is left out.                  *)
(***************************************************************************)
EXTENDS Naturals

CONSTANTS
    Fields,        \* settings a request can change: name and dispenseOnTouch
    Values,        \* what a setting can be set to
    None,          \* its zero value; nothing
    Requests,      \* PATCH requests in flight at a time
    OpBound,       \* operations per request
    RestartBound   \* restarts

ASSUME FieldsAssumption == Fields # {}
ASSUME NoneAssumption == None \notin Values
ASSUME BoundAssumption == OpBound \in Nat /\ RestartBound \in Nat

Services == {"pos", "api"}

VARIABLES
    db,         \* the settings bucket
    mem,        \* the fields of the dispenser
    dbKey,      \* the private keys in the bucket, 0 for none
    key,        \* those of the onion services
    boot,       \* where restoreConfigs is; then the API serves
    restoring,  \* the service whose key it restores
    req,        \* what each request does
    due,        \* requests whose goroutines of reboot or shutdown may go on
    minted,     \* private keys generated so far
    restarts,
    contested,  \* history: settings two requests were saving at a time, last
    unsaved,    \* history: settings that could not be saved, or read, last
    claim,      \* history: what a request has saved and none has set since
    promise,    \* history: what was answered to be set, and none has set since
    answered,   \* history: requests to reboot answered with success, not carried out yet
    rogue,      \* history: the device was rebooted for any other
    served,     \* history: keys each service has been served under
    trouble     \* history: services whose key could not be read or saved

keyVars     == <<dbKey, key, minted, served, trouble>>
bootVars    == <<boot, restoring, restarts>>
powerVars   == <<due, answered, rogue>>
settingVars == <<db, mem, contested, unsaved, claim, promise>>

vars == <<settingVars, keyVars, bootVars, powerVars, req>>

Setting == Values \cup {None}

Request == [pc     : {"idle", "ops", "save"},
            ops    : 0..OpBound,
            field  : Fields,
            value  : Setting,
            reboot : BOOLEAN]

Idle == [pc |-> "idle", ops |-> 0, field |-> CHOOSE f \in Fields : TRUE, value |-> None, reboot |-> FALSE]

TypeOK ==
    /\ db \in [Fields -> Setting]
    /\ mem \in [Fields -> Setting]
    /\ dbKey \in [Services -> Nat]
    /\ key \in [Services -> Nat]
    /\ boot \in {"settings", "read", "save", "serving"}
    /\ restoring \in Services
    /\ req \in [Requests -> Request]
    /\ due \in SUBSET Requests
    /\ minted \in Nat
    /\ restarts \in 0..RestartBound
    /\ contested \in SUBSET Fields
    /\ unsaved \in SUBSET Fields
    /\ claim \in [Requests -> [Fields -> Setting]]
    /\ promise \in [Fields -> Setting]
    /\ answered \in SUBSET Requests
    /\ rogue \in BOOLEAN
    /\ served \in [Services -> SUBSET Nat]
    /\ trouble \in SUBSET Services

\* The first boot, with an empty database.
Init ==
    /\ db = [f \in Fields |-> None]
    /\ mem = [f \in Fields |-> None]
    /\ dbKey = [s \in Services |-> 0]
    /\ key = [s \in Services |-> 0]
    /\ boot = "settings"
    /\ restoring = "pos"
    /\ req = [r \in Requests |-> Idle]
    /\ due = {}
    /\ minted = 0
    /\ restarts = 0
    /\ contested = {}
    /\ unsaved = {}
    /\ claim = [r \in Requests |-> [f \in Fields |-> None]]
    /\ promise = [f \in Fields |-> None]
    /\ answered = {}
    /\ rogue = FALSE
    /\ served = [s \in Services |-> {}]
    /\ trouble = {}

(***************************************************************************)
(* restoreConfigs                                                          *)
(***************************************************************************)
\* Each setting as the bucket has it, or its zero value after an error.
RestoreSettings ==
    /\ boot = "settings"
    /\ boot' = "read"
    /\ \E failed \in SUBSET Fields :
          /\ mem' = [f \in Fields |-> IF f \in failed THEN None ELSE db[f]]
          /\ unsaved' = failed
    /\ contested' = {}
    /\ UNCHANGED <<db, claim, promise, keyVars, restoring, restarts, powerVars, req>>

\* One key is restored: on to the API's, or to serving with the keys there are by then.
NextKey ==
    IF restoring = "pos"
    THEN boot' = "read" /\ restoring' = "api" /\ UNCHANGED served
    ELSE /\ boot' = "serving"
         /\ served' = [s \in Services |-> served[s] \cup {key'[s]}]
         /\ UNCHANGED restoring

Mint ==
    /\ minted' = minted + 1
    /\ key' = [key EXCEPT ![restoring] = minted + 1]
    /\ boot' = "save"
    /\ UNCHANGED <<restoring, served>>

\* Mutant of ReadKey: a key is generated, whatever the bucket holds.
ReadNoKey ==
    /\ boot = "read"
    /\ Mint
    /\ UNCHANGED <<dbKey, trouble, restarts, settingVars, powerVars, req>>

\* Mutant of ReadKey: when there is no reading the key, the service goes without.
ReadNil ==
    /\ boot = "read"
    /\ key' = [key EXCEPT ![restoring] = IF dbKey[restoring] = 0 THEN None ELSE dbKey[restoring]]
    /\ NextKey
    /\ UNCHANGED <<minted, trouble, dbKey, restarts, settingVars, powerVars, req>>

\* The saved key is used.  When there is none, or no reading it, a new one is
\* generated.
ReadKey ==
    /\ boot = "read"
    /\ \/ /\ dbKey[restoring] # 0
          /\ key' = [key EXCEPT ![restoring] = dbKey[restoring]]
          /\ NextKey
          /\ UNCHANGED <<minted, trouble>>
       \/ dbKey[restoring] = 0 /\ Mint /\ UNCHANGED trouble
       \/ Mint /\ trouble' = trouble \cup {restoring}
    /\ UNCHANGED <<dbKey, restarts, settingVars, powerVars, req>>

\* The new key replaces any other.  A failure is logged.
SaveKey ==
    /\ boot = "save"
    /\ \/ /\ dbKey' = [dbKey EXCEPT ![restoring] = key[restoring]]
          /\ UNCHANGED trouble
       \/ trouble' = trouble \cup {restoring} /\ UNCHANGED dbKey
    /\ UNCHANGED <<key, minted, restarts, settingVars, powerVars, req>>
    /\ NextKey

(***************************************************************************)
(* PATCH /dispenser                                                        *)
(***************************************************************************)
Begin(r) ==
    /\ boot = "serving"
    /\ req[r].pc = "idle"
    /\ r \notin due
    /\ req' = [req EXCEPT ![r] = [Idle EXCEPT !.pc = "ops"]]
    /\ claim' = [claim EXCEPT ![r] = [f \in Fields |-> None]]
    /\ UNCHANGED <<db, mem, contested, unsaved, promise, keyVars, bootVars, powerVars>>

\* The request has another operation.
Operation(r) == req[r].pc = "ops" /\ req[r].ops < OpBound

Saving(r, f) == req[r].pc = "save" /\ req[r].field = f

\* SetName or SetDispenseOnTouch: the field of the dispenser.
SetMemory(r, f, v) ==
    /\ Operation(r)
    /\ mem' = [mem EXCEPT ![f] = v]
    /\ req' = [req EXCEPT ![r].pc = "save", ![r].ops = @ + 1, ![r].field = f, ![r].value = v]
    /\ contested' = IF \E q \in Requests : Saving(q, f) THEN contested \cup {f}
                    ELSE contested \ {f}
    /\ claim' = [q \in Requests |-> [claim[q] EXCEPT ![f] = None]]
    /\ promise' = [promise EXCEPT ![f] = None]
    /\ UNCHANGED <<db, unsaved, keyVars, bootVars, powerVars>>

\* Mutant of Save: a failure is logged, and the request goes on.
SaveLogged(r) ==
    LET f == req[r].field
    IN  /\ req[r].pc = "save"
        /\ req' = [req EXCEPT ![r].pc = "ops"]
        /\ \/ db' = [db EXCEPT ![f] = req[r].value]
           \/ UNCHANGED db
        /\ unsaved' = unsaved \ {f}
        /\ claim' = IF f \in contested THEN claim ELSE [claim EXCEPT ![r][f] = req[r].value]
        /\ UNCHANGED <<mem, contested, promise, keyVars, bootVars, powerVars>>

\* The bucket.  On an error the request is answered with it.
Save(r) ==
    LET f == req[r].field
    IN  /\ req[r].pc = "save"
        /\ \/ /\ req' = [req EXCEPT ![r].pc = "ops"]
              /\ db' = [db EXCEPT ![f] = req[r].value]
              /\ unsaved' = unsaved \ {f}
              /\ claim' = IF f \in contested THEN claim
                          ELSE [claim EXCEPT ![r][f] = req[r].value]
           \/ /\ req' = [req EXCEPT ![r] = Idle]
              /\ unsaved' = unsaved \cup {f}
              /\ UNCHANGED <<db, claim>>
        /\ UNCHANGED <<mem, contested, promise, keyVars, bootVars, powerVars>>

\* An operation to reboot or to shut down spawns a goroutine.
SetReboot(r) ==
    /\ Operation(r)
    /\ req' = [req EXCEPT ![r].ops = @ + 1, ![r].reboot = TRUE]
    /\ UNCHANGED <<settingVars, keyVars, bootVars, powerVars>>

\* An operation or a field that is unknown, or a value of the wrong type: shutdownChan
\* is not closed, and its goroutines wait for good.
Refuse(r) ==
    /\ Operation(r)
    /\ req' = [req EXCEPT ![r] = Idle]
    /\ UNCHANGED <<settingVars, keyVars, bootVars, powerVars>>

\* The last operation is done: the answer, and shutdownChan is closed.
Respond(r) ==
    /\ req[r].pc = "ops"
    /\ req' = [req EXCEPT ![r] = Idle]
    /\ due' = IF req[r].reboot THEN due \cup {r} ELSE due
    /\ answered' = IF req[r].reboot THEN answered \cup {r} ELSE answered
    /\ promise' = [f \in Fields |-> IF claim[r][f] # None THEN claim[r][f] ELSE promise[f]]
    /\ UNCHANGED <<db, mem, contested, unsaved, claim, keyVars, bootVars, rogue>>

(***************************************************************************)
(* Restarts                                                                *)
(***************************************************************************)
Down ==
    /\ restarts < RestartBound
    /\ restarts' = restarts + 1
    /\ boot' = "settings"
    /\ restoring' = "pos"
    /\ mem' = [f \in Fields |-> None]
    /\ key' = [s \in Services |-> 0]
    /\ req' = [r \in Requests |-> Idle]
    /\ due' = {}
    /\ answered' = {}
    /\ claim' = [r \in Requests |-> [f \in Fields |-> None]]
    /\ UNCHANGED <<db, contested, unsaved, promise, dbKey, minted, served, trouble>>

\* reboot.Reboot or ShutDown, for a request: the system refuses, or the device goes down.
Reboot(r) ==
    /\ r \in due
    /\ \/ /\ due' = due \ {r}
          /\ answered' = answered \ {r}
          /\ UNCHANGED <<settingVars, keyVars, bootVars, req, rogue>>
       \/ Down /\ rogue' = (rogue \/ r \notin answered)

\* Power loss, or the end of the process.
Restart == Down /\ UNCHANGED rogue

(***************************************************************************)
(* The specification                                                       *)
(***************************************************************************)
RequestStep(r) ==
    \/ Begin(r) \/ Save(r) \/ Refuse(r) \/ Respond(r)
    \/ \E f \in Fields, v \in Values : SetMemory(r, f, v)
    \/ SetReboot(r) \/ Reboot(r)

Next ==
    \/ RestoreSettings \/ ReadKey \/ SaveKey
    \/ \E r \in Requests : RequestStep(r)
    \/ Restart

Spec == Init /\ [][Next]_vars

(***************************************************************************)
(* Properties                                                              *)
(***************************************************************************)
\* A setting that a request was answered to have set is in the database, through any
\* restart, until another request sets it.
Kept(f) == promise[f] # None => db[f] = promise[f]

\* The dispenser goes by what the database has, so that a restart changes nothing,
\* unless the last two to set it overlapped, or the database failed the last one.
Agrees(f) ==
    boot = "serving" /\ f \notin contested \cup unsaved /\ ~(\E r \in Requests : Saving(r, f))
        => mem[f] = db[f]

\* Both, for every setting (dispenser/dispenser.go:456-493, 163-187).
SettingsKept == \A f \in Fields : Kept(f) /\ Agrees(f)

\* A service is served under one address for good, also when the device went down
\* between the generation of its key and the save, as long as the database did not
\* fail to read or to save it (dispenser/dispenser.go:189-231).
OneAddress == \A s \in Services : s \notin trouble => served[s] \subseteq {dbKey[s]} \ {0}

\* The device does not reboot for a PATCH that was answered with an error
\* (api/dispenser.go:104-146).
OnlyAnsweredReboots == ~rogue
=============================================================================
