# TLA+ specifications of sweetd

sweetd is the daemon of the Lightning candy dispenser: a Raspberry Pi that turns a
motor when somebody touches it or pays a Lightning invoice. This directory models the
parts of it in which goroutines, channels and the database meet, checks them with TLC
and proves the safety of all of them with TLAPS.

| file | what it is |
|---|---|
| `Machine.tla` | `machine/dispenser.go`: pins, drive goroutines, touch handling |
| `Dispensing.tla` | `dispenser/dispenser.go` and the end of `main.go`, on `Machine` |
| `Dispensing_proof.tla` | theorems about `Dispensing` |
| `Updates.tla`, `Updates_proof.tla` | `updater/mender.go`, `api/updates.go`; theorems |
| `Invoices.tla`, `Invoices_proof.tla` | `lightning/lnd.go`, `dispenser/nodes.go`, the websocket of `pos/pos.go`; theorems |
| `Connectivity.tla`, `Connectivity_proof.tla` | `network/wpa.go`, `network/wpa/`, the loops of `dispenser/` that subscribe, `onion/service.go`; theorems |
| `Wifi.tla`, `Wifi_proof.tla` | `dispenser/network.go`, `network/wpa.go`, `sweetdb/wifi.go`, `pairing/ble.go`; theorems |
| `Nodes.tla`, `Nodes_proof.tla` | `nodeman/nodeman.go`, `sweetdb/nodes.go`, `api/nodes.go`; theorems |
| `Scan.tla`, `Scan_proof.tla` | scans: `pairing/ble.go`, `network/wpa.go`, `network/wpa/interface.go`; theorems |
| `Settings.tla`, `Settings_proof.tla` | `restoreConfigs` and the setters of `dispenser/dispenser.go`, `api/dispenser.go`, `sweetdb/settings.go`; theorems |
| `Vending.tla`, `Installer.tla`, `Billing.tla`, `Directory.tla`, `Discovery.tla`, `Station.tla` | abstract: what `Dispensing`, `Updates`, `Invoices`, `Nodes`, `Scan` and `Wifi` promise |
| `MC*.tla`, `*.cfg` | instances for TLC |
| `PROJECT.json` | components, runs, mutants, the map to the source, findings, hazards, theorems |

## Inventory

**Machine** (`machine/dispenser.go`). State: two pins, `motorEvents`, `buzzerEvents`,
`done`, the touch clients. Operations: `ToggleMotor`, `ToggleBuzzer`, `DiagnosticNoise`,
`SubscribeTouches`, `Stop`; goroutines `handleTouch` (with an inner one that debounces
edges), `driveMotor`, `driveBuzzer`. Everything is handed over unbuffered channels. Hard:
shutdown against toggles, a client that stops receiving. Right when a running motor
always has somebody who will stop it, and the pins are low after `Stop`.

**Run loop** (`dispenser/dispenser.go`, `main.go`). State: `done`, `dispenses`,
`payments`, the settings. `RunAndWait` spawns `handleDispenses`,
`notifyDispenseSubscribers`, `runLightningNodes`, the saved-wifi goroutine, the point of
sale and the API; `Stop` comes from the interrupt goroutine or a failed listen. Hard:
every toggle passes through a second goroutine, teardown closes a channel others send on,
and the WaitGroup is passed by value so that nobody is waited for. Right when every
payment gets one motor turn, and nothing panics while the loop is up.

**Updater** (`updater/mender.go`, `api/updates.go`, `dispenser/update.go`,
`sweetdb/updates.go`). State: the atomic `updating`, `m.update`, the mender process, the
clients, the updates bucket. Operations: start, cancel, commit, reject, subscribe. Hard:
two goroutines per update and any number of requests write `m.update` with one atomic
flag between them; notifications block on websockets; restarts. Right when one
installation runs at a time, outcomes are recorded for the right update, and the flag is
released.

**Invoice streams** (`lightning/lnd.go`, `dispenser/nodes.go`, `pos/pos.go`). State: the
connection, the subscribers, one `run()` per start, one handler goroutine per
subscription. Calls come from API requests, from network updates and from websockets.
Hard: starts accumulate, the range over the subscribers blocks on each, Stop cancels what
others cancel too, and nothing guards the map they are in. Right when an invoice that is settled, and only that, reaches the run
loop, once.

**Node manager** (`nodeman/nodeman.go`, `sweetdb/nodes.go`, `api/nodes.go`). State: the
bucket, the list, the nodes' flags and names. Operations: load, add, remove, enable,
disable, rename. Hard: concurrent requests and the loading beside them, several database
transactions and list accesses each, restarts. Right when list and bucket agree and
acknowledged changes survive.

**Network** (`network/wpa.go`, `network/wpa/`, `dispenser/network.go`). State: the D-Bus
interface, subscribers, the saved wifi. Operations: connect, scan, subscribe, status.
Hard: broadcasts block on a subscriber, `Status` never says connected, connect is remove-
add-enable, and the wifi is saved after it is connected. Right when a connected network
starts the nodes and onion services, and a wifi that was connected is the one tried after
a restart.

**Pairing** (`pairing/ble.go`). A queue of ten discovered networks between a scan, which a
Bluetooth write waits for, and a goroutine that notifies the phone every 100ms. Right when
a scan ends and each network found is reported once.

**Onion services** (`onion/service.go`, `dispenser/pos.go`, `dispenser/api.go`). Start runs
in a goroutine under a mutex that both services share; Stop cancels the latest context.
Right when a stopped dispenser leaves no service starting.

**API and settings** (`api/dispenser.go`, `dispenser/dispenser.go`, `sweetdb/settings.go`).
State: the settings and the keys of the onion services, in memory and in the database.
Operations: restore at startup, a PATCH with a list of operations (set, reboot, shut down)
applied one after the other. Hard: memory is written before the database, requests
overlap, an operation fails half-way through the list, the process ends between a key's
generation and its save. Right when what was answered survives a restart, and an address
lasts.

**Point of sale** (`pos/`) and the rest of `api/`: HTTP handlers over the above.

**Database** (`sweetdb/`): bbolt buckets of JSON values; each call is one transaction.

**The rest**: the local lnd node (started, never connected to), mocks, logging,
configuration, reboot, the web pages.

Interactions: the machine calls the run loop through the touch client; the node handlers
call it through `payments`; network updates reach the node starter and both onion
services over subscriptions; API requests call the updater, the node manager and the
settings; pairing calls scan and connect of the network.

## The models

### Machine and Dispensing

All channels are unbuffered, so a send with its receive is one action: `ToggleMotor` of
the handler is conjoined with `MotorReceives` of the drive goroutine. `Machine` defines
the halves and its goroutines' own steps, `Dispensing` the rest:

| process | program counter | actions |
|---|---|---|
| main | `main` | `StartRun`, `Listen`, `ListenFails`, `Noise`, `AwaitDone`, `CloseDispenses`, `ClearDispenses`, `StopMachine`, `Exit` |
| handler | `handler` | `Subscribe`, `TakeTouch`, `TakePayment`, `ToggleBuzzer`, `ToggleMotor`, `ReadDispenses`, `SendDispense`, `SendPanics`, `Wake`, `HandlerDone`, `CancelTouches` |
| notifier | `notifier` | its half of `SendDispense`, `NotifierDone` |
| touch | `touch`, `edge` | `EdgeHigh`, `EdgeLow`, `HandleEdge`, `TouchExit` |
| drivers | `drivers` | `MotorExit`, `BuzzerExit` and their halves of the toggles |
| others | | `Interrupt`, `Settle`, `ChangeSetting` |

`ReadDispenses` is apart from the send because Go evaluates the channel before it blocks:
teardown can close or clear the field in between. A panic of main runs the deferred calls;
a panic of any other goroutine sets `crashed` and stops everything.

`Vending` says what a payment is promised: it waits, is taken when no other is being
served, gets one turn which no touch ends, and is dispensed; only halting the machine cuts
a turn short. `Turn(p)` is the refinement mapping from the handler's state to the ledger.

### Updates

A request's `StartUpdate` is `Claim` (the compare-and-swap), `Create`, `SaveStarted`,
`Launch`, with the error returns `StartFails` and `LaunchFails`. The goroutine that waits
is `WaitReturns`, `SaveOutcome`, `Release`; the one that reads progress `ReadProgress`,
`ReaderMoves`. Either one's notification is a set of clients still to visit and the client
it is blocked on (`Visit`, `Deliver`), since clients come and go during the range.
`CancelUpdate` is two actions, around its call of `Kill`. mender itself is external:
`MenderEnds`, and the artifact that `CommitUpdate` commits. The watching of an unknown id
ends the process and is one of the reasons for `Restart`.

`Installer` says what the updater promises: installations take turns, each runs once, and
the turn passes on when its outcome is on record or the log says that it is not. `Turn` is
the update whose request has won the flag or whose waiter is at work, `Stage` how far each
has come.

### Invoices

Start k is a connection, a `run()`, a client and a handler. `Start` replaces the latest
connection, and `Disable` closes only that one. `Register` may or may not be seen by a
range that is under way, as Go's map iteration allows. `payments[i]` counts how often
`handleDispenses` received the invoice. It models one remote node whose dial succeeds, one
API request for it at a time and the network goroutine beside it. lnd is external.
`MapRace` is Go's fatal error when the map of the clients is written while `run()` ranges
over it or somebody else writes it: it may strike or not, and ends the daemon. `Writers` are
those whose next step is such a write, `Ranging` says of `run()` that its next step is one of
the range. `late` is history: with each invoice it keeps the handlers that had been cancelled
when it was settled. A start that `Stop` overtakes subscribes after it and is not among them.
The step `Pay` of this module is `Settle` followed by `TakePayment` of `Dispensing`.

`Billing` knows neither queues nor ranges nor the map of clients. A settled invoice is due
on each stream that is open then to each handler; a handler is given what is due to it and
passes it on before it takes the next; what is due to a handler that listens stays due; and
it listens until the node is stopped. That the process may end is not part of it: what ends
only stops delivering. `Due` is the mapping: an invoice waits in the stream,
or `run()` has it in hand and the range has not been past the handler. Handlers that have
not subscribed yet count as ones the range has not been past, since they still may, so a
subscription may only lose what a range had begun to pass on (`Subscribe` of `Billing`).

### Nodes

A request is a record with where it is and what it has read. Each database transaction and
each access to the list is a step, so two requests interleave between them. So does Load,
which runs in the goroutine of `runLightningNodes` while the API is being served: `LoadKeys`,
then `LoadKind` and `LoadRow` for each key (the two reads of `GetNode`), then `LoadNode` and
`LoadAppend` for each row. `LoadFails` is the error of `GetNodes`, after which the list stays
empty; a row that goes between its two reads is a nil pointer, and Load dies of it. `raced` and
`contested` are history: they let the properties say exactly which overlaps excuse a
divergence. Of a node only its id is kept: the flag is in `Invoices`, names decide nothing
here. Two versions of the Go slice sharing an array, and the data race on it, are left out: a
list value is whatever was read or written last. So is a key that, used after its transaction,
reads as that of another node.

`Directory` has a request act twice, on what is saved when it begins and on the list when it
returns, and a start list each saved node once, or none. It says what a race may add to that: a
list of any nodes there have been, until the next start, a deleted node that one which was
changing it writes back, and the end of the process while what is saved is being listed.
`Calls` maps each request to what its caller waits for, `Loaded` how far Load is.

### Connectivity

A change of wpa_supplicant becomes a signal in a bag (`Change`), is received by the
signaller (`Signal`), handed to the broadcaster (`Take`) and sent to one client after the
other (`Visit`, `Send`, `RangeEnds`). `Subscribed` during a range may or may not be part
of it. A subscriber is a loop: `Subscribe`, `Subscribed`, `Start`, `Leave`, `Unsubscribe`,
`StopServed`; the loops of `runPos` and `runApi` differ from that of `runLightningNodes`
only in what they start. A service's `Start` leaves a goroutine that waits for the mutex
(`Publish`) and listens (`Published`). `MapRace` is Go's fatal error for a map that is
written while another goroutine uses it: it may strike or not. `NetworkStop` is main's
deferred call; that `RunAndWait` does not wait for the loops is why they race with it.
The step `Start` of the nodes' loop is `NetworkUp` of `Invoices`.

### Wifi

A connector is a request of the pairing controller or the attempt at startup, and goes
through `RemoveAll`, `Add`, `Enable` and, for a request, `Save`; `Fail` is the error of a
D-Bus call. wpa_supplicant's networks are kept by who added them: an `Enable` meets its
network only if nobody has removed it since. `Restart` keeps them, unless the device
restarts too. `contested` and `alone` are history: they say which connections nobody
overlapped.

`Station` has a connection begin, clear the way, have its network enabled and be kept, and
lets those that cross each other clear away each other's networks, and no more. That a
network is added disabled and may be gone before it is enabled is below it.

### Scan

A request is `AskToScan`, `ListenAdded`, `ListenDone`, `List` of `WpaNetwork.Scan`, each a
call over D-Bus that may fail, then the loop of `scanWifi`: `HandOver` (with the
forwarder), `Enqueue`, `Return`. The forwarder goes through the list (`Skip`, `Offer`,
`ListForwarded`) and then waits for the outcome: `HearDone`, `CancelAdded`, `CancelDone`,
`CloseWifis`. The two listeners are `ReceiveAdded`, `RegisterDone`, `ReceiveDone`, the
goroutine that drains the queue `Notify` and `Wake`. A signal that finds its channel busy
waits in a bag (`pending`), as godbus keeps one goroutine for each; `ScanDone` delivers to
all registered channels, whoever asked for the scan. A network in the queue carries the
scan it comes from, which the code does not need and the properties do. `heard`, `listed`
and `notified` are history.

That `ReceiveAdded` forwards nothing is not an abstraction: the listener's test is
inverted (see the findings), so the branch of the forwarder that would pass on a new
network is never taken.

`Discovery` has no forwarder, listeners or signals: each network of the list is skipped, or
goes through the queue and is told once, whoever else uses the queue, and no scan ends while
one of its networks is on its way to the queue.

### Settings

`restoreConfigs` is `RestoreSettings`, then `ReadKey` and `SaveKey` for each service. A
PATCH is `Begin`, any number of `SetMemory` with its `Save`, `SetReboot`, and ends with
`Refuse`, a failed `Save` or `Respond`. A setting the model does not name behaves like one
it does, so name and dispenseOnTouch are members of `Fields`. `Reboot` and shutdown differ
only in what the operator has to do next. `contested`, `unsaved` and `trouble` are history
and name the excuses: two setters that overlapped, a database that failed. `claim`,
`promise`, `answered` and `served` are history and hold what the outside was told.

## Runs

| run | result | instance | distinct states |
|---|---|---|---|
| `dispensing` | holds | 1 payment, 1 touch, fair | 159k |
| `dispensing_motor` | violated | 1 payment, 1 touch | |
| `updates_safety` | holds | 2 updates, 1 client, 1 progress line, 1 restart | 1.3M |
| `updates_live` | holds | 1 update, 2 clients, fair | 53k |
| `invoices_safety` | holds | 1 invoice, 1 websocket, 2 starts | 2.1M |
| `invoices_live` | holds | 2 invoices, 1 websocket, 1 start, fair | 43k |
| `invoices_once` | violated | 1 invoice, 2 starts | |
| `nodes_safety` | holds | 2 nodes, 2 requests (symmetric), Load, 1 restart | 486k |
| `connectivity` | holds | 1 onion service and the nodes, 3 changes, fair | 212k |
| `wifi` | holds | 2 wifis, 2 requests (symmetric), the attempt, 1 restart | 44k |
| `scan` | holds | 2 scans, 1 network, queue of 1, 2 ScanDone, fair | 223k |
| `settings` | holds | 1 setting, 2 values and 2 requests (symmetric), 2 operations each, 2 restarts | 330k |

Bounds. One payment, one touch, a setting changed and an interrupt, in any order, are
what it takes for a touch to meet a payment and for both to meet the shutdown; with two
payments (symmetric) and two touches the invariants and the refinement hold as well (887k
states), and the theorems are for any number. Two updates give a claim against a running
installation, and a restart between any two steps. Two starts are the first at which
streams and handlers multiply. Two requests on two nodes give every pairwise race, also with
Load, which has up to two rows to read after the restart; a third would only repeat them. Three changes take the network up, down and up again, and let
signals overtake each other; with two onion services the invariants of `connectivity`
hold as well (1.2M states with two changes), and the theorem is for any number. Two
requests and the attempt are three connectors at a time. Two scans and one network fill a
queue of one with the network of the other scan and let each block the other; the second
ScanDone is the one that meets a listener already blocked. Two operations let one fail
after the other has been done, two requests contend for one setting, and two restarts give
a restart before and after a key has been saved.

`TouchBound`, `ProgressBound`, `RestartBound`, `StartBound`, `ChangeBound`, `DoneBound` and
`OpBound` are the only counters. `CHECK_DEADLOCK FALSE` is set but for `wifi` and
`settings`: every other instance ends when its bounded inputs are used up, the process of
`Dispensing` exits, and some goroutines do wait for good.

What each checks:

- `MotorHasOwner`, `BuzzerHasOwner`: whoever interleaves with whom, and whatever happens
  to the settings during a dispense, a pin that is high has a goroutine committed to
  lowering it, or the dispenser is being stopped.
- `OneTurnPerPayment`: `Dispensing` implements `Vending`.
- `SafeWhileRunning`, `OffAfterExit`: no panic and no endless send before `done` is
  closed; low pins after a regular exit.
- `PaymentDispensed`: a payment the handler is told of is dispensed, unless Stop comes
  first. `StopEndsProcess`: Stop ends the process or a goroutine panics, unless a touch
  waits for good for the handler that has left: the one way to hang, for `Machine.Stop`
  waits for `handleTouch`.
- `UpdatesTakeTurns`: `Updates` implements `Installer`, so the updater's flag does protect
  `m.update`, and no final outcome is written over. `InstalledIsTrue`, `OutcomeSaved`:
  nothing is called installed that is not; outcomes reach the database or the log before the
  flag is released, but for those of installations that a restart interrupted.
- `ReleasedUnlessClientGone`: the one thing that keeps a finished update from releasing
  the flag.
- `PaidPerStart`: nothing unsettled is paid out, and duplicates are bounded by the starts.
- `CancelledIsSilent`: a handler whose subscription was cancelled is handed nothing that was
  settled later, although the streams of earlier starts stay open, ranges are under way and
  the handlers go on receiving. It is not said of the node: a start that was under way during
  the stop subscribes after it and is served (a finding).
- `EndsAfterStop`: without two goroutines at the map of the clients together, only a stop of
  the node can lead to the daemon's end, by a websocket that then cancels a second time.
- `BilledByStream`: `Invoices` implements `Billing`. No stream gives an invoice to a handler
  twice or loses one it has coming, whatever becomes of the clients under a range; and no
  subscription of a handler ends before a stop.
- `PaidUnlessWatcherGone`: a settled invoice on a live stream is dispensed, with the one
  excuse.
- `ListMirrorsBucket`: list and bucket agree between requests and once Load is over, unless
  requests or Load have raced or Load has failed. `CallsTakeEffect`: `Nodes` implements
  `Directory`, which says what a race may do at most.
- `NewsOnTheWay`: a loop that has not heard that the network came up is still to be told,
  by a signal, the signaller or the broadcaster, although signals overtake each other and the
  map of clients changes under the range.
- `RegisteredHears`, `StartsPublish`, `LoopsEnd`: a change reaches every loop that is
  registered, every start of an onion service gets the mutex, and no loop is kept from
  ending by a broadcast that will never end.
- `StopReachesListen`: the mutex makes Stop cancel the Listen that runs. One that waits
  for the mutex at that time begins afterwards and is not cancelled (`late`).
- `ConnectedIsSaved`: a connection that nobody overlapped is the one the next start comes
  back to, until somebody connects again. `ConnectionsHold`: `Wifi` implements `Station`, so
  what is saved has worked, and of connections that overlap each still enables its own network
  once, with none left from before it.
- `NoNetworkLost`, `ListedNotified`: `Scan` implements `Discovery`, and what is listed does
  reach the phone, also when the scan has ended or another fills the queue.
- `ScanReturns`, `ReturnedCleansUp`: a scan that hears of its end returns, and its listeners,
  match rules and waiting signals are gone by then. A scan whose ScanDone came before the
  subscription never hears of it, and waits.
- `PanicNeedsOverlap`: the two ways in which the end of a scan closes a channel under a
  goroutine are the only ones.
- `SettingsKept`: an answered setting survives restarts until somebody sets it again, and
  what is in force is what is saved, unless requests overlapped or the database failed.
- `OneAddress`: a service is never served under an address that the next start does not
  know, wherever the process ends, unless the database failed.

The violated properties, each a sentence of the repository, are described under
`findings` in `PROJECT.json`: an interrupt during a dispense can leave the motor running;
a second start dispenses twice. The findings without a run are read off one definition, or
are the excuse a property has to make: the updater's flag stays set after `StartFails`, and
`Decide` commits what the operator rejects, `NetSubscribes` may come after a stop, `LoadFails`
leaves the list empty and `LoadRow` may read a nil, `SaveRow` writes a node's row back as it
was read, `Connected` is never true, `Read` attempts a connection
whether there is one or not, `ReceiveAdded` returns on the first signal, `ReadKey` replaces
a key that could not be read.

Every checked property has a mutant in `PROJECT.json`, an operator in its module that
changes one action the way a slip in the code would, and that breaks it.

## Fairness

A goroutine that can take a step eventually does: weak fairness on the steps of each.
Where a goroutine waits in a `select` with several ready cases Go picks one at random, and
senders blocked on a channel are served in order, so a case that is ready again and again
is eventually taken: strong fairness on `TakeTouch`, `TakePayment`, `HandlerDone`,
`TouchExit`, on the receives of `Invoices`, and on the mutex in
`Connectivity`, which Go hands to whoever has waited long. Nothing is assumed of
touches, payments, requests, mender, lnd, the network, interrupts and restarts. A
websocket write ends, with success or not: it has a deadline in the code. So has a Listen:
its context ends after 120 seconds. How main goes on after `RunAndWait` is not fair, so
that `LoopsEnd` does not hold because the process ended. In `Scan` every goroutine that can
run does, and D-Bus calls return; a ScanDone may never come.

## Proofs

Each component has an inductive invariant `IInv`, a theorem `Invariance == Spec => []IInv`,
and theorems that follow from it. Six also have a theorem `Refinement`: the detailed module
implements the abstract one, from `Init` and, for each action, from `IInv` and the step. All
hold for every value of the constants that satisfies the assumptions named below; the runs
show the same on the instances above.

| module | invariants | refinement |
|---|---|---|
| `Dispensing_proof` | `TypeOK`, `MotorHasOwner`, `BuzzerHasOwner`, `SafeWhileRunning`, `OffAfterExit` | `Vending` |
| `Updates_proof` | `TypeOK`, `InstalledIsTrue`, `OutcomeSaved`, `OneInstallation` | `Installer` |
| `Invoices_proof` | `TypeOK`, `PaidPerStart`, `CancelledIsSilent`, `EndsAfterStop` | `Billing` |
| `Nodes_proof` | `TypeOK`, `AckedIsSaved`, `ListMirrorsBucket`, `RemovedStaysRemoved` | `Directory` |
| `Scan_proof` | `TypeOK`, `ReturnedCleansUp`, `PanicNeedsOverlap`, `ReportedOnce` | `Discovery` |
| `Wifi_proof` | `TypeOK`, `ConnectedIsSaved` | `Station` |
| `Connectivity_proof` | `TypeOK`, `StopReachesListen`, `NewsOnTheWay` | |
| `Settings_proof` | `TypeOK`, `SettingsKept`, `OneAddress`, `OnlyAnsweredReboots` | |

`OneInstallation`, `AckedIsSaved`, `RemovedStaysRemoved`, `ReportedOnce` and
`OnlyAnsweredReboots` are proved and in no run: the refinement that the run checks says as
much and more, but for the last.

**Dispensing**, for every set of payments and any `TouchBound`. From `NoPaymentAssumption`
(the marker is no payment) and `TouchBoundAssumption`. `IInv` is `TypeOK` with

- `Lifecycle`: which channel states go with which places of main, handler and drivers, so
  that e.g. a send can meet a closed channel only after Stop;
- `Duty`: the handler serves a payment exactly when one is marked as being dispensed, and
  the touch client is subscribed exactly while the handler lives;
- `Owners`: who owes a running pin its stop. `MotorHasOwner` alone is not inductive: it
  does not say that a commanded start is owed a stop before the motor has received it.

The refinement needs, besides `IInv`, that nobody is served while the handler waits
(`NobodyServed`) and how `Turn` moves with each step.

**Updates**, for any number of updates, clients, lines and restarts. From `NoneAssumption`
and `BoundAssumption`. `IInv` is `TypeOK` with `Holder` (one goroutine at a time works on
`m.update`: the request that won the swap, or the waiter of the process it launched),
`Truth` (an installation has no outcome while it runs), `Debt` (an outcome is saved, logged,
or still owed by the waiter) and `Records` (what is saved, or about to be, does not run ahead
of the installation). The notifications leave all of that alone (`NotifyingIsApart`), which
keeps them out of the proofs. For the refinement `Records` is what shows that a record that
is final is not written over: the waiter writes only while there is none.

**Invoices**, for any number of invoices, websockets and starts. From
`StartBoundAssumption`, `NoneAssumption` and `WatchersAssumption` (websockets are no numbers,
starts are). `PaidPerStart` is a count, and its argument one of counting. A settled invoice
is at most once on each stream (`Once`); so what has been paid, the handlers that are about
to pay, and the pairs of a stream that still carries the invoice and a handler it may yet
serve (`Left`) are together no more than the pairs there are, started times started
(`Bound`). Each step moves one of them to the next, and the lemmas on cardinalities say so.
`Silent` is what `CancelledIsSilent` needs: a stream that carries an invoice settled after h was
cancelled neither sends to h nor has h left to visit; that a receive does not put h back rests
on `Starts`, which keeps cancelled handlers out of the map. `EndsAfterStop` rests on `Stops`: a
websocket's client is cancelled by itself, when it is gone, or after a connection was closed.
The refinement has two halves. Only a
settlement opens a way to a handler (the lemmas `DueStart` to `StillDue`, which the count
needs as well), and no step but the delivery closes one to a handler that is subscribed (the
lemmas `KeptStart` to `KeptHandle`). The second rests on `Starts`: the clients of the map are
among those whose handler has subscribed, so that run() takes all of them along when it
receives.

**Nodes**, for any finite set of nodes and any number of requests and restarts. From
`IdsAssumption`, `NoneAssumption` and `RestartBoundAssumption`. `ListMirrorsBucket` speaks of
the moments with no request in flight; `Mirrors` says at any moment what is missing: a saved
node that is not listed is about to be appended, a listed one that is not saved is about to
be taken off (`InStep` says by whom, and that it knows where). While Load is under way and has
not been raced, nothing is being added or removed, so its keys are the bucket, each once, and
the list is the part of them it has been through (`LoadInStep`, `Lists`). `SavesBack` is the
same for a PATCH that would save a removed row. For the refinement each request is a call
(`CallIs`); that an append, a removal or Load does to the list what `Directory` says is `InStep`
and `LoadInStep` again, and after a race it is only that the list holds nodes there have been
(`Generated`, and `LoadHolds` for the keys that Load has read).

**Scan**, for any number of scans, networks and signals and any queue. From
`NoneAssumption` and `BoundAssumption`. `IInv` says that a network is in one place, still to
forward, offered, in hand, queued or notified (`OnePlace`), that a scan's hands are empty but
while it hands over and its list is gone through before its end begins (`HandsFree`), that
what the end has taken down stays down (`TakenDown`), and that the ScanDone signals pending,
held by the listener and being acted upon are no more than those heard (`Counted`), which is
why a listener that is blocked while its scan ends has heard of two. The refinement follows
from the places and `HandsFree`: a scan returns only with nothing on its way.

**Wifi**, for any number of wifis, requests and restarts. From `AttemptAssumption` and
`NoneAssumption`. `ConnectedIsSaved` speaks of the end of a connection; `IInv` adds what
holds on the way: a connector that nobody has overlapped is the only busy one, and knows
which networks there are at each step (`Apart`), and one that is overlapped has at least its
own network as it left it, or none (`Own`). The first shows that a step of one that nobody
crosses meets the conditions of `Station`, the second that nobody enables a network that is
not its own, or twice.

**Connectivity**, for any number of services and changes. From `NodesAssumption`,
`NoneAssumption` and `ChangeBoundAssumption`. `StopReachesListen` needs that s.cancel is set
while a Listen runs (`Kept`), and `NewsOnTheWay` that the broadcaster has nobody left to send
to once its range is over and that who is owed the news is registered (`Orderly`).

**Settings**, for any settings, requests, operations and restarts. From
`FieldsAssumption`, `NoneAssumption` and `BoundAssumption`. `IInv` ties what a request
claims to the database as long as nobody has set it since (`Claims`), what is in memory to a
request that is about to save it (`Savers`), and a key that is about to be saved to a bucket
without one (`Keys`).

Every invariant and every refinement that the runs check is proved. Only model-checked: the
properties of liveness (`PaymentDispensed`, `StopEndsProcess`, `ReleasedUnlessClientGone`,
`PaidUnlessWatcherGone`, `RegisteredHears`, `StartsPublish`, `LoopsEnd`, `ScanReturns`,
`ListedNotified`), which rest on fairness and ENABLED, out of TLAPS's reach. Where one has a
safe half it is proved: `NewsOnTheWay` is that of `RegisteredHears`, the refinements of
`Billing` and `Discovery` (nothing due is lost) those of `PaidUnlessWatcherGone` and
`ListedNotified`, `OutcomeSaved` that of `ReleasedUnlessClientGone`. The two runs that end in
a violation refute their property, so there is nothing to prove.

## Not modelled

- Wire formats, HTTP routing, D-Bus, Bluetooth, pages, logging: I/O.
- Memory effects of data races (unsynchronised fields and maps): the models interleave
  whole reads and writes.
- Time: the 1.5s of a dispense, the 2ms of the debouncing and timeouts are order only.
- Shutdown's `Stop` of every node, removal of a running node, local nodes. A composition of
  `Invoices` with `Nodes` would have them, but each alone takes TLC most of what it can do.
- `SubscribeDispenses` has no caller, so the notifier has nobody to notify.
- The GATT application of `pairing/ble/ble.go`: a tree of properties and handlers that is
  built once and handed to BlueZ, which then calls `scanWifi`, `connectWifi`, `status` and
  `onionApi`. The first two are in `Scan` and `Wifi`, the others only read.
- Reading back: `GetUpdate`, `getDispenser`, the lists of nodes. They change no state.
- `Wipe`, versions of the database, wallet creation and unlocking of a local lnd.

## How the modules fit

`Dispensing` is on `Machine` and implements `Vending`; `Updates`, `Invoices`, `Nodes`,
`Scan` and `Wifi` implement `Installer`, `Billing`, `Directory`, `Discovery` and `Station`.

The components meet at single steps: `Pay` of `Invoices` is `Settle` and `TakePayment` of
`Dispensing`; `Start` of the nodes' loop in `Connectivity` is `NetworkUp` of `Invoices`;
`SetEnabled` of `Invoices` is the write to the list at the end of a PATCH of `Nodes`;
`SetMemory` of `Settings` is `ChangeSetting` of `Dispensing`; `Restart` is in each module
what the end of the process leaves. Each module lets the steps of the others happen at any
time, so its properties do not rest on an order between them.
