# TLA+ verification of the Power Control Service (PCS)

PCS (`hms-power-control`) turns the nodes, modules, chassis, outlets and
controllers of a Cray EX system on and off, reports their power state and sets
power caps. Several instances (pods) of it run at once. They share no memory:
everything they agree on is in etcd. A pod may die at any moment and another
one has to go on with what it was doing, towards hardware that obeys late, or
never, and whose state is only known from a copy.

All paths below are relative to the repository. `transitions.go` alone means
`internal/domain/transitions.go`.

## 1. Inventory

### Components

| part | state it keeps | operations |
|---|---|---|
| **transition worker** `doTransition` (transitions.go) | its task map `xnameMap`, `seqMap`, `trsTaskMap`; the record and its tasks in etcd | set up or reload tasks, read HSM data and power states, sequence, reserve, go through the tiers, compress and complete |
| **keep-alive** `transitionKeepAlive` | none (a snapshot of the record) | refresh `LastActiveTime` every 10 s, end when the record is finished |
| **reaper** `transitionsReaper`, `deleteTransition`, `compressAndCompleteTransition` | none | every minute, in every pod: take over abandoned records, abort expired ones, compress old ones, delete expired or surplus ones |
| **transitions API** `TriggerTransition`, `AbortTransitionID`, `GetTransition(s)` | none | create, abort with up to 3 test-and-sets, read |
| **power sequencing** `sequenceComponents`, tier loop, `failDependentComps` | `seqMap`, `ActionCount`, task states | what is sent to which component in which order, escalation, restart after a crash |
| **power status monitor** (power-status.go) | the component map, the master lock, power states in etcd | elect a master, poll controllers, store changes |
| **power capping** (power-cap.go) | task and operation records | snapshot and patch limits, reap expired tasks |
| **etcd storage** (internal/storage) | keys and JSON values | store, test-and-set, delete, cut large records into pages |
| **HSM client** (internal/hsm) | the map of reservations (in the reservation library), renewed every 10 s | state and endpoints of components; reserve, check and release |
| **distributed lock** (internal/storage/distlock_etcd_impl.go) | an etcd lock with a lease | taken around the election of the power status master |
| in-memory storage and lock, credential store, service shell (main, HTTP routes, health) | | |

### Interactions

- API caller -> record in etcd -> worker goroutine of the same pod.
- Worker and keep-alive goroutine: the record (test-and-set) and an unbuffered
  cancel channel.
- Reapers of all pods and all workers: only the record. Ownership of a
  transition is nothing but "its `LastActiveTime` is younger than 30 s".
- Caller's abort -> status `abort-signaled` -> noticed by the worker when its
  own test-and-set fails, or when it polls `checkAbort`.
- Worker -> controllers (redfish) -> monitor -> power states in etcd -> worker:
  a command is confirmed only along this way round.
- Worker -> HSM reservations, renewed in the background, lost when they expire.

### What is hard

Two workers on one transition; stale snapshots stored over newer values; a
crash between any two of the several stores an operation consists of; an abort
racing with every other store; the last store failing; commands lost or
carried out after they were given up; confirmation from late copies; the
deadline passing while the hardware obeys; the restart guessing from a stored
task and a power state how far the previous worker had got; components whose
power feeds others; a record spread over several etcd entries that are written
one by one; a map of reservations shared by all transitions of a pod and
renewed in the background. `PROJECT.json` lists these at their lines under `hazards`.

### What makes each part correct

- record: one worker at a time; a finished record never changes; an abort is
  neither lost nor ignored; every record is finished in the end; no result is
  lost by compression; nothing is left under a deleted ID.
- sequencing: every component gets a result; the result is true of the
  hardware; power is never taken from a node that could not be shut down (Soft-Off);
  nothing is told to turn on before what feeds it; force is used before a node
  is given up (Off); the transition ends although the hardware does nothing.
- monitor: one master at a time; what it holds in its map is what etcd shows;
  every change of the hardware is stored in the end.
- power capping: every task ends; counts agree with the operations; an expired
  task stays deleted.
- storage: what is read back from pages is what was stored; an unchanged paged
  record can be test-and-set; a deleted record leaves no pages.
- reservations: no two transitions command one component; a worker stops when
  its reservation is gone; a restart keeps what it had; nobody releases what is
  not his; nothing stays reserved for ever.

## 2. Modules

| module | what it is |
|---|---|
| `TransitionLifecycle` | one transition record, from POST to deletion: workers, keep-alive goroutines, reapers, API callers, crashes, etcd errors |
| `MCLifecycle` | constants for TLC: pods and worker slots |
| `TransitionLifecycleProofs` | type correctness |
| `SingleWorkerProofs` | inductive invariant; one worker; finality |
| `LifecycleReportProofs` | what becomes of an abort signal, of the results and of the tasks; what an aborted record reports |
| `PowerSequence` | what one transition does to the hardware: sequencing, reservations, tiers, confirmation, escalation, restart |
| `MCSequence` | constants for TLC: two small machines |
| `PowerSequenceProofs` | what `ActionCount` counts; every task finishes; results and restarts are real; force before failure; power before a command to turn on; who loses power |
| `PowerCapTask` | what the caller of a power capping request is promised of its task |
| `PowerCap` | one power capping task, from the request to deletion: worker, reapers, crash, errors; implements `PowerCapTask` |
| `MCPowerCap` | constants for TLC: requests and inventories |
| `PowerCapProofs` | limits; the refinement of `PowerCapTask`; reports; operations left over |
| `PowerStatus` | the power status monitor of several pods: election of the master, component map, polling, stores |
| `MCPowerStatus` | constants for TLC: three small systems |
| `PowerStatusProofs` | one master; etcd shows its map |
| `TransitionStore` | one transition record as entries in etcd: truncating, cutting into pages, joining, test-and-set, deletion |
| `TransitionStoreProofs` | type correctness; what is read back is what was stored; small records; pages left over |
| `MCStore` | constants for TLC: requests of every size |
| `Reservations` | reserving, renewing, checking and releasing components, by transitions that compete for them |
| `MCReservations` | constants for TLC: who wants what where |
| `ReservationsProofs` | exclusion; whose reservations are released; one tier late; a restart keeps its own |

The first two models cut the worker along the interface between the record and the
hardware. `TransitionLifecycle` has every store, guard and error path of the
record and of the task records, and lets each component of a tier be answered,
confirmed or fail in any way. `PowerSequence` has the tiers, commands, power
states and task states, and lets all etcd operations succeed. What the first
takes from the second (no task is open when the tiers are done) is the second
one's `AllFinished`. The last three modules open what these two take for
granted: that a store of the record is one step (`TransitionStore`), that power
states in etcd follow the hardware (`PowerStatus`; `Monitor` and `Lose` of
`PowerSequence`), and that a reservation is granted, refused or lost
(`Reservations`; `Reserved`, `ReserveFailed` and `KeyExpired` of `PowerSequence`).

### TransitionLifecycle

`rec` is the value of `/transitions/<id>`, `tdb` the task records. `pc[w]` and
`loc[w]` are the program counter and the locals of the `doTransition` goroutine
in slot `w`; `ka`, `rp`, `cl` the keep-alive goroutine, reaper and caller. One
action is one etcd operation with what the code does until the next one.

*Test-and-set.* The code compares the whole stored JSON. Every store of a live
record sets `LastActiveTime` to the current nanosecond, so a snapshot equals
the stored value exactly if nothing different has been stored since it was
read. `cur` holds the actors of whom this is true; a store empties it unless it
changed nothing. Two stores do not refresh the time (the caller's and the
reaper's abort signals), and their effect on `cur` depends on whether the value
changed.

*Time.* `stale` is "`LastActiveTime` is older than 30 s", `expired` is
"`AutomaticExpirationTime` has passed". `Lapse` makes a record stale only
when no keep-alive goroutine runs and no worker is about to start one: pods may
die, but not stall for 30 s. That assumption is the code's own (there is no
other lease) and all results about `SingleWorker` rest on it.

*Task status.* `open` stands for `new` and `in-progress`, `failed` also for
`unsupported`; the code modelled here never tells them apart.

### PowerSequence

`task` is the worker's copy of the tasks and `db` the one in etcd. `hw`, `mon`
and `cmd` are the hardware, the monitor's copy of it in etcd, and the command a
controller has accepted and not carried out. `PowerSequenceFull` is the code's
table of tiers. `Sequenced(c)` is `sequenceComponents` for one component, one
operator per operation, and its result the task and the actions the
component is put down for. Each further action is one loop body or one branch
of the tier loop. A failed component's dependents (`failDependentComps`) are
stored before its own task is, in two steps, because a crash may come between
them.

The hardware is external: it carries out commands at any time or never, drops
what loses its module or its last supply, and turns nothing on without power. A
request reported as lost (`Fault`) may have arrived. `Flaky` components
may become `undefined` in the monitor's copy at any time. A refusal by the
controller counts as acceptance, because the code's test of the status code
(transitions.go:831) is never true.

### PowerCap

`rec` is the value of `/powercaptask/<id>`, `ops` the operation records. `pc`
is the program counter of the worker and of each pod's reaper, `lst` the
operations one has read, `todo` and `out` the operations the worker has yet to
store and to get an answer for, `seen` the record as a reaper read it, `hw` the
limits set on the hardware. `FillHSMData` is the set of what the function of that name
may return: everything; nothing, when HSM does not list the components; or the
components with the endpoints of some batches only, when a later batch fails
(state_manager.go:669-688). `Begin` picks one. `Planned(c, hsm)` is the operations
that `doPowerCapTask` then makes for one component: a failed one for `"lookup"` if it
was refused or HSM failed, and, because the code goes on after an error of HSM, those
that its checks lead to if it is in the map (`Generated`, where `inv[c].check` is the
first check it fails, or `Bare` if its endpoint is missing). An operation is known by
its component and `"lookup"`, a control, or `"node"`. Tasks are stored blindly, not by test-and-set, and nobody takes over
the task of a dead pod; it stays as it is until it expires.

`PowerCapTask` is the abstract task: created, worked on, completed; results are
final. `PowerCap` implements it with the results that `GET` would build (`View`)
for `results`. `closing` ends the promise: the record has expired, or
a reaper is deleting it as surplus.

### PowerStatus

`rec` is the master's time stamp in etcd, abstracted to none, fresh or stale,
and `known` the pods whose copy of it is the stored one (a test-and-set succeeds
for those). `pc[p]` is where `monitorHW` of pod `p` is, `map[p]` its `hwStateMap`,
`db` the power states in etcd. `FetchHSM`, `Refresh` (one component of
`updateComponentMap`), `LaunchQueries`, `Answer` and `Apply` (one answer gone
through) are one sweep. An answer is one of five pairs of a power and a
management state; which redfish payload leads to which is abstracted. Three
intervals without a refresh make the stamp stale, that is two missed ticks:
pods that stall are left out here too.

### TransitionStore

The arrays of a record are sequences of numbers, its size a weighted sum of
their lengths. `FirstOf` and `RestOf` are `truncateAndPageTransitionIfNeeded`,
`Joined` is what `GetTransition` makes of the entries. Clients are the worker (the
request, then the task IDs, then the results), the keep-alive goroutine and the
reaper; each step is one etcd operation. `dirty` records why the pages may not
belong to the first entry: `torn` by a pod that died between them, `foreign` ones
written by a client whose test-and-set was refused, `leftover` ones of a longer
record. etcd works here; what errors do to the record is in
`TransitionLifecycle`.

### Reservations

`hsm` is HSM's table of reservations, `map[p]` the reservation library's map in
pod `p` and `thread[p]` its renewal thread (both external, modelled from the
vendored library the code links). A worker goes through `ReserveComponents`
(`Reacquire`, `FlexCheck`, `ValidateDeputyKeys`, `FlexAquire`), stores the keys,
alternates `CheckDeputyKeys` and `Tier`, and releases. Every call to HSM may
fail, before or after HSM has acted. A reservation key and its deputy key are one
value.

## 3. Runs

`tlc -workers 2 -config X.cfg M` in this directory; the names are those of
`PROJECT.json`.

| run | shows | distinct states |
|---|---|---|
| lifecycle_crash | two pods, one dies at any step: `SingleWorker`, `ReportComplete`, `NoOrphanTasks`, `TerminalIsFinal`, `ResultsKept` | 1.0 M |
| lifecycle_abort | a caller and the expiry abort, one crash, one failing etcd operation, an old uncompressed record: `AbortNotDropped`, `AbortStopsCommands`, `AbortReport` | 1.7 M |
| lifecycle_live | two crashes and a caller: `Settles`, `AbortHonoured` | 0.14 M |
| lifecycle_abort_returns | finding 1 | violation |
| sequence_power | all operations but Soft-Off on a node, its module and a controller; one loss, one crash: `AllFinished`, `OutcomeReal`, `RestartReal`, `CutOnlyFailed`, `ForcedFirst`, `OnHasPower` | 1.8 M |
| sequence_soft_off | Soft-Off of a node, its module and its two outlets, one of them flaky, one crash, no lost request: `NeverCut`, `Finishes` | 0.25 M |
| sequence_walk | finding 2 | violation |
| power_cap | snapshots and patches of two components; one crash, one etcd error, one failing request: `Implements`, `ReportComplete`, `NoOrphanOps`, `SafeLimits`, `Purged` | 1.1 M |
| power_status | two pods, a node and a BMC, two failures of any kind, one change of the hardware and one of the inventory: `OneMaster`, `MapStored`, `Converges` | 0.8 M |
| transition_store | records of nine sizes, one crash: `ReadBack`, `SmallIsWhole`, `NoOrphanPages` | 0.3 M |
| store_refused | finding 3 | violation |
| reservations | two transitions, two pods, one component, another service, one crash, any errors: `Exclusive`, `OneTierLate`, `KeepsOwn`, `ReleaseOwn`, `Freed` | 0.65 M |

Deadlock is checked in `power_status`, whose pods never stop. It is not in the
others: a finished transition stops, and so does a worker whose cancel message
nobody receives.

### Bounds

- *Pods, slots*: two pods with a slot each are the least that can race for a
  take-over; a third adds no new kind of step, and the theorems below hold for
  any number. The abort runs have one pod: with two, an abort, a crash and an
  error exceed ten million states.
- *Tid* = {1, 2}: two tasks for one component arise only when a restarted worker
  could not read the first one.
- *MaxTier* = 2: one tier after another is the least in which a tier can be
  left half done with a later one to come.
- *MaxCrash*, *MaxErr*, *MaxFault* of 1 (2 crashes in `lifecycle_live`): every
  place for one failure. Two independent failures at once are left out.
  `sequence_soft_off` has no lost request (`MaxFault` = 0): its four components
  with a flaky outlet are 0.25 M states without one and 1.4 M with it, too many
  to check liveness of.
- *Machines*: a node in a module is the least with something that feeds
  something; two outlets are the least for which "the last supply" means
  something; the controller has its own tier and its own rules for restarts.
  Each node may turn out to have `forceoff`, or `gracefulrestart` and no
  `forceoff`.
- *Power capping*: two controls and limits in range, too low, too high, zero and
  for a control that is not there; each schema once with two controls, and every
  outcome of the checks. `MaxComponentQuery` = 1: with two components HSM may fail before its
  batches, at the first, or at the second, which leaves either of them complete and the other not.
  One pod: with two reapers, one may
  compress a record of an older version after the other has done so and found
  its operations gone, which leaves an empty report (a hazard in
  `PROJECT.json`).

- *Power status*: two pods are the least that compete. The three systems are a
  node that HSM lists late or without its endpoint, a BMC whose slot fills and
  whose actions appear late, and the two together with the BMC dropped. Two
  failures in all (`MaxFailures`) allow a crash during an election and two failed
  refreshes in a row, after which the master is legitimately replaced.
- *Paging*: a page size of 5 and a limit of 12 stand for 5000 and 1.57 MB; the
  nine requests lie on both sides of, and on, each comparison of
  `truncateAndPageTransitionIfNeeded`, with up to three pages. `MaxTries` ends the
  keep-alive goroutine's loop after one refusal (the code's does not end).
- *Reservations*: one component, since the code treats components of a request
  independently; two transitions that want it, on one pod and on two. Four keys are
  enough for the ones in use at a time (`InUse`); a forgotten one may be handed out
  again. `FlexAquire` waits when there is no key left, which does not happen with
  four; the theorems hold for any number. Two tiers: the least with a check after a command. Behaviours are cut
  (`StillClaimed`) once a reservation has gone unrenewed *and* HSM has failed a
  worker: each property but `TypeOK` excepts one of the two, so nothing is claimed
  after both.

### Fairness

`lifecycle_live`: weak fairness of each worker, keep-alive goroutine and reaper
(the Go scheduler and the tickers) and of `Lapse` (time passes); strong fairness
of `PollDeadline`, since the deadline, once passed, stays passed while rounds of
polling go on (`TaskDeadline` finite). A caller need not call. `sequence_soft_off`:
weak fairness of the worker, its restart included (the reapers take over, which
`Settles` shows), and strong fairness of `Deadline`. Hardware and monitor are not
assumed to do anything. `power_cap`: weak fairness of the worker (its requests
are answered or time out), of the reapers (tickers) and of `Expire` (time). `power_status`: weak fairness of
`monitorHW` and of the keep-alive goroutine of each pod and of `Lapse`; nothing
makes hardware or inventory change, or a failure happen. `reservations`: weak
fairness of each worker (its restart by a reaper included) and of the expiry of
a reservation that nobody renews; the other service may keep its own for ever.

### Exceptions that the properties state

They are part of the results, and each can be seen in a trace when it is
removed:

- `SingleWorker`, `ReportComplete` and `NoOrphanTasks` hold until an abort is
  signaled. After one, the record may be finished while its first worker is
  still at work (finding 1).
- `ReportComplete`, `AbortReport` and `NoOrphanTasks` need etcd to work: a task
  that cannot be stored or read is lost or doubled.
- `NeverCut` does not hold for a node that does not support the operation (its
  module is not told) nor for one with a supply whose state was `undefined`
  (`failDependentComps` skips it and protects another that may be off).
- `CutOnlyFailed` and `OnHasPower` allow for what feeds the node having been given up (a
  command that timed out may be carried out later) or not having been seen when a
  worker started; `CutOnlyFailed` also for the node itself not having been seen, and for
  nodes that Soft-Restart leaves to restart by themselves (see the observations).
- `RestartReal` exempts components whose state was `undefined` when a worker
  started (see the observations), and restarts left to the controller, pending or refused,
  which the code does not verify (the TODO at transitions.go:680).
- `ReportComplete` of `PowerCap` needs etcd to work and the record not to
  have expired or be on its way to be deleted; errors of HSM and of controllers it does not except; `NoOrphanOps` does not hold if the worker dies after its record
  has expired and was deleted under it.

- `OneMaster` holds as long as fewer than two etcd operations fail. After two
  missed refreshes a second pod takes over, and the first one finds out only at
  its next tick.
- `MapStored` needs etcd to work; `Converges` exempts components first seen
  without an endpoint, after the death of a master those that are unreachable or
  were dropped at the time, and after etcd errors those whose last write failed or
  was another pod's. Each is a behaviour of the code (see the observations).
- `ReadBack` and `NoOrphanPages` speak of pages that no write has left torn,
  foreign or over, and `ReadBack` of results that do not fall between the two page
  sizes.
- `Exclusive`, `ReleaseOwn` and `KeepsOwn` hold while no reservation in a running
  pod's map goes unrenewed (`lost`). `OneTierLate` and `Freed` hold while HSM answers
  the workers (`erred`).

## 4. Findings

1. **An abort does not end the worker** (transitions.go:328 and 550). After
   `doAbort` two of the callers go on with an emptied task list; the record goes
   `aborted`, `in-progress`, `completed`. It sends no command on the way
   (`AbortStopsCommands` holds).
2. **The walk over the ancestors does not advance** (transitions.go:1437-1452)
   past one that is in the request: Soft-Restart of a node with
   `gracefulrestart` together with its module never ends.
3. **The test-and-set of a paged record is always refused**
   (model/transitions.go:318-332, storage_etcd_impl.go:759). `CopyTransition` makes
   arrays of length 0 and copies into them. `storeTransition` gives up after three
   attempts and the worker goes on without its store; an abort cannot be signaled;
   the keep-alive goroutine loops without a pause and refreshes nothing. The last has
   a consequence for `TransitionLifecycle`: its `Lapse` assumes a refresh, so
   `SingleWorker` is shown for records that fit into one entry (for which
   `SmallIsWhole` holds), and a running transition with pages looks abandoned after
   30 s.

Observations without a run of their own. The models show the following when the
constant or the exception named is changed:

- Soft-Restart of a node with `gracefulrestart` whose outlets are in the request looks at
  its module only (transitions.go:1431-1452): the outlets may be cycled under the running
  node (`CutOnlyFailed` without `Restartable`);
- Init of a node whose stored state is `undefined` takes it for off, and turns its supply
  off while it runs (`CutOnlyFailed` without `blind`);
- a second abort signal, from another caller or the expiry, after finding 1: the first worker
  is `in-progress` again without a keep-alive goroutine, the record becomes stale and the reaper
  launches a second worker, the first one obeys the second signal and stores a record that is
  `aborted` and reports tasks of the second worker as they are, in progress (`AbortReport` with
  two worker slots);
- a failed final store leaves an immortal record (transitions.go:1886): the
  worker ends and its keep-alive goroutine does not, so no reaper takes over
  (`Settles` with `MaxErr` = 1 in `LifecycleLive.cfg`);
- `TaskDeadline` 0 counts every command twice (transitions.go:862 and 936): a
  completed Hard-Restart reports its task as in progress (`AllFinished` with
  `NoWait` = TRUE in `SequencePower.cfg`);
- `undefined` counts as off at a restart (transitions.go:1480): a Hard-Restart taken
  over meanwhile succeeds without a power cycle (`RestartReal` without `blind`);
- a component that HSM lists before it knows its endpoint is never queried until
  the pod restarts (power-status.go:347-360), and an error body from HSM counts as
  "no endpoints" because the HTTP status is not looked at
  (state_manager.go:394-421);
- a new master starts every component as unavailable and stores only what differs
  from that, so that an unreachable component keeps the state an earlier master
  stored (power-status.go:352, 895); components dropped from HSM before a take-over are
  never deleted; a failed store is not repeated (power-status.go:917);
- a pod that dies between the first entry and the pages of a new record loses
  locations for good, and the transition is then run on the rest
  (storage_etcd_impl.go:466); a refused test-and-set writes its pages all the same
  (896); pages are left when a record needs fewer than before; a reaper that dies
  after the first entry leaves pages nobody looks for (860);
- results are lost when there are fewer than a page and more than half of one:
  `pageTasks` steps by `e.PageSize` and takes `pageSize` (storage_etcd_impl.go:682);
- an error of `ReserveComponents` after part was reserved releases nothing, and the
  renewal thread keeps the rest reserved until the pod ends (transitions.go:569-587);
  so does a failed release, whose result is ignored (657);
- `Reacquire` leaves the expiration zero, and a renewal that races with it drops the
  entry, which is then not renewed (state_manager.go:204);
- after a lapse, the end of one transition releases the reservation that another
  one of the same pod has made since, because `FlexRelease` names components
  and takes the keys from the shared map (state_manager.go:336);
- when HSM does not answer `CheckDeputyKeys`, the tier's commands are sent
  (transitions.go:715-719);
- the test of the response's status code, `< 200 && >= 300`, is never true
  (transitions.go:831, power-cap.go:739);
- when HSM fails half way, every component is reported as failed ("Failed to get data from
  HSM. Fail everything.", power-cap.go:459), but the code does not return: it sends the requests of
  those whose endpoints it already has (492), whose limits are then set, and the report has a
  failed and a succeeded operation for them (`power_cap` reaches this; `ReportComplete` says that
  such a limit is not passed over in silence);
- a patch of which one control is out of range is sent without it and reported
  as succeeded (power-cap.go:590-647);
- a component patched with no controls has no operation and no result;
- two pods may compress one record of an older version (transitions.go:1757): the
  second lists the tasks while the first deletes them, and stores half a report
  (`ReportComplete` with `Legacy` = TRUE in `LifecycleCrash.cfg`; the proof of
  `EveryResultIsReported` does not go through without excluding it). The reapers of
  power capping do the same (`Tidy` in `PowerCapProofs`).

Seen in the code and not modelled: a `GET` of a power capping task between the
last store and the deletion of its operations may have read the record before and
the operations after (power-cap.go:292); in a merge of a component's operations,
limits found by a later one are dropped if the first had none (power-cap.go:363);
`updateVaultCreds` fetches credentials again for entries that have a password and
skips one with a name and no password (power-status.go:401); the error of `FlexCheck` is
looked for in the wrong variable (state_manager.go:211).

## 5. Proofs

Checked by `tlapm`, for all values of the constants that satisfy the assumption
of each module: any number of pods, workers, callers, components, crashes and
errors, any arrangement of the hardware. A theorem with a further hypothesis
has it because the property is false without it; each such case is named.
Every inductive invariant was checked with TLC on the runs before it was proved.
The proof of a step has one lemma per action, over lemmas about the operators
the actions share.

### `TransitionLifecycle` (`ConstAssumption`)

- `TypeCorrect`. Besides the shapes, `storeTransition` gives up after three
  attempts.
- `NoTwoWorkers`: `Spec => []SingleWorker`, from `Invariance`: `Spec => []IInv`.
  `SingleWorker` alone is not inductive. A reaper launches a worker after a
  successful test-and-set on a stale record, so one has to know that nobody works
  on a stale record, and that nobody refreshed it since the reaper read it:
  - `Unborn`: before the record is created nothing runs;
  - `Snapshots`: a reaper whose snapshot of a running record is current knows
    its status;
  - `Quiet`, as long as no abort is signaled: nobody is on a path to
    `aborted` (`NoAbort`); a worker up to its last store keeps the record running
    and fresh by its keep-alive goroutine, and after that store the record
    is completed or gone (`Attends`); a reaper that has found the record finished
    finds it so ever after (`Reaping`); and at most one worker is active
    (`AtMostOne`);
  - `Signaler`: an abort signal needs a caller or the expiry.
- `FinalWithoutAbort`: with no caller and no expiry, `Spec => TerminalIsFinal`.
  The hypothesis is needed: finding 1 is its failure with a caller.
- `NoCommandAfterAbort`: `Spec => []AbortStopsCommands`. Finding 1 says that the
  worker goes on; this says that it does no harm. `CalmInv`: after `doAbort` no task
  of the worker is open, and each way to a command needs an open one.
- `SignalSurvives`: `Spec => AbortNotDropped`, where nothing expires and nothing is
  pruned. `Informed`: a worker whose snapshot shows the signal knows of it, so a
  test-and-set that succeeds does not take it away. The hypothesis is needed: a
  worker whose record was deleted under it stores it blindly.
- `NoResultIsLost`: with no caller and no expiry, `Spec => ResultsKept`, and
  `NothingIsLeft`: `Spec => []NoOrphanTasks`, both from `KeptInv`: until an abort is
  signaled, a list of tasks that is going to replace or delete them has them
  all. That rests on `Quiet`: whoever lists the tasks of a finished record knows that no
  worker is left to add one. `KeptInv` holds with any number of etcd errors.
- `EveryResultIsReported`: `~Legacy => (Spec => []ReportComplete)`. `WholeInv`: without
  errors or an abort signal the tasks in etcd are those the worker holds, one for
  each component, and it reaches its last store with all of them closed.
  With records of an older version it is false (see the observations).
- `AbortedIsClosed`: `Spec => []AbortReport`, under `OneCall \/ OneSlot`.
  - `OneCall` (nothing expires, at most one caller), with any number of workers, pods,
    crashes and components. `AbortInv`: until the signal, `WholeInv`; from then on
    one worker at a time sets out to obey it (`WorkerCourse`: a worker sets out only on a
    signal) and closes what it has (`Answering`); once the record is completed, no signal
    is left to make anybody complete it again (`Answered`).
  - `OneSlot` (one worker slot, used again after a crash), with any number of callers and
    reapers and records of an older version. `SlotInv`: whatever tasks etcd
    still has when the worker completes the record are the worker's, in the state it has them in
    (`Within`), it stores `aborted` only with the tasks closed (`Owns`), and what a record
    then reports is closed (`Reported`).

  The hypothesis is needed: with two slots and two signals it is false (see the
  observations). `lifecycle_abort` is an instance of `OneSlot`.

### `PowerSequence` (`SeqAssumption`)

All need `~NoWait` (`TaskDeadline` is not 0): otherwise an action is counted down
when it is sent and again when it is confirmed, and `ActionCount` falls below zero.

- `TypeCorrect`, `EveryTaskFinishes`: `Spec => []TypeOK`, `Spec => []AllFinished`. The
  code counts `ActionCount` up when a component is put down for an action and down
  when one is confirmed, and reports success at zero, at many places. `Account` says what
  it counts: the actions whose tier is still to come or not yet confirmed for the
  component, a shutdown and the forceoff that may follow it being one (`Counted`);
  where the worker is and which of its sets are in use there (`Shape`); which
  actions a component may be put down for together (`Planned`); and that the tasks in
  etcd tell the command last sent, from which a restart takes up (`Traced`, `Stored`). Past the last tier nothing is
  due, so the count is zero and the task was stored with a result. That every action
  has a tier is a hypothesis, `Tiered`: there are none for switches, nor for turning
  controllers on or off, which "don't support on/off operations"
  (transitions.go:1464). `Placed` carries it through restarts.
- `ResultsAreReal`: `Spec => []OutcomeReal`. `Directs`: in a transition that turns
  things on (off) all commands under way do so, hence what the monitor or the worker has
  once seen on (off) stays so, however late it is read.
- `ForceComesFirst`: `Spec => []ForcedFirst`. `Insists`: a task that waits for a
  forceoff was sent one, Off puts down a component only for what it supports, and, without
  faults, a node that can be forced and has failed was forced. Hypothesis `Outlets`: what feeds a component is not a node, so that no
  node is failed on behalf of another.
- `RestartsAreReal`: `Spec => []RestartReal`, under `Tiered`. `Restarts`: as long as a
  component has not been off, and was seen whenever a worker started, its state is what the
  worker and the monitor have (`Constant`) and both halves of its power cycle are due
  (`OffComesFirst`); one that restarts by itself is not turned off meanwhile
  (`LeftAlone`). The stored tasks say the same, which carries it over crashes.

- `PowerComesFirst`: `Spec => []OnHasPower`. `OnlyGivenUpIsCut`: `Spec =>
  []CutOnlyFailed`. `SoftOffSpares`: `Spec => []NeverCut`. They relate components along the wiring,
  and have two hypotheses about it beside `Tiered`: `Wired`, there is one level of feeding (nodes and
  enclosures by outlets, nodes and controllers by modules), and for the last `Moduled`, a node's module
  is not a router's. The machines of the runs satisfy both.
  - `Supplied`: what is on has power. `Recorded`: a task that has a result waits for nothing.
  - `Closed`: a component with nothing due stays so. When *c* is told to turn on,
    all that feeds it is closed (`FeedFirst`), because its tier comes before (`ClosedFirst`).
  - `Turns` follows a power cycle: what was to be turned off is off until it is told to turn on
    (`Sighted`, `Between`), and what is closed after that is on (`Back`, `Returned`), unless given up or not
    seen. With `FeedFirst` this is `OnHasPower`.
  - `Spared`: what feeds a node is told to turn off only when the node is off and
    stays so, or one of the exceptions applies. The exceptions are for ever (`ExemptStays`), and so they still
    hold once the node is cut (`Excused`).
  - For Soft-Off, `Forceless`: no force is used. `Covered`: until a node has its result, nothing
    that feeds it is told to turn off (`Untold`). A node that fails is protected
    (`failDependentComps`): it is off, or its module and one of its supplies that is on are given up
    with no command under way (`Idle`), so nobody will turn them off (`Protected`).

### `PowerCap` (`CapAssumption`)

- `TypeCorrect`, and `LimitsAreSafe`: `Spec => []SafeLimits`. A limit is set only by
  an operation that is out, whose verdict was passed on the request
  and the inventory it was made from (`Plan`).
- `TaskRefined`: `Tidy => (Spec => Implements)`, the refinement of `PowerCapTask`: each
  step is one of its steps or leaves its state alone. Until it expires, the record of a
  running task is the worker's alone (`Underway`), reapers delete only what has expired or
  is being closed (`Closed`), and what is moved into the record is what there
  is (`Copied`). `Tidy` excludes several pods *and* a record of an
  older version, whose reapers overwrite results with nothing.
- `ReportIsComplete`: `Tidy => (Spec => []ReportComplete)`. `Told`: each component that
  was asked about has an operation stored or about to be; `Reported`: what a report shows is
  over. `Capped`: a component has at most one operation that can set its limits (`Single`,
  from `PlannedOps`, over all that HSM may answer), and from the moment a limit is set
  that operation is stored as succeeded or failed, then on the worker's list, then in the report
  (`Shown`). A failed lookup of the same component, and where HSM failed, make no
  difference to that.
- `NoOperationIsOrphaned`: `Spec => []NoOrphanOps`. `Swept`: who is going to delete
  has listed all there is.

### `PowerStatus` (`StatusAssumption`)

- `TypeCorrect`.
- `SingleMaster`: `Spec => []OneMaster`. `Election`: a pod that is not master knows
  the stored time stamp only while that is old (`Informed`), and an old one means
  that there is no master, unless two refreshes have failed (`Deserted`, `Missed`). So
  a test-and-set that succeeds finds none. The first master stores without a
  test; the lock sees to it that there still is no time stamp then (`FirstEver`).
- `MapIsStored`: `Spec => []MapStored`. `Mirror`: without errors only the master
  sweeps, it starts with an empty map, and each entry it holds is the one it
  stored, or unavailable and not in etcd yet.

### `Reservations` (`ReservationAssumption`)

- `TypeCorrect`.
- `Exclusion`: `Spec => []Exclusive`, and `ReleasesOwn`: `Spec => ReleaseOwn`.
  `Guarded`, while nothing goes unrenewed: the key a worker takes for its own is HSM's
  and the one in its pod's map (`Held`), and no key is the own of two
  transitions, whether it is in their data or in a stored task (`Apart`). The second half is
  what survives a crash.
- `AtMostOneTierLate`: `Spec => []OneTierLate`. `Gone`: a reservation that is gone
  stays gone for those who know its key, and is found gone at the next check.
- `OwnIsKept`: `Spec => []KeepsOwn`. `Asked`: what was the transition's own has been
  asked for before anything is refused.

### `TransitionStore` (`StoreAssumption`)

For every page size, entry size, message length and request. The operators that
add tasks and join pages are recursive functions on the naturals; what they compute
is proved by taking the least number for which it would be wrong (`Induction`, from
the well-foundedness of `<`), and that they exist at all likewise (`Recursion`).

- `TypeCorrect`.
- `RoundTrip`, a lemma about the operators alone: the first entry and the pages that
  `truncateAndPageTransitionIfNeeded` makes of a record join to that record, but for
  truncated messages and for results that fall between the two page sizes. The three
  arrays of a record are cut by two different steps and may end on different pages;
  `CutPages` says which items page *i* has, `PartGrows` that the parts joined so far
  are the first items of the array.
- `ReadBackHolds`: `Spec => []ReadBack`. `Stored`: while nothing is dirty the first entry is
  that of a record the worker made (`Faithful`), and the pages are those of the same
  record as far as its owner has written them. `Held`: a client that has seen
  nothing torn holds the record of its stage, its messages perhaps truncated. `Phase`: a record is
  stored before anybody looks for it, finished by the worker alone, and deleted after that.
  `Reaping`: nobody stores the first entry again once it is deleted.
- `SmallIsWholeHolds`: `Spec => []SmallIsWhole`. `Single`: what fits is never cut, so a
  refusal needs somebody else's store.
- `NoOrphanPagesHolds`: `Spec => []NoOrphanPages`. `Orphans`: pages that outlive their
  record are on the reaper's list.

### Only model-checked

Every invariant and every action property of a passing run is stated by a theorem above, some
of them under a hypothesis named there. What is left to TLC:

- Liveness (`Settles`, `AbortHonoured`, `Finishes`, `Purged`, `Converges`, `Freed`)
  needs fairness and ENABLED, which the prover does not handle.
- The runs that expect a violation: each shows one behaviour, and proves nothing beyond it.

## 6. Not modelled

- request decoding, HTTP routing, health, logging, credentials: no state of
  interest;
- deletion of the *oldest* of several
  finished records (any finished one may be deleted here, which includes the
  code's choice);
- components unknown to HSM or without power status: the Gather step of
  `TransitionLifecycle` lets any task fail there, `PowerSequence` begins after;
- the waits for a chassis and for controllers to come up between tiers
  (`waitForBMC`): they only delay;
- pods that stall for more than 30 s and go on;
- an error of `Launch` of the task runner (power-cap.go:720-727, logged only): the local
  runner returns one only for an empty list of tasks, and the list is not empty there (the
  remote one is not modelled);
- the in-memory storage and lock (test doubles); `GET /power-status`, which filters
  what is stored; which redfish payload means which power state; pausing the
  monitor and changing its interval.

## 7. Plan

Model further: which of several records the reaper deletes; the merge of a
component's operations in `buildPowerCapResponse`, as an operator; a switch in
`PowerSequence`, whose type has no tier for on and off.
