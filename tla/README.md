# A verification development for Bugis

Bugis is a platform that sells point-to-point and multi-point circuits over
VXLAN/EVPN and SR-MPLS fabrics: a FastAPI backend keeps circuits, devices and
work orders in PostgreSQL, and *provisions* a circuit by rendering vendor
configuration and pushing it to the devices. This directory holds TLA+ modules
of the parts where most can go wrong, the work-order driven provisioning, the
reservation of ports, the built-in controller's tables and the monitoring of
circuits, their TLC configurations, and theorems whose proofs TLAPS checks. Paths below are
relative to `backend/app/` unless they start at the root of the repository.

## 1. The system

| component | state it keeps | operations | hard behaviour |
|---|---|---|---|
| Work-order API (`api/v1/workorders.py`) | `work_orders.status`, `type`, `circuit_id` | create, submit, approve, reject, execute, provision, cancel, delete | every handler reads in its own session and writes at its commit, with no version check and no lock |
| Worker (`worker.py`) | queue (rows in state `scheduled`), `_inflight`, `_device_locks` | dispatch, claim, lock, execute, reconcile, recover | thread pool, several processes on one database, crash and restart |
| Orchestrator (`services/orchestrator.py`) | order and circuit status, `config_jobs`, the devices' configuration | submit, approve, execute: preflight, mark, push, outcome, rollback | long runs between two commits; any push and any undo may fail |
| Circuit API and deletion (`api/v1/circuits.py`, `services/circuit_delete_service.py`) | circuits and endpoints | create, edit, replace endpoints, adopt, delete | edits and deletions beside a run |
| Drivers and templates (`drivers/`, `templates/`) | none | render, push, fetch | partial application of a configuration |
| Bugis SDN controller (`controller/engine.py`, `dataplane.py`) | VTEPs, their VNI lists, EVPN RIB and its version | install, withdraw, sync, purge | read-modify-write of a comma-separated column by several sessions |
| Allocation (`services/allocation.py`) | VNIs, VLANs, RD/RT | allocate | pick, then insert |
| Ports (`services/port_inventory.py`, `circuit_adopt.py`) | endpoints, encapsulations in use on each interface | check, scan, adopt | check, then insert; names with several spellings; scans in every other transaction |
| Learning (`services/config_learn.py`, `config_mgmt.py`) | snapshots of what devices are configured with | fetch, parse, store | a scan sees the snapshot committed last |
| Telemetry, probes (`services/telemetry_service.py`, `link_monitor.py`) | samples of circuits and links | collect, probe | two sources that disagree |
| Availability (`services/availability_service.py`) | outage intervals | open, close | look up, then insert; several collectors at once |
| Alarms (`services/alarm_service.py`, `circuit_alarm_settings.py`, `api/v1/alarms.py`) | alarms by key | raise, clear, acknowledge, suppress | look up, then insert; suppression windows |
| Scheduler (`scheduler.py`) | rotation cursors, time stamps, locks | tick: collect, probe, evaluate; learn | one long transaction over many circuits, in every process |
| Path service, notifications, inventory, login, portal, frontend, deployment | rows of their own | reads, formatting, CRUD | little interaction with the above |

How they interact: a `provision` request creates an order and commits it as
`scheduled`; a worker of *any* process takes it from the table, claims it with a
conditional `UPDATE`, takes in-process locks on its endpoint devices and calls
`orchestrator.execute`, which commits the circuit as `provisioning`, pushes to
every target and commits order, circuit and jobs at the end. `execute` can also
run in the request thread (`POST /work-orders/{id}/execute`, and `provision`
with `async_provisioning` off), with neither claim nor locks. Cancel, delete,
circuit deletion and endpoint edits touch the same rows meanwhile. On start-up a
process calls `recover_orphaned_running`. Endpoints are checked when they are
entered and once more by the run that configures them; every run, adoption,
replacement and learning ends with a scan that rewrites the inventory of ports.
The scheduler and requests collect samples of the circuits that are active, from
which outages and alarms follow; a run that succeeds clears the alarms of its
circuit and starts a grace period.

What correctness means, by component: an order is executed once at a time and
settles; a settled order stays settled; two runs of a process do not share a
device; the platform's record of a circuit agrees with its devices; threads
never wait in a circle; a failed run leaves nothing it is answerable for; two
circuits that are configured do not claim one encapsulation of a port; VTEP lists
and routes agree; a condition has one alarm, a circuit one open outage, and both
tell what the samples say.

## 2. Plan

| module | what | status |
|---|---|---|
| `Provisioning`, `MCProvisioning`, `ProvisioningProofs` | handlers, worker, `execute` as seen from the rows, crashes | done |
| `DeviceExclusion`, `DeviceLocks`, `MCDeviceLocks`, `DeviceLocksProofs` | abstract exclusion, the lock-by-lock acquisition, the refinement between them | done |
| `Execution`, `MCExecution`, `ExecutionProofs` | targets, pushes and rollback of a run, over the life of a circuit | done |
| `Overlay`, `MCOverlay`, `OverlayProofs` | VTEP/VNI table and RIB under install, withdraw, sync and purge, with the transactions they are parts of; allocation of VNIs by concurrent requests | done |
| `Monitoring`, `MCMonitoring`, `MonitoringProofs` | samples, outages and alarms under the scheduler, concurrent collectors, operators and work orders | done |
| `Ports`, `MCPorts` | claims of ports and VLANs by concurrent requests and runs, scans, adoption and learning | done |
| `PortsProofs` | types and rows, `ValidatedApart`, `ReservationsApart` | done |
| `ProvisioningProofs` | types, `AtMostOneExecution`, `RecordedWorkNotRequeued`, `DeviceExclusive`, and that the workers implement `DeviceExclusion` | done |
| `RecordProofs` | `StrandedByCancelOnly`, `ProvisioningHasOrder`, `OneInflightOrder`, `SettledStaysSettled`, `RecordMatchesDevices`, all with requests that race | done |
| `Learning` | the version of a snapshot under overlapping learnings (`config_mgmt.py:53`) | after that |

`Provisioning` treats two things as single steps that modules of their own take
apart: the acquisition of the device locks (`AcquireLocks`; both `Provisioning`
and `DeviceLocks` implement `DeviceExclusion`, where it is `Enter`), and the pushes
between `BeginPush` and the outcome (`PushSucceeds`, `PushFails`; `Execution`).
`Execution!CompletedRunHolds` is what entitles `PushSucceeds` to leave `applied`
or `clean`, and the runs of `Execution` that fail show why `PushFails` may leave
anything. `Overlay` is the third view of the same run: what its transaction does
to the tables of the built-in controller, given device locks that are held until
the commit; `Ports` the fourth, what its preflight and its scans do to endpoints
and inventory. `Monitoring` knows of a run only how it leaves the circuit.

## 3. Provisioning

State: the rows (`woStatus`, `woType`, `woCircuit`, `jobs`, `circuitStatus`);
`net`, what the endpoint devices hold of a circuit; one record per thread with
its program counter and the values its session has loaded; `up` and `crashes`;
the histories `unrecorded` (orders whose changes of devices no run has put on
record) and `lost` (orders whose run could not write its end, since the last
recovery).

*Sessions.* `core/database.py` opens sessions with `autoflush=False` on
PostgreSQL's READ COMMITTED. A handler checks the row it loaded and writes by
primary key at its commit. So each is two actions, `LoadFor...` and
`Commit...`, and others run in between. SQLAlchemy writes a column only if the
new value differs from the *loaded* one, which decides what a stale session
overwrites: operator `Flushed`. A row that is gone matches no `UPDATE`; a flushed
insert of a job or event takes a key-share lock on the order's row, so that a
concurrent `DELETE` waits (guard of `CommitDelete`).

*Threads.* `Workers` and `Requests`; `NodeOf` gives a thread's process. A worker
goes `idle - dispatched - claimed - ready - started - pushing`; a request that
executes starts at `ready`. `_inflight` is derived: the orders of the process's
worker threads.

*execute.* `ready` is the entry: missing circuit, adopted circuit (records only),
failing preflight, or `StartExecution`, the commit that marks the circuit and the
`db.refresh` after it, which may find the circuit deleted. `BeginPush` is the
first job and push; the outcome commits both statuses and the job rows, or fails
as a whole (`CommitFails`). An exception is caught by the worker (`WorkerCatches`:
both statuses `failed`, devices as they are) or closes the request's session
uncommitted (`RequestFails`). A *database* exception, such as that of the victim
of a deadlock (section 6) or a lost connection, leaves the session unusable until a
rollback, and the `except` branch of `_run_one` does none: it raises as well, nothing
is written, and the order stays `running` in nobody's hands until a backend starts
again (`SessionLost`). It can strike a worker at any point after the claim. The
same holds where the commit itself fails.

*Crash, restart.* All threads of a process stop, open transactions vanish, the
devices keep what they hold. `Restart` runs recovery over **all** `running` rows,
as the code does.

Runs (all expected results are in `PROJECT.json`):

| run | instance | what it shows |
|---|---|---|
| `workflow` | 1 process, 2 workers, 1 operator, 1 circuit, 2 orders, every operation but synchronous execute | types; the record matches the devices; a circuit nobody works on is left `provisioning` only where an order was cancelled or deleted (`StrandedByCancelOnly`); no settled order is revived |
| `crash` | 2 circuits sharing a device, provisioned, decommissioned and deleted; 2 workers, one crash anywhere, sessions lost anywhere, fairness | exclusion on devices; the workers implement `DeviceExclusion`; a `provisioning` circuit has an order; the record matches the devices; one order in flight; whatever is scheduled settles, except that an order whose run could not write its end waits for the next start |
| `manual` | synchronous mode, 2 operators executing orders themselves, an adopted circuit, one crash | an order with committed jobs never returns to the queue |
| `ha_restart` (violation) | 2 processes, one restarts | double execution: recovery takes the peer's order for an orphan (`worker.py:235`) |

Bounds: two orders, since every hazard here is between one order and its
successor on a circuit, or between two circuits that share a device (`d2`); two
workers, since all claims are about pairs; one crash, as a second crash meets
only states a first can produce. `MaxCrashes` bounds crashes; order ids run out,
which bounds behaviours, so deadlock checking is off. Symmetry over equal
workers or equal requests is used in runs without liveness only. `Types` bounds the
types of order clients ask for: in `crash` they provision and decommission (a
`modify` runs as a `provision` does; it is in run `workflow`).

Fairness (`Fairness`): a worker thread and a handler that has begun go on, since
every device session and database call has a timeout; the reconcile loop polls
for ever (`worker.py:212`); a dead process is restarted by its container
(`docker-compose.ha-app.yml`). Clients promise nothing: no request is ever due.

Behaviours of the code that the model contains and no run is spent on:
- a cancel of a queued order touches the order only: the circuit stays
  `provisioning`, and `provision` refuses it with "wait for the current order";
- after a crash an order whose run has pushed is queued again, since its jobs were
  never committed (`RecordedWorkNotRequeued` is about those that were);
- with two processes, a cancel that comes late lets a second order of the circuit
  run on the other process beside the first, and the record may end up different
  from the devices (`RecordMatchesDevices` holds for one process);
- two `provision` requests both pass `ensure_no_inflight_work_order` before
  either inserts (`OneInflightOrder` needs one request thread);
- a cancel that loaded the order before the claim overwrites `running`: the run
  goes on under an order that says `cancelled`, and its final status is then
  written over it or not, depending on what the session had loaded;
- a circuit deleted while its decommission runs makes the last commit fail: the
  order stays `running` until the process restarts (in run `crash`; it is why
  `ScheduledSettles` speaks of `lost`);
- a deletion that loaded `failed` deletes a circuit that has become `active`
  meanwhile;
- two `POST /execute` on one order run it twice;
- a crash or a lost session cuts off the run of an order that is then, or was
  meanwhile, cancelled or deleted: recovery has nothing to queue again, and the
  circuit stays half configured under whatever status it had. `Dropped` names these
  circuits, from the history `unrecorded`, and `RecordMatchesDevices` is about all
  others.
These are the reason why the passing runs have the operations and threads they
have; each is reached by adding the operation or a second request thread.

## 4. Device locks

`DeviceLocks` is `_acquire_device_locks` and `_release_device_locks`: look-up or
creation of the lock objects under the guard, acquisition in the order of the
sorted ids, `execute`, release in reverse. `DeviceExclusion` says what that is
for: a thread waits, works on its devices beside no other thread of its process
that wants one of them, and leaves (also while it still waits, as a run does whose
session is lost); a process may die with all its threads.

Two specifications implement it. In `DeviceLocks`, `looking` and `acquiring` map to
waiting, `executing` to working, and a thread that has begun to release is out. In
`Provisioning`, a worker waits from the claim of its order to `AcquireLocks`, works
until its run ends, however it ends, and is out otherwise; a crash is the death of
the process. So the one step `AcquireLocks` asks for nothing that the locks do not
give, and gives the runs nothing more.

Run `locks` (3 threads, 3 devices, all subsets as demands: the smallest instance
with a circle that is not a pair) checks that waiting goes upward, that threads
cannot block each other for ever, and the refinement, which is what two lock
objects for one device would break. `SomeoneExecutes` assumes that a thread that can go on does;
it does not claim that each thread gets its turn, which `threading.Lock` does
not promise.

The locks cover endpoint devices within a process. Gateways, and workers of
different processes, are not excluded from each other by any code.

## 5. Execution

State: the circuit's `endpoints` and `status`; `config`, what each target holds
(`none`, `base` = VSI or bridge domain without the interface, `set`, `partial`);
the run: `removing`, `todo`, `failed`, `rollbacks`; histories `attempted`,
`succeeded`, `stuck`, `goal`.

Targets are numbered in the order `execute` visits them: controllers with
their devices, direct endpoints, gateways. Four kinds differ in what is undone
(`Registers`): devices and gateways register every attempted apply and every
successful removal, the control plane of a Bugis controller and an external
controller only a successful apply. If a Bugis control plane fails, its devices
are skipped. A failed push leaves nothing, everything or a part (`Broken`;
`BaseDriver.push` turns every exception into a failed result). `Removed` removes
the VSI with the interface, which halves the circuit's other bindings on that
device; `Detached` is the partial removal of an old binding. The undo actions run
highest first, each for itself. `Abort` is an exception that leaves `execute`.
The rendering of an inverse template is taken to succeed where the template
itself does.

`Execute` itself has no guard on the circuit's status: `provision_circuit` refuses a
`provision` order of an active circuit, the approval workflow does not.

Run `execution` (one target of each kind and a gateway that shares its device
with an endpoint; one edit; any number of orders of any type, including ones on
a circuit in any state) checks: completed runs have reached every target
whatever failed before; a failed apply leaves no device dirty but those that
refused the undo; a failed decommission is restored likewise; routes go last.
`MaxEdits` bounds edits; everything else is finite.

Run `gateways` (violation): the gateways of an L2 or L3 circuit are configured by
its `provision` order (`orchestrator.py:569`) and never visited by its
`decommission` order.

Also in the model, and outside what the properties promise: a failed `modify`
removes the *whole* circuit from the devices it had reached, the old bindings are
not restored; an old binding whose removal failed, or whose order was refused, is
forgotten; an old device keeps its VSI; a failed decommission of a circuit that
was not configured configures it.

## 6. Overlay

What `controller/engine.py` does to the tables that the overlay graph and the
routes are read from, and how circuits come by their VNIs. State: the circuits'
`vni`, `status` and `eps` (the devices of their endpoints); `routes` (circuit,
origin, the session that inserted it: what is abstracted is that an endpoint has
two or three routes); `vtep`, the VNI list of each VTEP; `tx`, the open
transaction of each session; the history `tainted`.

*Transactions.* A run's work on the overlay becomes visible at the commit that
ends it, long after the first flush, since the pushes to the devices lie in
between. A transaction therefore goes `begin` (worker claimed, locks held) -
`read` - `write` - commit:
- `Read` is the deletion of the circuit's routes and the loading of the VTEP
  rows of its devices, whose `vnis` it keeps in `seen`;
- `Flush` takes the rows a flush updates: those of the VTEPs, of the BGP sessions,
  of the cluster nodes (`bump_rib_version` stamps them all), in the order the
  function has them (`LockOrders`). Rows updated stay locked. BGP session rows
  are taken one by one (`NextSession`): `sync_sessions` stamps all of them in
  ascending order, but an installation has flushed the rows of its own devices before,
  in `ensure_sessions`, as far as the device was edited since its row was written
  (`edited`, any subset of the devices: an operator may edit a device at any time);
- `Commit` writes `vnis` where it differs from what was seen, so a transaction
  that read early overwrites what others committed since: the lost update is in
  the model;
- `PushFails` and `_undo_bugis` withdraw within the same transaction what it has
  installed; an exception caught later leaves it (`Outcomes`);
- `CircuitGone`, `RequestFails` and `DeadlockVictim` roll back.
`CommitPurge` is the end of a circuit, with the cascade to its routes; it waits
for transactions that have inserted rows which refer to the circuit (`Refers`).

*Device locks.* `StartRun` takes the locks of the endpoints a circuit has when
the worker looks (`held`); after the first commit the endpoints are loaded again
(`devices`), so that an edit in between leads to a run on devices that are not
locked. Requests have no locks. `Held` says how long they last: until after the
commit (`worker.py:146-149`), which is what the mutant of `OverlayExact` takes
away.

*What can be promised.* Two transactions that are open together, have a circuit
or a device in common and are not both covered by device locks may lose each
other's VNI. An edit of endpoints deregisters the VNI nowhere, so the next purge
leaves it on the old device, where `purge_circuit` speaks of not keeping "a stale
edge". Two creations that overlap get the same VNI; so does a creation in an
exhausted pool. The history `tainted` collects the VNIs concerned, and the
properties speak of the others: `OverlayExact` (VTEP lists and routes agree),
`RoutesFollowStatus`, `DistinctVnis`. That no *other* circuit on the device
suffers, although the whole list is written back, is the point of
`OverlayExact`; and two workers never taint anything but circuits that were
edited, since their locks cover them.

Run `overlay`: three circuits for two VNIs (so the pool runs out), two devices,
two workers and a request; five transactions, which suffices to create two
circuits, install both, and edit, withdraw, delete or replace one, in every
interleaving and with every failure. The constraint stops where every VNI in use
is tainted: of those circuits the invariants on VNIs say nothing. Two requests
would add overlapping creations and deletions, which taint; the theorems cover
them.

Database deadlocks do happen: worker 1 installs a circuit on one device and has
stamped the BGP sessions, worker 2 withdraws one on another device and has stamped
the nodes; each needs the other's rows. `CirclesMixOrders` says when such a circle
can arise at all: two of the sessions in it lock the shared rows in different
orders, or work on the same circuit, or are deletions, whose VTEPs and nodes leave
in one flush, in an order the library picks, or one of them holds the session row of
an edited device and still needs a row before it (`FlushedAhead`). In the last
case two *installations* of unrelated circuits meet: A has flushed row 2, since
device 2 was edited, B has stamped row 1 and waits for 2, A goes on with 1. Two
deletions need two requests and six transactions, more than the run has; the
theorem covers them. One order for the three functions, with the session rows
stamped in one pass, would end all circles of different circuits. The victim's
order is not settled but stays `running`: `SessionLost` in section 3.

The scheduler stamps the same rows in the order of an installation
(`scheduler.py:351-352`); its transaction has no circuit, and is not a session of
the model. The VTEP rows of one flush are taken together: within a flush the
library updates them in ascending order.

All endpoints of a modelled circuit are at sites of the built-in controller, and
there is at least one (a circuit without endpoints has no controller step). An
operator may name a VNI nobody uses. What learning has seen on the network, which
makes `allocate_vni` skip numbers, is left out; so are adopted circuits and the
first creation of the node, session and VTEP rows (`ensure_sessions` and
`_register_vtep` insert a row where a device has none).

## 7. Monitoring

State: `window`, the newest samples of a circuit as alarms look at them;
`outages` without an end; `alarms` that are not cleared and those of them that
are `acked`; the two rotation cursors; of a circuit its `status`, its
`activation` and the activations whose grace lasts; `tx`, the open transaction of
each thread; `completing`, what an order that has succeeded is about to commit.

*Collectors.* The scheduler's tick (one at a time, `_tick_lock`), and in request
threads the collection of all circuits, a probe, and the evaluation of all
circuits. Each is one transaction: it loads circuits (`Begin`; `seenStatus`,
`seenActivation` are what it knows of them from then on), polls one after the
other (`Collect`, `Probe`), evaluates (`Evaluate`), and commits once or not at all
(`Commit`, `CommitFails`). It sees what others have committed and what it has
written (`_open_event`, `_active_by_key`). Look-ups by `scalar_one_or_none` raise
where they find two rows, which ends the transaction (`Rollback`), except in a
probe of the tick, which is caught after the sample was written. The cursors live
in the process and stay where they are when a tick fails.

*Samples.* SNMP and the probe report on the same tunnel; the outage follows
whoever reported last (`Report`), the alarm the *last* traffic sample of a list
that is newest first (`tunnel_down`). Both are as in the code, so alarm and
outage may disagree for some cycles.

*Alarms.* `Considered` are the conditions an evaluation looks at, `Holds` those
it finds true; the values of thresholds are nondeterministic (`metric`, `flap`).
An evaluation is one step: its queries are close to each other, while polls take
seconds. Acknowledgement is two steps, since it writes the status of the alarm it
loaded: one that an order has cleared meanwhile comes back. An order that
succeeds reads the alarms it will clear, takes snapshots of the devices, and
commits (`OrderSucceeds`, `ProvisionCompletes`).

*What can be promised.* Neither "one alarm per condition" nor "one outage per
circuit" is a constraint of the schema, and READ COMMITTED does not make them
one. Two transactions at work on a circuit at a time can each insert, and from
then on every look-up raises: each tick that comes to the circuit fails, and with
it everything else of the tick, the node's heartbeat included. `tainted` collects
such circuits, `straddled` those activated while a transaction had them loaded,
after the alarms were read. The properties speak of the others, and say that
nothing *else* breaks them: no rollback, no rotation, no late acknowledgement, no
order in between.

Run `monitoring`: one circuit with a flapping line, polled and probed, one
activation, one kind of alarm (kinds do not interact but through `Considered`),
the scheduler and one request. One circuit is enough because transactions meet
row by row; the number of circuits matters to the rotation, which run `watch` is
about. The constraint stops where the only circuit is tainted or straddled (it
stays so, as it is activated once). Two numbers per key suffice for the
duplicates that would break the invariants.

*Rotation.* The tick takes the next circuits of a list it selects without an
`ORDER BY` (`scheduler.py:311-313`). That the database returns the rows in the same
order tick by tick is an assumption of the model (`NextCollected`), and `Detects`
rests on it.

Run `watch`: two circuits in rotation, one of them probed, windows of two
samples, under fairness. `Detects`: a line that stays down is seen. `Recovers`: a
circuit that stays up loses its outage and its alarm. Fairness: the scheduler
sleeps and ticks for ever (`scheduler.py`), every poll has a timeout, grace
periods end; and for each circuit not every tick that came to it fails. The last
is stated per circuit because the rotation is not rolled back with the tick:
fairness on ticks as such would allow one circuit's ticks to be always the
failing ones.

Left out: alarms of links, the rows of health snapshots, the purge of old rows,
notifications (sent before the commit: a tick that fails has announced alarms
that do not exist), samples posted by agents, the count that makes a flap, and
a grace period switched off (`alarm_suppress_minutes` not positive).

## 8. Ports

Who may use which encapsulation on which customer port. State: `eps`, the rows
of `circuit_endpoints` with device, interface and encapsulation, and whether the
interface is spelled as SNMP has it (`alias`); `status`, `adopted`; `inventory`,
the bindings in `device_interfaces.used_s_vids` with their source; `learned`,
what the latest snapshots show; `run` per worker, `tx` per request.

*Check.* `check_endpoint_available` compares with the rows of circuits that
reserve, by the name in the table, and with inventory entries that are not of the
platform's own. Requests check and commit later; single endpoints are added
without a check; `find_adoptable_binding` is the check of adoption.

*Scans.* A scan rewrites the names of rows and the inventory of a device. With
`autoflush=False` both become visible only when the transaction it is part of
commits, and it sees its session's own rows as they were loaded (`View`); the
renaming overwrites the interface whatever it is by then, and an update of a row
that is gone makes the commit fail (`Persists`). `Merge` is what intended and
learned bindings become: of one key, the platform's hides the device's. A scan
follows a replacement in a transaction of its own, is part of an adoption, of
learning and of a request of its own, and a run has two: before its preflight and
at its end.

*Runs.* `StartRun` loads the endpoints (the look-up of the devices and, for an
apply, what the order's creation had done to the circuit, in one step); `Acquire`
takes the locks; `Preflight` scans and checks what it has loaded; `BeginRun` is
the first commit, `EndRun` and `CommitRun` the last. Adopted circuits are only
recorded. The workers are those of one process, as the device locks are;
workers of other processes and runs in request threads are not excluded from
each other, so the property does not hold for them. `protect_live_config` is on
and the devices have a baseline, which are the defaults; without them a preflight
lets pass or refuses more, irrespective of ports.

Run `ports`: two circuits on one port, two requests, two workers, four requests
or runs. `ValidatedApart`: circuits whose present endpoints passed a preflight
never collide, whatever got past the checks of requests. `ReservationsApart`: the
checks of requests alone keep reservations apart except for those `contested`:
requests that overlapped, single endpoints, other spellings, adoptions, rows a
late renaming has moved, circuits that were decommissioned and come back. One
port suffices, as conflicts are within a port, and a renaming moves a row between
the two spellings of it; two circuits suffice, as conflicts are between pairs.
`MaxOperations` bounds the requests and runs: three set up a collision, the fourth
disturbs it. Every interface has an inventory row already. Both properties are
proved for any number of them (section 9).

Run `ports_masked` (violation): a circuit reserves a VLAN, learning then finds a
foreign service on the same VLAN of the port, and the circuit's preflight passes,
since `Merge` has made the entry the platform's. `platform_settings.py` says the
check "runs against the freshest known on-box state".

Left out: services of the platform itself in snapshots, descriptions of
interfaces, subinterface names, the legacy columns, teardown by VLAN.

## 9. Theorems

All proofs are in `*Proofs.tla`; they hold for every value of the constants that
the named `ASSUME`s allow (TLC evaluates those in every run).

- `ProvisioningProofs!TypeCorrect`: `TypeOK` is invariant. `TypeOK` alone is not
  inductive: a commit writes `woStatus[thread[t].order]`, so the strengthening
  `HasOrder` says that a thread at work has an order.
- `ProvisioningProofs!ExecutedOnce`: no order is executed twice at a time, for any
  number of processes, workers and requests, if orders are executed by workers
  only (`WorkerOnly`) and no process restarts beside another (`RestartsAlone`).
  `ha_restart` shows that the second assumption is needed, the two `POST /execute`
  above the first. The invariant `ExecInv` says, beside the property, that an
  order in execution is not on offer (not `scheduled`, not something a loaded
  handler could write back as `scheduled`), that what handlers loaded exists, that
  an uncommitted order belongs to one provision request, and that a stopped
  process has no thread. The proof has one step per action.
- `ProvisioningProofs!RecordedKept`: an order whose jobs are on record is never
  queued again, also where requests execute orders themselves (no `WorkerOnly`).
  Stale writes are the danger, so the invariant `QueueInv` says what each thread
  knows of its row (`Fits`): the row it inserted is still uncommitted and nobody
  else's; the row it loaded is there; what it saw running is not `scheduled`.
- `ProvisioningProofs!DevicesExclusive`: in one process no two executions push to a
  common device. A worker keeps its circuit from the acquisition to the end
  (`WorkerMoves`), so what `AcquireLocks` compared stays true (`LocksApart`).
- `RecordProofs` is about what the rows say, beside handlers of the approval
  workflow, cancellations, deletions, crashes, lost sessions, and any number of
  requests that race. Assumed throughout is that workers execute (`WorkerOnly`)
  and that no process restarts beside another (`RestartsAlone`).
  - `PlacedInv` says where an order can be. A handler of the workflow that has yet
    to commit holds an order which never reached the queue (`WorkflowApart`), so
    its stale write can only hit rows without a run; an order in execution is
    running or was cancelled or deleted beside it (`RunRow`); a run knows its
    circuit or the circuit is gone (`KnowsCircuit`). The lemmas named `...Effects`
    say once what each kind of step does to rows, and the rest cites them.
  - `SettledInRaces`: an order that was executed is out of reach of the workflow's
    handlers; a cancelled one is not, hence `NoRevival`, which excludes that both
    are in use (TLC revives a cancelled order with two requests, a submission and
    a cancellation).
  - `StrandedOnlyByCancel`: `ProvisioningAwaits` gives each circuit that is being
    provisioned an order it is waiting for: one in the queue, one whose run will
    write the circuit, or one without a run. The last is what a crash or a
    lost session leaves, and it stays in flight unless it was cancelled or deleted.
  - `ProvisioningAwaited` is the same invariant where orders are neither cancelled
    nor deleted (`KeepsOrders`): then the order is in flight. Circuits may be deleted,
    and requests race.
  - `OneInFlight`: if orders come from `provision_circuit` (`NoWorkflow`), then
    `[]NoRace => []OneInflightOrder`. `NoRace` says that no two handlers are
    between their check of a circuit and their commit, which two requests can
    violate, as section 3 says; the theorem is that there is no other way, in
    particular none by a late cancellation, a recovery or a lost session. An order
    that occupies a circuit keeps doing so from the check to its end (`Occupies`).
  - `RecordsTrueBesideWorkflow`: `BooksInv` says of every circuit that its devices
    match its status, or a run is pushing to it, or an order that has changed its
    devices has yet to write its status or was dropped (`Owed`, from the
    history `unrecorded`). A run that ends closes all entries of its circuit, which
    needs that it was the only one on it (`LockedAlone`, from the device locks), that
    it read the circuit's status before it pushed and the status has not moved
    since (`SeesService`), and that its order is on record (`PushRow`). Hence the
    assumptions: `OneProcess`, since the locks are of a process, and
    `HaveEndpoints`, since a circuit without endpoints has no lock. Any
    operation, any crash and any lost session is allowed; what they can drop is in
    the property (`Dropped`).
- `ProvisioningProofs!WorkersRefine`: `Spec => Exclusion!Spec`, where `Phase` and `Want`
  tell what a worker does with its devices. It needs nothing but types, no
  assumption about who executes orders or restarts: a step of a worker maps to
  `Ask`, `Enter`, `Leave` or a stutter, and leaves the others alone (`Alone`).
- `DeviceLocksProofs`: from one inductive invariant (one holder per lock, and locks
  held are those below the ones still missing, all of them in an execution) follow
  `NoCircularWait` and, with the step simulation `StepRefines`, `Refinement`:
  `Spec => Abstract!Spec`; `Exclusion` carries the abstract promise over.
- `ExecutionProofs`: the invariant says that until something fails every target
  not in `todo` has reached the run's goal, that every device the rollback answers
  for is registered, and that those no longer registered are dealt with.
  `CompletedRuns`, `RollbackCleans`, `RollbackRestores` and `ReverseOrder` follow.
- `OverlayProofs`: two inductive invariants, one on top of the other. `NamesInv`
  is about names: an open transaction knows a circuit and its VNI, a circuit
  being created is nobody else's, and whoever shares its VNI is on record; it
  gives `OverlayTypes` and `VnisDistinct`, with a lemma on what `allocate_vni`
  returns. `OverlayInv` adds that locks of different workers are disjoint, that
  transactions which clash are tainted, and, for untainted VNIs, that what an
  open transaction has read still holds. The lemma `Apart` is the heart: two open
  transactions one of which has an untainted VNI share neither circuit nor
  device. Hence what `Commit` writes back is what it would have read at that
  moment, and `OverlayStaysExact` and `RoutesStayWithStatus` follow. Neither
  property is inductive alone: a lost update is prepared many steps before the
  table shows it. `CirclesAreMixed` argues by stages: which rows a transaction
  holds tells how far it has come in its order (`StagesInv`), and one that waits
  for a row held by another of the same order is behind it. Among the session rows
  the measure is the device: a transaction that has flushed nothing ahead holds a
  lower part of the rows, so of those in a circle the one that waits for the
  highest device (`HighestDevice`, which is why `Devices` is finite) waits for
  nobody in it. Deletions have no such order and edited devices break it, hence
  the exceptions.
- `MonitoringProofs`: for any number of circuits, requests and any batch sizes.
  `TypeCorrect` needs that an order which is going to activate a circuit was
  allowed to. The other theorems rest on what a transaction may do: `Books` says
  that it changes nothing of circuits it has not touched, that two which touched
  one circuit tainted it, that an acknowledgement does nothing else; the lemmas
  on shapes (`Worked`) reduce the steps of collectors to four kinds, and
  `NextIsStep` every step to eight. Then each property is stated not only of
  what is committed but of what each open transaction would leave if it committed
  now (`OneAlarmIn`, `OneOutageIn` and `TellsIn`, `QuietIn`): that is what makes
  it inductive, since the damage is done long before the commit that shows it. A
  commit of one transaction leaves the view of the others intact, as they touched
  other circuits. `Deduplicated`, `NoSecondOutage`, `OutageFollowsSamples` and
  `QuietHolds` (with `Alone`: an order that completes alone clears all alarms the
  circuit has by then) follow.
- `PortsProofs`: one base invariant and two on top of it. `BaseInv` says that the
  rows a request is going to add are nobody else's and that a circuit being
  created has neither a run nor another request; it gives `TypeCorrect`, whose
  core is `RowsApart` (no two endpoints share a row, although replacements keep
  rows they have not loaded and scans rename rows loaded long before).
  `PreflightHolds` follows a circuit from its preflight to its commit: until the
  run is over its locks cover the devices of the rows and its scan is going to
  rename every row spelled otherwise (`Covers`); afterwards the circuit is
  `Settled`, its rows are ones every check compares. A preflight compares with
  the settled circuits and shares no device with the covered ones.
  `ReservationsHold` needs, beside the property, that of two requests between
  check and commit one is on record, and that the rows a request has been
  cleared for are still free (`Cleared`). `ReserveStep` and `ReserveCommit` reduce
  the steps to those that add no reservation and those that commit cleared rows.

Model-checked only: liveness (`ScheduledSettles`, `SomeoneExecutes`, `Recovers`,
`Detects`), which is out of the provers' reach, and of course the properties of
the runs that expect a violation. Every other property of a run is a theorem, under
the assumptions named above; `SettledStaysSettled` with cancellations and approvals
served one at a time, the instance of run `workflow`, is outside those of
`SettledInRaces` and is model-checked.

Operators introduced by a comment "Slip:" are plausible mistakes in a definition
next to them; they belong to no specification and serve to confirm that the
checked properties notice such a mistake.

## 10. Not modelled

Everything section 1 lists without a module in section 2, for the reason given
in `PROJECT.json`; the text of configurations, snapshots, logs and audit; titles
and assignees of orders; `process_pending`, the single-threaded drain used by
tests. The learning cycle of the scheduler (due if the last run on record is old
enough, guarded by a lock of the process) and the versions of snapshots
(`config_mgmt.py:53`, the highest so far plus one, without a lock): in `Ports`
the snapshot committed last is the latest, and two processes that learn a device
at once are not distinguished. What lies outside the repository (PostgreSQL, the
devices, the container runtime) is represented by what the code relies on: row
locks, lost updates under READ COMMITTED, pushes that fail half-way, restarts.
