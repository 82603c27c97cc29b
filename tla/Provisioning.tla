---------------------------- MODULE Provisioning ----------------------------
(***************************************************************************)
(* The work-order driven provisioning core: the HTTP handlers of           *)
(* api/v1/workorders.py and of the circuit deletion, the background worker *)
(* of worker.py, and orchestrator.execute as both of them run it.          *)
(*                                                                         *)
(* Every handler and every worker thread owns a database session           *)
(* (autoflush off, READ COMMITTED): it decides on the rows it loaded and   *)
(* writes them back at its next commit, without a version check.  So a     *)
(* handler is two steps, a load and a commit, and a thread keeps the       *)
(* values its session loaded (seen, seenCircuit).  A column is written     *)
(* only when its new value differs from the loaded one.                    *)
(***************************************************************************)
EXTENDS Integers, FiniteSets

CONSTANTS
  Orders,             \* work-order ids: naturals, the worker takes the lowest
  Circuits,
  Nodes,              \* backend processes sharing the database
  Workers,            \* worker threads: each node runs at most its share
  Requests,           \* request threads
  NodeOf,             \* the node of a thread
  Devices,
  EndpointDevices,    \* the devices of a circuit's endpoints
  Adopted,            \* circuits imported from the live network
  Operations,         \* the API operations clients use in this instance
  Types,              \* the types of order they ask for
  AsyncProvisioning,  \* settings.async_provisioning
  MaxCrashes,         \* bound: process crashes in a behaviour
  NoOrder, NoCircuit

Threads == Workers \union Requests

ASSUME OrdersAssumption == Orders \subseteq Nat
ASSUME ThreadAssumption ==
  /\ Workers \intersect Requests = {}
  /\ NodeOf \in [Workers \union Requests -> Nodes]
ASSUME CircuitAssumption ==
  /\ Adopted \subseteq Circuits
  /\ EndpointDevices \in [Circuits -> SUBSET Devices]
ASSUME NullAssumption == NoOrder \notin Orders /\ NoCircuit \notin Circuits
ASSUME SettingsAssumption == AsyncProvisioning \in BOOLEAN /\ MaxCrashes \in Nat

VARIABLES
  woStatus,       \* work_orders.status, or what became of the row
  woType,         \* work_orders.type
  woCircuit,      \* work_orders.circuit_id
  jobs,           \* whether the order has committed config_jobs rows
  circuitStatus,  \* circuits.status, "deleted" once the row is gone
  net,            \* what the endpoint devices hold of a circuit
  thread,         \* control state and session of every thread
  up,             \* which nodes are running
  crashes,        \* crashes so far
  unrecorded,     \* history: orders whose changes of devices no run has recorded
  lost            \* history: orders whose run lost its database session, since
                  \* the last recovery

rows == <<woStatus, woType, woCircuit, jobs, circuitStatus>>
history == <<unrecorded, lost>>
vars == <<woStatus, woType, woCircuit, jobs, circuitStatus, net, thread, up,
          crashes, unrecorded, lost>>

-----------------------------------------------------------------------------
OrderStatus == {"draft", "submitted", "approved", "rejected", "scheduled",
                "running", "completed", "failed", "cancelled"}
\* "uncommitted": flushed by an open transaction, seen by no other session.
OrderRow == OrderStatus \union {"absent", "uncommitted", "deleted"}
OrderType == {"provision", "modify", "decommission"}
\* PENDING, DEGRADED and SUSPENDED exist as values, no code assigns them.
CircuitRow == {"draft", "provisioning", "active", "decommissioned", "failed",
               "deleted"}
\* "partial": some of the circuit's config, or config mid-change.
NetState == {"clean", "applied", "partial"}

INFLIGHT_WO_STATUSES == {"submitted", "approved", "scheduled", "running"}
DELETABLE_STATUSES == {"decommissioned", "draft", "failed"}

OperationName == {"create", "submit", "approve", "reject", "cancel", "delete",
                  "execute", "provision", "delete_circuit"}

PC == {"idle", "loaded", "dispatched", "claimed", "ready", "started", "pushing"}

Session == [pc: PC, op: OperationName \union {"none", "worker"},
            order: Orders \union {NoOrder},
            circuit: Circuits \union {NoCircuit},
            seen: OrderRow, seenCircuit: CircuitRow, mixed: BOOLEAN]

Idle == [pc |-> "idle", op |-> "none", order |-> NoOrder, circuit |-> NoCircuit,
         seen |-> "absent", seenCircuit |-> "deleted", mixed |-> FALSE]

TypeOK ==
  /\ woStatus \in [Orders -> OrderRow]
  /\ woType \in [Orders -> OrderType]
  /\ woCircuit \in [Orders -> Circuits \union {NoCircuit}]
  /\ jobs \in [Orders -> BOOLEAN]
  /\ circuitStatus \in [Circuits -> CircuitRow]
  /\ net \in [Circuits -> NetState]
  /\ thread \in [Threads -> Session]
  /\ up \in [Nodes -> BOOLEAN]
  /\ crashes \in 0..MaxCrashes
  /\ unrecorded \subseteq Orders
  /\ lost \subseteq Orders

Visible(w) == woStatus[w] \in OrderStatus

\* What a column holds after the flush of a session that loaded `loaded` and
\* assigned `value`: an unchanged attribute is not part of the UPDATE.
Flushed(row, loaded, value) == IF value = loaded THEN row ELSE value

InExecute(t) == thread[t].pc \in {"ready", "started", "pushing"}
Executing(t) == InExecute(t) \/ thread[t].pc = "claimed"
Pushing(t) == thread[t].pc = "pushing"

DevicesOf(c) == IF c = NoCircuit THEN {} ELSE EndpointDevices[c]

\* How an order's run leaves a circuit nobody is working on.
Settled == {<<"draft", "clean">>, <<"active", "applied">>,
            <<"decommissioned", "clean">>, <<"failed", "clean">>}

Init ==
  /\ woStatus = [w \in Orders |-> "absent"]
  /\ woType = [w \in Orders |-> "provision"]
  /\ woCircuit = [w \in Orders |-> NoCircuit]
  /\ jobs = [w \in Orders |-> FALSE]
  /\ \E s \in [Circuits -> Settled] :
        /\ \A c \in Adopted : s[c] = <<"active", "applied">>
        /\ circuitStatus = [c \in Circuits |-> s[c][1]]
        /\ net = [c \in Circuits |-> s[c][2]]
  /\ thread = [t \in Threads |-> Idle]
  /\ up = [n \in Nodes |-> TRUE]
  /\ crashes = 0
  /\ unrecorded = {}
  /\ lost = {}

-----------------------------------------------------------------------------
(***************************************************************************)
(* HTTP handlers.                                                          *)
(***************************************************************************)
CanServe(r, op) ==
  /\ op \in Operations
  /\ up[NodeOf[r]]
  /\ thread[r].pc = "idle"

NextId(w) ==
  /\ woStatus[w] = "absent"
  /\ \A v \in Orders : woStatus[v] = "absent" => w <= v

\* create_work_order: the circuit is read and the draft inserted in one go.
CreateWorkOrder(r, w, c, type) ==
  /\ CanServe(r, "create")
  /\ type \in Types
  /\ NextId(w)
  /\ circuitStatus[c] # "deleted"
  /\ woStatus' = [woStatus EXCEPT ![w] = "draft"]
  /\ woType' = [woType EXCEPT ![w] = type]
  /\ woCircuit' = [woCircuit EXCEPT ![w] = c]
  /\ UNCHANGED <<jobs, circuitStatus, net, thread, up, crashes, history>>

\* db.get(WorkOrder, wo_id) and the handler's check of the status it returned.
LoadOrder(r, op, w, refused) ==
  /\ CanServe(r, op)
  /\ Visible(w)
  /\ woStatus[w] \notin refused
  /\ thread' = [thread EXCEPT ![r] =
       [Idle EXCEPT !.pc = "loaded", !.op = op, !.order = w,
                    !.seen = woStatus[w]]]
  /\ UNCHANGED <<rows, net, up, crashes, history>>

LoadForSubmit(r, w) ==
  LoadOrder(r, "submit", w, OrderStatus \ {"draft", "rejected"})
LoadForApprove(r, w) == LoadOrder(r, "approve", w, OrderStatus \ {"submitted"})
LoadForReject(r, w) == LoadOrder(r, "reject", w, OrderStatus \ {"submitted"})
LoadForCancel(r, w) == LoadOrder(r, "cancel", w, {"running", "completed"})
LoadForDelete(r, w) == LoadOrder(r, "delete", w, {"running"})

\* The commit of a handler that assigned wo.status; on a vanished row the
\* UPDATE matches nothing and the request fails.
CommitStatus(r, op, value) ==
  /\ thread[r].pc = "loaded" /\ thread[r].op = op
  /\ LET w == thread[r].order IN
     woStatus' = IF woStatus[w] = "deleted" THEN woStatus
                 ELSE [woStatus EXCEPT ![w] = Flushed(@, thread[r].seen, value)]
  /\ thread' = [thread EXCEPT ![r] = Idle]
  /\ UNCHANGED <<woType, woCircuit, jobs, circuitStatus, net, up, crashes, history>>

CommitSubmit(r) == CommitStatus(r, "submit", "submitted")
CommitApprove(r) == CommitStatus(r, "approve", "approved")
CommitReject(r) == CommitStatus(r, "reject", "rejected")
CommitCancel(r) == CommitStatus(r, "cancel", "cancelled")

\* A session that has inserted jobs or events for the order holds its row
\* against deletion until it commits.
CommitDelete(r) ==
  /\ thread[r].pc = "loaded" /\ thread[r].op = "delete"
  /\ ~\E t \in Threads : Pushing(t) /\ thread[t].order = thread[r].order
  /\ woStatus' = [woStatus EXCEPT ![thread[r].order] = "deleted"]
  /\ thread' = [thread EXCEPT ![r] = Idle]
  /\ UNCHANGED <<woType, woCircuit, jobs, circuitStatus, net, up, crashes, history>>

\* execute_work_order runs orchestrator.execute in the request thread: no
\* claim, no device locks.
LoadForExecute(r, w) ==
  /\ CanServe(r, "execute")
  /\ woStatus[w] \in {"approved", "scheduled", "running"}
  /\ thread' = [thread EXCEPT ![r] =
       [Idle EXCEPT !.pc = "ready", !.op = "execute", !.order = w,
                    !.circuit = woCircuit[w], !.seen = woStatus[w],
                    !.seenCircuit = IF woCircuit[w] = NoCircuit THEN "deleted"
                                    ELSE circuitStatus[woCircuit[w]]]]
  /\ UNCHANGED <<rows, net, up, crashes, history>>

\* Slip: a running order is not in flight.
QueuedOrders(c) ==
  {w \in Orders : woCircuit[w] = c /\ woStatus[w] \in INFLIGHT_WO_STATUSES \ {"running"}}

find_inflight_work_order(c) ==
  {w \in Orders : woCircuit[w] = c /\ woStatus[w] \in INFLIGHT_WO_STATUSES}

\* provision_circuit up to its first commit: the guards, then a new order
\* that is created, submitted and approved inside the open transaction.
LoadForProvision(r, w, c, type) ==
  /\ CanServe(r, "provision")
  /\ type \in Types
  /\ NextId(w)
  /\ circuitStatus[c] # "deleted"
  /\ find_inflight_work_order(c) = {}
  /\ circuitStatus[c] # "provisioning"
  /\ type = "provision" /\ circuitStatus[c] = "active" => c \in Adopted
  /\ woStatus' = [woStatus EXCEPT ![w] = "uncommitted"]
  /\ woType' = [woType EXCEPT ![w] = type]
  /\ woCircuit' = [woCircuit EXCEPT ![w] = c]
  /\ thread' = [thread EXCEPT ![r] =
       [Idle EXCEPT !.pc = IF AsyncProvisioning THEN "loaded" ELSE "ready",
                    !.op = "provision", !.order = w, !.circuit = c,
                    !.seen = "approved", !.seenCircuit = circuitStatus[c]]]
  /\ UNCHANGED <<jobs, circuitStatus, net, up, crashes, history>>

\* Slip: the circuit is given the work order's status.
MarkedRunning(type, seen) ==
  IF type = "decommission" \/ seen \in {"active", "decommissioned"}
    THEN seen ELSE "running"

\* The status an apply order moves a circuit to before it touches a device.
MarkedProvisioning(type, seen) ==
  IF type = "decommission" \/ seen \in {"active", "decommissioned"}
    THEN seen ELSE "provisioning"

\* The asynchronous branch: queue the order for the worker.
CommitProvision(r) ==
  LET s == thread[r] IN
  /\ s.pc = "loaded" /\ s.op = "provision"
  /\ woStatus' = [woStatus EXCEPT ![s.order] = "scheduled"]
  /\ circuitStatus' = [circuitStatus EXCEPT ![s.circuit] =
       Flushed(@, s.seenCircuit, MarkedProvisioning(woType[s.order], s.seenCircuit))]
  /\ thread' = [thread EXCEPT ![r] = Idle]
  /\ UNCHANGED <<woType, woCircuit, jobs, net, up, crashes, history>>

LoadForDeleteCircuit(r, c) ==
  /\ CanServe(r, "delete_circuit")
  /\ circuitStatus[c] \in DELETABLE_STATUSES
  /\ thread' = [thread EXCEPT ![r] =
       [Idle EXCEPT !.pc = "loaded", !.op = "delete_circuit", !.circuit = c,
                    !.seenCircuit = circuitStatus[c]]]
  /\ UNCHANGED <<rows, net, up, crashes, history>>

\* delete_circuit_record and its commit.  Orders outlive the circuit with a
\* null circuit_id; an uncommitted order's foreign key holds the row.
CommitDeleteCircuit(r) ==
  LET c == thread[r].circuit IN
  /\ thread[r].pc = "loaded" /\ thread[r].op = "delete_circuit"
  /\ ~\E w \in Orders : woStatus[w] = "uncommitted" /\ woCircuit[w] = c
  /\ circuitStatus' = [circuitStatus EXCEPT ![c] = "deleted"]
  /\ woCircuit' = [w \in Orders |-> IF woCircuit[w] = c THEN NoCircuit
                                     ELSE woCircuit[w]]
  /\ thread' = [thread EXCEPT ![r] = Idle]
  /\ UNCHANGED <<woStatus, woType, jobs, net, up, crashes, history>>

-----------------------------------------------------------------------------
(***************************************************************************)
(* The worker.                                                             *)
(***************************************************************************)
Inflight(n) == {thread[t].order : t \in {u \in Workers : NodeOf[u] = n}}

ScheduledIds(n) == {w \in Orders : woStatus[w] = "scheduled"} \ Inflight(n)

\* _dispatch_available: a free slot takes the lowest scheduled id that this
\* node has not dispatched already.
Dispatch(t, w) ==
  /\ up[NodeOf[t]]
  /\ thread[t].pc = "idle"
  /\ w \in ScheduledIds(NodeOf[t])
  /\ \A v \in ScheduledIds(NodeOf[t]) : w <= v
  /\ thread' = [thread EXCEPT ![t] =
       [Idle EXCEPT !.pc = "dispatched", !.op = "worker", !.order = w]]
  /\ UNCHANGED <<rows, net, up, crashes, history>>

\* Slip: UPDATE ... WHERE id = wo_id only.
ClaimUnchecked(t) ==
  LET w == thread[t].order IN
  /\ thread[t].pc = "dispatched"
  /\ woStatus[w] # "deleted"
  /\ woStatus' = [woStatus EXCEPT ![w] = "running"]
  /\ thread' = [thread EXCEPT ![t] =
       [@ EXCEPT !.pc = "claimed", !.circuit = woCircuit[w], !.seen = "running",
                 !.seenCircuit = IF woCircuit[w] = NoCircuit THEN "deleted"
                                 ELSE circuitStatus[woCircuit[w]]]]
  /\ UNCHANGED <<woType, woCircuit, jobs, circuitStatus, net, up, crashes, history>>

\* _claim_work_order: UPDATE ... WHERE status = scheduled, then load the order
\* and its circuit.
Claim(t) ==
  LET w == thread[t].order IN
  /\ thread[t].pc = "dispatched"
  /\ woStatus[w] = "scheduled"
  /\ woStatus' = [woStatus EXCEPT ![w] = "running"]
  /\ thread' = [thread EXCEPT ![t] =
       [@ EXCEPT !.pc = "claimed", !.circuit = woCircuit[w], !.seen = "running",
                 !.seenCircuit = IF woCircuit[w] = NoCircuit THEN "deleted"
                                 ELSE circuitStatus[woCircuit[w]]]]
  /\ UNCHANGED <<woType, woCircuit, jobs, circuitStatus, net, up, crashes, history>>

\* Another node claimed it, or it was cancelled or deleted meanwhile.
ClaimLost(t) ==
  /\ thread[t].pc = "dispatched"
  /\ woStatus[thread[t].order] # "scheduled"
  /\ thread' = [thread EXCEPT ![t] = Idle]
  /\ UNCHANGED <<rows, net, up, crashes, history>>

\* Slip: the list of devices is empty.
AcquireNoLocks(t) ==
  /\ thread[t].pc = "claimed"
  /\ thread' = [thread EXCEPT ![t].pc = "ready"]
  /\ UNCHANGED <<rows, net, up, crashes, history>>

\* _acquire_device_locks, as one step: DeviceLocks shows the lock-by-lock
\* acquisition implements it.  The locks are threading.Locks of the process.
AcquireLocks(t) ==
  /\ thread[t].pc = "claimed"
  /\ \A u \in Workers :
       NodeOf[u] = NodeOf[t] /\ InExecute(u) =>
         DevicesOf(thread[u].circuit) \intersect DevicesOf(thread[t].circuit) = {}
  /\ thread' = [thread EXCEPT ![t].pc = "ready"]
  /\ UNCHANGED <<rows, net, up, crashes, history>>

-----------------------------------------------------------------------------
(***************************************************************************)
(* orchestrator.execute, in a worker or a request thread.                  *)
(***************************************************************************)
\* The commit fails when the order's row is gone (its events and jobs refer
\* to it) or the circuit's row has to be updated and is gone.
CommitFails(t, circuitValue) ==
  LET s == thread[t] IN
  \/ woStatus[s.order] = "deleted"
  \/ circuitValue # s.seenCircuit /\ circuitStatus[s.circuit] = "deleted"

\* A run that ends without its commit.
Loses(t) == lost' = lost \union {thread[t].order}

\* The last commit of a run: both statuses and the jobs, or nothing at all.
Finish(t, orderValue, circuitValue) ==
  LET s == thread[t] IN
  /\ IF CommitFails(t, circuitValue)
       THEN UNCHANGED <<woStatus, circuitStatus, jobs, unrecorded>> /\ Loses(t)
       ELSE /\ woStatus' = [woStatus EXCEPT ![s.order] =
                              Flushed(@, s.seen, orderValue)]
            /\ circuitStatus' = [circuitStatus EXCEPT ![s.circuit] =
                              Flushed(@, s.seenCircuit, circuitValue)]
            /\ jobs' = [jobs EXCEPT ![s.order] = @ \/ Pushing(t)]
            /\ unrecorded' = {w \in unrecorded : Pushing(t) => woCircuit[w] # s.circuit}
            /\ UNCHANGED lost
  /\ thread' = [thread EXCEPT ![t] = Idle]
  /\ UNCHANGED <<woType, woCircuit, up, crashes>>

\* The circuit was deleted before the order was loaded.
ExecuteWithoutCircuit(t) ==
  LET s == thread[t] IN
  /\ s.pc = "ready" /\ s.circuit = NoCircuit
  /\ woStatus' = IF woStatus[s.order] = "deleted" THEN woStatus
                 ELSE [woStatus EXCEPT ![s.order] = Flushed(@, s.seen, "failed")]
  /\ thread' = [thread EXCEPT ![t] = Idle]
  /\ UNCHANGED <<woType, woCircuit, jobs, circuitStatus, net, up, crashes, history>>

Decommission(t) == woType[thread[t].order] = "decommission"

SuccessStatus(t) == IF Decommission(t) THEN "decommissioned" ELSE "active"

\* Adopted circuits: platform records only, no device is touched.
ExecuteAdopted(t) ==
  /\ thread[t].pc = "ready" /\ thread[t].circuit \in Adopted
  /\ Finish(t, "completed", SuccessStatus(t))
  /\ UNCHANGED net

\* Validation errors, or a device without a learned baseline.
PreflightFails(t) ==
  /\ thread[t].pc = "ready" /\ thread[t].circuit \in Circuits \ Adopted
  /\ ~Decommission(t)
  /\ Finish(t, "failed", "failed")
  /\ UNCHANGED net

\* The commit before the devices are touched, and the refresh after it.
StartExecution(t) ==
  LET s == thread[t]
      marked == MarkedProvisioning(woType[s.order], s.seenCircuit)
  IN
  /\ s.pc = "ready" /\ s.circuit \in Circuits \ Adopted
  /\ ~CommitFails(t, marked)
  /\ circuitStatus[s.circuit] # "deleted"
  /\ woStatus' = [woStatus EXCEPT ![s.order] = Flushed(@, s.seen, "running")]
  /\ circuitStatus' = [circuitStatus EXCEPT ![s.circuit] =
                         Flushed(@, s.seenCircuit, marked)]
  /\ thread' = [thread EXCEPT ![t] =
       [s EXCEPT !.pc = "started", !.seen = woStatus'[s.order],
                 !.seenCircuit = circuitStatus'[s.circuit]]]
  /\ UNCHANGED <<woType, woCircuit, jobs, net, up, crashes, history>>

\* That commit fails: nothing is written, the thread is gone.
StartAborted(t) ==
  LET s == thread[t] IN
  /\ s.pc = "ready" /\ s.circuit \in Circuits \ Adopted
  /\ CommitFails(t, MarkedProvisioning(woType[s.order], s.seenCircuit))
  /\ thread' = [thread EXCEPT ![t] = Idle]
  /\ Loses(t)
  /\ UNCHANGED <<rows, net, up, crashes, unrecorded>>

\* It succeeds but the circuit is gone at the refresh: the worker catches the
\* exception and fails the order, a request leaves it running.
StartFindsNoCircuit(t) ==
  LET s == thread[t] IN
  /\ s.pc = "ready" /\ s.circuit \in Circuits \ Adopted
  /\ ~CommitFails(t, MarkedProvisioning(woType[s.order], s.seenCircuit))
  /\ circuitStatus[s.circuit] = "deleted"
  /\ woStatus' = [woStatus EXCEPT ![s.order] =
       IF t \in Workers THEN "failed" ELSE Flushed(@, s.seen, "running")]
  /\ thread' = [thread EXCEPT ![t] = Idle]
  /\ IF t \in Workers THEN UNCHANGED lost ELSE Loses(t)
  /\ UNCHANGED <<woType, woCircuit, jobs, circuitStatus, net, up, crashes, unrecorded>>

SharingCircuit(t) ==
  {u \in Threads \ {t} : Pushing(u) /\ thread[u].circuit = thread[t].circuit}

\* The first job is flushed, which takes the order's row, and pushed.
BeginPush(t) ==
  LET s == thread[t] IN
  /\ s.pc = "started"
  /\ woStatus[s.order] # "deleted"
  /\ net' = [net EXCEPT ![s.circuit] = "partial"]
  /\ unrecorded' = unrecorded \union {s.order}
  /\ thread' = [u \in Threads |->
       IF u = t THEN [s EXCEPT !.pc = "pushing", !.mixed = SharingCircuit(t) # {}]
       ELSE IF u \in SharingCircuit(t) THEN [thread[u] EXCEPT !.mixed = TRUE]
       ELSE thread[u]]
  /\ UNCHANGED <<rows, up, crashes, lost>>

\* The order was deleted: the job's foreign key is violated outside any
\* handler of execute and the session cannot be used any more.
BeginPushAborted(t) ==
  /\ thread[t].pc = "started"
  /\ woStatus[thread[t].order] = "deleted"
  /\ thread' = [thread EXCEPT ![t] = Idle]
  /\ Loses(t)
  /\ UNCHANGED <<rows, net, up, crashes, unrecorded>>

Leaves(t, state) == net' = [net EXCEPT ![thread[t].circuit] = state]

\* Two runs that pushed to the same devices leave whatever came last.
PushSucceeds(t) ==
  /\ Pushing(t)
  /\ Finish(t, "completed", SuccessStatus(t))
  /\ IF thread[t].mixed THEN \E state \in NetState : Leaves(t, state)
     ELSE Leaves(t, IF Decommission(t) THEN "clean" ELSE "applied")

\* Slip: only the order is failed.
PushFailsOrderOnly(t) ==
  /\ Pushing(t)
  /\ Finish(t, "failed", thread[t].seenCircuit)
  /\ \E state \in NetState : Leaves(t, state)

\* Some target failed.  What the rollback achieves depends on which devices
\* answer: anything may be left.
PushFails(t) ==
  /\ Pushing(t)
  /\ Finish(t, "failed", "failed")
  /\ \E state \in NetState : Leaves(t, state)

\* Slip: only the order is failed.
CatchesOrderOnly(t) ==
  /\ t \in Workers /\ InExecute(t) /\ thread[t].circuit # NoCircuit
  /\ Finish(t, "failed", thread[t].seenCircuit)
  /\ UNCHANGED net

\* An exception that execute does not handle and that leaves the session intact:
\* _run_one marks both failed and commits, without a rollback on the devices.
WorkerCatches(t) ==
  /\ t \in Workers /\ InExecute(t) /\ thread[t].circuit # NoCircuit
  /\ Finish(t, "failed", "failed")
  /\ UNCHANGED net

\* A database error, as the victim of a deadlock or with the connection gone:
\* the session cannot be used before a rollback, so _run_one's handler raises as
\* well.  Nothing is written: the order stays running, in nobody's hands.
SessionLost(t) ==
  /\ t \in Workers /\ Executing(t)
  /\ thread' = [thread EXCEPT ![t] = Idle]
  /\ Loses(t)
  /\ UNCHANGED <<rows, net, up, crashes, unrecorded>>

\* An exception in a request: the session is closed uncommitted.
RequestFails(r) ==
  LET s == thread[r] IN
  /\ r \in Requests /\ InExecute(r)
  /\ woStatus' = [woStatus EXCEPT ![s.order] =
                    IF @ = "uncommitted" THEN "absent" ELSE @]
  /\ thread' = [thread EXCEPT ![r] = Idle]
  /\ Loses(r)
  /\ UNCHANGED <<woType, woCircuit, jobs, circuitStatus, net, up, crashes, unrecorded>>

-----------------------------------------------------------------------------
(***************************************************************************)
(* Crash and restart of a backend process.                                 *)
(***************************************************************************)
\* The open transaction of a provision request holds its new order.
Inserting(r, w) ==
  thread[r].pc # "idle" /\ thread[r].op = "provision" /\ thread[r].order = w

Crash(n) ==
  /\ up[n]
  /\ crashes < MaxCrashes
  /\ crashes' = crashes + 1
  /\ up' = [up EXCEPT ![n] = FALSE]
  /\ woStatus' = [w \in Orders |->
       IF /\ woStatus[w] = "uncommitted"
          /\ \E r \in Requests : NodeOf[r] = n /\ Inserting(r, w)
         THEN "absent" ELSE woStatus[w]]
  /\ thread' = [t \in Threads |-> IF NodeOf[t] = n THEN Idle ELSE thread[t]]
  /\ UNCHANGED <<woType, woCircuit, jobs, circuitStatus, net, history>>

\* Slips: the jobs are not counted; nothing is recovered.
RequeuedStatus(w) == IF woStatus[w] # "running" THEN woStatus[w] ELSE "scheduled"
UnrecoveredStatus(w) == woStatus[w]

RecoveredStatus(w) ==
  IF woStatus[w] # "running" THEN woStatus[w]
  ELSE IF jobs[w] THEN "failed" ELSE "scheduled"

\* worker.start: recover_orphaned_running takes every RUNNING order of the
\* shared database for an orphan of this process.
Restart(n) ==
  /\ ~up[n]
  /\ up' = [up EXCEPT ![n] = TRUE]
  /\ IF \E t \in Workers : NodeOf[t] = n
       THEN /\ woStatus' = [w \in Orders |-> RecoveredStatus(w)]
            /\ circuitStatus' = [c \in Circuits |->
                 IF /\ circuitStatus[c] = "provisioning"
                    /\ \E w \in Orders : /\ woCircuit[w] = c /\ jobs[w]
                                         /\ woStatus[w] = "running"
                   THEN "failed" ELSE circuitStatus[c]]
            /\ lost' = {}
       ELSE UNCHANGED <<woStatus, circuitStatus, lost>>
  /\ UNCHANGED <<woType, woCircuit, jobs, net, thread, crashes, unrecorded>>

-----------------------------------------------------------------------------
Request(r) ==
  \/ \E w \in Orders, c \in Circuits, type \in OrderType :
       CreateWorkOrder(r, w, c, type) \/ LoadForProvision(r, w, c, type)
  \/ \E w \in Orders :
       \/ LoadForSubmit(r, w) \/ LoadForApprove(r, w) \/ LoadForReject(r, w)
       \/ LoadForCancel(r, w) \/ LoadForDelete(r, w) \/ LoadForExecute(r, w)
  \/ \E c \in Circuits : LoadForDeleteCircuit(r, c)
  \/ RequestFails(r)

Commit(r) ==
  \/ CommitSubmit(r) \/ CommitApprove(r) \/ CommitReject(r) \/ CommitCancel(r)
  \/ CommitDelete(r) \/ CommitProvision(r) \/ CommitDeleteCircuit(r)

WorkerStep(t) ==
  \/ \E w \in Orders : Dispatch(t, w)
  \/ Claim(t) \/ ClaimLost(t) \/ AcquireLocks(t) \/ WorkerCatches(t)

Execute(t) ==
  \/ ExecuteWithoutCircuit(t) \/ ExecuteAdopted(t) \/ PreflightFails(t)
  \/ StartExecution(t) \/ StartAborted(t) \/ StartFindsNoCircuit(t)
  \/ BeginPush(t) \/ BeginPushAborted(t) \/ PushSucceeds(t) \/ PushFails(t)

Next ==
  \/ \E r \in Requests : Request(r) \/ Commit(r)
  \/ \E t \in Workers : WorkerStep(t) \/ SessionLost(t)
  \/ \E t \in Threads : Execute(t)
  \/ \E n \in Nodes : Crash(n) \/ Restart(n)

Spec == Init /\ [][Next]_vars

\* Device sessions time out, the reconcile loop polls for ever and a dead
\* process is restarted by its container; clients promise nothing, but a
\* handler that has begun returns.
Fairness ==
  /\ \A t \in Workers : WF_vars(WorkerStep(t) \/ Execute(t))
  /\ \A r \in Requests : WF_vars(Commit(r) \/ Execute(r))
  /\ \A n \in Nodes : WF_vars(Restart(n))

FairSpec == Spec /\ Fairness

-----------------------------------------------------------------------------
(***************************************************************************)
(* Properties.                                                             *)
(***************************************************************************)
\* worker.py:11: no order is in the hands of two executions at a time.
AtMostOneExecution ==
  \A s, t \in Threads :
    Executing(s) /\ Executing(t) /\ s # t => thread[s].order # thread[t].order

\* worker.py:74: two executions of one process never push to a common device.
DeviceExclusive ==
  \A s, t \in Threads :
    Pushing(s) /\ Pushing(t) /\ s # t =>
      DevicesOf(thread[s].circuit) \intersect DevicesOf(thread[t].circuit) = {}

\* What a worker does with its devices.
Phase ==
  [t \in Workers |->
     CASE thread[t].pc = "claimed" -> "waiting"
       [] InExecute(t) -> "working"
       [] OTHER -> "out"]

Want == [t \in Workers |-> IF Executing(t) THEN DevicesOf(thread[t].circuit) ELSE {}]

Exclusion ==
  INSTANCE DeviceExclusion
    WITH Threads <- Workers, ProcessOf <- NodeOf, phase <- Phase, want <- Want

\* worker.py:123-149: the workers of each process keep to DeviceExclusion from
\* the claim of an order to the end of its run, whatever is edited, deleted,
\* fails or dies in between.
ImplementsExclusion == Exclusion!Spec

OpenOrders(c) ==
  {w \in Orders : woCircuit[w] = c /\ woStatus[w] \in {"scheduled", "running"}}

Quiet(c) ==
  /\ OpenOrders(c) = {}
  /\ \A t \in Threads : InExecute(t) => thread[t].circuit # c

\* An order that was cancelled or deleted after its run had changed devices and
\* was cut off, by a crash or with its session: nobody takes that up again.
Dropped(c) ==
  \E w \in unrecorded : woCircuit[w] = c /\ woStatus[w] \in {"cancelled", "deleted"}

\* orchestrator.py:614-654: once nothing is queued or running for a circuit, and
\* no half-done order of it was dropped, the platform's record agrees with the
\* devices: an active circuit is fully configured, a decommissioned one has left
\* nothing behind.
RecordMatchesDevices ==
  \A c \in Circuits \ Adopted : Quiet(c) /\ ~Dropped(c) =>
    /\ circuitStatus[c] = "active" => net[c] = "applied"
    /\ circuitStatus[c] = "decommissioned" => net[c] = "clean"

\* workorders.py:233-237: a circuit that refuses new orders because it is being
\* provisioned has an order whose completion can be waited for.
ProvisioningHasOrder ==
  \A c \in Circuits : circuitStatus[c] = "provisioning" =>
    find_inflight_work_order(c) # {}

\* The same where orders may be cancelled: a circuit is left provisioning, and
\* refuses new orders for ever, only after the cancellation (or the deletion
\* that may follow it) of an order.  Failures, races and deletions alone leave
\* a way out.
StrandedByCancelOnly ==
  \A c \in Circuits :
    circuitStatus[c] = "provisioning" /\ find_inflight_work_order(c) = {} =>
      \E w \in Orders : woCircuit[w] = c /\ woStatus[w] \in {"cancelled", "deleted"}

\* worker.py:243-268: an order whose configuration jobs are on record never
\* waits in the queue again, whichever executions and restarts it has seen.
RecordedWorkNotRequeued ==
  \A w \in Orders : jobs[w] => woStatus[w] # "scheduled"

\* orchestrator.py:185-191: a circuit never has two orders in flight (with one
\* request at a time: the check and the insert are not one step).
OneInflightOrder ==
  \A c \in Circuits : Cardinality(find_inflight_work_order(c)) <= 1

\* orchestrator.py:433-438, workorders.py:135: an order that is completed,
\* failed or cancelled is never put back to work.
SettledStaysSettled ==
  [][\A w \in Orders : woStatus[w] \in {"completed", "failed", "cancelled"} =>
       woStatus'[w] \notin INFLIGHT_WO_STATUSES]_vars

\* worker.py:15-17, 225-268: whatever is queued for the worker settles, through
\* crashes, failures and deletions, unless its run loses its database session:
\* then nobody takes the order up before a backend starts again, and after that
\* it settles like any other.
ScheduledSettles ==
  \A w \in Orders : woStatus[w] = "scheduled" ~>
    woStatus[w] \in {"completed", "failed", "cancelled", "deleted"} \/ w \in lost
=============================================================================
