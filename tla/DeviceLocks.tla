---------------------------- MODULE DeviceLocks ----------------------------
(***************************************************************************)
(* The device locks of worker.py, lock by lock: a thread takes the         *)
(* threading.Lock of every device of its work order in ascending order of  *)
(* the device ids, executes, and releases them in descending order.        *)
(***************************************************************************)
EXTENDS Integers

CONSTANTS
  Threads,    \* the worker threads of one process
  Devices     \* device ids

ASSUME DevicesAssumption == Devices \subseteq Int

VARIABLES
  pc,        \* where a thread is in _run_one
  devices,   \* the list _device_ids_for_work_order returned
  locks,     \* the lock objects the thread holds, by device
  registry   \* _device_locks: the devices that have a lock object

vars == <<pc, devices, locks, registry>>

TypeOK ==
  /\ pc \in [Threads -> {"idle", "looking", "acquiring", "executing", "releasing"}]
  /\ devices \in [Threads -> SUBSET Devices]
  /\ locks \in [Threads -> SUBSET Devices]
  /\ registry \in SUBSET Devices

Init ==
  /\ pc = [t \in Threads |-> "idle"]
  /\ devices = [t \in Threads |-> {}]
  /\ locks = [t \in Threads |-> {}]
  /\ registry = {}

\* Slip: a new lock object at every look-up.
NewLock(d) == d \in Devices

Free(d) == \A u \in Threads : d \notin locks[u]

Missing(t) == devices[t] \ locks[t]

\* Slip: a set of ids is not sorted.
AnyLock(t, d) == d \in Missing(t)

\* The ids are sorted, so the next lock is that of the lowest id left.
NextLock(t, d) == d \in Missing(t) /\ \A e \in Missing(t) : d <= e

LastLock(t, d) == d \in locks[t] /\ \A e \in locks[t] : e <= d

\* _device_ids_for_work_order; no devices if the circuit is gone.
Claimed(t, ds) ==
  /\ pc[t] = "idle"
  /\ pc' = [pc EXCEPT ![t] = "looking"]
  /\ devices' = [devices EXCEPT ![t] = ds]
  /\ UNCHANGED <<locks, registry>>

\* The look-up under _device_locks_guard: one lock object per device for ever.
LookUp(t) ==
  /\ pc[t] = "looking"
  /\ registry' = registry \union devices[t]
  /\ pc' = [pc EXCEPT ![t] = "acquiring"]
  /\ UNCHANGED <<devices, locks>>

Acquire(t, d) ==
  /\ pc[t] = "acquiring"
  /\ NextLock(t, d)
  /\ d \in registry
  /\ Free(d)
  /\ locks' = [locks EXCEPT ![t] = @ \union {d}]
  /\ UNCHANGED <<pc, devices, registry>>

\* _acquire_device_locks returns: orchestrator.execute runs.
BeginExecute(t) ==
  /\ pc[t] = "acquiring"
  /\ Missing(t) = {}
  /\ pc' = [pc EXCEPT ![t] = "executing"]
  /\ UNCHANGED <<devices, locks, registry>>

\* It returns or raises; the finally clause releases either way.
EndExecute(t) ==
  /\ pc[t] = "executing"
  /\ pc' = [pc EXCEPT ![t] = "releasing"]
  /\ UNCHANGED <<devices, locks, registry>>

Release(t, d) ==
  /\ pc[t] = "releasing"
  /\ LastLock(t, d)
  /\ locks' = [locks EXCEPT ![t] = @ \ {d}]
  /\ UNCHANGED <<pc, devices, registry>>

Return(t) ==
  /\ pc[t] = "releasing"
  /\ locks[t] = {}
  /\ pc' = [pc EXCEPT ![t] = "idle"]
  /\ devices' = [devices EXCEPT ![t] = {}]
  /\ UNCHANGED <<locks, registry>>

RunOne(t) ==
  \/ LookUp(t) \/ BeginExecute(t) \/ EndExecute(t) \/ Return(t)
  \/ \E d \in Devices : Acquire(t, d) \/ Release(t, d)

Next ==
  \E t \in Threads : RunOne(t) \/ \E ds \in SUBSET Devices : Claimed(t, ds)

Spec == Init /\ [][Next]_vars

\* Executions end: every device session has a timeout.
FairSpec == Spec /\ \A t \in Threads : WF_vars(RunOne(t))

-----------------------------------------------------------------------------
\* worker.py:71 (sorted): whoever has the lock a thread waits for is itself
\* waiting for a higher one, so no circle of threads waits for each other.
WaitsUpward ==
  \A t, u \in Threads : \A d, e \in Devices :
    /\ pc[t] = "acquiring" /\ NextLock(t, d)
    /\ d \in locks[u] /\ pc[u] = "acquiring" /\ NextLock(u, e)
    => d < e

\* worker.py:145-150: every claimed order gets to be executed, no set of
\* threads blocks each other for ever.  (Only about the time some thread is
\* waiting: a thread may be overtaken.)
SomeoneExecutes ==
  (\E t \in Threads : pc[t] = "acquiring") ~> (\E t \in Threads : pc[t] = "executing")

\* The refinement: a thread works from the last lock to the first release.
Phase ==
  [t \in Threads |->
     CASE pc[t] \in {"looking", "acquiring"} -> "waiting"
       [] pc[t] = "executing" -> "working"
       [] OTHER -> "out"]

Want == [t \in Threads |-> IF pc[t] = "releasing" THEN {} ELSE devices[t]]

\* The threads of one process.
Abstract ==
  INSTANCE DeviceExclusion
    WITH ProcessOf <- [t \in Threads |-> "worker"], phase <- Phase, want <- Want

\* worker.py:74-88: the locks implement the exclusion they are there for.
ImplementsExclusion == Abstract!Spec
=============================================================================
