-------------------------- MODULE DeviceExclusion --------------------------
(***************************************************************************)
(* What the per-device locks of worker.py promise: a thread works on its   *)
(* devices only while no other thread of its process works on one of them. *)
(***************************************************************************)
CONSTANTS Threads, Devices, ProcessOf

VARIABLES
  phase,  \* what a thread is doing
  want    \* the devices of its work order

vars == <<phase, want>>

Working(t) == phase[t] = "working"
Together(t, u) == ProcessOf[t] = ProcessOf[u]

Init ==
  /\ phase = [t \in Threads |-> "out"]
  /\ want = [t \in Threads |-> {}]

Ask(t, ds) ==
  /\ phase[t] = "out"
  /\ phase' = [phase EXCEPT ![t] = "waiting"]
  /\ want' = [want EXCEPT ![t] = ds]

Enter(t) ==
  /\ phase[t] = "waiting"
  /\ \A u \in Threads : Working(u) /\ Together(t, u) => want[u] \intersect want[t] = {}
  /\ phase' = [phase EXCEPT ![t] = "working"]
  /\ UNCHANGED want

\* Its work is over, or given up before it began.
Leave(t) ==
  /\ phase[t] # "out"
  /\ phase' = [phase EXCEPT ![t] = "out"]
  /\ want' = [want EXCEPT ![t] = {}]

\* The process of t dies, and all its threads with it.
Stop(t) ==
  /\ phase' = [u \in Threads |-> IF Together(t, u) THEN "out" ELSE phase[u]]
  /\ want' = [u \in Threads |-> IF Together(t, u) THEN {} ELSE want[u]]

Next ==
  \E t \in Threads :
    \/ \E ds \in SUBSET Devices : Ask(t, ds)
    \/ Enter(t)
    \/ Leave(t)
    \/ Stop(t)

Spec == Init /\ [][Next]_vars

\* worker.py:74: no device is worked on by two threads of a process.
Exclusive ==
  \A s, t \in Threads :
    Working(s) /\ Working(t) /\ s # t /\ Together(s, t) => want[s] \intersect want[t] = {}
=============================================================================
