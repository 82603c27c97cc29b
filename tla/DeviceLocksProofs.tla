------------------------- MODULE DeviceLocksProofs -------------------------
(***************************************************************************)
(* The device locks exclude and never wait in a circle, for any number of  *)
(* threads and devices, and they implement DeviceExclusion.                *)
(***************************************************************************)
EXTENDS DeviceLocks, TLAPS

\* A lock object has one holder.
OneHolder ==
  \A s, t \in Threads : s # t => locks[s] \intersect locks[t] = {}

\* Locks are taken from below and given back from above.
HoldsPrefix ==
  \A t \in Threads :
    /\ locks[t] \subseteq devices[t]
    /\ pc[t] \in {"idle", "looking"} => locks[t] = {}
    /\ pc[t] = "acquiring" => \A d \in locks[t], e \in Missing(t) : d < e

\* An execution holds the locks of all its devices.
HoldsAll == \A t \in Threads : pc[t] = "executing" => locks[t] = devices[t]

Inv == TypeOK /\ OneHolder /\ HoldsPrefix /\ HoldsAll

LEMMA InitInv == Init => Inv
  BY DEF Init, Inv, TypeOK, OneHolder, HoldsPrefix, HoldsAll, Missing

LEMMA ClaimedInv ==
  ASSUME Inv, NEW t \in Threads, NEW ds \in SUBSET Devices, Claimed(t, ds)
  PROVE  Inv'
<1> USE DEF Inv
<1>1. /\ pc[t] = "idle" /\ pc'[t] = "looking" /\ devices'[t] = ds /\ locks[t] = {}
      /\ \A u \in Threads \ {t} : pc'[u] = pc[u] /\ devices'[u] = devices[u]
      /\ locks' = locks
  BY DEF Claimed, TypeOK, HoldsPrefix
<1>2. TypeOK'
  BY DEF Claimed, TypeOK
<1> QED
  BY <1>1, <1>2 DEF OneHolder, HoldsPrefix, HoldsAll, Missing

LEMMA AcquireInv ==
  ASSUME Inv, NEW t \in Threads, NEW d \in Devices, Acquire(t, d)
  PROVE  Inv'
<1> USE DEF Inv
<1>1. /\ pc[t] = "acquiring" /\ d \in Missing(t)
      /\ \A e \in Missing(t) : d <= e
      /\ \A u \in Threads : d \notin locks[u]
      /\ locks'[t] = locks[t] \union {d}
      /\ \A u \in Threads \ {t} : locks'[u] = locks[u]
      /\ UNCHANGED <<pc, devices>>
  BY DEF Acquire, NextLock, Free, TypeOK
<1>2. TypeOK'
  BY DEF Acquire, TypeOK
<1>3. OneHolder'
  BY <1>1 DEF OneHolder
<1>4. Missing(t)' = Missing(t) \ {d}
  BY <1>1 DEF Missing
<1>5. \A e \in Missing(t)' : d < e /\ e \in Missing(t)
  BY <1>1, <1>4, DevicesAssumption DEF Missing, TypeOK
<1>6. \A c \in locks'[t], e \in Missing(t)' : c < e
  BY <1>1, <1>5 DEF HoldsPrefix
<1>7. HoldsPrefix'
  <2>1. locks'[t] \subseteq devices'[t]
    BY <1>1 DEF HoldsPrefix, Missing
  <2>2. \A u \in Threads \ {t} : Missing(u)' = Missing(u)
    BY <1>1 DEF Missing
  <2> QED
    BY <1>1, <1>6, <2>1, <2>2 DEF HoldsPrefix
<1>8. HoldsAll'
  BY <1>1 DEF HoldsAll
<1> QED
  BY <1>2, <1>3, <1>7, <1>8

LEMMA ReleaseInv ==
  ASSUME Inv, NEW t \in Threads, NEW d \in Devices, Release(t, d)
  PROVE  Inv'
<1> USE DEF Inv
<1>1. /\ pc[t] = "releasing"
      /\ locks'[t] = locks[t] \ {d}
      /\ \A u \in Threads \ {t} : locks'[u] = locks[u]
      /\ UNCHANGED <<pc, devices>>
  BY DEF Release, TypeOK
<1>2. TypeOK'
  BY DEF Release, TypeOK
<1> QED
  BY <1>1, <1>2 DEF OneHolder, HoldsPrefix, HoldsAll, Missing

\* The steps that take or release no lock.
LEMMA ControlInv ==
  ASSUME Inv, NEW t \in Threads,
         LookUp(t) \/ BeginExecute(t) \/ EndExecute(t) \/ Return(t)
  PROVE  Inv'
<1> USE DEF Inv
<1>1. TypeOK'
  BY DEF LookUp, BeginExecute, EndExecute, Return, TypeOK
<1>2. CASE LookUp(t)
  <2>1. locks[t] = {} /\ pc'[t] = "acquiring"
    BY <1>2 DEF LookUp, HoldsPrefix, TypeOK
  <2>2. UNCHANGED <<locks, devices>> /\ \A u \in Threads \ {t} : pc'[u] = pc[u]
    BY <1>2 DEF LookUp, TypeOK
  <2> QED
    BY <1>1, <2>1, <2>2 DEF OneHolder, HoldsPrefix, HoldsAll, Missing
<1>3. CASE BeginExecute(t)
  <2>1. locks[t] = devices[t] /\ pc'[t] = "executing"
    BY <1>3 DEF BeginExecute, HoldsPrefix, Missing, TypeOK
  <2>2. UNCHANGED <<locks, devices>> /\ \A u \in Threads \ {t} : pc'[u] = pc[u]
    BY <1>3 DEF BeginExecute, TypeOK
  <2> QED
    BY <1>1, <2>1, <2>2 DEF OneHolder, HoldsPrefix, HoldsAll, Missing
<1>4. CASE EndExecute(t)
  <2>1. pc'[t] = "releasing"
    BY <1>4 DEF EndExecute, TypeOK
  <2>2. UNCHANGED <<locks, devices>> /\ \A u \in Threads \ {t} : pc'[u] = pc[u]
    BY <1>4 DEF EndExecute, TypeOK
  <2> QED
    BY <1>1, <2>1, <2>2 DEF OneHolder, HoldsPrefix, HoldsAll, Missing
<1>5. CASE Return(t)
  <2>1. locks[t] = {} /\ pc'[t] = "idle" /\ locks' = locks
    BY <1>5 DEF Return, TypeOK
  <2>2. \A u \in Threads \ {t} : pc'[u] = pc[u] /\ devices'[u] = devices[u]
    BY <1>5 DEF Return, TypeOK
  <2> QED
    BY <1>1, <2>1, <2>2 DEF OneHolder, HoldsPrefix, HoldsAll, Missing
<1> QED
  BY <1>2, <1>3, <1>4, <1>5

LEMMA Invariance == Spec => []Inv
<1>1. Inv /\ [Next]_vars => Inv'
  <2> SUFFICES ASSUME Inv, [Next]_vars PROVE Inv'
    OBVIOUS
  <2>1. CASE UNCHANGED vars
    BY <2>1 DEF vars, Inv, TypeOK, OneHolder, HoldsPrefix, HoldsAll, Missing
  <2>2. CASE Next
    BY <2>2, ClaimedInv, AcquireInv, ReleaseInv, ControlInv DEF Next, RunOne
  <2> QED
    BY <2>1, <2>2
<1> QED
  BY <1>1, InitInv, PTL DEF Spec

\* worker.py:71: threads wait for each other in ascending order of the devices,
\* whatever their number: the locks cannot deadlock.
THEOREM NoCircularWait == Spec => []WaitsUpward
<1>1. Inv => WaitsUpward
  BY DEF Inv, HoldsPrefix, WaitsUpward, NextLock
<1> QED
  BY <1>1, Invariance, PTL

-----------------------------------------------------------------------------
(* The refinement. *)

LEMMA InitRefines == Init => Abstract!Init
  BY DEF Init, Abstract!Init, Phase, Want

\* Two threads execute under the locks of all their devices: they have none in
\* common.
LEMMA ExecutionsDisjoint ==
  ASSUME Inv
  PROVE  \A s, t \in Threads :
           /\ pc[s] = "executing" /\ s # t
           => devices[s] \intersect locks[t] = {}
  BY DEF Inv, OneHolder, HoldsAll

LEMMA StepRefines ==
  ASSUME Inv, [Next]_vars
  PROVE  [Abstract!Next]_(Abstract!vars)
<1> USE DEF Inv
<1>1. ASSUME UNCHANGED <<pc, devices>>
      PROVE  UNCHANGED Abstract!vars
  BY <1>1 DEF Abstract!vars, Phase, Want
<1>2. ASSUME NEW t \in Threads, NEW ds \in SUBSET Devices, Claimed(t, ds)
      PROVE  Abstract!Next
  <2>1. Abstract!Ask(t, ds)
    BY <1>2 DEF Claimed, Abstract!Ask, Phase, Want, TypeOK
  <2> QED
    BY <2>1 DEF Abstract!Next
<1>3. ASSUME NEW t \in Threads, LookUp(t)
      PROVE  UNCHANGED Abstract!vars
  <2>1. Phase' = Phase
    BY <1>3 DEF LookUp, Phase, TypeOK
  <2>2. Want' = Want
    BY <1>3 DEF LookUp, Want, TypeOK
  <2> QED
    BY <2>1, <2>2 DEF Abstract!vars
<1>4. ASSUME NEW t \in Threads, BeginExecute(t)
      PROVE  Abstract!Next
  <2>1. locks[t] = devices[t]
    BY <1>4 DEF BeginExecute, Missing, HoldsPrefix
  <2>2. \A u \in Threads : Abstract!Working(u) => Want[u] \intersect Want[t] = {}
    <3> SUFFICES ASSUME NEW u \in Threads, Abstract!Working(u)
                 PROVE  Want[u] \intersect Want[t] = {}
      OBVIOUS
    <3>1. pc[u] = "executing" /\ u # t
      BY <1>4 DEF Abstract!Working, Phase, BeginExecute
    <3> QED
      BY <1>4, <2>1, <3>1, ExecutionsDisjoint DEF Want, BeginExecute
  <2>3. Phase[t] = "waiting" /\ Phase' = [Phase EXCEPT ![t] = "working"]
    BY <1>4 DEF BeginExecute, Phase, TypeOK
  <2>4. Want' = Want
    BY <1>4 DEF BeginExecute, Want, TypeOK
  <2>5. Abstract!Enter(t)
    BY <2>2, <2>3, <2>4 DEF Abstract!Enter
  <2> QED
    BY <2>5 DEF Abstract!Next
<1>5. ASSUME NEW t \in Threads, EndExecute(t)
      PROVE  Abstract!Next
  <2>1. Abstract!Leave(t)
    BY <1>5 DEF EndExecute, Abstract!Leave, Abstract!Working, Phase, Want, TypeOK
  <2> QED
    BY <2>1 DEF Abstract!Next
<1>6. ASSUME NEW t \in Threads, Return(t)
      PROVE  UNCHANGED Abstract!vars
  <2>1. Phase' = Phase
    BY <1>6 DEF Return, Phase, TypeOK
  <2>2. Want' = Want
    BY <1>6 DEF Return, Want, TypeOK
  <2> QED
    BY <2>1, <2>2 DEF Abstract!vars
<1>7. ASSUME NEW t \in Threads, NEW d \in Devices, Acquire(t, d) \/ Release(t, d)
      PROVE  UNCHANGED Abstract!vars
  BY <1>1, <1>7 DEF Acquire, Release
<1>8. CASE UNCHANGED vars
  BY <1>1, <1>8 DEF vars
<1> QED
  BY <1>2, <1>3, <1>4, <1>5, <1>6, <1>7, <1>8 DEF Next, RunOne

\* worker.py:74-88: the locks implement the exclusion that Provisioning takes
\* for one step.
THEOREM Refinement == Spec => ImplementsExclusion
<1>1. Init => Abstract!Init
  BY InitRefines
<1>2. Inv /\ [Next]_vars => [Abstract!Next]_(Abstract!vars)
  BY StepRefines
<1> QED
  BY <1>1, <1>2, Invariance, PTL DEF Spec, ImplementsExclusion, Abstract!Spec

\* worker.py:74: what the exclusion is there for: no device is worked on by two
\* threads of the process.
THEOREM Exclusion == Spec => []Abstract!Exclusive
<1>1. Inv => Abstract!Exclusive
  <2> SUFFICES ASSUME Inv, NEW s \in Threads, NEW t \in Threads, s # t,
                      Abstract!Working(s), Abstract!Working(t)
               PROVE  Want[s] \intersect Want[t] = {}
    BY DEF Abstract!Exclusive
  <2>1. pc[s] = "executing" /\ pc[t] = "executing"
    BY DEF Abstract!Working, Phase
  <2>2. locks[t] = devices[t]
    BY <2>1 DEF Inv, HoldsAll
  <2> QED
    BY <2>1, <2>2, ExecutionsDisjoint DEF Want
<1> QED
  BY <1>1, Invariance, PTL
=============================================================================
