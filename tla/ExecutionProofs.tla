-------------------------- MODULE ExecutionProofs --------------------------
(***************************************************************************)
(* Completed runs reach every target and rollbacks leave nothing they are  *)
(* answerable for, for any targets, endpoints and failures.                *)
(***************************************************************************)
EXTENDS Execution, TLAPS

\* No run: no run variables.
IdleEmpty ==
  phase = "idle" => /\ removing = {} /\ todo = {} /\ rollbacks = {}
                    /\ attempted = {} /\ succeeded = {} /\ stuck = {}

Goal == IF Removes THEN "none" ELSE "set"

\* Until something fails, every target that is not left to do has reached what
\* the run is for; old bindings are removed before any of them.
PushedReached ==
  phase = "pushing" /\ ~failed =>
    /\ removing # {} => todo = PushTargets(type)
    /\ \A t \in PushTargets(type) \ todo : config[t] = Goal

\* Every device the rollback is answerable for is registered.
Registered ==
  phase = "pushing" =>
    (IF Removes THEN succeeded ELSE attempted) \intersect Pushed \subseteq rollbacks

\* The rollback has dealt with every device that is no longer registered.
RolledBack ==
  phase = "undoing" =>
    /\ goal = {}
    /\ ~Removes => \A t \in attempted \intersect Pushed :
                     t \in rollbacks \/ config[t] = "none" \/ t \in stuck
    /\ Removes => \A t \in succeeded \intersect Pushed :
                     t \in rollbacks \/ config[t] = "set" \/ t \in stuck

Inv ==
  /\ TypeOK
  /\ IdleEmpty
  /\ PushedReached
  /\ Registered
  /\ RolledBack
  /\ CompletedRunHolds

-----------------------------------------------------------------------------
LEMMA PushTargetsType ==
  ASSUME TypeOK, NEW t
  PROVE  PushTargets(t) \subseteq Targets
<1>1. endpoints \subseteq Bindings
  BY DEF TypeOK
<1>2. \A b \in endpoints : Group[b] \in Targets \union {NoTarget}
  BY <1>1, SiteAssumption DEF Targets
<1>3. \A b \in endpoints : GatewaysOf[b] \subseteq Targets
  BY <1>1, SiteAssumption DEF Targets
<1>4. _dci_gateways \subseteq Targets
  BY <1>3 DEF _dci_gateways
<1> QED
  BY <1>1, <1>2, <1>4 DEF PushTargets, Targets

\* The effects of the pushes are configurations; what is gone stays gone when
\* something else is removed.
LEMMA Effects ==
  ASSUME TypeOK, NEW t \in Targets
  PROVE  /\ Applied(t) \in [Targets -> Config] /\ Applied(t)[t] = "set"
         /\ \A u \in Targets \ {t} : Applied(t)[u] = config[u]
         /\ Removed(t) \in [Targets -> Config] /\ Removed(t)[t] = "none"
         /\ \A u \in Targets : config[u] = "none" => Removed(t)[u] = "none"
         /\ Detached(t) \in [Targets -> Config]
         /\ \A u \in Targets \ {t} : Detached(t)[u] = config[u]
  BY DEF TypeOK, Config, Applied, Removed, Detached

LEMMA BrokenEffects ==
  ASSUME TypeOK, NEW t \in Targets, NEW done \in [Targets -> Config],
         NEW c \in Broken(t, done)
  PROVE  /\ c \in [Targets -> Config]
         /\ \A u \in Targets \ {t} : c[u] = config[u] \/ c[u] = done[u]
<1>1. c \in {config, done, [config EXCEPT ![t] = "partial"]}
  BY DEF Broken
<1> QED
  BY <1>1 DEF TypeOK, Config

LEMMA InitInv == Init => Inv
<1> SUFFICES ASSUME Init PROVE Inv
  OBVIOUS
<1> USE DEF Init
<1>1. config \in [Targets -> Config]
  BY DEF Config
<1>2. edits \in 0..MaxEdits
  BY ServiceAssumption
<1>3. {todo, rollbacks, attempted, succeeded, stuck, goal} \subseteq SUBSET Targets
  OBVIOUS
<1>4. TypeOK
  BY <1>1, <1>2, <1>3 DEF TypeOK
<1> QED
  BY <1>4 DEF Inv, IdleEmpty, PushedReached, Registered, RolledBack,
              CompletedRunHolds

LEMMA DetachInv ==
  ASSUME Inv, NEW b \in Targets, NEW ok \in BOOLEAN, Detach(b, ok)
  PROVE  Inv'
<1> USE DEF Inv
<1>1. /\ phase = "pushing" /\ b \in removing /\ removing' = removing \ {b}
      /\ failed' = (failed \/ ~ok)
      /\ UNCHANGED <<endpoints, previous, status, phase, type, todo, rollbacks,
                     attempted, succeeded, stuck, goal, edits>>
  BY DEF Detach, Lowest, AnyFailed
<1>2. config' \in [Targets -> Config]
  <2>1. CASE ok
    BY <2>1, Effects DEF Detach
  <2>2. CASE ~ok
    BY <2>2, Effects, BrokenEffects DEF Detach
  <2> QED
    BY <2>1, <2>2
<1>3. TypeOK'
  BY <1>1, <1>2 DEF TypeOK
<1>4. PushTargets(type)' = PushTargets(type)
  BY <1>1 DEF PushTargets, _dci_gateways
<1>5. PushedReached'
  BY <1>1, <1>4 DEF PushedReached
<1>6. Registered'
  BY <1>1 DEF Registered, Removes
<1> QED
  BY <1>1, <1>3, <1>5, <1>6 DEF IdleEmpty, RolledBack, CompletedRunHolds

LEMMA PushInv ==
  ASSUME Inv, NEW t \in Targets, NEW ok \in BOOLEAN, Push(t, ok)
  PROVE  Inv'
<1> USE DEF Inv
<1>1. /\ phase = "pushing" /\ removing = {} /\ t \in todo
      /\ todo' = todo \ ({t} \union SkippedWith(t, ok))
      /\ failed' = (failed \/ ~ok)
      /\ attempted' = attempted \union {t}
      /\ succeeded' = IF ok THEN succeeded \union {t} ELSE succeeded
      /\ rollbacks' = IF Registers(t, ok) THEN rollbacks \union {t} ELSE rollbacks
      /\ UNCHANGED <<endpoints, previous, status, phase, type, removing, stuck,
                     goal, edits>>
  BY DEF Push, Lowest, AnyFailed
<1>2. CASE ok
  <2>1. config' = IF Removes THEN Removed(t) ELSE Applied(t)
    BY <1>2 DEF Push
  <2>2. config' \in [Targets -> Config] /\ config'[t] = Goal
    BY <2>1, Effects DEF Goal
  <2>3. \A u \in Targets : config[u] = Goal => config'[u] = Goal
    <3>1. CASE Removes
      BY <2>1, <3>1, Effects DEF Goal
    <3>2. CASE ~Removes
      BY <2>1, <2>2, <3>2, Effects DEF Goal
    <3> QED
      BY <3>1, <3>2
  <2>4. SkippedWith(t, ok) = {}
    BY <1>2 DEF SkippedWith
  <2>5. PushTargets(type)' = PushTargets(type) /\ Goal' = Goal
    BY <1>1 DEF PushTargets, _dci_gateways, Goal, Removes
  <2>6. PushedReached'
    BY <1>1, <2>2, <2>3, <2>4, <2>5, PushTargetsType DEF PushedReached
  <2>7. TypeOK'
    BY <1>1, <2>2 DEF TypeOK
  <2>8. Registered'
    BY <1>1, <1>2 DEF Registered, Registers, Removes
  <2> QED
    BY <1>1, <2>6, <2>7, <2>8 DEF IdleEmpty, RolledBack, CompletedRunHolds
<1>3. CASE ~ok
  <2>1. config' \in [Targets -> Config]
    <3>1. (IF Removes THEN Removed(t) ELSE Applied(t)) \in [Targets -> Config]
      BY Effects
    <3> QED
      BY <1>3, <3>1, BrokenEffects DEF Push
  <2>2. TypeOK'
    BY <1>1, <2>1 DEF TypeOK
  <2>3. PushedReached'
    BY <1>1, <1>3 DEF PushedReached
  <2>4. Registered'
    BY <1>1, <1>3 DEF Registered, Registers, Removes
  <2> QED
    BY <1>1, <2>2, <2>3, <2>4 DEF IdleEmpty, RolledBack, CompletedRunHolds
<1> QED
  BY <1>2, <1>3

LEMMA UndoInv ==
  ASSUME Inv, NEW t \in Targets, NEW ok \in BOOLEAN, Undo(t, ok)
  PROVE  Inv'
<1> USE DEF Inv
<1>1. /\ phase = "undoing" /\ t \in rollbacks /\ rollbacks' = rollbacks \ {t}
      /\ stuck' = IF ok THEN stuck ELSE stuck \union {t}
      /\ UNCHANGED <<endpoints, previous, status, phase, type, removing, todo,
                     failed, attempted, succeeded, goal, edits>>
  BY DEF Undo, NextUndo
<1> DEFINE undone == IF Removes THEN "set" ELSE "none"
<1>2. /\ Undone(t) \in [Targets -> Config] /\ Undone(t)[t] = undone
      /\ \A u \in Targets : config[u] = undone => Undone(t)[u] = undone
  <2>1. CASE Removes
    BY <2>1, Effects DEF Undone
  <2>2. CASE ~Removes
    BY <2>2, Effects DEF Undone
  <2> QED
    BY <2>1, <2>2
<1>3. /\ config' \in [Targets -> Config]
      /\ config'[t] = undone \/ t \in stuck'
      /\ \A u \in Targets \ {t} : config[u] = undone => config'[u] = undone
  <2>1. CASE ok
    BY <1>2, <2>1 DEF Undo
  <2>2. CASE ~ok
    <3>1. config' \in Broken(t, Undone(t))
      BY <2>2 DEF Undo
    <3> QED
      BY <1>1, <1>2, <2>2, <3>1, BrokenEffects
  <2> QED
    BY <2>1, <2>2
<1>4. TypeOK'
  BY <1>1, <1>3 DEF TypeOK
<1>5. Removes' = Removes /\ stuck \subseteq stuck'
  BY <1>1 DEF Removes
<1>6. RolledBack'
  <2>1. attempted \subseteq Targets /\ succeeded \subseteq Targets
    BY DEF TypeOK
  <2>2. CASE Removes
    BY <1>1, <1>3, <1>5, <2>1, <2>2 DEF RolledBack
  <2>3. CASE ~Removes
    BY <1>1, <1>3, <1>5, <2>1, <2>3 DEF RolledBack
  <2> QED
    BY <2>2, <2>3
<1> QED
  BY <1>1, <1>4, <1>6 DEF IdleEmpty, PushedReached, Registered, CompletedRunHolds

LEMMA ExecuteInv ==
  ASSUME Inv, NEW t \in {"provision", "modify", "decommission"},
         NEW old \in SUBSET Bindings, Execute(t, old)
  PROVE  Inv'
<1> USE DEF Inv
<1>1. /\ phase = "idle" /\ phase' = "pushing" /\ type' = t
      /\ removing' = old \ endpoints /\ todo' = PushTargets(t) /\ previous' = {}
      /\ UNCHANGED <<endpoints, status, config, failed, rollbacks, attempted,
                     succeeded, stuck, goal, edits>>
  BY DEF Execute
<1>2. TypeOK'
  BY <1>1, PushTargetsType DEF TypeOK
<1>3. PushTargets(type)' = todo'
  BY <1>1 DEF PushTargets, _dci_gateways
<1>4. PushedReached'
  BY <1>3 DEF PushedReached
<1>5. Registered'
  BY <1>1 DEF IdleEmpty, Registered
<1> QED
  BY <1>1, <1>2, <1>4, <1>5 DEF IdleEmpty, RolledBack, CompletedRunHolds

LEMMA CompleteInv ==
  ASSUME Inv, Complete
  PROVE  Inv'
<1> USE DEF Inv
<1>1. /\ phase = "pushing" /\ todo = {} /\ ~failed
      /\ status' = IF Removes THEN "decommissioned" ELSE "active"
      /\ goal' = PushTargets(type) /\ phase' = "idle" /\ config' = config
  BY DEF Complete, Visited, EndRun
<1>2. TypeOK'
  <2>1. goal' \in SUBSET Targets
    BY <1>1, PushTargetsType
  <2>2. /\ removing' = {} /\ todo' = {} /\ rollbacks' = {} /\ attempted' = {}
        /\ succeeded' = {} /\ stuck' = {} /\ failed' = FALSE
        /\ type' = "provision"
        /\ UNCHANGED <<endpoints, previous, config, edits>>
    BY DEF Complete, EndRun
  <2>3. {todo, rollbacks, attempted, succeeded, stuck, goal}' \subseteq SUBSET Targets
    BY <2>1, <2>2
  <2>4. status' \in {"draft", "active", "decommissioned", "failed"}
    BY <1>1
  <2> QED
    BY <1>1, <2>2, <2>3, <2>4 DEF TypeOK
<1>3. CompletedRunHolds'
  BY <1>1 DEF PushedReached, CompletedRunHolds, Goal
<1> QED
  BY <1>1, <1>2, <1>3
  DEF Complete, EndRun, IdleEmpty, PushedReached, Registered, RolledBack

\* Refused pushes, and the other ends of a run.
LEMMA OtherInv ==
  ASSUME Inv,
         \/ \E eps \in SUBSET Bindings : ReplaceEndpoints(eps)
         \/ \E t \in Targets : PushRefused(t)
         \/ Fail \/ Abort \/ EndRollback
  PROVE  Inv'
<1> USE DEF Inv
<1>1. CASE \E eps \in SUBSET Bindings : ReplaceEndpoints(eps)
  <2>1. TypeOK'
    BY <1>1, ServiceAssumption DEF ReplaceEndpoints, TypeOK, run
  <2> QED
    BY <1>1, <2>1 DEF ReplaceEndpoints, run, IdleEmpty, PushedReached, Registered,
                      RolledBack, CompletedRunHolds
<1>2. CASE \E t \in Targets : PushRefused(t)
  <2>1. /\ phase = "pushing" /\ failed'
        /\ UNCHANGED <<status, config, phase, type, rollbacks, attempted,
                       succeeded, stuck, goal>>
    BY <1>2 DEF PushRefused, AnyFailed
  <2>2. TypeOK'
    BY <1>2 DEF PushRefused, AnyFailed, TypeOK
  <2> QED
    BY <2>1, <2>2 DEF IdleEmpty, PushedReached, Registered, RolledBack, Removes,
                      CompletedRunHolds
<1>3. CASE Fail
  <2>1. TypeOK'
    BY <1>3 DEF Fail, TypeOK
  <2>2. RolledBack'
    BY <1>3 DEF Fail, Visited, Registered, RolledBack, Removes
  <2> QED
    BY <1>3, <2>1, <2>2 DEF Fail, IdleEmpty, PushedReached, Registered,
                            CompletedRunHolds
<1>4. CASE Abort
  <2>1. TypeOK'
    BY <1>4 DEF Abort, EndRun, TypeOK
  <2> QED
    BY <1>4, <2>1 DEF Abort, EndRun, IdleEmpty, PushedReached, Registered,
                      RolledBack, CompletedRunHolds
<1>5. CASE EndRollback
  <2>1. TypeOK'
    BY <1>5 DEF EndRollback, EndRun, TypeOK
  <2> QED
    BY <1>5, <2>1 DEF EndRollback, EndRun, IdleEmpty, PushedReached, Registered,
                      RolledBack, CompletedRunHolds
<1> QED
  BY <1>1, <1>2, <1>3, <1>4, <1>5

LEMMA Invariance == Spec => []Inv
<1>1. Inv /\ [Next]_vars => Inv'
  <2> SUFFICES ASSUME Inv, [Next]_vars PROVE Inv'
    OBVIOUS
  <2>1. CASE UNCHANGED vars
    BY <2>1 DEF vars, run, Inv, TypeOK, IdleEmpty, PushedReached, PushTargets,
                _dci_gateways, Goal, Removes, Registered, RolledBack,
                CompletedRunHolds
  <2>2. CASE Next
    BY <2>2, DetachInv, PushInv, UndoInv, ExecuteInv, CompleteInv, OtherInv
    DEF Next, Run
  <2> QED
    BY <2>1, <2>2
<1> QED
  BY <1>1, InitInv, PTL DEF Spec

-----------------------------------------------------------------------------
\* orchestrator.py:619-627: the platform says active or decommissioned only when
\* every target of the run says so too.
THEOREM CompletedRuns == Spec => []CompletedRunHolds
<1>1. Inv => CompletedRunHolds
  BY DEF Inv
<1> QED
  BY <1>1, Invariance, PTL

\* orchestrator.py:1107-1110: after the rollback of a failed apply no device is
\* dirty but those that refused the rollback.
THEOREM RollbackCleans == Spec => []NoDirtyConfig
<1>1. Inv => NoDirtyConfig
  BY DEF Inv, RolledBack, NoDirtyConfig
<1> QED
  BY <1>1, Invariance, PTL

\* orchestrator.py:946-950: the rollback of a failed decommission configures the
\* devices again.
THEOREM RollbackRestores == Spec => []TeardownRestored
<1>1. Inv => TeardownRestored
  BY DEF Inv, RolledBack, TeardownRestored
<1> QED
  BY <1>1, Invariance, PTL
\* A step of the rollback changes a control plane only by its own undo.
LEMMA UndoOfRoutes ==
  ASSUME Inv, NEW t \in Targets, NEW ok \in BOOLEAN, Undo(t, ok),
         NEW r \in Routes, config[r] = "set", config'[r] # "set"
  PROVE  t = r
<1> SUFFICES ASSUME t # r PROVE FALSE
  OBVIOUS
<1>1. r \in Targets /\ r \notin Pushed
  BY KindAssumption DEF Targets, Pushed
<1>2. Undone(t)[r] = config[r] /\ Undone(t) \in [Targets -> Config]
  <2>1. CASE Removes
    BY <2>1, <1>1, Effects DEF Undone, Inv
  <2>2. CASE ~Removes
    BY <2>2, <1>1, Effects DEF Undone, Removed, SameDevice, Inv
  <2> QED
    BY <2>1, <2>2
<1>3. CASE ok
  BY <1>2, <1>3 DEF Undo
<1>4. CASE ~ok
  BY <1>1, <1>2, <1>4, BrokenEffects DEF Undo, Inv
<1> QED
  BY <1>3, <1>4

\* orchestrator.py:962: the reverse order withdraws the routes of a controller
\* after the undo of its last device.
THEOREM ReverseOrder == Spec => RoutesWithdrawnLast
<1> DEFINE Ordered ==
      \A r \in Routes :
        phase = "undoing" /\ config[r] = "set" /\ config'[r] # "set" =>
          \A b \in rollbacks \intersect Bindings : Group[b] # r
<1>1. Inv /\ [Next]_vars => [Ordered]_vars
  <2> SUFFICES ASSUME Inv, Next, NEW r \in Routes, phase = "undoing",
                      config[r] = "set", config'[r] # "set",
                      NEW b \in rollbacks \intersect Bindings, Group[b] = r
               PROVE  FALSE
    OBVIOUS
  <2>1. \E t \in Targets, ok \in BOOLEAN : Undo(t, ok)
    BY DEF Next, Run, ReplaceEndpoints, Execute, Detach, Push, PushRefused,
           Complete, Visited, Fail, Abort, EndRollback
  <2>2. PICK t \in Targets, ok \in BOOLEAN : Undo(t, ok)
    BY <2>1
  <2>3. t = r
    BY <2>2, UndoOfRoutes
  <2>4. b <= r
    BY <2>2, <2>3 DEF Undo, NextUndo
  <2>5. r < b /\ r \in Int /\ b \in Int
    BY OrderAssumption DEF Targets
  <2> QED
    BY <2>4, <2>5
<1> QED
  BY <1>1, Invariance, PTL DEF Spec, RoutesWithdrawnLast
=============================================================================
