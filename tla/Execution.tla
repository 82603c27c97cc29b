----------------------------- MODULE Execution -----------------------------
(***************************************************************************)
(* The pushes of orchestrator.execute and their rollback, target by        *)
(* target, over the life of one circuit: its endpoints are edited, orders  *)
(* provision, modify and decommission it one after the other, and any push *)
(* and any undo may fail.  The statuses of the orders, the commits and     *)
(* what runs beside a run are in Provisioning.                             *)
(***************************************************************************)
EXTENDS Integers, FiniteSets

CONSTANTS
  Bindings,       \* device interfaces an endpoint can be attached to
  Routes,         \* the control planes of Bugis controllers
  External,       \* other vendors' controllers
  Gateways,       \* DCI gateways, border leaves and egress borders
  Group,          \* the controller in charge of a binding's site
  GatewaysOf,     \* the gateways of a binding's site
  DeviceOf,       \* the device of a binding or gateway
  GatewayService, \* a DCI or Remote IPT circuit, not an L2 or L3 VPN
  MaxEdits,       \* bound: endpoint edits in a behaviour
  NoTarget

\* Targets are numbered in the order execute visits them.
Targets == Bindings \union Routes \union External \union Gateways

ASSUME OrderAssumption ==
  /\ Targets \subseteq Nat /\ NoTarget \notin Targets
  /\ \A b \in Bindings : Group[b] \in Routes => Group[b] < b
ASSUME SiteAssumption ==
  /\ Group \in [Bindings -> Routes \union External \union {NoTarget}]
  /\ GatewaysOf \in [Bindings -> SUBSET Gateways]
ASSUME KindAssumption ==
  /\ Bindings \intersect (Routes \union External \union Gateways) = {}
  /\ Gateways \intersect (Routes \union External) = {}
  /\ Routes \intersect External = {}
ASSUME ServiceAssumption == GatewayService \in BOOLEAN /\ MaxEdits \in Nat

VARIABLES
  endpoints,  \* circuit.endpoints
  previous,   \* what the client will send as previous_endpoints
  status,     \* circuits.status
  config,     \* what a target holds of the circuit
  phase,      \* where execute is
  type,       \* the type of the order being executed
  removing,   \* old bindings still to be removed
  todo,       \* targets still to be pushed to
  failed,     \* execute's flag
  rollbacks,  \* the targets with a registered undo action
  attempted,  \* history: the targets this run has pushed to
  succeeded,  \* history: those whose push succeeded
  stuck,      \* history: the targets whose undo has failed in this run
  goal,       \* history: the targets of the last run, if it completed
  edits

run == <<phase, type, removing, todo, failed, rollbacks, attempted, succeeded,
         stuck>>
vars == <<endpoints, previous, status, config, run, goal, edits>>

\* "base": the VSI or bridge domain without the interface, "partial": anything
\* between two of the others.
Config == {"none", "base", "set", "partial"}

TypeOK ==
  /\ endpoints \in SUBSET Bindings /\ previous \in SUBSET Bindings
  /\ status \in {"draft", "active", "decommissioned", "failed"}
  /\ config \in [Targets -> Config]
  /\ phase \in {"idle", "pushing", "undoing"}
  /\ type \in {"provision", "modify", "decommission"}
  /\ removing \in SUBSET Bindings
  /\ {todo, rollbacks, attempted, succeeded, stuck, goal} \subseteq SUBSET Targets
  /\ failed \in BOOLEAN
  /\ edits \in 0..MaxEdits

Pushed == Bindings \union Gateways

Init ==
  /\ endpoints \in SUBSET Bindings /\ endpoints # {}
  /\ previous = {}
  /\ status = "draft"
  /\ config = [t \in Targets |-> "none"]
  /\ phase = "idle" /\ type = "provision"
  /\ removing = {} /\ todo = {} /\ failed = FALSE
  /\ rollbacks = {} /\ attempted = {} /\ succeeded = {} /\ stuck = {}
  /\ goal = {}
  /\ edits = 0

-----------------------------------------------------------------------------
\* replace_endpoints; the client keeps the old ones for the order it sends next.
ReplaceEndpoints(eps) ==
  /\ phase = "idle" /\ edits < MaxEdits
  /\ eps # {} /\ eps # endpoints
  /\ endpoints' = eps
  /\ previous' = endpoints
  /\ edits' = edits + 1
  /\ UNCHANGED <<status, config, run, goal>>

_dci_gateways == UNION {GatewaysOf[b] : b \in endpoints}

\* The direct endpoints, the controllers, and the gateways of a DCI service or
\* of a first provisioning.
PushTargets(t) ==
  UNION {{b \in endpoints : Group[b] \notin External},
         {Group[b] : b \in endpoints} \ {NoTarget},
         IF GatewayService \/ t = "provision" THEN _dci_gateways ELSE {}}

\* An approved order of any type; previous_endpoints come with the order that
\* follows an edit of an active circuit.
Execute(t, old) ==
  /\ phase = "idle"
  /\ old \in {{}, previous} /\ old # {} => t = "modify"
  /\ phase' = "pushing" /\ type' = t
  /\ removing' = old \ endpoints
  /\ todo' = PushTargets(t)
  /\ previous' = {}
  /\ UNCHANGED <<endpoints, status, config, failed, rollbacks, attempted,
                 succeeded, stuck, goal, edits>>

Removes == type = "decommission"

-----------------------------------------------------------------------------
(* What a push does to the configuration. *)

SameDevice(t, u) == t \in Pushed /\ u \in Pushed /\ DeviceOf[t] = DeviceOf[u]

Applied(t) == [config EXCEPT ![t] = "set"]

\* The VSI or bridge domain goes, and with it half of the circuit's other
\* bindings on the device.
Removed(t) ==
  [u \in Targets |->
     IF u = t THEN "none"
     ELSE IF ~SameDevice(t, u) \/ config[u] = "none" THEN config[u]
     ELSE IF config[u] = "base" THEN "none" ELSE "partial"]

\* partial=True: only the interface.
Detached(t) == [config EXCEPT ![t] = IF @ = "none" THEN "none" ELSE "base"]

\* A failed push stops at some command: nothing, everything or a part is done.
\* Removing what is not there leaves nothing.
Broken(t, done) ==
  IF done[t] = config[t] THEN {config}
  ELSE {config, done, [config EXCEPT ![t] = "partial"]}

-----------------------------------------------------------------------------
Lowest(t, set) == t \in set /\ \A u \in set : t <= u

\* Slip: the last result overwrites the earlier ones.
LastFailed(ok) == ~ok

AnyFailed(ok) == failed \/ ~ok

\* _remove_previous_endpoints: no undo is registered.
Detach(b, ok) ==
  /\ phase = "pushing" /\ Lowest(b, removing)
  /\ removing' = removing \ {b}
  /\ failed' = AnyFailed(ok)
  /\ IF ok THEN config' = Detached(b) ELSE config' \in Broken(b, Detached(b))
  /\ UNCHANGED <<endpoints, previous, status, phase, type, todo, rollbacks,
                 attempted, succeeded, stuck, goal, edits>>

\* Slip: only what succeeded is undone.
RegistersSuccess(t, ok) == ok /\ (t \in Pushed \/ ~Removes)

\* Devices: every attempt to apply and every successful removal.  Controllers:
\* successful applies.
Registers(t, ok) ==
  IF t \in Pushed THEN ~Removes \/ ok ELSE ~Removes /\ ok

\* The devices of a Bugis controller are left out if its control plane fails.
SkippedWith(t, ok) ==
  IF t \in Routes /\ ~ok THEN {b \in todo \intersect Bindings : Group[b] = t} ELSE {}

Push(t, ok) ==
  LET done == IF Removes THEN Removed(t) ELSE Applied(t) IN
  /\ phase = "pushing" /\ removing = {} /\ Lowest(t, todo)
  /\ todo' = todo \ ({t} \union SkippedWith(t, ok))
  /\ failed' = AnyFailed(ok)
  /\ attempted' = attempted \union {t}
  /\ succeeded' = IF ok THEN succeeded \union {t} ELSE succeeded
  /\ rollbacks' = IF Registers(t, ok) THEN rollbacks \union {t} ELSE rollbacks
  /\ IF ok THEN config' = done ELSE config' \in Broken(t, done)
  /\ UNCHANGED <<endpoints, previous, status, phase, type, removing, stuck, goal,
                 edits>>

\* The template cannot be rendered, or an external controller's row is gone.
PushRefused(t) ==
  /\ phase = "pushing" /\ removing = {} /\ Lowest(t, todo)
  /\ t \notin Routes
  /\ todo' = todo \ {t}
  /\ failed' = AnyFailed(FALSE)
  /\ UNCHANGED <<endpoints, previous, status, config, phase, type, removing,
                 rollbacks, attempted, succeeded, stuck, goal, edits>>

\* The run's variables end with it.
EndRun ==
  /\ phase' = "idle" /\ type' = "provision"
  /\ removing' = {} /\ todo' = {} /\ failed' = FALSE
  /\ rollbacks' = {} /\ attempted' = {} /\ succeeded' = {} /\ stuck' = {}

Visited == phase = "pushing" /\ removing = {} /\ todo = {}

Complete ==
  /\ Visited /\ ~failed
  /\ status' = IF Removes THEN "decommissioned" ELSE "active"
  /\ goal' = PushTargets(type)
  /\ EndRun
  /\ UNCHANGED <<endpoints, previous, config, edits>>

Fail ==
  /\ Visited /\ failed
  /\ status' = "failed"
  /\ goal' = {}
  /\ phase' = "undoing"
  /\ UNCHANGED <<endpoints, previous, config, type, removing, todo, failed,
                 rollbacks, attempted, succeeded, stuck, edits>>

\* An exception that leaves execute: the worker fails the order, nothing is
\* rolled back.
Abort ==
  /\ phase = "pushing"
  /\ status' = "failed"
  /\ goal' = {}
  /\ EndRun
  /\ UNCHANGED <<endpoints, previous, config, edits>>

\* Slip: the undo actions run in the order they were registered.
FirstRegistered(t) == Lowest(t, rollbacks)

NextUndo(t) == t \in rollbacks /\ \A u \in rollbacks : u <= t

\* Slip: an undo always removes.
UndoRemoves(t) == Removed(t)

\* The inverse of what the run does.
Undone(t) == IF Removes THEN Applied(t) ELSE Removed(t)

\* One step of _rollback_applied, each undo for itself.
Undo(t, ok) ==
  /\ phase = "undoing" /\ NextUndo(t)
  /\ rollbacks' = rollbacks \ {t}
  /\ stuck' = IF ok THEN stuck ELSE stuck \union {t}
  /\ IF ok THEN config' = Undone(t) ELSE config' \in Broken(t, Undone(t))
  /\ UNCHANGED <<endpoints, previous, status, phase, type, removing, todo,
                 failed, attempted, succeeded, goal, edits>>

EndRollback ==
  /\ phase = "undoing" /\ rollbacks = {}
  /\ EndRun
  /\ UNCHANGED <<endpoints, previous, status, config, goal, edits>>

Run ==
  \/ \E t \in Targets, ok \in BOOLEAN : Detach(t, ok) \/ Push(t, ok) \/ Undo(t, ok)
  \/ \E t \in Targets : PushRefused(t)
  \/ Complete \/ Fail \/ EndRollback

Next ==
  \/ \E eps \in SUBSET Bindings : ReplaceEndpoints(eps)
  \/ \E t \in {"provision", "modify", "decommission"}, old \in SUBSET Bindings :
       Execute(t, old)
  \/ Run \/ Abort

Spec == Init /\ [][Next]_vars

-----------------------------------------------------------------------------
\* orchestrator.py:619-627: while no run is going on, an active circuit is set
\* up on every target of the run that activated it, a decommissioned one gone
\* from every target of the run that removed it, whatever has failed before.
CompletedRunHolds ==
  phase = "idle" =>
    \A t \in goal : /\ status = "active" => config[t] = "set"
                    /\ status = "decommissioned" => config[t] = "none"

\* orchestrator.py:1107-1110: "on overall rollback we must scrub every attempted
\* device to avoid leaving dirty config behind": after the rollback of a failed
\* apply every device that was pushed to is clean, or its undo failed.
NoDirtyConfig ==
  phase = "undoing" /\ rollbacks = {} /\ ~Removes =>
    \A t \in attempted \intersect Pushed : config[t] = "none" \/ t \in stuck

\* orchestrator.py:946-950: when a decommission fails, every device it had
\* removed the circuit from is configured again after the rollback, or its undo
\* failed.
TeardownRestored ==
  phase = "undoing" /\ rollbacks = {} /\ Removes =>
    \A t \in succeeded \intersect Pushed : config[t] = "set" \/ t \in stuck

\* orchestrator.py:962: undo actions run in reverse order: a controller's routes
\* are withdrawn after its devices have been cleaned.
RoutesWithdrawnLast ==
  [][\A r \in Routes :
       phase = "undoing" /\ config[r] = "set" /\ config'[r] # "set" =>
         \A b \in rollbacks \intersect Bindings : Group[b] # r]_vars

\* orchestrator.py:657-664 (targets of "a circuit apply/teardown"): a
\* decommissioned circuit has left nothing behind on any device.
DecommissionedLeavesNothing ==
  phase = "idle" /\ status = "decommissioned" =>
    \A t \in Targets : config[t] = "none"
=============================================================================
