----------------------------- MODULE Monitoring -----------------------------
(***************************************************************************)
(* Monitoring of circuits: the scheduler's tick, the collection, probe and *)
(* evaluation requests, operators and work orders, all at work on the same *)
(* samples, outages (circuit_availability_events) and alarms.              *)
(*                                                                         *)
(* A collector is one transaction over many circuits: it polls devices,    *)
(* decides on what the database shows it (READ COMMITTED, its own rows     *)
(* included) and commits once at the end.  "One live alarm per key" and    *)
(* "one open outage per circuit" are looked up, not enforced by the        *)
(* schema, and the look-up (scalar_one_or_none) raises where it finds two. *)
(***************************************************************************)
EXTENDS Naturals, FiniteSets, Sequences

CONSTANTS
  Circuits,         \* ids; the tick rotates over them in the order of their rows
  Scheduler,        \* the thread that ticks: one at a time by _tick_lock
  Requests,         \* threads that serve the API
  Probed,           \* circuits with latency_probe_enabled
  Enabled,          \* the alarm kinds enabled for a circuit
  CollectBatchSize, \* settings.telemetry_collect_batch_size
  ProbeBatchSize,   \* settings.telemetry_probe_batch_size
  Cycles,           \* settings.telemetry_alarm_sample_cycles
  Numbers,          \* bound: how many rows of one key are told apart
  MaxActivations,   \* bound: completed provision orders of a circuit
  CollectRounds,    \* bound: _collect_cursor is kept modulo this number,
  ProbeRounds,      \*        _probe_cursor modulo this one
  Flaky,            \* bound: circuits whose line goes down
  Ordered           \* bound: circuits that have work orders

Threads == Requests \union {Scheduler}

\* "metric" is any threshold alarm (loss, latency, utilization, health).
Kinds == {"tunnel_down", "metric", "circuit_interruption", "circuit_flap"}

ASSUME MonitoringAssumption ==
  /\ Circuits \subseteq Nat /\ IsFiniteSet(Circuits)
  /\ Scheduler \notin Requests
  /\ Enabled \in [Circuits -> SUBSET Kinds]
  /\ {CollectBatchSize, ProbeBatchSize, Cycles, CollectRounds, ProbeRounds} \subseteq Nat \ {0}
  /\ MaxActivations \in Nat /\ Numbers \subseteq Nat
  /\ Probed \subseteq Circuits /\ Flaky \subseteq Circuits /\ Ordered \subseteq Circuits

VARIABLES
  status,         \* circuits.status
  activation,     \* circuits.activated_at: the number of the activation, 0 for none
  grace,          \* the activations whose suppression window lasts
  line,           \* the customer port of a circuit as SNMP would report it
  window,         \* the newest Cycles samples of a circuit, newest first
  outages,        \* availability events without ended_at
  alarms,         \* alarms that are not cleared
  acked,          \* those of them that are acknowledged
  collectCursor,  \* _collect_cursor
  probeCursor,    \* _probe_cursor
  tx,             \* the open transaction of each thread
  completing,     \* what the order of a circuit that has succeeded will commit
  tainted,        \* history: circuits two transactions were at work on at a time
  straddled       \* history: circuits activated while a transaction had them loaded

rows == <<window, outages, alarms, acked>>
circuits == <<status, activation, grace>>
cursors == <<collectCursor, probeCursor>>
history == <<tainted, straddled>>
vars == <<rows, circuits, line, cursors, tx, completing, history>>

Status == {"provisioning", "active", "failed", "decommissioned"}
Sample == [source : {"snmp", "probe"}, up : BOOLEAN]
Outage == [circuit : Circuits, n : Numbers]
Alarm == [circuit : Circuits, kind : Kinds, n : Numbers]
Operation == {"none", "tick", "collect", "probe", "evaluate", "ack"}

Transaction ==
  [op : Operation,
   loaded : SUBSET Circuits,                        \* the circuits as they were at its start:
   seenStatus : [Circuits -> Status],
   seenActivation : [Circuits -> 0..MaxActivations],
   touched : SUBSET Circuits,                       \* the circuits it has worked on
   collects : Nat, probes : Nat,                    \* what the rotations have left to do
   toCollect : SUBSET Circuits, toEvaluate : SUBSET Circuits,
   samples : [Circuits -> Seq(Sample)],             \* what it has written, newest first
   opened : SUBSET Outage, closed : SUBSET Outage,
   raised : SUBSET Alarm, cleared : SUBSET Alarm, acks : SUBSET Alarm]

Idle ==
  [op |-> "none", loaded |-> {},
   seenStatus |-> [c \in Circuits |-> "active"], seenActivation |-> [c \in Circuits |-> 0],
   touched |-> {}, collects |-> 0, probes |-> 0, toCollect |-> {}, toEvaluate |-> {},
   samples |-> [c \in Circuits |-> <<>>], opened |-> {}, closed |-> {},
   raised |-> {}, cleared |-> {}, acks |-> {}]

\* alone: no collector had the circuit loaded since its alarms were read.
Completion == [type : {"none", "provision", "decommission"}, cleared : SUBSET Alarm, alone : BOOLEAN]
NoCompletion == [type |-> "none", cleared |-> {}, alone |-> TRUE]

TypeOK ==
  /\ status \in [Circuits -> Status]
  /\ activation \in [Circuits -> 0..MaxActivations]
  /\ grace \in [Circuits -> SUBSET (1..MaxActivations)]
  /\ line \in [Circuits -> {"up", "down", "unreachable"}]
  /\ window \in [Circuits -> Seq(Sample)]
  /\ outages \subseteq Outage
  /\ alarms \subseteq Alarm
  /\ acked \subseteq alarms
  /\ collectCursor \in 0..CollectRounds - 1
  /\ probeCursor \in 0..ProbeRounds - 1
  /\ tx \in [Threads -> Transaction]
  /\ completing \in [Circuits -> Completion]
  /\ tainted \subseteq Circuits
  /\ straddled \subseteq Circuits

Init ==
  /\ status \in [Circuits -> {"active", "provisioning"}]
  /\ \A c \in Circuits \ Ordered : status[c] = "active"
  /\ activation = [c \in Circuits |-> 0]
  /\ grace = [c \in Circuits |-> {}]
  /\ line = [c \in Circuits |-> "up"]
  /\ window = [c \in Circuits |-> <<>>]
  /\ outages = {} /\ alarms = {} /\ acked = {}
  /\ collectCursor = 0 /\ probeCursor = 0
  /\ tx = [t \in Threads |-> Idle]
  /\ completing = [c \in Circuits |-> NoCompletion]
  /\ tainted = {} /\ straddled = {}

---------------------------------------------------------------------------
(* What a transaction sees: what is committed and what it has written. *)

Active == {c \in Circuits : status[c] = "active"}
Open(t) == tx[t].op # "none"

\* Slip: what the transaction itself has opened is not flushed yet.
CommittedEvent(t, c) == {o \in outages \ tx[t].closed : o.circuit = c}

_open_event(t, c) ==
  {o \in (outages \union tx[t].opened) \ tx[t].closed : o.circuit = c}

\* Slip: an acknowledged alarm is no longer "active".
UnacknowledgedByKey(t, c, k) ==
  {a \in ((alarms \ acked) \union tx[t].raised) \ tx[t].cleared : a.circuit = c /\ a.kind = k}

_active_by_key(t, c, k) ==
  {a \in (alarms \union tx[t].raised) \ tx[t].cleared : a.circuit = c /\ a.kind = k}

\* select ... order by id desc limit Cycles.
Newest(samples) == SubSeq(samples, 1, IF Len(samples) < Cycles THEN Len(samples) ELSE Cycles)
SamplesSeen(t, c) == Newest(tx[t].samples[c] \o window[c])

\* compute_health_for_alarms: the traffic samples decide if there are any,
\* and of the list, newest first, it is the last one.
tunnel_down(samples) ==
  LET traffic == SelectSeq(samples, LAMBDA s : s.source # "probe")
  IN IF traffic # <<>> THEN ~traffic[Len(traffic)].up
     ELSE samples # <<>> /\ ~samples[1].up

\* On activated_at as it was when the circuit was loaded.
alarms_suppressed(t, c) == tx[t].seenActivation[c] \in grace[c]

\* The next row of a key: its id is in no table and no open transaction.
Least(R) == {r \in R : \A q \in R : r.n <= q.n}
NewOutage(c) == Least(
  {o \in Outage : o.circuit = c
     /\ o \notin outages
     /\ \A t \in Threads : o \notin tx[t].opened \union tx[t].closed})
NewAlarm(c, k) == Least(
  {a \in Alarm : a.circuit = c /\ a.kind = k
     /\ a \notin alarms
     /\ \A t \in Threads : a \notin tx[t].raised \union tx[t].cleared \union tx[t].acks})

\* Transaction t starts to work on c; another one that has done so is open.
Touch(t, c) ==
  tainted' = tainted \union
               IF \E u \in Threads \ {t} : c \in tx[u].touched THEN {c} ELSE {}

---------------------------------------------------------------------------
(* The beginning of a collector: which circuits it loads. *)

Loads(S) ==
  completing' = [c \in Circuits |->
                   [completing[c] EXCEPT !.alone = @ /\ (c \in S => completing[c].type = "none")]]

Begin(t, op, scope, collects, probes, toCollect, toEvaluate) ==
  /\ ~Open(t)
  /\ tx' = [tx EXCEPT ![t] =
       [Idle EXCEPT !.op = op, !.loaded = scope,
          !.seenStatus = [c \in Circuits |-> IF c \in scope THEN status[c] ELSE "active"],
          !.seenActivation = [c \in Circuits |-> IF c \in scope THEN activation[c] ELSE 0],
          !.collects = collects, !.probes = probes,
          !.toCollect = toCollect, !.toEvaluate = toEvaluate]]
  /\ Loads(scope)
  /\ UNCHANGED <<rows, circuits, line, cursors, history>>

Batch(size, S) == IF size < Cardinality(S) THEN size ELSE Cardinality(S)

_tick ==
  Begin(Scheduler, "tick", Active,
        Batch(CollectBatchSize, Active), Batch(ProbeBatchSize, Active \intersect Probed), {}, {})

collect_telemetry(r) == Begin(r, "collect", Active, 0, 0, Active, Active)

evaluate(r) == Begin(r, "evaluate", Circuits, 0, 0, {}, Circuits)

probe_circuit(r, c) ==
  /\ c \in Probed \intersect Active
  /\ Begin(r, "probe", {c}, 0, 1, {}, {})

---------------------------------------------------------------------------
(* Samples and outages. *)

\* Slip: every sample that is down opens an outage.
ReportAlwaysOpens(t, c, s, record) ==
  LET open == _open_event(t, c)
  IN tx' = [tx EXCEPT ![t] =
       [record EXCEPT !.samples[c] = Newest(<<s>> \o @), !.touched = @ \union {c},
          !.opened = IF s.up THEN @ \ open ELSE @ \union NewOutage(c),
          !.closed = IF s.up THEN @ \union (open \intersect outages) ELSE @]]

\* record_sample and process_tunnel_state, within transaction t: the outage
\* is opened by the first sample that is down, closed by the next one up.
Report(t, c, s, record) ==
  LET open == _open_event(t, c)
      sampled == [record EXCEPT !.samples[c] = Newest(<<s>> \o @), !.touched = @ \union {c}]
  IN \/ /\ ~s.up /\ open = {}
        /\ \E o \in NewOutage(c) :
             tx' = [tx EXCEPT ![t] = [sampled EXCEPT !.opened = @ \union {o}]]
     \/ /\ ~s.up /\ open # {}
        /\ tx' = [tx EXCEPT ![t] = sampled]
     \/ /\ s.up
        /\ tx' = [tx EXCEPT ![t] =
             [sampled EXCEPT !.closed = @ \union (open \intersect outages),
                             !.opened = @ \ open]]

\* _open_event raises in a collector: the session is closed, nothing is kept.
Rollback(t) == tx' = [tx EXCEPT ![t] = Idle]

\* What stands at place i of S in the order of ids.
At(S, i) == {c \in S : Cardinality({d \in S : d < c}) = i}

\* Slip: every tick begins with the first circuit.
FirstCollected(t) ==
  IF tx[t].op = "tick"
  THEN IF tx[t].collects = 0 THEN {} ELSE At(tx[t].loaded, 0)
  ELSE tx[t].toCollect

\* The next of the rotation.  The rows are selected without an order: that the
\* database returns them in the same order tick by tick is assumed, here that
\* of the ids, and Detects rests on it.
NextCollected(t) ==
  IF tx[t].op = "tick"
  THEN IF tx[t].collects = 0 THEN {}
       ELSE At(tx[t].loaded, collectCursor % Cardinality(tx[t].loaded))
  ELSE tx[t].toCollect

Collect(t) == \E c \in NextCollected(t) :
  LET todo == [tx[t] EXCEPT !.collects = IF @ = 0 THEN 0 ELSE @ - 1,
                            !.toCollect = @ \ {c}]
      noted == IF tx[t].op = "tick" THEN [todo EXCEPT !.toEvaluate = @ \union {c}] ELSE todo
  IN /\ IF tx[t].op = "tick"
        THEN collectCursor' = (collectCursor + 1) % CollectRounds
        ELSE UNCHANGED collectCursor
     /\ \/ /\ line[c] = "unreachable"
           /\ tx' = [tx EXCEPT ![t] = noted]
           /\ UNCHANGED tainted
        \/ /\ line[c] # "unreachable"
           /\ Cardinality(_open_event(t, c)) <= 1
           /\ Report(t, c, [source |-> "snmp", up |-> line[c] = "up"], noted)
           /\ Touch(t, c)
        \/ /\ line[c] # "unreachable"
           /\ Cardinality(_open_event(t, c)) > 1
           /\ Rollback(t)
           /\ UNCHANGED tainted
     /\ UNCHANGED <<rows, circuits, line, probeCursor, completing, straddled>>

\* The scheduler rotates over the probed circuits it has loaded, after the
\* collection; it catches what a probe raises, when the sample is written.
NextProbed(t) ==
  LET probeable == tx[t].loaded \intersect Probed
  IN At(probeable, IF tx[t].op = "tick" THEN probeCursor % Cardinality(probeable) ELSE 0)

Probe(t, up) == \E c \in NextProbed(t) :
  LET s == [source |-> "probe", up |-> up]
      todo == [tx[t] EXCEPT !.probes = @ - 1]
      noted == IF tx[t].op = "tick" THEN [todo EXCEPT !.toEvaluate = @ \union {c}] ELSE todo
  IN /\ tx[t].probes > 0 /\ tx[t].collects = 0
     /\ IF tx[t].op = "tick"
        THEN probeCursor' = (probeCursor + 1) % ProbeRounds
        ELSE UNCHANGED probeCursor
     /\ \/ /\ Cardinality(_open_event(t, c)) <= 1
           /\ Report(t, c, s, noted)
           /\ Touch(t, c)
        \/ /\ Cardinality(_open_event(t, c)) > 1
           /\ tx[t].op = "tick"
           /\ tx' = [tx EXCEPT ![t] = [todo EXCEPT !.samples[c] = Newest(<<s>> \o @),
                                                   !.touched = @ \union {c}]]
           /\ Touch(t, c)
        \/ /\ Cardinality(_open_event(t, c)) > 1
           /\ tx[t].op = "probe"
           /\ Rollback(t)
           /\ UNCHANGED tainted
     /\ UNCHANGED <<rows, circuits, line, collectCursor, completing, straddled>>

---------------------------------------------------------------------------
(* Alarms. *)

\* Slip: a circuit whose newest sample is up is passed over.
ConsideredUnhealthy(t, c) ==
  IF alarms_suppressed(t, c) \/ (SamplesSeen(t, c) # <<>> /\ SamplesSeen(t, c)[1].up) THEN {}
  ELSE Kinds

\* The conditions looked at: none in the grace period, those on averages only
\* if there are samples, those on outages not by POST /alarms/evaluate.
Considered(t, c) ==
  IF alarms_suppressed(t, c) THEN {}
  ELSE {"tunnel_down"}
         \union (IF SamplesSeen(t, c) # <<>> THEN {"metric"} ELSE {})
         \union (IF tx[t].op # "evaluate" THEN {"circuit_interruption", "circuit_flap"} ELSE {})

\* Of these, the ones that hold.  Whether a threshold is exceeded is open.
Holds(t, c, metric, flap) ==
  {k \in Considered(t, c) \intersect Enabled[c] :
     \/ k = "tunnel_down" /\ (tx[t].seenStatus[c] = "failed" \/ tunnel_down(SamplesSeen(t, c)))
     \/ k = "circuit_interruption" /\ _open_event(t, c) # {}
     \/ k = "metric" /\ metric
     \/ k = "circuit_flap" /\ flap}

\* evaluate_circuit_health and evaluate_circuit_availability of a circuit.
\* Alarms of low severity are acknowledged once a notification is delivered.
Evaluate(t, metric, flap) == \E c \in tx[t].toEvaluate :
  LET holds == Holds(t, c, metric, flap)
      ambiguous ==
        \/ \E k \in holds : Cardinality(_active_by_key(t, c, k)) > 1
        \/ "circuit_flap" \in Considered(t, c) /\ Cardinality(_open_event(t, c)) > 1
      missing == {k \in holds : _active_by_key(t, c, k) = {}}
      new == UNION {NewAlarm(c, k) : k \in missing}
      cleared == UNION {_active_by_key(t, c, k) : k \in Considered(t, c) \ holds}
  IN /\ tx[t].collects = 0 /\ tx[t].probes = 0 /\ tx[t].toCollect = {}
     /\ \/ /\ ~ambiguous
           /\ \A k \in missing : NewAlarm(c, k) # {}
           /\ \E sent \in SUBSET {a \in new : a.kind = "metric"} :
                tx' = [tx EXCEPT ![t] =
                  [tx[t] EXCEPT !.toEvaluate = @ \ {c}, !.touched = @ \union {c},
                                !.raised = @ \union new, !.acks = @ \union sent,
                                !.cleared = @ \union cleared]]
           /\ Touch(t, c)
        \/ /\ ambiguous
           /\ Rollback(t)
           /\ UNCHANGED tainted
     /\ UNCHANGED <<rows, circuits, line, cursors, completing, straddled>>

Finished(t) ==
  /\ Open(t)
  /\ tx[t].collects = 0 /\ tx[t].probes = 0
  /\ tx[t].toCollect = {} /\ tx[t].toEvaluate = {}

\* An acknowledged row is written as acknowledged, whatever it is by now.
Commit(t) ==
  /\ Finished(t)
  /\ window' = [c \in Circuits |-> Newest(tx[t].samples[c] \o window[c])]
  /\ outages' = (outages \union tx[t].opened) \ tx[t].closed
  /\ alarms' = (alarms \union tx[t].raised \union tx[t].acks) \ tx[t].cleared
  /\ acked' = (acked \union tx[t].acks) \ tx[t].cleared
  /\ tx' = [tx EXCEPT ![t] = Idle]
  /\ UNCHANGED <<circuits, line, cursors, completing, history>>

\* What fails earlier leaves the same: nothing of it was visible.
CommitFails(t) ==
  /\ Finished(t)
  /\ Rollback(t)
  /\ UNCHANGED <<rows, circuits, line, cursors, completing, history>>

acknowledge(r, a) ==
  /\ ~Open(r)
  /\ a \in alarms \ acked
  /\ tx' = [tx EXCEPT ![r] = [Idle EXCEPT !.op = "ack", !.touched = {a.circuit}, !.acks = {a}]]
  /\ Touch(r, a.circuit)
  /\ Loads({a.circuit})
  /\ UNCHANGED <<rows, circuits, line, cursors, straddled>>

\* Slip: the acknowledgements stay.
ClearedAlarmsOnly(S) ==
  /\ alarms' = alarms \ S
  /\ acked' = acked

Cleared(S) ==
  /\ alarms' = alarms \ S
  /\ acked' = acked \ S

\* One step: what is written does not depend on what was read.
clear(a) ==
  /\ a \in alarms
  /\ Cleared({a})
  /\ UNCHANGED <<window, outages, circuits, line, cursors, tx, completing, history>>

---------------------------------------------------------------------------
(* Work orders, as far as they concern monitoring.  An order that succeeds *)
(* reads the alarms it clears, takes snapshots of the devices, and commits. *)

StartOrder(c) ==
  /\ c \in Ordered /\ completing[c].type = "none"
  /\ status[c] \notin {"active", "decommissioned"}
  /\ status' = [status EXCEPT ![c] = "provisioning"]
  /\ UNCHANGED <<rows, activation, grace, line, cursors, tx, completing, history>>

OrderFails(c) ==
  /\ c \in Ordered /\ completing[c].type = "none"
  /\ status' = [status EXCEPT ![c] = "failed"]
  /\ UNCHANGED <<rows, activation, grace, line, cursors, tx, completing, history>>

ModifyCompletes(c) ==
  /\ c \in Ordered /\ completing[c].type = "none"
  /\ status' = [status EXCEPT ![c] = "active"]
  /\ UNCHANGED <<rows, activation, grace, line, cursors, tx, completing, history>>

\* Slip: alarms an operator has acknowledged are kept.
UnacknowledgedFor(c) == {a \in alarms \ acked : a.circuit = c}

ActiveFor(c) == {a \in alarms : a.circuit = c}

OrderSucceeds(c, type) ==
  /\ c \in Ordered /\ completing[c].type = "none"
  /\ type = "provision" => activation[c] < MaxActivations
  /\ completing' = [completing EXCEPT ![c] =
       [type |-> type, cleared |-> ActiveFor(c),
        alone |-> \A t \in Threads : c \notin tx[t].loaded \union tx[t].touched]]
  /\ UNCHANGED <<rows, circuits, line, cursors, tx, history>>

DecommissionCompletes(c) ==
  /\ completing[c].type = "decommission"
  /\ status' = [status EXCEPT ![c] = "decommissioned"]
  /\ Cleared(completing[c].cleared)
  /\ completing' = [completing EXCEPT ![c] = NoCompletion]
  /\ UNCHANGED <<window, outages, activation, grace, line, cursors, tx, history>>

ProvisionCompletes(c) ==
  /\ completing[c].type = "provision"
  /\ status' = [status EXCEPT ![c] = "active"]
  /\ activation' = [activation EXCEPT ![c] = @ + 1]
  /\ grace' = [grace EXCEPT ![c] = @ \union {activation[c] + 1}]
  /\ Cleared(completing[c].cleared)
  /\ completing' = [completing EXCEPT ![c] = NoCompletion]
  /\ straddled' = IF completing[c].alone THEN straddled \ {c} ELSE straddled \union {c}
  /\ UNCHANGED <<window, outages, line, cursors, tx, tainted>>

\* now >= activated_at + alarm_suppress_minutes (which is positive here).
GraceEnds(c) ==
  /\ grace[c] # {}
  /\ \E n \in grace[c] :
       /\ \A m \in grace[c] : n <= m
       /\ grace' = [grace EXCEPT ![c] = @ \ {n}]
  /\ UNCHANGED <<rows, status, activation, line, cursors, tx, completing, history>>

LineChanges(c, s) ==
  /\ c \in Flaky /\ s # line[c]
  /\ line' = [line EXCEPT ![c] = s]
  /\ UNCHANGED <<rows, circuits, cursors, tx, completing, history>>

---------------------------------------------------------------------------
Work(t) ==
  \/ Collect(t)
  \/ \E up \in BOOLEAN : Probe(t, up)
  \/ \E metric, flap \in BOOLEAN : Evaluate(t, metric, flap)

Operators ==
  \/ \E r \in Requests :
       \/ collect_telemetry(r) \/ evaluate(r)
       \/ \E c \in Circuits : probe_circuit(r, c)
       \/ \E a \in alarms : acknowledge(r, a)
  \/ \E a \in alarms : clear(a)

Orders == \E c \in Circuits :
  StartOrder(c) \/ OrderFails(c) \/ ModifyCompletes(c) \/ DecommissionCompletes(c)
    \/ ProvisionCompletes(c) \/ \E type \in {"provision", "decommission"} : OrderSucceeds(c, type)

Next ==
  \/ _tick
  \/ \E t \in Threads : Work(t) \/ Commit(t) \/ CommitFails(t)
  \/ Operators
  \/ Orders
  \/ \E c \in Circuits : GraceEnds(c) \/ \E s \in {"up", "down", "unreachable"} : LineChanges(c, s)

Spec == Init /\ [][Next]_vars

\* The scheduler sleeps and ticks for ever, every poll has a timeout, time
\* passes, and of the ticks that come to a circuit not all fail.  (That not
\* all ticks fail would not do: the cursor of a tick that fails stays where
\* it is, so the failing ones can be always the same circuit's.)
FairSpec ==
  /\ Spec
  /\ WF_vars(_tick) /\ WF_vars(Work(Scheduler)) /\ WF_vars(Commit(Scheduler) \/ CommitFails(Scheduler))
  /\ \A c \in Circuits : SF_vars(c \in tx[Scheduler].touched /\ Commit(Scheduler))
  /\ \A c \in Circuits : WF_vars(GraceEnds(c))

---------------------------------------------------------------------------
(* Properties. *)

\* alarm_service.py: "A `dedup_key` ensures a given condition produces a
\* single active alarm until it clears", as long as no two transactions were
\* at work on the circuit at a time.
OneLiveAlarm ==
  \A a, b \in alarms :
    a.circuit = b.circuit /\ a.kind = b.kind /\ a.circuit \notin tainted => a = b

\* Under the same condition a circuit has one open outage, without which
\* _open_event raises in every collector.
OneOpenOutage ==
  \A o, p \in outages : o.circuit = p.circuit /\ o.circuit \notin tainted => o = p

\* An outage is open exactly while the newest sample, of either source, is
\* down: no transition is lost between rotations, rollbacks and requests.
OutageTellsLastReport ==
  \A c \in Circuits \ tainted :
    (\E o \in outages : o.circuit = c) <=> (window[c] # <<>> /\ ~window[c][1].up)

\* models/circuit.py: "Post-provision alarm grace: no new alarms until
\* activated_at + suppress minutes", unless a transaction had loaded the
\* circuit before it was activated and after its alarms were cleared.
QuietAfterActivation ==
  \A c \in Circuits \ straddled :
    activation[c] \in grace[c] => \A a \in alarms : a.circuit # c

Calm(c, state) == status[c] = "active" /\ line[c] = state /\ tainted = {}

\* A circuit that is active and stays up loses its outage and its tunnel
\* alarm, whatever has failed or was suppressed before.
Recovers == \A c \in Circuits \ Probed :
  <>[]Calm(c, "up") =>
    <>[]((\A o \in outages : o.circuit # c)
         /\ \A a \in alarms : a.circuit = c => a.kind # "tunnel_down")

\* A line that stays down is seen: the rotation comes round to it.
Detects == \A c \in Circuits \ Probed :
  <>[]Calm(c, "down") /\ "tunnel_down" \in Enabled[c] =>
    []<>(\E a \in alarms : a.circuit = c /\ a.kind = "tunnel_down")
=============================================================================
