-------------------------- MODULE MonitoringProofs --------------------------
(***************************************************************************)
(* Theorems about Monitoring, for any number of circuits, of threads that  *)
(* serve requests, and any sizes of batches and windows.                   *)
(***************************************************************************)
EXTENDS Monitoring, FiniteSetTheorems, SequenceTheorems, TLAPS

\* Newest keeps sequences sequences, and what stands first.
LEMMA NewestFirst ==
  ASSUME NEW S, NEW q \in Seq(S), MonitoringAssumption
  PROVE  /\ Newest(q) \in Seq(S)
         /\ Newest(q) = <<>> <=> q = <<>>
         /\ q # <<>> => Newest(q)[1] = q[1]
<1> DEFINE n == IF Len(q) < Cycles THEN Len(q) ELSE Cycles
<1>1. n \in 0..Len(q) /\ (Len(q) > 0 => n > 0)  BY DEF MonitoringAssumption
<1>2. /\ SubSeq(q, 1, n) \in Seq(S)
      /\ Len(SubSeq(q, 1, n)) = n
      /\ \A i \in 1..n : SubSeq(q, 1, n)[i] = q[i]
  <2>1. \A i \in 1..n : i \in 1..Len(q)  BY <1>1
  <2>. QED  BY <1>1, <2>1, SubSeqProperties
<1>3. q = <<>> <=> Len(q) = 0  OBVIOUS
<1>4. SubSeq(q, 1, n) = <<>> <=> n = 0  BY <1>2
<1>. QED  BY <1>1, <1>2, <1>3, <1>4 DEF Newest

\* The same of a concatenation.
LEMMA NewestOfBoth ==
  ASSUME NEW S, NEW p \in Seq(S), NEW q \in Seq(S), MonitoringAssumption
  PROVE  /\ Newest(p \o q) \in Seq(S)
         /\ Newest(p \o q) = <<>> <=> p = <<>> /\ q = <<>>
         /\ p # <<>> => Newest(p \o q)[1] = p[1]
         /\ p = <<>> /\ q # <<>> => Newest(p \o q)[1] = q[1]
<1>1. /\ p \o q \in Seq(S)
      /\ p # <<>> => (p \o q)[1] = p[1]
  BY ConcatProperties
<1>2. p = <<>> => p \o q = q  BY ConcatEmptySeq
<1>3. p \o q = <<>> <=> p = <<>> /\ q = <<>>  BY ConcatEqualIffEmpty
<1>4. /\ Newest(p \o q) \in Seq(S)
      /\ Newest(p \o q) = <<>> <=> p \o q = <<>>
      /\ p \o q # <<>> => Newest(p \o q)[1] = (p \o q)[1]
  BY <1>1, NewestFirst
<1>. QED  BY <1>1, <1>2, <1>3, <1>4

-----------------------------------------------------------------------------
(* Types. *)

LEMMA IdleType == Idle \in Transaction
<1>1. [c \in Circuits |-> <<>>] \in [Circuits -> Seq(Sample)]  OBVIOUS
<1>2. [c \in Circuits |-> 0] \in [Circuits -> 0..MaxActivations]  BY MonitoringAssumption
<1>3. [c \in Circuits |-> "active"] \in [Circuits -> Status]  BY DEF Status
<1>. QED  BY <1>1, <1>2, <1>3 DEF Idle, Transaction, Operation

LEMMA BatchType ==
  ASSUME MonitoringAssumption, NEW S \in SUBSET Circuits,
         NEW size \in {CollectBatchSize, ProbeBatchSize}
  PROVE  Batch(size, S) \in Nat
<1>1. IsFiniteSet(S)  BY FS_Subset DEF MonitoringAssumption
<1>2. Cardinality(S) \in Nat  BY <1>1, FS_CardinalityType
<1>. QED  BY <1>2 DEF Batch, MonitoringAssumption

\* A report keeps a transaction a transaction.
LEMMA ReportType ==
  ASSUME TypeOK, MonitoringAssumption, NEW t \in Threads, NEW c \in Circuits,
         NEW s \in Sample, NEW record \in Transaction, Report(t, c, s, record)
  PROVE  tx' \in [Threads -> Transaction]
<1>1. <<s>> \in Seq(Sample)  OBVIOUS
<1>2. record.samples \in [Circuits -> Seq(Sample)]  BY DEF Transaction
<1>3. Newest(<<s>> \o record.samples[c]) \in Seq(Sample)
  BY <1>1, <1>2, NewestOfBoth
<1> DEFINE sampled == [record EXCEPT !.samples[c] = Newest(<<s>> \o @), !.touched = @ \union {c}]
<1>4. sampled \in Transaction
  <2>1. [record.samples EXCEPT ![c] = Newest(<<s>> \o @)] \in [Circuits -> Seq(Sample)]
    BY <1>2, <1>3
  <2>2. record.touched \union {c} \subseteq Circuits  BY DEF Transaction
  <2>. QED  BY <2>1, <2>2 DEF Transaction
<1>5. _open_event(t, c) \subseteq Outage
  BY DEF TypeOK, _open_event, Transaction
<1>6. NewOutage(c) \subseteq Outage
  BY DEF NewOutage, Least
<1>7. \A o \in NewOutage(c) : [sampled EXCEPT !.opened = @ \union {o}] \in Transaction
  <2> HIDE DEF sampled
  <2>. QED  BY <1>4, <1>6 DEF Transaction
<1>8. [sampled EXCEPT !.closed = @ \union (_open_event(t, c) \intersect outages),
                      !.opened = @ \ _open_event(t, c)] \in Transaction
  <2> HIDE DEF sampled
  <2>. QED  BY <1>4, <1>5 DEF Transaction
<1>9. tx \in [Threads -> Transaction]  BY DEF TypeOK
<1>. QED  BY <1>4, <1>7, <1>8, <1>9 DEF Report

LEMMA RollbackType ==
  ASSUME TypeOK, MonitoringAssumption, NEW t \in Threads, Rollback(t)
  PROVE  tx' \in [Threads -> Transaction]
BY IdleType DEF TypeOK, Rollback

LEMMA LoadsType ==
  ASSUME TypeOK, NEW S, Loads(S)
  PROVE  completing' \in [Circuits -> Completion]
<1> SUFFICES ASSUME NEW c \in Circuits
             PROVE  [completing[c] EXCEPT !.alone = @ /\ (c \in S => completing[c].type = "none")] \in Completion
  BY DEF Loads
<1>1. (completing[c].alone /\ (c \in S => completing[c].type = "none")) \in BOOLEAN  OBVIOUS
<1>2. completing[c] \in Completion  BY DEF TypeOK
<1>. QED  BY <1>1, <1>2 DEF Completion

LEMMA Remainder ==
  ASSUME NEW a \in Nat, NEW b \in Nat \ {0}
  PROVE  a % b \in 0..b-1
OBVIOUS

LEMMA BeginType ==
  ASSUME TypeOK, MonitoringAssumption, NEW t \in Threads, NEW op \in Operation,
         NEW scope \in SUBSET Circuits, NEW collects \in Nat, NEW probes \in Nat,
         NEW toCollect \in SUBSET Circuits, NEW toEvaluate \in SUBSET Circuits,
         Begin(t, op, scope, collects, probes, toCollect, toEvaluate)
  PROVE  TypeOK'
<1>1. [c \in Circuits |-> IF c \in scope THEN status[c] ELSE "active"] \in [Circuits -> Status]
  BY DEF TypeOK, Status
<1>2. [c \in Circuits |-> IF c \in scope THEN activation[c] ELSE 0]
        \in [Circuits -> 0..MaxActivations]
  BY DEF TypeOK, MonitoringAssumption
<1>3. Idle.op = "none"  BY DEF Idle
<1>4. tx' \in [Threads -> Transaction]
  BY <1>1, <1>2, IdleType DEF Begin, Transaction, TypeOK
<1>5. completing' \in [Circuits -> Completion]
  BY LoadsType DEF Begin
<1>. QED  BY <1>4, <1>5 DEF TypeOK, Begin, rows, circuits, cursors, history

LEMMA NextCollectedType ==
  ASSUME TypeOK, NEW t \in Threads
  PROVE  NextCollected(t) \subseteq Circuits /\ NextProbed(t) \subseteq Circuits
BY DEF TypeOK, Transaction, NextCollected, NextProbed, At

LEMMA CollectType ==
  ASSUME TypeOK, MonitoringAssumption, NEW t \in Threads, Collect(t)
  PROVE  TypeOK'
<1>1. PICK c \in NextCollected(t) : Collect(t)!(c)
  BY DEF Collect
<1> DEFINE todo == [tx[t] EXCEPT !.collects = IF @ = 0 THEN 0 ELSE @ - 1, !.toCollect = @ \ {c}]
           noted == IF tx[t].op = "tick" THEN [todo EXCEPT !.toEvaluate = @ \union {c}] ELSE todo
           s == [source |-> "snmp", up |-> line[c] = "up"]
<1>2. c \in Circuits  BY <1>1, NextCollectedType
<1>3. tx[t] \in Transaction  BY DEF TypeOK
<1>4. todo \in Transaction
  <2>1. (IF tx[t].collects = 0 THEN 0 ELSE tx[t].collects - 1) \in Nat
    BY <1>3 DEF Transaction
  <2>2. tx[t].toCollect \ {c} \subseteq Circuits
    BY <1>3 DEF Transaction
  <2>. QED  BY <1>3, <2>1, <2>2 DEF Transaction
<1>5. noted \in Transaction
  <2>1. [todo EXCEPT !.toEvaluate = @ \union {c}] \in Transaction
    <3> HIDE DEF todo
    <3>. QED  BY <1>2, <1>4 DEF Transaction
  <2>. QED  BY <1>4, <2>1
<1>6. s \in Sample  BY DEF Sample
<1>7. tx' \in [Threads -> Transaction]
  <2> HIDE DEF noted, s
  <2>1. CASE tx' = [tx EXCEPT ![t] = noted]  BY <2>1, <1>5 DEF TypeOK
  <2>2. CASE Report(t, c, s, noted)  BY <2>2, <1>2, <1>5, <1>6, ReportType
  <2>3. CASE Rollback(t)  BY <2>3, RollbackType
  <2>. QED  BY <1>1, <2>1, <2>2, <2>3 DEF noted, s
<1>8. collectCursor' \in 0..CollectRounds - 1
  <2>1. collectCursor + 1 \in Nat /\ CollectRounds \in Nat \ {0}
    BY DEF TypeOK, MonitoringAssumption
  <2>2. (collectCursor + 1) % CollectRounds \in 0..CollectRounds - 1
    BY <2>1, Remainder
  <2>. QED  BY <1>1, <2>2 DEF TypeOK
<1>9. tainted' \subseteq Circuits
  BY <1>1, <1>2 DEF TypeOK, Touch
<1>. QED  BY <1>1, <1>7, <1>8, <1>9 DEF TypeOK, rows, circuits

LEMMA ProbeType ==
  ASSUME TypeOK, MonitoringAssumption, NEW t \in Threads, NEW up \in BOOLEAN, Probe(t, up)
  PROVE  TypeOK'
<1>1. PICK c \in NextProbed(t) : Probe(t, up)!(c)
  BY DEF Probe
<1> DEFINE s == [source |-> "probe", up |-> up]
           todo == [tx[t] EXCEPT !.probes = @ - 1]
           noted == IF tx[t].op = "tick" THEN [todo EXCEPT !.toEvaluate = @ \union {c}] ELSE todo
           sampled == [todo EXCEPT !.samples[c] = Newest(<<s>> \o @), !.touched = @ \union {c}]
<1>2. c \in Circuits  BY <1>1, NextCollectedType
<1>3. tx[t] \in Transaction  BY DEF TypeOK
<1>4. todo \in Transaction
  <2>1. tx[t].probes - 1 \in Nat  BY <1>1, <1>3 DEF Transaction
  <2>. QED  BY <1>3, <2>1 DEF Transaction
<1>5. noted \in Transaction
  <2>1. [todo EXCEPT !.toEvaluate = @ \union {c}] \in Transaction
    <3> HIDE DEF todo
    <3>. QED  BY <1>2, <1>4 DEF Transaction
  <2>. QED  BY <1>4, <2>1
<1>6. s \in Sample  BY DEF Sample
<1>7. sampled \in Transaction
  <2> HIDE DEF todo, s
  <2>1. <<s>> \in Seq(Sample) /\ todo.samples \in [Circuits -> Seq(Sample)]
    BY <1>4, <1>6 DEF Transaction
  <2>2. Newest(<<s>> \o todo.samples[c]) \in Seq(Sample)
    BY <1>2, <2>1, NewestOfBoth
  <2>3. [todo.samples EXCEPT ![c] = Newest(<<s>> \o @)] \in [Circuits -> Seq(Sample)]
    BY <2>1, <2>2
  <2>4. todo.touched \union {c} \subseteq Circuits  BY <1>2, <1>4 DEF Transaction
  <2>. QED  BY <1>4, <2>3, <2>4 DEF Transaction
<1>8. tx' \in [Threads -> Transaction]
  <2> HIDE DEF noted, s, sampled
  <2>1. CASE tx' = [tx EXCEPT ![t] = sampled]  BY <2>1, <1>7 DEF TypeOK
  <2>2. CASE Report(t, c, s, noted)  BY <2>2, <1>2, <1>5, <1>6, ReportType
  <2>3. CASE Rollback(t)  BY <2>3, RollbackType
  <2>. QED  BY <1>1, <2>1, <2>2, <2>3 DEF noted, s, sampled
<1>9. probeCursor' \in 0..ProbeRounds - 1
  <2>1. probeCursor + 1 \in Nat /\ ProbeRounds \in Nat \ {0}
    BY DEF TypeOK, MonitoringAssumption
  <2>2. (probeCursor + 1) % ProbeRounds \in 0..ProbeRounds - 1
    BY <2>1, Remainder
  <2>. QED  BY <1>1, <2>2 DEF TypeOK
<1>10. tainted' \subseteq Circuits
  BY <1>1, <1>2 DEF TypeOK, Touch
<1>. QED  BY <1>1, <1>8, <1>9, <1>10 DEF TypeOK, rows, circuits

LEMMA SeenTypes ==
  ASSUME TypeOK, NEW t \in Threads, NEW c \in Circuits
  PROVE  /\ _open_event(t, c) \subseteq Outage
         /\ \A k \in Kinds : _active_by_key(t, c, k) \subseteq Alarm /\ NewAlarm(c, k) \subseteq Alarm
BY DEF TypeOK, Transaction, _open_event, _active_by_key, NewAlarm, Least

LEMMA EvaluateType ==
  ASSUME TypeOK, MonitoringAssumption, NEW t \in Threads,
         NEW metric \in BOOLEAN, NEW flap \in BOOLEAN, Evaluate(t, metric, flap)
  PROVE  TypeOK'
<1>1. PICK c \in tx[t].toEvaluate : Evaluate(t, metric, flap)!(c)
  BY DEF Evaluate
<1> DEFINE holds == Holds(t, c, metric, flap)
           missing == {k \in holds : _active_by_key(t, c, k) = {}}
           new == UNION {NewAlarm(c, k) : k \in missing}
           cleared == UNION {_active_by_key(t, c, k) : k \in Considered(t, c) \ holds}
<1>2. tx[t] \in Transaction /\ c \in Circuits  BY DEF TypeOK, Transaction
<1>3. holds \subseteq Kinds /\ Considered(t, c) \subseteq Kinds
  BY DEF Holds, Considered, Kinds
<1>4. new \subseteq Alarm /\ cleared \subseteq Alarm
  BY <1>2, <1>3, SeenTypes
<1>5. \A sent \in SUBSET {a \in new : a.kind = "metric"} :
        [tx[t] EXCEPT !.toEvaluate = @ \ {c}, !.touched = @ \union {c},
                      !.raised = @ \union new, !.acks = @ \union sent,
                      !.cleared = @ \union cleared] \in Transaction
  <2> HIDE DEF new, cleared
  <2>. QED  BY <1>2, <1>4 DEF Transaction
<1>6. tx' \in [Threads -> Transaction]
  <2>1. CASE \E sent \in SUBSET {a \in new : a.kind = "metric"} :
               tx' = [tx EXCEPT ![t] =
                 [tx[t] EXCEPT !.toEvaluate = @ \ {c}, !.touched = @ \union {c},
                           !.raised = @ \union new, !.acks = @ \union sent,
                           !.cleared = @ \union cleared]]
    <3> HIDE DEF new, cleared
    <3>1. PICK sent \in SUBSET {a \in new : a.kind = "metric"} :
            tx' = [tx EXCEPT ![t] =
                 [tx[t] EXCEPT !.toEvaluate = @ \ {c}, !.touched = @ \union {c},
                           !.raised = @ \union new, !.acks = @ \union sent,
                           !.cleared = @ \union cleared]]
      BY <2>1
    <3> DEFINE done == [tx[t] EXCEPT !.toEvaluate = @ \ {c}, !.touched = @ \union {c},
                           !.raised = @ \union new, !.acks = @ \union sent,
                           !.cleared = @ \union cleared]
    <3>2. done \in Transaction  BY <1>5
    <3>3. tx' = [tx EXCEPT ![t] = done]  BY <3>1
    <3> HIDE DEF done
    <3>. QED  BY <3>2, <3>3 DEF TypeOK
  <2>2. CASE Rollback(t)  BY <2>2, RollbackType
  <2>. QED  BY <1>1, <2>1, <2>2
<1>7. tainted' \subseteq Circuits
  BY <1>1, <1>2 DEF TypeOK, Touch
<1>. QED  BY <1>1, <1>6, <1>7 DEF TypeOK, rows, circuits, cursors

LEMMA CommitType ==
  ASSUME TypeOK, MonitoringAssumption, NEW t \in Threads, Commit(t)
  PROVE  TypeOK'
<1>1. tx[t] \in Transaction  BY DEF TypeOK
<1>2. \A c \in Circuits : Newest(tx[t].samples[c] \o window[c]) \in Seq(Sample)
  BY <1>1, NewestOfBoth DEF TypeOK, Transaction
<1>3. window' \in [Circuits -> Seq(Sample)]  BY <1>2 DEF Commit
<1>4. /\ outages' \subseteq Outage
      /\ alarms' \subseteq Alarm
      /\ acked' \subseteq alarms'
  BY <1>1 DEF Commit, TypeOK, Transaction
<1>5. tx' \in [Threads -> Transaction]  BY IdleType DEF Commit, TypeOK
<1>. QED  BY <1>3, <1>4, <1>5 DEF TypeOK, Commit, circuits, cursors, history

LEMMA AcknowledgeType ==
  ASSUME TypeOK, MonitoringAssumption, NEW r \in Requests, NEW a \in alarms, acknowledge(r, a)
  PROVE  TypeOK'
<1>1. r \in Threads  BY DEF Threads
<1>2. a \in Alarm /\ a.circuit \in Circuits  BY DEF TypeOK, Alarm
<1>3. [Idle EXCEPT !.op = "ack", !.touched = {a.circuit}, !.acks = {a}] \in Transaction
  BY <1>2, IdleType DEF Transaction, Operation
<1>4. tx' \in [Threads -> Transaction]
  BY <1>1, <1>3 DEF acknowledge, TypeOK
<1>5. completing' \in [Circuits -> Completion]  BY LoadsType DEF acknowledge
<1>6. tainted' \subseteq Circuits  BY <1>2 DEF acknowledge, Touch, TypeOK
<1>. QED  BY <1>4, <1>5, <1>6 DEF TypeOK, acknowledge, rows, circuits, cursors

LEMMA OrderType ==
  ASSUME TypeOK, MonitoringAssumption, NEW c \in Circuits,
         NEW type \in {"provision", "decommission"}, OrderSucceeds(c, type)
  PROVE  TypeOK'
<1> DEFINE alone == \A t \in Threads : c \notin tx[t].loaded \union tx[t].touched
<1>1. alone \in BOOLEAN  OBVIOUS
<1>2. ActiveFor(c) \subseteq Alarm  BY DEF ActiveFor, TypeOK
<1>3. [type |-> type, cleared |-> ActiveFor(c), alone |-> alone] \in Completion
  <2> HIDE DEF alone
  <2>. QED  BY <1>1, <1>2 DEF Completion
<1>4. completing' \in [Circuits -> Completion]
  BY <1>3 DEF OrderSucceeds, TypeOK
<1>. QED  BY <1>4 DEF TypeOK, OrderSucceeds, rows, circuits, cursors, history

\* An order that will activate a circuit has been allowed to.
Allowance == \A c \in Circuits : completing[c].type = "provision" => activation[c] < MaxActivations

TypeInv == TypeOK /\ Allowance

LEMMA DecommissionType ==
  ASSUME TypeOK, NEW c \in Circuits, DecommissionCompletes(c)
  PROVE  TypeOK'
<1>1. NoCompletion \in Completion  BY DEF NoCompletion, Completion
<1>2. /\ alarms' \subseteq Alarm
      /\ acked' \subseteq alarms'
  BY DEF DecommissionCompletes, Cleared, TypeOK
<1>3. completing' \in [Circuits -> Completion]
  BY <1>1 DEF DecommissionCompletes, TypeOK
<1>4. status' \in [Circuits -> Status]
  BY DEF DecommissionCompletes, TypeOK, Status
<1>. QED  BY <1>2, <1>3, <1>4 DEF TypeOK, DecommissionCompletes, cursors, history

LEMMA ProvisionType ==
  ASSUME TypeOK, MonitoringAssumption, NEW c \in Circuits, ProvisionCompletes(c),
         activation[c] < MaxActivations
  PROVE  TypeOK'
<1>1. NoCompletion \in Completion  BY DEF NoCompletion, Completion
<1>2. /\ alarms' \subseteq Alarm
      /\ acked' \subseteq alarms'
  BY DEF ProvisionCompletes, Cleared, TypeOK
<1>3. completing' \in [Circuits -> Completion]
  BY <1>1 DEF ProvisionCompletes, TypeOK
<1>4. activation[c] + 1 \in 1..MaxActivations
  BY DEF TypeOK, MonitoringAssumption
<1>5. status' \in [Circuits -> Status]
  BY DEF ProvisionCompletes, TypeOK, Status
<1>6. activation' \in [Circuits -> 0..MaxActivations]
  BY <1>4 DEF ProvisionCompletes, TypeOK
<1>7. grace' \in [Circuits -> SUBSET (1..MaxActivations)]
  BY <1>4 DEF ProvisionCompletes, TypeOK
<1>8. straddled' \subseteq Circuits
  BY DEF ProvisionCompletes, TypeOK
<1>. QED  BY <1>2, <1>3, <1>5, <1>6, <1>7, <1>8 DEF TypeOK, ProvisionCompletes, cursors

LEMMA SmallStepsType ==
  ASSUME TypeOK, NEW c \in Circuits,
         \/ StartOrder(c) \/ OrderFails(c) \/ ModifyCompletes(c) \/ GraceEnds(c)
         \/ \E s \in {"up", "down", "unreachable"} : LineChanges(c, s)
  PROVE  TypeOK'
<1>1. CASE StartOrder(c) \/ OrderFails(c) \/ ModifyCompletes(c)
  BY <1>1 DEF TypeOK, StartOrder, OrderFails, ModifyCompletes, Status, rows, cursors, history
<1>2. CASE GraceEnds(c)
  BY <1>2 DEF TypeOK, GraceEnds, rows, cursors, history
<1>3. CASE \E s \in {"up", "down", "unreachable"} : LineChanges(c, s)
  BY <1>3 DEF TypeOK, LineChanges, rows, circuits, cursors, history
<1>. QED  BY <1>1, <1>2, <1>3

LEMMA LoadsAllowance ==
  ASSUME TypeInv, NEW S, Loads(S), UNCHANGED activation
  PROVE  Allowance'
<1>1. \A c \in Circuits : completing'[c].type = completing[c].type
  BY DEF Loads, TypeInv, TypeOK, Completion
<1>. QED  BY <1>1 DEF TypeInv, Allowance

LEMMA AllowanceKept ==
  ASSUME TypeInv, MonitoringAssumption, [Next]_vars
  PROVE  Allowance'
<1>1. CASE UNCHANGED <<completing, activation>>
  BY <1>1 DEF TypeInv, Allowance
<1>2. CASE _tick
  BY <1>2, LoadsAllowance DEF _tick, Begin, circuits
<1>3. ASSUME NEW t \in Threads, Work(t) \/ Commit(t) \/ CommitFails(t)
      PROVE  Allowance'
  BY <1>1, <1>3 DEF Work, Collect, Probe, Evaluate, Commit, CommitFails, circuits
<1>4. CASE Operators
  <2>1. ASSUME NEW r \in Requests, collect_telemetry(r) \/ evaluate(r)
        PROVE  Allowance'
    BY <2>1, LoadsAllowance DEF collect_telemetry, evaluate, Begin, circuits
  <2>2. ASSUME NEW r \in Requests, NEW c \in Circuits, probe_circuit(r, c)
        PROVE  Allowance'
    BY <2>2, LoadsAllowance DEF probe_circuit, Begin, circuits
  <2>3. ASSUME NEW r \in Requests, NEW a \in alarms, acknowledge(r, a)
        PROVE  Allowance'
    BY <2>3, LoadsAllowance DEF acknowledge, circuits
  <2>4. ASSUME NEW a \in alarms, clear(a)
        PROVE  Allowance'
    BY <2>4, <1>1 DEF clear, circuits
  <2>. QED  BY <1>4, <2>1, <2>2, <2>3, <2>4 DEF Operators
<1>5. ASSUME NEW c \in Circuits,
             \/ StartOrder(c) \/ OrderFails(c) \/ ModifyCompletes(c) \/ GraceEnds(c)
             \/ \E s \in {"up", "down", "unreachable"} : LineChanges(c, s)
      PROVE  Allowance'
  BY <1>1, <1>5 DEF StartOrder, OrderFails, ModifyCompletes, GraceEnds, LineChanges, circuits
<1>6. ASSUME NEW c \in Circuits, NEW type \in {"provision", "decommission"}, OrderSucceeds(c, type)
      PROVE  Allowance'
  BY <1>6 DEF OrderSucceeds, circuits, TypeInv, TypeOK, Allowance
<1>7. ASSUME NEW c \in Circuits, DecommissionCompletes(c)
      PROVE  Allowance'
  BY <1>7 DEF DecommissionCompletes, NoCompletion, TypeInv, TypeOK, Allowance
<1>8. ASSUME NEW c \in Circuits, ProvisionCompletes(c)
      PROVE  Allowance'
  BY <1>8 DEF ProvisionCompletes, NoCompletion, TypeInv, TypeOK, Allowance
<1>. QED
  BY <1>1, <1>2, <1>3, <1>4, <1>5, <1>6, <1>7, <1>8 DEF Next, Orders, vars, circuits

LEMMA TypeKept ==
  ASSUME TypeInv, MonitoringAssumption, [Next]_vars
  PROVE  TypeOK'
<1> USE DEF TypeInv
<1>1. CASE UNCHANGED vars
  BY <1>1 DEF TypeOK, vars, rows, circuits, cursors, history
<1>2. CASE _tick
  <2>1. /\ Scheduler \in Threads /\ "tick" \in Operation /\ {} \in SUBSET Circuits
        /\ Active \in SUBSET Circuits /\ Active \intersect Probed \in SUBSET Circuits
    BY DEF Threads, Operation, Active
  <2>2. Batch(CollectBatchSize, Active) \in Nat /\ Batch(ProbeBatchSize, Active \intersect Probed) \in Nat
    BY <2>1, BatchType
  <2>. QED  BY <1>2, <2>1, <2>2, BeginType DEF _tick
<1>3. ASSUME NEW t \in Threads, Work(t) \/ Commit(t) \/ CommitFails(t)
      PROVE  TypeOK'
  <2>1. CASE Work(t)  BY <2>1, CollectType, ProbeType, EvaluateType DEF Work
  <2>2. CASE Commit(t)  BY <2>2, CommitType
  <2>3. CASE CommitFails(t)
    BY <2>3, RollbackType DEF CommitFails, TypeOK, rows, circuits, cursors, history
  <2>. QED  BY <1>3, <2>1, <2>2, <2>3
<1>4. CASE Operators
  <2> USE DEF Operation
  <2>1. ASSUME NEW r \in Requests, collect_telemetry(r)
        PROVE  TypeOK'
    BY <2>1, BeginType DEF collect_telemetry, Threads, Active
  <2>2. ASSUME NEW r \in Requests, evaluate(r)
        PROVE  TypeOK'
    BY <2>2, BeginType DEF evaluate, Threads
  <2>3. ASSUME NEW r \in Requests, NEW c \in Circuits, probe_circuit(r, c)
        PROVE  TypeOK'
    BY <2>3, BeginType DEF probe_circuit, Threads
  <2>4. ASSUME NEW r \in Requests, NEW a \in alarms, acknowledge(r, a)
        PROVE  TypeOK'
    BY <2>4, AcknowledgeType
  <2>5. ASSUME NEW a \in alarms, clear(a)
        PROVE  TypeOK'
    BY <2>5 DEF clear, Cleared, TypeOK, circuits, cursors, history
  <2>. QED  BY <1>4, <2>1, <2>2, <2>3, <2>4, <2>5 DEF Operators
<1>5. ASSUME NEW c \in Circuits,
             \/ StartOrder(c) \/ OrderFails(c) \/ ModifyCompletes(c) \/ GraceEnds(c)
             \/ \E s \in {"up", "down", "unreachable"} : LineChanges(c, s)
      PROVE  TypeOK'
  BY <1>5, SmallStepsType
<1>6. ASSUME NEW c \in Circuits, NEW type \in {"provision", "decommission"}, OrderSucceeds(c, type)
      PROVE  TypeOK'
  BY <1>6, OrderType
<1>7. ASSUME NEW c \in Circuits, DecommissionCompletes(c)
      PROVE  TypeOK'
  BY <1>7, DecommissionType
<1>8. ASSUME NEW c \in Circuits, ProvisionCompletes(c)
      PROVE  TypeOK'
  <2>1. activation[c] < MaxActivations  BY <1>8 DEF ProvisionCompletes, Allowance
  <2>. QED  BY <1>8, <2>1, ProvisionType
<1>. QED
  BY <1>1, <1>2, <1>3, <1>4, <1>5, <1>6, <1>7, <1>8 DEF Next, Orders

LEMMA InitType ==
  ASSUME MonitoringAssumption, Init
  PROVE  TypeInv
<1>1. NoCompletion \in Completion  BY DEF NoCompletion, Completion
<1>2. completing \in [Circuits -> Completion]  BY <1>1 DEF Init
<1>3. tx \in [Threads -> Transaction]  BY IdleType DEF Init
<1>4. window \in [Circuits -> Seq(Sample)]  BY DEF Init
<1>5. status \in [Circuits -> Status]  BY DEF Init, Status
<1>6. /\ activation \in [Circuits -> 0..MaxActivations]
      /\ collectCursor \in 0..CollectRounds - 1 /\ probeCursor \in 0..ProbeRounds - 1
  BY DEF Init, MonitoringAssumption
<1>7. Allowance  BY DEF Init, NoCompletion, Allowance
<1>. QED  BY <1>2, <1>3, <1>4, <1>5, <1>6, <1>7 DEF Init, TypeInv, TypeOK

\* Every variable stays within its type, whatever the interleaving.
THEOREM TypeCorrect == Spec => []TypeOK
<1>1. Init => TypeInv  BY InitType, MonitoringAssumption
<1>2. TypeInv /\ [Next]_vars => TypeInv'
  BY TypeKept, AllowanceKept, MonitoringAssumption DEF TypeInv
<1>3. TypeInv => TypeOK  BY DEF TypeInv
<1>. QED  BY <1>1, <1>2, <1>3, PTL DEF Spec

-----------------------------------------------------------------------------
(* What a step of a collector does to its transaction. *)

Elsewhere(t) ==
  /\ tx' = [tx EXCEPT ![t] = tx'[t]]
  /\ UNCHANGED <<rows, circuits, completing, straddled>>

Loaded(t) ==
  /\ tx'[t].op = tx[t].op /\ tx'[t].loaded = tx[t].loaded
  /\ tx'[t].seenActivation = tx[t].seenActivation
  /\ tx'[t].toCollect \subseteq tx[t].loaded /\ tx'[t].toEvaluate \subseteq tx[t].loaded

AlarmsKept(t) ==
  /\ tx'[t].raised = tx[t].raised /\ tx'[t].cleared = tx[t].cleared /\ tx'[t].acks = tx[t].acks

OutagesKept(t) == tx'[t].opened = tx[t].opened /\ tx'[t].closed = tx[t].closed

Touched(t, c) ==
  /\ c \in tx[t].loaded
  /\ tx'[t].touched = tx[t].touched \union {c}
  /\ Touch(t, c)

Noted(t) ==
  /\ Loaded(t) /\ AlarmsKept(t) /\ OutagesKept(t)
  /\ tx'[t].samples = tx[t].samples /\ tx'[t].touched = tx[t].touched
  /\ tainted' = tainted

Reported(t, c, s) ==
  /\ Loaded(t) /\ AlarmsKept(t) /\ Touched(t, c)
  /\ tx'[t].samples = [tx[t].samples EXCEPT ![c] = Newest(<<s>> \o @)]
  /\ \/ /\ ~s.up /\ _open_event(t, c) = {}
        /\ \E o \in NewOutage(c) :
             tx'[t].opened = tx[t].opened \union {o} /\ tx'[t].closed = tx[t].closed
     \/ ~s.up /\ _open_event(t, c) # {} /\ OutagesKept(t)
     \/ /\ s.up
        /\ tx'[t].opened = tx[t].opened \ _open_event(t, c)
        /\ tx'[t].closed = tx[t].closed \union (_open_event(t, c) \intersect outages)
     \/ Cardinality(_open_event(t, c)) > 1 /\ OutagesKept(t)

New(t, c, K) == UNION {NewAlarm(c, k) : k \in {l \in K : _active_by_key(t, c, l) = {}}}

Evaluated(t, c, K) ==
  /\ Loaded(t) /\ OutagesKept(t) /\ Touched(t, c)
  /\ tx'[t].samples = tx[t].samples
  /\ K \subseteq Considered(t, c)
  /\ tx'[t].raised = tx[t].raised \union New(t, c, K)
  /\ \E sent \in SUBSET New(t, c, K) : tx'[t].acks = tx[t].acks \union sent
  /\ tx'[t].cleared = tx[t].cleared \union UNION {_active_by_key(t, c, k) : k \in Considered(t, c) \ K}

Rolled(t) == tx'[t] = Idle /\ tainted' = tainted

\* Collectors work on circuits they have loaded.
Planned(r) == r.toCollect \subseteq r.loaded /\ r.toEvaluate \subseteq r.loaded

Worked(t) ==
  /\ Elsewhere(t)
  /\ \/ Rolled(t)
     \/ Noted(t)
     \/ \E c \in Circuits : \E s \in Sample : Reported(t, c, s)
     \/ \E c \in Circuits : \E K \in SUBSET Kinds : Evaluated(t, c, K)

LEMMA ReportShape ==
  ASSUME TypeOK, NEW t \in Threads, NEW c \in tx[t].loaded, NEW s \in Sample,
         NEW record \in Transaction, Report(t, c, s, record), Touch(t, c),
         UNCHANGED <<rows, circuits, completing, straddled>>,
         /\ record.op = tx[t].op /\ record.loaded = tx[t].loaded
         /\ record.seenActivation = tx[t].seenActivation
         /\ record.toCollect \subseteq tx[t].loaded /\ record.toEvaluate \subseteq tx[t].loaded
         /\ record.raised = tx[t].raised /\ record.cleared = tx[t].cleared
         /\ record.acks = tx[t].acks /\ record.touched = tx[t].touched
         /\ record.opened = tx[t].opened /\ record.closed = tx[t].closed
         /\ record.samples = tx[t].samples
  PROVE  Elsewhere(t) /\ Reported(t, c, s)
<1> DEFINE sampled == [record EXCEPT !.samples[c] = Newest(<<s>> \o @), !.touched = @ \union {c}]
           open == _open_event(t, c)
<1>1. tx \in [Threads -> Transaction]  BY DEF TypeOK
<1>2. /\ sampled.op = record.op /\ sampled.loaded = record.loaded
      /\ sampled.seenActivation = record.seenActivation
      /\ sampled.toCollect = record.toCollect /\ sampled.toEvaluate = record.toEvaluate
      /\ sampled.raised = record.raised /\ sampled.cleared = record.cleared
      /\ sampled.acks = record.acks /\ sampled.touched = record.touched \union {c}
      /\ sampled.opened = record.opened /\ sampled.closed = record.closed
      /\ sampled.samples = [record.samples EXCEPT ![c] = Newest(<<s>> \o @)]
      /\ DOMAIN sampled = DOMAIN record
  BY DEF Transaction
<1>3. DOMAIN record = {"op", "loaded", "seenStatus", "seenActivation", "touched", "collects", "probes",
                       "toCollect", "toEvaluate", "samples", "opened", "closed", "raised", "cleared", "acks"}
  BY DEF Transaction
<1> HIDE DEF sampled
<1> USE DEF Elsewhere, Reported, Loaded, AlarmsKept, Touched, OutagesKept
<1>4. ASSUME NEW o \in NewOutage(c), ~s.up, open = {},
             tx' = [tx EXCEPT ![t] = [sampled EXCEPT !.opened = @ \union {o}]]
      PROVE  Elsewhere(t) /\ Reported(t, c, s)
  <2> DEFINE r1 == [sampled EXCEPT !.opened = @ \union {o}]
  <2>1. /\ r1.op = sampled.op /\ r1.loaded = sampled.loaded
        /\ r1.seenActivation = sampled.seenActivation
        /\ r1.toCollect = sampled.toCollect /\ r1.toEvaluate = sampled.toEvaluate
        /\ r1.raised = sampled.raised /\ r1.cleared = sampled.cleared
        /\ r1.acks = sampled.acks /\ r1.touched = sampled.touched
        /\ r1.opened = sampled.opened \union {o} /\ r1.closed = sampled.closed
        /\ r1.samples = sampled.samples
    BY <1>2, <1>3
  <2>2. tx' = [tx EXCEPT ![t] = r1]  BY <1>4
  <2> HIDE DEF r1
  <2>3. tx'[t] = r1  BY <1>1, <2>2
  <2>. QED  BY <1>2, <1>4, <2>1, <2>2, <2>3
<1>5. ASSUME ~s.up, open # {}, tx' = [tx EXCEPT ![t] = sampled]
      PROVE  Elsewhere(t) /\ Reported(t, c, s)
  <2>1. tx'[t] = sampled  BY <1>1, <1>5
  <2>. QED  BY <1>2, <1>5, <2>1
<1>6. ASSUME s.up, tx' = [tx EXCEPT ![t] = [sampled EXCEPT !.closed = @ \union (open \intersect outages),
                                                            !.opened = @ \ open]]
      PROVE  Elsewhere(t) /\ Reported(t, c, s)
  <2> DEFINE r1 == [sampled EXCEPT !.closed = @ \union (open \intersect outages), !.opened = @ \ open]
  <2>1. /\ r1.op = sampled.op /\ r1.loaded = sampled.loaded
        /\ r1.seenActivation = sampled.seenActivation
        /\ r1.toCollect = sampled.toCollect /\ r1.toEvaluate = sampled.toEvaluate
        /\ r1.raised = sampled.raised /\ r1.cleared = sampled.cleared
        /\ r1.acks = sampled.acks /\ r1.touched = sampled.touched
        /\ r1.opened = sampled.opened \ open /\ r1.closed = sampled.closed \union (open \intersect outages)
        /\ r1.samples = sampled.samples
    BY <1>2, <1>3
  <2>2. tx' = [tx EXCEPT ![t] = r1]  BY <1>6
  <2> HIDE DEF r1
  <2>3. tx'[t] = r1  BY <1>1, <2>2
  <2>4. Elsewhere(t)  BY <2>2, <2>3
  <2>5. Loaded(t) /\ AlarmsKept(t) /\ Touched(t, c)  BY <1>2, <2>1, <2>3
  <2>6. /\ tx'[t].opened = tx[t].opened \ open
        /\ tx'[t].closed = tx[t].closed \union (open \intersect outages)
        /\ tx'[t].samples = [tx[t].samples EXCEPT ![c] = Newest(<<s>> \o @)]
    BY <1>2, <2>1, <2>3
  <2>. QED  BY <1>6, <2>4, <2>5, <2>6
<1>. QED  BY <1>4, <1>5, <1>6 DEF Report, sampled

LEMMA RolledShape ==
  ASSUME TypeOK, NEW t \in Threads, Rollback(t), UNCHANGED tainted,
         UNCHANGED <<rows, circuits, completing, straddled>>
  PROVE  Worked(t)
BY DEF TypeOK, Rollback, Worked, Elsewhere, Rolled

LEMMA CollectShape ==
  ASSUME TypeOK, NEW t \in Threads, Planned(tx[t]), Collect(t)
  PROVE  Worked(t)
<1>1. PICK c \in NextCollected(t) : Collect(t)!(c)
  BY DEF Collect
<1> DEFINE todo == [tx[t] EXCEPT !.collects = IF @ = 0 THEN 0 ELSE @ - 1, !.toCollect = @ \ {c}]
           noted == IF tx[t].op = "tick" THEN [todo EXCEPT !.toEvaluate = @ \union {c}] ELSE todo
           s == [source |-> "snmp", up |-> line[c] = "up"]
<1>2. c \in Circuits /\ c \in tx[t].loaded
  BY DEF NextCollected, At, Planned, TypeOK, Transaction
<1>3. tx[t] \in Transaction  BY DEF TypeOK
<1>4. todo \in Transaction
  <2>1. (IF tx[t].collects = 0 THEN 0 ELSE tx[t].collects - 1) \in Nat
    BY <1>3 DEF Transaction
  <2>2. tx[t].toCollect \ {c} \subseteq Circuits
    BY <1>3 DEF Transaction
  <2>. QED  BY <1>3, <2>1, <2>2 DEF Transaction
<1>5. /\ todo.op = tx[t].op /\ todo.loaded = tx[t].loaded
      /\ todo.seenActivation = tx[t].seenActivation
      /\ todo.toCollect = tx[t].toCollect \ {c} /\ todo.toEvaluate = tx[t].toEvaluate
      /\ todo.raised = tx[t].raised /\ todo.cleared = tx[t].cleared
      /\ todo.acks = tx[t].acks /\ todo.touched = tx[t].touched
      /\ todo.opened = tx[t].opened /\ todo.closed = tx[t].closed
      /\ todo.samples = tx[t].samples
  BY <1>3 DEF Transaction
<1> HIDE DEF todo
<1>6. /\ noted \in Transaction
      /\ noted.op = tx[t].op /\ noted.loaded = tx[t].loaded
      /\ noted.seenActivation = tx[t].seenActivation
      /\ noted.toCollect \subseteq tx[t].loaded /\ noted.toEvaluate \subseteq tx[t].loaded
      /\ noted.raised = tx[t].raised /\ noted.cleared = tx[t].cleared
      /\ noted.acks = tx[t].acks /\ noted.touched = tx[t].touched
      /\ noted.opened = tx[t].opened /\ noted.closed = tx[t].closed
      /\ noted.samples = tx[t].samples
  <2>1. CASE tx[t].op = "tick"  BY <1>2, <1>4, <1>5, <2>1 DEF Planned, Transaction
  <2>2. CASE tx[t].op # "tick"  BY <1>4, <1>5, <2>2 DEF Planned
  <2>. QED  BY <2>1, <2>2
<1>7. s \in Sample  BY DEF Sample
<1>8. UNCHANGED <<rows, circuits, completing, straddled>>
  BY <1>1 DEF rows, circuits
<1> HIDE DEF noted, s
<1>9. CASE tx' = [tx EXCEPT ![t] = noted] /\ UNCHANGED tainted
  <2>1. tx'[t] = noted  BY <1>9 DEF TypeOK
  <2>. QED  BY <1>6, <1>8, <1>9, <2>1 DEF Worked, Elsewhere, Noted, Loaded, AlarmsKept, OutagesKept
<1>10. CASE Report(t, c, s, noted) /\ Touch(t, c)
  <2>1. Elsewhere(t) /\ Reported(t, c, s)
    BY <1>2, <1>6, <1>7, <1>8, <1>10, ReportShape
  <2>. QED  BY <1>2, <1>7, <2>1 DEF Worked
<1>11. CASE Rollback(t) /\ UNCHANGED tainted
  BY <1>8, <1>11, RolledShape
<1>. QED  BY <1>1, <1>9, <1>10, <1>11 DEF noted, todo, s

LEMMA ProbeShape ==
  ASSUME TypeOK, NEW t \in Threads, NEW up \in BOOLEAN, Planned(tx[t]), Probe(t, up)
  PROVE  Worked(t)
<1>1. PICK c \in NextProbed(t) : Probe(t, up)!(c)
  BY DEF Probe
<1> DEFINE s == [source |-> "probe", up |-> up]
           todo == [tx[t] EXCEPT !.probes = @ - 1]
           noted == IF tx[t].op = "tick" THEN [todo EXCEPT !.toEvaluate = @ \union {c}] ELSE todo
           sampled == [todo EXCEPT !.samples[c] = Newest(<<s>> \o @), !.touched = @ \union {c}]
<1>2. c \in Circuits /\ c \in tx[t].loaded
  BY DEF NextProbed, At, TypeOK, Transaction
<1>3. tx[t] \in Transaction  BY DEF TypeOK
<1>4. todo \in Transaction
  <2>1. tx[t].probes - 1 \in Nat  BY <1>1, <1>3 DEF Transaction
  <2>. QED  BY <1>3, <2>1 DEF Transaction
<1>5. /\ todo.op = tx[t].op /\ todo.loaded = tx[t].loaded
      /\ todo.seenActivation = tx[t].seenActivation
      /\ todo.toCollect = tx[t].toCollect /\ todo.toEvaluate = tx[t].toEvaluate
      /\ todo.raised = tx[t].raised /\ todo.cleared = tx[t].cleared
      /\ todo.acks = tx[t].acks /\ todo.touched = tx[t].touched
      /\ todo.opened = tx[t].opened /\ todo.closed = tx[t].closed
      /\ todo.samples = tx[t].samples
  BY <1>3 DEF Transaction
<1> HIDE DEF todo
<1>6. /\ noted \in Transaction
      /\ noted.op = tx[t].op /\ noted.loaded = tx[t].loaded
      /\ noted.seenActivation = tx[t].seenActivation
      /\ noted.toCollect \subseteq tx[t].loaded /\ noted.toEvaluate \subseteq tx[t].loaded
      /\ noted.raised = tx[t].raised /\ noted.cleared = tx[t].cleared
      /\ noted.acks = tx[t].acks /\ noted.touched = tx[t].touched
      /\ noted.opened = tx[t].opened /\ noted.closed = tx[t].closed
      /\ noted.samples = tx[t].samples
  <2>1. CASE tx[t].op = "tick"  BY <1>2, <1>4, <1>5, <2>1 DEF Planned, Transaction
  <2>2. CASE tx[t].op # "tick"  BY <1>4, <1>5, <2>2 DEF Planned
  <2>. QED  BY <2>1, <2>2
<1>7. s \in Sample  BY DEF Sample
<1>8. UNCHANGED <<rows, circuits, completing, straddled>>
  BY <1>1 DEF rows, circuits
<1> HIDE DEF noted, s
<1>9. CASE Report(t, c, s, noted) /\ Touch(t, c)
  <2>1. Elsewhere(t) /\ Reported(t, c, s)
    BY <1>2, <1>6, <1>7, <1>8, <1>9, ReportShape
  <2>. QED  BY <1>2, <1>7, <2>1 DEF Worked
<1>10. CASE tx' = [tx EXCEPT ![t] = sampled] /\ Cardinality(_open_event(t, c)) > 1 /\ Touch(t, c)
  <2>1. /\ sampled.op = todo.op /\ sampled.loaded = todo.loaded
        /\ sampled.seenActivation = todo.seenActivation
        /\ sampled.toCollect = todo.toCollect /\ sampled.toEvaluate = todo.toEvaluate
        /\ sampled.raised = todo.raised /\ sampled.cleared = todo.cleared
        /\ sampled.acks = todo.acks /\ sampled.touched = todo.touched \union {c}
        /\ sampled.opened = todo.opened /\ sampled.closed = todo.closed
        /\ sampled.samples = [todo.samples EXCEPT ![c] = Newest(<<s>> \o @)]
    BY <1>4 DEF Transaction
  <2> HIDE DEF sampled
  <2>2. tx'[t] = sampled  BY <1>10 DEF TypeOK
  <2>3. Elsewhere(t)  BY <1>8, <1>10, <2>2 DEF Elsewhere
  <2>4. Loaded(t) /\ AlarmsKept(t) /\ OutagesKept(t) /\ Touched(t, c)
    BY <1>2, <1>5, <1>10, <2>1, <2>2 DEF Loaded, AlarmsKept, OutagesKept, Touched, Planned
  <2>5. tx'[t].samples = [tx[t].samples EXCEPT ![c] = Newest(<<s>> \o @)]
    BY <1>5, <2>1, <2>2
  <2>6. Reported(t, c, s)
    BY <1>10, <2>4, <2>5 DEF Reported
  <2>. QED  BY <1>2, <1>7, <2>3, <2>6 DEF Worked
<1>11. CASE Rollback(t) /\ UNCHANGED tainted
  BY <1>8, <1>11, RolledShape
<1>. QED  BY <1>1, <1>9, <1>10, <1>11 DEF noted, todo, s, sampled

LEMMA EvaluateShape ==
  ASSUME TypeOK, NEW t \in Threads, NEW metric \in BOOLEAN, NEW flap \in BOOLEAN,
         Planned(tx[t]), Evaluate(t, metric, flap)
  PROVE  Worked(t)
<1>1. PICK c \in tx[t].toEvaluate : Evaluate(t, metric, flap)!(c)
  BY DEF Evaluate
<1> DEFINE K == Holds(t, c, metric, flap)
           new == UNION {NewAlarm(c, k) : k \in {k \in K : _active_by_key(t, c, k) = {}}}
           cleared == UNION {_active_by_key(t, c, k) : k \in Considered(t, c) \ K}
<1>2. c \in Circuits /\ c \in tx[t].loaded
  BY DEF Planned, TypeOK, Transaction
<1>3. tx[t] \in Transaction  BY DEF TypeOK
<1>4. K \in SUBSET Kinds /\ K \subseteq Considered(t, c)
  BY DEF Holds, Considered, Kinds
<1>5. new = New(t, c, K)  BY DEF New
<1>6. UNCHANGED <<rows, circuits, completing, straddled>>
  BY <1>1 DEF rows, circuits
<1>7. ASSUME NEW sent \in SUBSET {a \in new : a.kind = "metric"}, Touch(t, c),
             tx' = [tx EXCEPT ![t] =
                  [tx[t] EXCEPT !.toEvaluate = @ \ {c}, !.touched = @ \union {c},
                                !.raised = @ \union new, !.acks = @ \union sent,
                                !.cleared = @ \union cleared]]
      PROVE  Worked(t)
  <2> DEFINE done == [tx[t] EXCEPT !.toEvaluate = @ \ {c}, !.touched = @ \union {c},
                                !.raised = @ \union new, !.acks = @ \union sent,
                                !.cleared = @ \union cleared]
  <2> HIDE DEF new, cleared, K
  <2>1. /\ done.op = tx[t].op /\ done.loaded = tx[t].loaded
        /\ done.seenActivation = tx[t].seenActivation
        /\ done.toCollect = tx[t].toCollect /\ done.toEvaluate = tx[t].toEvaluate \ {c}
        /\ done.raised = tx[t].raised \union new /\ done.cleared = tx[t].cleared \union cleared
        /\ done.acks = tx[t].acks \union sent /\ done.touched = tx[t].touched \union {c}
        /\ done.opened = tx[t].opened /\ done.closed = tx[t].closed
        /\ done.samples = tx[t].samples
    BY <1>3 DEF Transaction
  <2>2. tx' = [tx EXCEPT ![t] = done]  BY <1>7
  <2> HIDE DEF done
  <2>3. tx'[t] = done  BY <2>2 DEF TypeOK
  <2>4. Elsewhere(t)  BY <1>6, <2>2, <2>3 DEF Elsewhere
  <2>5. Loaded(t) /\ OutagesKept(t) /\ Touched(t, c) /\ tx'[t].samples = tx[t].samples
    BY <1>2, <1>7, <2>1, <2>3 DEF Loaded, OutagesKept, Touched, Planned
  <2>6. /\ tx'[t].raised = tx[t].raised \union New(t, c, K)
        /\ sent \in SUBSET New(t, c, K) /\ tx'[t].acks = tx[t].acks \union sent
        /\ tx'[t].cleared = tx[t].cleared \union UNION {_active_by_key(t, c, k) : k \in Considered(t, c) \ K}
    BY <1>5, <2>1, <2>3 DEF cleared
  <2>7. Evaluated(t, c, K)
    BY <1>4, <2>5, <2>6 DEF Evaluated
  <2>. QED  BY <1>2, <1>4, <2>4, <2>7 DEF Worked
<1>8. CASE Rollback(t) /\ UNCHANGED tainted
  BY <1>6, <1>8, RolledShape
<1>. QED  BY <1>1, <1>7, <1>8

LEMMA WorkShape ==
  ASSUME TypeOK, NEW t \in Threads, Planned(tx[t]), Work(t)
  PROVE  Worked(t)
BY CollectShape, ProbeShape, EvaluateShape DEF Work

-----------------------------------------------------------------------------
(* The bookkeeping of transactions. *)

\* What a transaction has not worked on it does not change.
Untouched(r) == \A c \in Circuits \ r.touched :
  /\ r.samples[c] = <<>>
  /\ \A o \in r.opened \union r.closed : o.circuit # c
  /\ \A a \in r.raised \union r.cleared \union r.acks : a.circuit # c

\* An acknowledgement is all its transaction does; a collector acknowledges
\* what it has raised itself.
Acks(r) == IF r.op = "ack" THEN r.loaded = {} ELSE r.acks \subseteq r.raised

Orderly(r) == Planned(r) /\ Untouched(r) /\ Acks(r)

\* Two transactions at work on a circuit taint it.
Exclusive == \A t, u \in Threads : \A c \in tx[t].touched \intersect tx[u].touched : t = u \/ c \in tainted

Books == (\A t \in Threads : Orderly(tx[t])) /\ Exclusive

LEMMA IdleOrderly == Orderly(Idle) /\ Idle.touched = {} /\ Idle.loaded = {}
BY DEF Orderly, Planned, Untouched, Acks, Idle

\* A step that only resets a transaction.
LEMMA ResetKeepsBooks ==
  ASSUME TypeOK, Books, NEW t \in Threads, tx' = [tx EXCEPT ![t] = Idle], tainted \subseteq tainted'
  PROVE  Books'
<1>1. \A u \in Threads : tx'[u] = IF u = t THEN Idle ELSE tx[u]  BY DEF TypeOK
<1>2. \A u \in Threads : Orderly(tx'[u])  BY <1>1, IdleOrderly DEF Books
<1>3. Exclusive'  BY <1>1, IdleOrderly DEF Books, Exclusive
<1>. QED  BY <1>2, <1>3 DEF Books, Orderly, Planned, Untouched, Acks

\* A step that begins to load circuits.
LEMMA BeginKeepsBooks ==
  ASSUME TypeOK, Books, NEW t \in Threads, NEW op \in Operation, op # "ack",
         NEW scope \in SUBSET Circuits, NEW collects, NEW probes,
         NEW toCollect \in SUBSET scope, NEW toEvaluate \in SUBSET scope,
         Begin(t, op, scope, collects, probes, toCollect, toEvaluate)
  PROVE  Books'
<1> DEFINE r1 == [Idle EXCEPT !.op = op, !.loaded = scope,
          !.seenStatus = [c \in Circuits |-> IF c \in scope THEN status[c] ELSE "active"],
          !.seenActivation = [c \in Circuits |-> IF c \in scope THEN activation[c] ELSE 0],
          !.collects = collects, !.probes = probes,
          !.toCollect = toCollect, !.toEvaluate = toEvaluate]
<1>1. /\ r1.op = op /\ r1.loaded = scope /\ r1.toCollect = toCollect /\ r1.toEvaluate = toEvaluate
      /\ r1.touched = {} /\ r1.samples = [c \in Circuits |-> <<>>]
      /\ r1.opened = {} /\ r1.closed = {} /\ r1.raised = {} /\ r1.cleared = {} /\ r1.acks = {}
  BY DEF Idle
<1>2. tx' = [tx EXCEPT ![t] = r1] /\ tainted' = tainted  BY DEF Begin, history
<1> HIDE DEF r1
<1>3. \A u \in Threads : tx'[u] = IF u = t THEN r1 ELSE tx[u]  BY <1>2 DEF TypeOK
<1>4. Orderly(r1)
  BY <1>1 DEF Orderly, Planned, Untouched, Acks
<1>5. \A u \in Threads : Orderly(tx'[u])  BY <1>3, <1>4 DEF Books
<1>6. Exclusive'  BY <1>1, <1>2, <1>3 DEF Books, Exclusive
<1>. QED  BY <1>5, <1>6 DEF Books, Orderly, Planned, Untouched, Acks

LEMMA NewKeys ==
  ASSUME TypeOK, NEW t \in Threads, NEW c \in Circuits, NEW K \in SUBSET Kinds
  PROVE  /\ \A a \in New(t, c, K) : a.circuit = c /\ a.kind \in K /\ _active_by_key(t, c, a.kind) = {}
                                    /\ a \notin tx[t].cleared /\ a \in Alarm
         /\ \A a, b \in New(t, c, K) : a.kind = b.kind => a = b
<1>1. ASSUME NEW k \in Kinds, NEW a \in NewAlarm(c, k)
      PROVE  /\ a \in Alarm /\ a.circuit = c /\ a.kind = k /\ a.n \in Numbers
             /\ a \notin tx[t].cleared
             /\ \A b \in NewAlarm(c, k) : a.n <= b.n
  BY <1>1 DEF NewAlarm, Least, Alarm
<1>2. ASSUME NEW k \in Kinds, NEW a \in NewAlarm(c, k), NEW b \in NewAlarm(c, k)
      PROVE  a = b
  <2>1. a.n \in Nat /\ b.n \in Nat /\ a.n <= b.n /\ b.n <= a.n
    BY <1>1, MonitoringAssumption DEF MonitoringAssumption
  <2>2. a.n = b.n  BY <2>1
  <2>. QED  BY <1>1, <2>2 DEF Alarm
<1>. QED  BY <1>1, <1>2 DEF New

LEMMA WorkedKeepsBooks ==
  ASSUME TypeOK, Books, NEW t \in Threads, Worked(t)
  PROVE  Books'
<1>1. \A u \in Threads : u # t => tx'[u] = tx[u]  BY DEF Worked, Elsewhere, TypeOK
<1>2. CASE Rolled(t)
  BY <1>2, ResetKeepsBooks DEF Worked, Elsewhere, Rolled
<1>3. CASE Noted(t)
  <2>1. Orderly(tx'[t])
    BY <1>3 DEF Books, Orderly, Planned, Untouched, Acks, Noted, Loaded, AlarmsKept, OutagesKept
  <2>2. \A u \in Threads : tx'[u].touched = tx[u].touched  BY <1>1, <1>3 DEF Noted
  <2>3. Exclusive'  BY <1>3, <2>2 DEF Books, Exclusive, Noted
  <2>. QED  BY <1>1, <2>1, <2>3 DEF Books, Orderly, Planned, Untouched, Acks
<1>4. ASSUME NEW c \in Circuits, Touched(t, c)
      PROVE  Exclusive'
  <2>1. tx'[t].touched = tx[t].touched \union {c}  BY <1>4 DEF Touched
  <2>2. tainted \subseteq tainted' /\ \A u \in Threads \ {t} : c \in tx[u].touched => c \in tainted'
    BY <1>4 DEF Touched, Touch
  <2>. QED  BY <1>1, <2>1, <2>2 DEF Books, Exclusive
<1>5. ASSUME NEW c \in Circuits, NEW s \in Sample, Reported(t, c, s)
      PROVE  Books'
  <2>1. Planned(tx'[t]) /\ Acks(tx'[t])
    BY <1>5 DEF Books, Orderly, Planned, Acks, Reported, Loaded, AlarmsKept
  <2>2. \A o \in (tx'[t].opened \union tx'[t].closed) \ (tx[t].opened \union tx[t].closed) : o.circuit = c
    BY <1>5 DEF Reported, OutagesKept, NewOutage, Least, _open_event
  <2>3. tx'[t].touched = tx[t].touched \union {c}  BY <1>5 DEF Reported, Touched
  <2>4. \A d \in Circuits \ tx'[t].touched : tx'[t].samples[d] = tx[t].samples[d]
    BY <1>5, <2>3 DEF Reported, TypeOK, Transaction
  <2>5. Untouched(tx'[t])
    BY <1>5, <2>2, <2>3, <2>4 DEF Books, Orderly, Untouched, Reported, AlarmsKept
  <2>6. Exclusive'  BY <1>4, <1>5 DEF Reported
  <2>. QED  BY <1>1, <2>1, <2>5, <2>6 DEF Books, Orderly, Planned, Untouched, Acks
<1>6. ASSUME NEW c \in Circuits, NEW K \in SUBSET Kinds, Evaluated(t, c, K)
      PROVE  Books'
  <2>1. tx[t].op # "ack"
    BY <1>6 DEF Books, Orderly, Acks, Evaluated, Touched
  <2>2. Planned(tx'[t]) /\ Acks(tx'[t])
    BY <1>6, <2>1 DEF Books, Orderly, Planned, Acks, Evaluated, Loaded
  <2>3. \A a \in New(t, c, K) : a.circuit = c  BY NewKeys
  <2>4. \A k \in Kinds : \A a \in _active_by_key(t, c, k) : a.circuit = c  BY DEF _active_by_key
  <2>5. Considered(t, c) \subseteq Kinds  BY DEF Considered, Kinds
  <2>6. tx'[t].touched = tx[t].touched \union {c}  BY <1>6 DEF Evaluated, Touched
  <2>7. Untouched(tx'[t])
    BY <1>6, <2>3, <2>4, <2>5, <2>6 DEF Books, Orderly, Untouched, Evaluated, OutagesKept
  <2>8. Exclusive'  BY <1>4, <1>6 DEF Evaluated
  <2>. QED  BY <1>1, <2>2, <2>7, <2>8 DEF Books, Orderly, Planned, Untouched, Acks
<1>. QED  BY <1>2, <1>3, <1>5, <1>6 DEF Worked

LEMMA AcknowledgeKeepsBooks ==
  ASSUME TypeOK, Books, NEW r \in Requests, NEW a \in alarms, acknowledge(r, a)
  PROVE  Books'
<1> DEFINE r1 == [Idle EXCEPT !.op = "ack", !.touched = {a.circuit}, !.acks = {a}]
<1>1. r \in Threads  BY DEF Threads
<1>2. /\ r1.op = "ack" /\ r1.loaded = {} /\ r1.toCollect = {} /\ r1.toEvaluate = {}
      /\ r1.touched = {a.circuit} /\ r1.samples = [c \in Circuits |-> <<>>]
      /\ r1.opened = {} /\ r1.closed = {} /\ r1.raised = {} /\ r1.cleared = {} /\ r1.acks = {a}
  BY DEF Idle
<1>3. tx' = [tx EXCEPT ![r] = r1] /\ Touch(r, a.circuit)  BY DEF acknowledge
<1> HIDE DEF r1
<1>4. \A u \in Threads : tx'[u] = IF u = r THEN r1 ELSE tx[u]  BY <1>1, <1>3 DEF TypeOK
<1>5. Orderly(r1)
  BY <1>2 DEF Orderly, Planned, Untouched, Acks
<1>6. \A u \in Threads : Orderly(tx'[u])  BY <1>4, <1>5 DEF Books
<1>7. tainted \subseteq tainted' /\ \A u \in Threads \ {r} : a.circuit \in tx[u].touched => a.circuit \in tainted'
  BY <1>3 DEF Touch
<1>8. Exclusive'  BY <1>1, <1>2, <1>4, <1>7 DEF Books, Exclusive
<1>. QED  BY <1>6, <1>8 DEF Books, Orderly, Planned, Untouched, Acks

-----------------------------------------------------------------------------
(* The steps, as far as the rows are concerned. *)

\* A transaction begins: it has loaded circuits and done nothing yet.
Begun(t) == \E scope \in SUBSET Circuits : \E r \in Transaction :
  /\ tx' = [tx EXCEPT ![t] = r]
  /\ r.loaded = scope /\ r.touched = {}
  /\ r.seenActivation = [c \in Circuits |-> IF c \in scope THEN activation[c] ELSE 0]
  /\ r.samples = Idle.samples /\ r.opened = {} /\ r.closed = {}
  /\ r.raised = {} /\ r.cleared = {} /\ r.acks = {}
  /\ Loads(scope)
  /\ UNCHANGED <<rows, circuits, history>>

\* A transaction ends and leaves nothing.
Ended(t) ==
  /\ tx' = [tx EXCEPT ![t] = Idle]
  /\ UNCHANGED <<rows, circuits, completing, history>>

\* A step that concerns neither rows nor transactions.
Aside ==
  /\ UNCHANGED <<rows, activation, tx, completing, history>>
  /\ \A c \in Circuits : grace'[c] \subseteq grace[c]

Step ==
  \/ Aside
  \/ \E t \in Threads : Worked(t) \/ Commit(t) \/ Ended(t) \/ Begun(t)
  \/ \E r \in Requests : \E a \in alarms : acknowledge(r, a)
  \/ \E a \in alarms : clear(a)
  \/ \E c \in Circuits : DecommissionCompletes(c) \/ ProvisionCompletes(c)
       \/ \E type \in {"provision", "decommission"} : OrderSucceeds(c, type)

LEMMA BeginIsBegun ==
  ASSUME TypeOK, MonitoringAssumption, NEW t \in Threads, NEW op \in Operation,
         NEW scope \in SUBSET Circuits, NEW collects \in Nat, NEW probes \in Nat,
         NEW toCollect \in SUBSET Circuits, NEW toEvaluate \in SUBSET Circuits,
         Begin(t, op, scope, collects, probes, toCollect, toEvaluate)
  PROVE  Begun(t)
<1> DEFINE r1 == [Idle EXCEPT !.op = op, !.loaded = scope,
          !.seenStatus = [c \in Circuits |-> IF c \in scope THEN status[c] ELSE "active"],
          !.seenActivation = [c \in Circuits |-> IF c \in scope THEN activation[c] ELSE 0],
          !.collects = collects, !.probes = probes,
          !.toCollect = toCollect, !.toEvaluate = toEvaluate]
<1>1. /\ r1.loaded = scope /\ r1.touched = {} /\ r1.samples = Idle.samples
      /\ r1.seenActivation = [c \in Circuits |-> IF c \in scope THEN activation[c] ELSE 0]
      /\ r1.opened = {} /\ r1.closed = {} /\ r1.raised = {} /\ r1.cleared = {} /\ r1.acks = {}
  BY DEF Idle
<1>2. tx' = [tx EXCEPT ![t] = r1] /\ Loads(scope) /\ UNCHANGED <<rows, circuits, history>>
  BY DEF Begin
<1> HIDE DEF r1
<1>3. tx'[t] = r1  BY <1>2 DEF TypeOK
<1>4. TypeOK'  BY BeginType
<1>5. r1 \in Transaction  BY <1>3, <1>4 DEF TypeOK
<1>. QED  BY <1>1, <1>2, <1>5 DEF Begun

LEMMA NextIsStep ==
  ASSUME TypeInv, Books, MonitoringAssumption, [Next]_vars
  PROVE  Step /\ Books'
<1> USE DEF TypeInv
<1>0. ASSUME UNCHANGED <<tx, tainted>>
      PROVE  Books'
  BY <1>0 DEF Books, Exclusive, Orderly, Planned, Untouched, Acks
<1>1. CASE UNCHANGED vars
  BY <1>0, <1>1 DEF vars, rows, circuits, history, Step, Aside
<1>2. CASE _tick
  <2>1. /\ Scheduler \in Threads /\ "tick" \in Operation /\ {} \in SUBSET Circuits
        /\ Active \in SUBSET Circuits /\ Active \intersect Probed \in SUBSET Circuits
    BY DEF Threads, Operation, Active
  <2>2. Batch(CollectBatchSize, Active) \in Nat /\ Batch(ProbeBatchSize, Active \intersect Probed) \in Nat
    BY <2>1, BatchType
  <2>3. Begun(Scheduler)  BY <1>2, <2>1, <2>2, BeginIsBegun DEF _tick
  <2>4. Books'  BY <1>2, <2>1, BeginKeepsBooks DEF _tick
  <2>. QED  BY <2>1, <2>3, <2>4 DEF Step
<1>3. ASSUME NEW t \in Threads, Work(t)
      PROVE  Step /\ Books'
  <2>1. Worked(t)  BY <1>3, WorkShape DEF Books, Orderly
  <2>. QED  BY <2>1, WorkedKeepsBooks DEF Step
<1>4. ASSUME NEW t \in Threads, Commit(t)
      PROVE  Step /\ Books'
  BY <1>4, ResetKeepsBooks DEF Step, Commit, history
<1>5. ASSUME NEW t \in Threads, CommitFails(t)
      PROVE  Step /\ Books'
  BY <1>5, ResetKeepsBooks DEF Step, CommitFails, Rollback, Ended, history
<1>6. CASE Operators
  <2>1. ASSUME NEW r \in Requests, collect_telemetry(r) \/ evaluate(r) \/ \E c \in Circuits : probe_circuit(r, c)
        PROVE  Step /\ Books'
    <3>1. r \in Threads /\ Active \in SUBSET Circuits /\ Circuits \in SUBSET Circuits
          /\ {} \in SUBSET Circuits /\ 0 \in Nat /\ 1 \in Nat
      BY DEF Threads, Active
    <3>2. {"collect", "evaluate", "probe"} \subseteq Operation \ {"ack"}  BY DEF Operation
    <3>3. CASE collect_telemetry(r)
      BY <3>1, <3>2, <3>3, BeginIsBegun, BeginKeepsBooks DEF collect_telemetry, Step
    <3>4. CASE evaluate(r)
      BY <3>1, <3>2, <3>4, BeginIsBegun, BeginKeepsBooks DEF evaluate, Step
    <3>5. ASSUME NEW c \in Circuits, probe_circuit(r, c)
          PROVE  Step /\ Books'
      <4>1. {c} \in SUBSET Circuits  OBVIOUS
      <4>. QED  BY <3>1, <3>2, <3>5, <4>1, BeginIsBegun, BeginKeepsBooks DEF probe_circuit, Step
    <3>. QED  BY <2>1, <3>3, <3>4, <3>5
  <2>2. ASSUME NEW r \in Requests, NEW a \in alarms, acknowledge(r, a)
        PROVE  Step /\ Books'
    BY <2>2, AcknowledgeKeepsBooks DEF Step
  <2>3. ASSUME NEW a \in alarms, clear(a)
        PROVE  Step /\ Books'
    BY <2>3, <1>0 DEF clear, Step, history
  <2>. QED  BY <1>6, <2>1, <2>2, <2>3 DEF Operators
<1>7. ASSUME NEW c \in Circuits,
             \/ StartOrder(c) \/ OrderFails(c) \/ ModifyCompletes(c) \/ GraceEnds(c)
             \/ \E s \in {"up", "down", "unreachable"} : LineChanges(c, s)
      PROVE  Step /\ Books'
  <2>1. CASE StartOrder(c) \/ OrderFails(c) \/ ModifyCompletes(c)
    BY <1>0, <2>1 DEF StartOrder, OrderFails, ModifyCompletes, history, Step, Aside
  <2>2. CASE GraceEnds(c)
    BY <1>0, <2>2 DEF GraceEnds, history, Step, Aside, TypeOK
  <2>3. CASE \E s \in {"up", "down", "unreachable"} : LineChanges(c, s)
    BY <1>0, <2>3 DEF LineChanges, circuits, history, Step, Aside
  <2>. QED  BY <1>7, <2>1, <2>2, <2>3
<1>8. ASSUME NEW c \in Circuits,
             \/ DecommissionCompletes(c) \/ ProvisionCompletes(c)
             \/ \E type \in {"provision", "decommission"} : OrderSucceeds(c, type)
      PROVE  Step /\ Books'
  BY <1>0, <1>8 DEF DecommissionCompletes, ProvisionCompletes, OrderSucceeds, history, Step
<1>. QED
  BY <1>1, <1>2, <1>3, <1>4, <1>5, <1>6, <1>7, <1>8 DEF Next, Orders

LEMMA InitBooks ==
  ASSUME Init
  PROVE  Books
BY IdleOrderly DEF Init, Books, Exclusive

-----------------------------------------------------------------------------
(* One live alarm per key, in what is committed and in what any open        *)
(* transaction would leave if it committed now.                             *)

LiveIn(r) == (alarms \union r.raised \union r.acks) \ r.cleared

OneAlarmIn(r) == \A a, b \in LiveIn(r) :
  a.circuit = b.circuit /\ a.kind = b.kind /\ a.circuit \notin tainted => a = b

AlarmInv == OneAlarmIn(Idle) /\ \A t \in Threads : OneAlarmIn(tx[t])

LEMMA LiveInIdle == LiveIn(Idle) = alarms
BY DEF LiveIn, Idle

LEMMA AlarmKept ==
  ASSUME TypeOK, Books, MonitoringAssumption, AlarmInv, Step
  PROVE  AlarmInv'
<1> USE DEF AlarmInv
<1>0. ASSUME alarms' \subseteq alarms, tainted \subseteq tainted',
             \A t \in Threads : tx'[t] = Idle \/ LiveIn(tx[t])' \subseteq LiveIn(tx[t])
      PROVE  AlarmInv'
  <2>1. LiveIn(Idle)' \subseteq LiveIn(Idle)  BY <1>0 DEF LiveIn, Idle
  <2>2. OneAlarmIn(Idle)'  BY <1>0, <2>1 DEF OneAlarmIn
  <2>3. ASSUME NEW t \in Threads
        PROVE  OneAlarmIn(tx[t])'
    <3>1. CASE tx'[t] = Idle  BY <2>2, <3>1 DEF OneAlarmIn, LiveIn
    <3>2. CASE LiveIn(tx[t])' \subseteq LiveIn(tx[t])  BY <1>0, <3>2 DEF OneAlarmIn
    <3>. QED  BY <1>0, <3>1, <3>2
  <2>. QED  BY <2>2, <2>3
<1>1. CASE Aside
  BY <1>0, <1>1 DEF Aside, rows, history, LiveIn
<1>2. ASSUME NEW t \in Threads, Worked(t)
      PROVE  AlarmInv'
  <2>1. /\ alarms' = alarms
        /\ \A u \in Threads : u # t => tx'[u] = tx[u]
    BY <1>2 DEF Worked, Elsewhere, rows, TypeOK
  <2>2. CASE Rolled(t)
    BY <1>0, <2>1, <2>2 DEF Rolled, LiveIn
  <2>3. CASE Noted(t)
    BY <1>0, <2>1, <2>3 DEF Noted, AlarmsKept, LiveIn
  <2>4. ASSUME NEW c \in Circuits, NEW s \in Sample, Reported(t, c, s)
        PROVE  AlarmInv'
    BY <1>0, <2>1, <2>4 DEF Reported, AlarmsKept, Touched, Touch, LiveIn
  <2>5. ASSUME NEW c \in Circuits, NEW K \in SUBSET Kinds, Evaluated(t, c, K)
        PROVE  AlarmInv'
    <3>1. tainted \subseteq tainted'  BY <2>5 DEF Evaluated, Touched, Touch
    <3>2. OneAlarmIn(Idle)'  BY <2>1, <3>1 DEF OneAlarmIn, LiveIn
    <3>3. \A u \in Threads : u # t => OneAlarmIn(tx[u])'
      BY <2>1, <3>1 DEF OneAlarmIn, LiveIn
    <3>4. tx[t].acks \subseteq tx[t].raised
      BY <2>5 DEF Books, Orderly, Acks, Evaluated, Touched
    <3>5. LiveIn(tx[t])' \subseteq LiveIn(tx[t]) \union New(t, c, K)
      BY <2>1, <2>5 DEF Evaluated, LiveIn
    <3>6. ASSUME NEW a \in New(t, c, K), NEW b \in LiveIn(tx[t])
          PROVE  ~(a.circuit = b.circuit /\ a.kind = b.kind)
      <4>1. a.circuit = c /\ _active_by_key(t, c, a.kind) = {}  BY NewKeys
      <4>2. b \in (alarms \union tx[t].raised) \ tx[t].cleared
        BY <3>4 DEF LiveIn
      <4>. QED  BY <4>1, <4>2 DEF _active_by_key
    <3>7. \A a, b \in New(t, c, K) : a.kind = b.kind => a = b  BY NewKeys
    <3>8. OneAlarmIn(tx[t])'
      BY <3>1, <3>5, <3>6, <3>7 DEF OneAlarmIn
    <3>. QED  BY <3>2, <3>3, <3>8
  <2>. QED  BY <1>2, <2>2, <2>3, <2>4, <2>5 DEF Worked
<1>3. ASSUME NEW t \in Threads, Commit(t)
      PROVE  AlarmInv'
  <2>1. /\ alarms' = LiveIn(tx[t]) /\ tainted' = tainted
        /\ \A u \in Threads : tx'[u] = IF u = t THEN Idle ELSE tx[u]
    BY <1>3 DEF Commit, LiveIn, TypeOK, history
  <2>2. LiveIn(Idle)' = LiveIn(tx[t])  BY <2>1 DEF LiveIn, Idle
  <2>3. OneAlarmIn(Idle)'  BY <2>1, <2>2 DEF OneAlarmIn
  <2>4. ASSUME NEW u \in Threads, u # t
        PROVE  OneAlarmIn(tx[u])'
    <3> SUFFICES ASSUME NEW a \in LiveIn(tx[u])', NEW b \in LiveIn(tx[u])',
                        a.circuit = b.circuit, a.kind = b.kind, a.circuit \notin tainted
                 PROVE  a = b
      BY <2>1 DEF OneAlarmIn
    <3>1. /\ a \in (LiveIn(tx[t]) \union tx[u].raised \union tx[u].acks) \ tx[u].cleared
          /\ b \in (LiveIn(tx[t]) \union tx[u].raised \union tx[u].acks) \ tx[u].cleared
      BY <2>1, <2>4 DEF LiveIn
    <3>2. a.circuit \in Circuits  BY <3>1 DEF TypeOK, Transaction, Alarm, LiveIn
    <3>3. CASE a.circuit \notin tx[u].touched
      <4>1. a \in LiveIn(tx[t]) /\ b \in LiveIn(tx[t])
        BY <3>1, <3>2, <3>3 DEF Books, Orderly, Untouched
      <4>. QED  BY <4>1 DEF OneAlarmIn
    <3>4. CASE a.circuit \in tx[u].touched
      <4>1. a.circuit \notin tx[t].touched
        BY <2>4, <3>4 DEF Books, Exclusive
      <4>2. \A x \in tx[t].raised \union tx[t].acks : x.circuit # a.circuit
        BY <3>2, <4>1 DEF Books, Orderly, Untouched
      <4>3. a \in LiveIn(tx[u]) /\ b \in LiveIn(tx[u])
        BY <3>1, <4>2 DEF LiveIn
      <4>. QED  BY <4>3 DEF OneAlarmIn
    <3>. QED  BY <3>3, <3>4
  <2>. QED  BY <2>1, <2>3, <2>4 DEF OneAlarmIn, LiveIn
<1>4. ASSUME NEW t \in Threads, Ended(t)
      PROVE  AlarmInv'
  BY <1>0, <1>4 DEF Ended, rows, history, LiveIn, TypeOK
<1>5. ASSUME NEW t \in Threads, Begun(t)
      PROVE  AlarmInv'
  <2>1. PICK scope \in SUBSET Circuits, r \in Transaction : Begun(t)!(scope)!(r)
    BY <1>5 DEF Begun
  <2>2. /\ alarms' = alarms /\ tainted' = tainted
        /\ \A u \in Threads : tx'[u] = IF u = t THEN r ELSE tx[u]
    BY <2>1 DEF rows, history, TypeOK
  <2>3. LiveIn(tx[t])' = LiveIn(Idle) /\ LiveIn(Idle)' = LiveIn(Idle)
    BY <2>1, <2>2 DEF LiveIn, Idle
  <2>4. OneAlarmIn(tx[t])' /\ OneAlarmIn(Idle)'  BY <2>2, <2>3 DEF OneAlarmIn
  <2>5. \A u \in Threads : u # t => OneAlarmIn(tx[u])'  BY <2>2 DEF OneAlarmIn, LiveIn
  <2>. QED  BY <2>4, <2>5
<1>6. ASSUME NEW r \in Requests, NEW a \in alarms, acknowledge(r, a)
      PROVE  AlarmInv'
  <2>1. /\ alarms' = alarms /\ tainted \subseteq tainted' /\ r \in Threads
        /\ \A u \in Threads : tx'[u] = IF u = r
             THEN [Idle EXCEPT !.op = "ack", !.touched = {a.circuit}, !.acks = {a}] ELSE tx[u]
    BY <1>6 DEF acknowledge, Touch, rows, TypeOK, Threads
  <2>2. LiveIn(tx[r])' = LiveIn(Idle) /\ LiveIn(Idle)' = LiveIn(Idle)
    <3>1. tx'[r].raised = {} /\ tx'[r].cleared = {} /\ tx'[r].acks = {a}
      BY <2>1 DEF Idle
    <3>2. LiveIn(Idle) = alarms /\ LiveIn(Idle)' = alarms'  BY DEF LiveIn, Idle
    <3>3. LiveIn(tx[r])' = (alarms' \union {} \union {a}) \ {}  BY <3>1 DEF LiveIn
    <3>. QED  BY <2>1, <3>2, <3>3
  <2>3. OneAlarmIn(tx[r])' /\ OneAlarmIn(Idle)'  BY <2>1, <2>2 DEF OneAlarmIn
  <2>4. \A u \in Threads : u # r => OneAlarmIn(tx[u])'  BY <2>1 DEF OneAlarmIn, LiveIn
  <2>. QED  BY <2>3, <2>4
<1>7. ASSUME NEW a \in alarms, clear(a)
      PROVE  AlarmInv'
  BY <1>0, <1>7 DEF clear, Cleared, history, LiveIn
<1>8. ASSUME NEW c \in Circuits, DecommissionCompletes(c) \/ ProvisionCompletes(c)
      PROVE  AlarmInv'
  BY <1>0, <1>8 DEF DecommissionCompletes, ProvisionCompletes, Cleared, history, LiveIn
<1>9. ASSUME NEW c \in Circuits, NEW type \in {"provision", "decommission"}, OrderSucceeds(c, type)
      PROVE  AlarmInv'
  BY <1>0, <1>9 DEF OrderSucceeds, rows, history, LiveIn
<1>. QED
  BY <1>1, <1>2, <1>3, <1>4, <1>5, <1>6, <1>7, <1>8, <1>9 DEF Step

\* alarm_service.py, raise_alarm: between transactions that do not overlap on
\* a circuit, a condition has at most one alarm that is not cleared.
THEOREM Deduplicated == Spec => []OneLiveAlarm
<1> DEFINE Inv == TypeInv /\ Books /\ AlarmInv
<1>1. Init => Inv
  <2> SUFFICES ASSUME Init PROVE Inv  OBVIOUS
  <2>1. LiveIn(Idle) = {} /\ \A t \in Threads : LiveIn(tx[t]) = {}
    BY DEF Init, LiveIn, Idle
  <2>. QED  BY <2>1, InitType, InitBooks, MonitoringAssumption DEF AlarmInv, OneAlarmIn
<1>2. Inv /\ [Next]_vars => Inv'
  <2> SUFFICES ASSUME Inv, [Next]_vars PROVE Inv'  OBVIOUS
  <2>1. TypeInv'  BY TypeKept, AllowanceKept, MonitoringAssumption DEF TypeInv
  <2>2. Step /\ Books'  BY NextIsStep, MonitoringAssumption
  <2>3. AlarmInv'  BY <2>2, AlarmKept, MonitoringAssumption DEF TypeInv
  <2>. QED  BY <2>1, <2>2, <2>3
<1>3. Inv => OneLiveAlarm  BY LiveInIdle DEF AlarmInv, OneAlarmIn, OneLiveAlarm
<1>. QED  BY <1>1, <1>2, <1>3, PTL DEF Spec

-----------------------------------------------------------------------------
(* The outages of a circuit and its newest sample, in the same way.         *)

OpenIn(r) == (outages \union r.opened) \ r.closed

Down(q) == q # <<>> /\ ~q[1].up

DownIn(r, c) == IF r.samples[c] # <<>> THEN Down(r.samples[c]) ELSE Down(window[c])

OneOutageIn(r) == \A o, p \in OpenIn(r) :
  o.circuit = p.circuit /\ o.circuit \notin tainted => o = p

TellsIn(r) == \A c \in Circuits \ tainted :
  (\E o \in OpenIn(r) : o.circuit = c) <=> DownIn(r, c)

OutageInv ==
  /\ OneOutageIn(Idle) /\ TellsIn(Idle)
  /\ \A t \in Threads : OneOutageIn(tx[t]) /\ TellsIn(tx[t])

LEMMA IdleIn == OpenIn(Idle) = outages /\ \A c \in Circuits : DownIn(Idle, c) = Down(window[c])
BY DEF OpenIn, DownIn, Idle

LEMMA NewestSamples ==
  ASSUME MonitoringAssumption, NEW p \in Seq(Sample), NEW q \in Seq(Sample)
  PROVE  /\ p # <<>> => Newest(p \o q) # <<>> /\ Newest(p \o q)[1] = p[1]
         /\ p = <<>> /\ q # <<>> => Newest(p \o q) # <<>> /\ Newest(p \o q)[1] = q[1]
         /\ p = <<>> /\ q = <<>> => Newest(p \o q) = <<>>
BY NewestOfBoth

\* A report, of a sample s of c, in a transaction that sees one outage of c
\* at the most, and that it is open if the newest sample it sees is down.
LEMMA ReportTells ==
  ASSUME TypeOK, MonitoringAssumption, NEW t \in Threads, NEW c \in Circuits, NEW s \in Sample,
         OneOutageIn(tx[t]), TellsIn(tx[t]),
         UNCHANGED <<outages, window>>, Reported(t, c, s)
  PROVE  OneOutageIn(tx[t])' /\ TellsIn(tx[t])'
<1>1. tainted \subseteq tainted'  BY DEF Reported, Touched, Touch
<1>2. tx[t] \in Transaction  BY DEF TypeOK
<1>3. \A o \in NewOutage(c) : o.circuit = c /\ o \notin tx[t].closed /\ o \in Outage
  BY DEF NewOutage, Least
<1>4. _open_event(t, c) = {o \in OpenIn(tx[t]) : o.circuit = c}
  BY DEF _open_event, OpenIn
<1>5. OpenIn(tx[t])' = (outages \union tx'[t].opened) \ tx'[t].closed
  BY DEF OpenIn
<1>6. /\ DownIn(tx[t], c)' <=> ~s.up
      /\ \A d \in Circuits : d # c => (DownIn(tx[t], d)' <=> DownIn(tx[t], d))
  <2>1. tx[t].samples \in [Circuits -> Seq(Sample)] /\ <<s>> \in Seq(Sample)
    BY <1>2 DEF Transaction
  <2>2. /\ Newest(<<s>> \o tx[t].samples[c]) # <<>>
        /\ Newest(<<s>> \o tx[t].samples[c])[1] = <<s>>[1]
    <3>1. <<s>> # <<>> /\ tx[t].samples[c] \in Seq(Sample)  BY <2>1
    <3>. QED  BY <2>1, <3>1, NewestSamples
  <2>3. tx'[t].samples = [tx[t].samples EXCEPT ![c] = Newest(<<s>> \o @)]  BY DEF Reported
  <2>4. tx'[t].samples[c] # <<>> /\ tx'[t].samples[c][1] = s  BY <2>1, <2>2, <2>3
  <2>5. \A d \in Circuits : d # c => tx'[t].samples[d] = tx[t].samples[d]  BY <2>1, <2>3
  <2>. QED  BY <2>4, <2>5 DEF DownIn, Down
<1>7. ASSUME NEW o \in NewOutage(c), ~s.up, _open_event(t, c) = {},
             tx'[t].opened = tx[t].opened \union {o}, tx'[t].closed = tx[t].closed
      PROVE  OneOutageIn(tx[t])' /\ TellsIn(tx[t])'
  <2>1. OpenIn(tx[t])' = OpenIn(tx[t]) \union {o}
    BY <1>3, <1>5, <1>7 DEF OpenIn
  <2>2. \A p \in OpenIn(tx[t]) : p.circuit # c  BY <1>4, <1>7
  <2>3. OneOutageIn(tx[t])'  BY <1>1, <1>3, <2>1, <2>2 DEF OneOutageIn
  <2>4. TellsIn(tx[t])'  BY <1>1, <1>3, <1>6, <1>7, <2>1 DEF TellsIn
  <2>. QED  BY <2>3, <2>4
<1>8. ASSUME ~s.up, _open_event(t, c) # {}, OutagesKept(t)
      PROVE  OneOutageIn(tx[t])' /\ TellsIn(tx[t])'
  <2>1. OpenIn(tx[t])' = OpenIn(tx[t])  BY <1>5, <1>8 DEF OpenIn, OutagesKept
  <2>2. \E o \in OpenIn(tx[t]) : o.circuit = c  BY <1>4, <1>8
  <2>3. OneOutageIn(tx[t])'  BY <1>1, <2>1 DEF OneOutageIn
  <2>4. TellsIn(tx[t])'  BY <1>1, <1>6, <1>8, <2>1, <2>2 DEF TellsIn
  <2>. QED  BY <2>3, <2>4
<1>9. ASSUME s.up,
             tx'[t].opened = tx[t].opened \ _open_event(t, c),
             tx'[t].closed = tx[t].closed \union (_open_event(t, c) \intersect outages)
      PROVE  OneOutageIn(tx[t])' /\ TellsIn(tx[t])'
  <2>1. OpenIn(tx[t])' = {o \in OpenIn(tx[t]) : o.circuit # c}
    BY <1>4, <1>5, <1>9 DEF OpenIn
  <2>2. OneOutageIn(tx[t])'  BY <1>1, <2>1 DEF OneOutageIn
  <2>3. TellsIn(tx[t])'  BY <1>1, <1>6, <1>9, <2>1 DEF TellsIn
  <2>. QED  BY <2>2, <2>3
<1>10. ASSUME Cardinality(_open_event(t, c)) > 1, OutagesKept(t)
       PROVE  OneOutageIn(tx[t])' /\ TellsIn(tx[t])'
  <2>1. c \in tainted
    <3> SUFFICES ASSUME c \notin tainted PROVE FALSE  OBVIOUS
    <3>1. \A o, p \in _open_event(t, c) : o = p  BY <1>4 DEF OneOutageIn
    <3>2. CASE _open_event(t, c) = {}
      <4>1. Cardinality(_open_event(t, c)) = 0  BY <3>2, FS_EmptySet
      <4>. QED  BY <1>10, <4>1
    <3>3. ASSUME NEW o \in _open_event(t, c)
          PROVE  FALSE
      <4>1. _open_event(t, c) = {o}  BY <3>1, <3>3
      <4>2. Cardinality(_open_event(t, c)) = 1  BY <4>1, FS_Singleton
      <4>. QED  BY <1>10, <4>2
    <3>. QED  BY <3>2, <3>3
  <2>2. OpenIn(tx[t])' = OpenIn(tx[t])  BY <1>5, <1>10 DEF OpenIn, OutagesKept
  <2>3. OneOutageIn(tx[t])'  BY <1>1, <2>2 DEF OneOutageIn
  <2>4. TellsIn(tx[t])'  BY <1>1, <1>6, <2>1, <2>2 DEF TellsIn
  <2>. QED  BY <2>3, <2>4
<1>. QED  BY <1>7, <1>8, <1>9, <1>10 DEF Reported

LEMMA OutageKept ==
  ASSUME TypeOK, Books, MonitoringAssumption, OutageInv, Step
  PROVE  OutageInv'
<1> USE DEF OutageInv
<1>0. ASSUME UNCHANGED <<outages, window>>, tainted \subseteq tainted',
             \A t \in Threads :
               \/ /\ tx'[t].opened = tx[t].opened /\ tx'[t].closed = tx[t].closed
                  /\ tx'[t].samples = tx[t].samples
               \/ tx'[t].opened = {} /\ tx'[t].closed = {} /\ tx'[t].samples = Idle.samples
      PROVE  OutageInv'
  <2>1. OneOutageIn(Idle)' /\ TellsIn(Idle)'
    BY <1>0, IdleIn DEF OneOutageIn, TellsIn, OpenIn, DownIn, Idle
  <2>2. ASSUME NEW t \in Threads
        PROVE  OneOutageIn(tx[t])' /\ TellsIn(tx[t])'
    <3>1. CASE tx'[t].opened = tx[t].opened /\ tx'[t].closed = tx[t].closed /\ tx'[t].samples = tx[t].samples
      BY <1>0, <3>1 DEF OneOutageIn, TellsIn, OpenIn, DownIn
    <3>2. CASE tx'[t].opened = {} /\ tx'[t].closed = {} /\ tx'[t].samples = Idle.samples
      <4>1. OpenIn(tx[t])' = OpenIn(Idle)'  BY <3>2 DEF OpenIn, Idle
      <4>2. \A c \in Circuits : DownIn(tx[t], c)' = DownIn(Idle, c)'  BY <3>2 DEF DownIn, Idle
      <4>. QED  BY <2>1, <4>1, <4>2 DEF OneOutageIn, TellsIn
    <3>. QED  BY <1>0, <3>1, <3>2
  <2>. QED  BY <2>1, <2>2
<1>1. CASE Aside
  BY <1>0, <1>1 DEF Aside, rows, history
<1>2. ASSUME NEW t \in Threads, Worked(t)
      PROVE  OutageInv'
  <2>1. /\ UNCHANGED <<outages, window>>
        /\ \A u \in Threads : u # t => tx'[u] = tx[u]
    BY <1>2 DEF Worked, Elsewhere, rows, TypeOK
  <2>2. CASE Rolled(t)
    <3>1. Idle.opened = {} /\ Idle.closed = {}  BY DEF Idle
    <3>2. tainted' = tainted /\ tx'[t] = Idle  BY <2>2 DEF Rolled
    <3>. QED  BY <1>0, <2>1, <3>1, <3>2
  <2>3. CASE Noted(t)
    BY <1>0, <2>1, <2>3 DEF Noted, OutagesKept
  <2>4. ASSUME NEW c \in Circuits, NEW K \in SUBSET Kinds, Evaluated(t, c, K)
        PROVE  OutageInv'
    BY <1>0, <2>1, <2>4 DEF Evaluated, OutagesKept, Touched, Touch
  <2>5. ASSUME NEW c \in Circuits, NEW s \in Sample, Reported(t, c, s)
        PROVE  OutageInv'
    <3>1. tainted \subseteq tainted'  BY <2>5 DEF Reported, Touched, Touch
    <3>2. OneOutageIn(Idle)' /\ TellsIn(Idle)'
      BY <2>1, <3>1 DEF OneOutageIn, TellsIn, OpenIn, DownIn, Idle
    <3>3. \A u \in Threads : u # t => OneOutageIn(tx[u])' /\ TellsIn(tx[u])'
      BY <2>1, <3>1 DEF OneOutageIn, TellsIn, OpenIn, DownIn
    <3>4. OneOutageIn(tx[t])' /\ TellsIn(tx[t])'  BY <2>1, <2>5, ReportTells
    <3>. QED  BY <3>2, <3>3, <3>4
  <2>. QED  BY <1>2, <2>2, <2>3, <2>4, <2>5 DEF Worked
<1>3. ASSUME NEW t \in Threads, Commit(t)
      PROVE  OutageInv'
  <2>1. /\ outages' = OpenIn(tx[t]) /\ tainted' = tainted
        /\ window' = [c \in Circuits |-> Newest(tx[t].samples[c] \o window[c])]
        /\ \A u \in Threads : tx'[u] = IF u = t THEN Idle ELSE tx[u]
    BY <1>3 DEF Commit, OpenIn, TypeOK, history
  <2>2. ASSUME NEW c \in Circuits
        PROVE  /\ Down(window[c])' <=> DownIn(tx[t], c)
               /\ tx[t].samples[c] = <<>> => (Down(window[c])' <=> Down(window[c]))
    <3>1. tx[t].samples[c] \in Seq(Sample) /\ window[c] \in Seq(Sample)
      BY DEF TypeOK, Transaction
    <3>2. window'[c] = Newest(tx[t].samples[c] \o window[c])  BY <2>1
    <3>3. /\ window'[c] = <<>> <=> tx[t].samples[c] = <<>> /\ window[c] = <<>>
          /\ tx[t].samples[c] # <<>> => window'[c][1] = tx[t].samples[c][1]
          /\ tx[t].samples[c] = <<>> /\ window[c] # <<>> => window'[c][1] = window[c][1]
      <4> DEFINE p == tx[t].samples[c]
                 q == window[c]
      <4>1. p \in Seq(Sample) /\ q \in Seq(Sample) /\ window'[c] = Newest(p \o q)
        BY <3>1, <3>2
      <4>2. /\ window'[c] = <<>> <=> p = <<>> /\ q = <<>>
            /\ p # <<>> => window'[c][1] = p[1]
            /\ p = <<>> /\ q # <<>> => window'[c][1] = q[1]
        <5> HIDE DEF p, q
        <5>. QED  BY <4>1, NewestSamples
      <4>. QED  BY <4>2
    <3>4. CASE tx[t].samples[c] # <<>>  BY <3>3, <3>4 DEF Down, DownIn
    <3>5. CASE tx[t].samples[c] = <<>>  BY <3>3, <3>5 DEF Down, DownIn
    <3>. QED  BY <3>4, <3>5
  <2>3. OneOutageIn(Idle)' /\ TellsIn(Idle)'
    <3>1. OpenIn(Idle)' = OpenIn(tx[t])  BY <2>1 DEF OpenIn, Idle
    <3>2. \A c \in Circuits : DownIn(Idle, c)' <=> DownIn(tx[t], c)
      BY <2>2 DEF DownIn, Idle
    <3>. QED  BY <2>1, <3>1, <3>2 DEF OneOutageIn, TellsIn
  <2>4. ASSUME NEW u \in Threads, u # t
        PROVE  OneOutageIn(tx[u])' /\ TellsIn(tx[u])'
    <3>1. OpenIn(tx[u])' = (OpenIn(tx[t]) \union tx[u].opened) \ tx[u].closed
      BY <2>1, <2>4 DEF OpenIn
    <3>2. ASSUME NEW c \in Circuits \ tainted
          PROVE  \/ /\ \A o \in Outage : o.circuit = c => (o \in OpenIn(tx[u])' <=> o \in OpenIn(tx[t]))
                    /\ DownIn(tx[u], c)' <=> DownIn(tx[t], c)
                 \/ /\ \A o \in Outage : o.circuit = c => (o \in OpenIn(tx[u])' <=> o \in OpenIn(tx[u]))
                    /\ DownIn(tx[u], c)' <=> DownIn(tx[u], c)
      <4>1. CASE c \notin tx[u].touched
        <5>1. tx[u].samples[c] = <<>> /\ \A o \in tx[u].opened \union tx[u].closed : o.circuit # c
          BY <4>1 DEF Books, Orderly, Untouched
        <5>2. DownIn(tx[u], c)' <=> DownIn(tx[t], c)
          BY <2>1, <2>2, <2>4, <5>1 DEF DownIn
        <5>. QED  BY <3>1, <5>1, <5>2
      <4>2. CASE c \in tx[u].touched
        <5>1. c \notin tx[t].touched  BY <2>4, <4>2 DEF Books, Exclusive
        <5>2. tx[t].samples[c] = <<>> /\ \A o \in tx[t].opened \union tx[t].closed : o.circuit # c
          BY <5>1 DEF Books, Orderly, Untouched
        <5>3. DownIn(tx[u], c)' <=> DownIn(tx[u], c)
          BY <2>1, <2>2, <2>4, <5>2 DEF DownIn
        <5>. QED  BY <3>1, <5>2, <5>3 DEF OpenIn
      <4>. QED  BY <4>1, <4>2
    <3>3. /\ OpenIn(tx[u])' \subseteq Outage /\ OpenIn(tx[u]) \subseteq Outage /\ OpenIn(tx[t]) \subseteq Outage
          /\ \A o \in Outage : o.circuit \in Circuits
      BY <3>1 DEF TypeOK, Transaction, OpenIn, Outage
    <3>4. OneOutageIn(tx[u])'
      <4> SUFFICES ASSUME NEW o \in OpenIn(tx[u])', NEW p \in OpenIn(tx[u])',
                          o.circuit = p.circuit, o.circuit \notin tainted
                   PROVE  o = p
        BY <2>1 DEF OneOutageIn
      <4>1. {o, p} \subseteq OpenIn(tx[t]) \/ {o, p} \subseteq OpenIn(tx[u])
        BY <3>2, <3>3
      <4>. QED  BY <4>1 DEF OneOutageIn
    <3>5. TellsIn(tx[u])'
      <4> SUFFICES ASSUME NEW c \in Circuits \ tainted
                   PROVE  (\E o \in OpenIn(tx[u])' : o.circuit = c) <=> DownIn(tx[u], c)'
        BY <2>1 DEF TellsIn
      <4>1. /\ (\E o \in OpenIn(tx[u]) : o.circuit = c) <=> DownIn(tx[u], c)
            /\ (\E o \in OpenIn(tx[t]) : o.circuit = c) <=> DownIn(tx[t], c)
        BY DEF TellsIn
      <4>. QED  BY <3>2, <3>3, <4>1
    <3>. QED  BY <3>4, <3>5
  <2>5. OpenIn(tx[t])' = OpenIn(Idle)' /\ \A c \in Circuits : DownIn(tx[t], c)' = DownIn(Idle, c)'
    BY <2>1 DEF OpenIn, DownIn
  <2>6. OneOutageIn(tx[t])' /\ TellsIn(tx[t])'
    BY <2>3, <2>5 DEF OneOutageIn, TellsIn
  <2>. QED  BY <2>3, <2>4, <2>6
<1>4. ASSUME NEW t \in Threads, Ended(t)
      PROVE  OutageInv'
  BY <1>0, <1>4 DEF Ended, rows, history, TypeOK, Idle
<1>5. ASSUME NEW t \in Threads, Begun(t)
      PROVE  OutageInv'
  <2>1. PICK scope \in SUBSET Circuits, r \in Transaction : Begun(t)!(scope)!(r)
    BY <1>5 DEF Begun
  <2>2. /\ UNCHANGED <<outages, window, tainted>>
        /\ \A u \in Threads : tx'[u] = IF u = t THEN r ELSE tx[u]
    BY <2>1 DEF rows, history, TypeOK
  <2>. QED  BY <1>0, <2>1, <2>2
<1>6. ASSUME NEW r \in Requests, NEW a \in alarms, acknowledge(r, a)
      PROVE  OutageInv'
  <2> DEFINE r1 == [Idle EXCEPT !.op = "ack", !.touched = {a.circuit}, !.acks = {a}]
  <2>1. r1.opened = {} /\ r1.closed = {} /\ r1.samples = Idle.samples  BY DEF Idle
  <2>2. tx' = [tx EXCEPT ![r] = r1]  BY <1>6 DEF acknowledge
  <2> HIDE DEF r1
  <2>3. /\ UNCHANGED <<outages, window>> /\ tainted \subseteq tainted'
        /\ \A u \in Threads : tx'[u] = IF u = r THEN r1 ELSE tx[u]
    BY <1>6, <2>2 DEF acknowledge, Touch, rows, TypeOK, Threads
  <2>. QED  BY <1>0, <2>1, <2>3
<1>7. ASSUME NEW a \in alarms, clear(a)
      PROVE  OutageInv'
  BY <1>0, <1>7 DEF clear, history
<1>8. ASSUME NEW c \in Circuits, DecommissionCompletes(c) \/ ProvisionCompletes(c)
      PROVE  OutageInv'
  BY <1>0, <1>8 DEF DecommissionCompletes, ProvisionCompletes, history
<1>9. ASSUME NEW c \in Circuits, NEW type \in {"provision", "decommission"}, OrderSucceeds(c, type)
      PROVE  OutageInv'
  BY <1>0, <1>9 DEF OrderSucceeds, rows, history
<1>. QED
  BY <1>1, <1>2, <1>3, <1>4, <1>5, <1>6, <1>7, <1>8, <1>9 DEF Step

LEMMA OutageInvariant == Spec => []OutageInv
<1> DEFINE Inv == TypeInv /\ Books /\ OutageInv
<1>1. Init => Inv
  <2> SUFFICES ASSUME Init PROVE Inv  OBVIOUS
  <2>1. OpenIn(Idle) = {} /\ \A c \in Circuits : ~DownIn(Idle, c)
    BY IdleIn DEF Init, Down
  <2>2. \A t \in Threads : tx[t] = Idle  BY DEF Init
  <2>. QED  BY <2>1, <2>2, InitType, InitBooks, MonitoringAssumption DEF OutageInv, OneOutageIn, TellsIn
<1>2. Inv /\ [Next]_vars => Inv'
  <2> SUFFICES ASSUME Inv, [Next]_vars PROVE Inv'  OBVIOUS
  <2>1. TypeInv'  BY TypeKept, AllowanceKept, MonitoringAssumption DEF TypeInv
  <2>2. Step /\ Books'  BY NextIsStep, MonitoringAssumption
  <2>3. OutageInv'  BY <2>2, OutageKept, MonitoringAssumption DEF TypeInv
  <2>. QED  BY <2>1, <2>2, <2>3
<1>. QED  BY <1>1, <1>2, PTL DEF Spec

\* availability_service.py, _open_event: scalar_one_or_none finds one outage
\* at most where transactions do not overlap.
THEOREM NoSecondOutage == Spec => []OneOpenOutage
<1>1. OutageInv => OneOpenOutage  BY IdleIn DEF OutageInv, OneOutageIn, OneOpenOutage
<1>. QED  BY <1>1, OutageInvariant, PTL

\* process_tunnel_state: the outage of a circuit is open exactly while its
\* newest committed sample is down, whatever was rolled back in between.
THEOREM OutageFollowsSamples == Spec => []OutageTellsLastReport
<1>1. OutageInv => OutageTellsLastReport
  BY IdleIn DEF OutageInv, TellsIn, OutageTellsLastReport, Down
<1>. QED  BY <1>1, OutageInvariant, PTL

-----------------------------------------------------------------------------
(* The grace period after an activation.                                    *)

\* What a transaction has loaded is as it was, except what was activated
\* while it had it loaded.
Current(r) == \A c \in r.loaded \ straddled : r.seenActivation[c] = activation[c]

\* In the grace period a circuit has no alarm, and no transaction would
\* leave one.
QuietIn(r) == \A c \in Circuits \ straddled :
  activation[c] \in grace[c] => \A a \in alarms \union r.raised \union r.acks : a.circuit # c

\* Nobody is at work on a circuit whose order completes alone, and all the
\* alarms the circuit has are the ones the order will clear.
Alone == \A c \in Circuits : completing[c].type # "none" /\ completing[c].alone =>
  /\ \A t \in Threads : c \notin tx[t].loaded \union tx[t].touched
  /\ \A a \in alarms : a.circuit = c => a \in completing[c].cleared

QuietInv == QuietIn(Idle) /\ Alone /\ \A t \in Threads : Current(tx[t]) /\ QuietIn(tx[t])

LEMMA LoadsAlone ==
  ASSUME TypeOK, NEW S, Loads(S), NEW c \in Circuits
  PROVE  /\ completing'[c].type = completing[c].type /\ completing'[c].cleared = completing[c].cleared
         /\ completing'[c].type # "none" /\ completing'[c].alone => completing[c].alone /\ c \notin S
<1>1. completing[c] \in Completion  BY DEF TypeOK
<1>2. completing'[c] = [completing[c] EXCEPT !.alone = @ /\ (c \in S => completing[c].type = "none")]
  BY DEF Loads
<1>. QED  BY <1>1, <1>2 DEF Completion

LEMMA WorkedQuiet ==
  ASSUME TypeOK, Books, QuietInv, NEW t \in Threads, Worked(t)
  PROVE  QuietInv'
<1> USE DEF QuietInv
<1>1. /\ UNCHANGED <<alarms, activation, grace, completing, straddled>>
      /\ \A u \in Threads : u # t => tx'[u] = tx[u]
  BY DEF Worked, Elsewhere, rows, circuits, TypeOK
<1>2. QuietIn(Idle)' /\ \A u \in Threads : u # t => Current(tx[u])' /\ QuietIn(tx[u])'
  BY <1>1 DEF QuietIn, Current, Idle
<1>3. CASE Rolled(t)
  <2>1. tx'[t] = Idle /\ Idle.loaded = {} /\ Idle.touched = {}  BY <1>3, IdleOrderly DEF Rolled
  <2>2. Current(tx[t])' /\ QuietIn(tx[t])'  BY <1>2, <2>1 DEF Current, QuietIn
  <2>3. Alone'  BY <1>1, <2>1 DEF Alone
  <2>. QED  BY <1>2, <2>2, <2>3
<1>4. ASSUME Loaded(t), AlarmsKept(t), tx'[t].touched \subseteq tx[t].touched \union tx[t].loaded
      PROVE  QuietInv'
  <2>1. Current(tx[t])' /\ QuietIn(tx[t])'
    BY <1>1, <1>4 DEF Current, QuietIn, Loaded, AlarmsKept
  <2>2. Alone'  BY <1>1, <1>4 DEF Alone, Loaded
  <2>. QED  BY <1>2, <2>1, <2>2
<1>5. ASSUME NEW c \in Circuits, NEW K \in SUBSET Kinds, Evaluated(t, c, K)
      PROVE  QuietInv'
  <2>1. Loaded(t) /\ c \in tx[t].loaded /\ tx'[t].touched = tx[t].touched \union {c}
    BY <1>5 DEF Evaluated, Touched
  <2>2. Current(tx[t])'  BY <1>1, <2>1 DEF Current, Loaded
  <2>3. Alone'  BY <1>1, <2>1 DEF Alone, Loaded
  <2>4. /\ tx'[t].raised = tx[t].raised \union New(t, c, K)
        /\ tx'[t].acks \subseteq tx[t].acks \union New(t, c, K)
    BY <1>5 DEF Evaluated
  <2>5. \A a \in New(t, c, K) : a.circuit = c  BY NewKeys
  <2>6. c \notin straddled /\ activation[c] \in grace[c] => New(t, c, K) = {}
    <3> SUFFICES ASSUME c \notin straddled, activation[c] \in grace[c]
                 PROVE  New(t, c, K) = {}
      OBVIOUS
    <3>1. tx[t].seenActivation[c] = activation[c]  BY <2>1 DEF Current
    <3>2. K = {}  BY <1>5, <3>1 DEF Evaluated, Considered, alarms_suppressed
    <3>. QED  BY <3>2 DEF New
  <2>7. QuietIn(tx[t])'  BY <1>1, <2>4, <2>5, <2>6 DEF QuietIn
  <2>. QED  BY <1>2, <2>2, <2>3, <2>7
<1>6. CASE Noted(t)  BY <1>4, <1>6 DEF Noted
<1>7. ASSUME NEW c \in Circuits, NEW s \in Sample, Reported(t, c, s)
      PROVE  QuietInv'
  BY <1>4, <1>7 DEF Reported, Touched
<1>. QED  BY <1>3, <1>5, <1>6, <1>7 DEF Worked

LEMMA CommitQuiet ==
  ASSUME TypeOK, Books, QuietInv, NEW t \in Threads, Commit(t)
  PROVE  QuietInv'
<1> USE DEF QuietInv
<1>1. /\ alarms' = LiveIn(tx[t])
      /\ UNCHANGED <<activation, grace, completing, straddled>>
      /\ \A u \in Threads : tx'[u] = IF u = t THEN Idle ELSE tx[u]
  BY DEF Commit, LiveIn, circuits, history, TypeOK
<1>2. /\ Idle.loaded = {} /\ Idle.touched = {} /\ Idle.raised = {} /\ Idle.acks = {}
  BY DEF Idle
<1>3. alarms' \subseteq alarms \union tx[t].raised \union tx[t].acks  BY <1>1 DEF LiveIn
<1>4. QuietIn(Idle)' /\ \A u \in Threads : QuietIn(tx[u])'
  BY <1>1, <1>2, <1>3 DEF QuietIn
<1>5. \A u \in Threads : Current(tx[u])'  BY <1>1, <1>2 DEF Current
<1>6. Alone'
  <2> SUFFICES ASSUME NEW c \in Circuits, completing[c].type # "none", completing[c].alone
               PROVE  /\ \A u \in Threads : c \notin tx'[u].loaded \union tx'[u].touched
                      /\ \A a \in alarms' : a.circuit = c => a \in completing[c].cleared
    BY <1>1 DEF Alone
  <2>1. c \notin tx[t].touched  BY DEF Alone
  <2>2. \A a \in tx[t].raised \union tx[t].acks : a.circuit # c
    BY <2>1 DEF Books, Orderly, Untouched
  <2>. QED  BY <1>1, <1>2, <1>3, <2>2 DEF Alone
<1>. QED  BY <1>4, <1>5, <1>6

LEMMA ProvisionQuiet ==
  ASSUME TypeOK, Books, QuietInv, NEW c \in Circuits, ProvisionCompletes(c)
  PROVE  QuietInv'
<1> USE DEF QuietInv
<1>1. /\ alarms' = alarms \ completing[c].cleared /\ tx' = tx
      /\ \A d \in Circuits : d # c => /\ completing'[d] = completing[d]
                                      /\ activation'[d] = activation[d] /\ grace'[d] = grace[d]
      /\ completing'[c].type = "none"
      /\ straddled' = IF completing[c].alone THEN straddled \ {c} ELSE straddled \union {c}
  BY DEF ProvisionCompletes, Cleared, TypeOK, NoCompletion
<1>2. Alone'  BY <1>1 DEF Alone
<1>3. CASE ~completing[c].alone
  <2>1. straddled' = straddled \union {c}  BY <1>1, <1>3
  <2>2. QuietIn(Idle)' /\ \A t \in Threads : QuietIn(tx[t])'
    BY <1>1, <2>1 DEF QuietIn, Idle
  <2>3. \A t \in Threads : tx[t].loaded \subseteq Circuits  BY DEF TypeOK, Transaction
  <2>4. \A t \in Threads : Current(tx[t])'  BY <1>1, <2>1, <2>3 DEF Current
  <2>. QED  BY <1>2, <2>2, <2>4
<1>4. CASE completing[c].alone
  <2>1. straddled' = straddled \ {c}  BY <1>1, <1>4
  <2>2. /\ \A t \in Threads : c \notin tx[t].loaded \union tx[t].touched
        /\ \A a \in alarms : a.circuit = c => a \in completing[c].cleared
    BY <1>4 DEF Alone, ProvisionCompletes
  <2>3. \A t \in Threads : tx[t].loaded \subseteq Circuits  BY DEF TypeOK, Transaction
  <2>4. \A t \in Threads : Current(tx[t])'  BY <1>1, <2>1, <2>2, <2>3 DEF Current
  <2>5. \A t \in Threads : \A a \in tx[t].raised \union tx[t].acks : a.circuit # c
    BY <2>2 DEF Books, Orderly, Untouched
  <2>6. \A a \in alarms' : a.circuit # c  BY <1>1, <2>2
  <2>7. QuietIn(Idle)' /\ \A t \in Threads : QuietIn(tx[t])'
    BY <1>1, <2>1, <2>5, <2>6 DEF QuietIn, Idle
  <2>. QED  BY <1>2, <2>4, <2>7
<1>. QED  BY <1>3, <1>4

LEMMA QuietKept ==
  ASSUME TypeOK, Books, QuietInv, Step
  PROVE  QuietInv'
<1> USE DEF QuietInv
<1>1. CASE Aside
  <2>1. /\ UNCHANGED <<alarms, activation, tx, completing, straddled>>
        /\ \A c \in Circuits : grace'[c] \subseteq grace[c]
    BY <1>1 DEF Aside, rows, history
  <2>. QED  BY <2>1 DEF Current, QuietIn, Alone
<1>2. ASSUME NEW t \in Threads, Ended(t)
      PROVE  QuietInv'
  <2>1. /\ UNCHANGED <<alarms, activation, grace, completing, straddled>>
        /\ \A u \in Threads : tx'[u] = IF u = t THEN Idle ELSE tx[u]
    BY <1>2 DEF Ended, rows, circuits, history, TypeOK
  <2>2. QuietIn(Idle)'  BY <2>1 DEF QuietIn, Idle
  <2>3. \A u \in Threads : QuietIn(tx[u])' /\ Current(tx[u])'
    BY <2>1, <2>2, IdleOrderly DEF QuietIn, Current
  <2>4. Alone'  BY <2>1, IdleOrderly DEF Alone
  <2>. QED  BY <2>2, <2>3, <2>4
<1>3. ASSUME NEW t \in Threads, Begun(t)
      PROVE  QuietInv'
  <2>1. PICK scope \in SUBSET Circuits, r \in Transaction : Begun(t)!(scope)!(r)
    BY <1>3 DEF Begun
  <2>2. /\ UNCHANGED <<alarms, activation, grace, straddled>> /\ Loads(scope)
        /\ \A u \in Threads : tx'[u] = IF u = t THEN r ELSE tx[u]
    BY <2>1 DEF rows, circuits, history, TypeOK
  <2>3. QuietIn(Idle)'  BY <2>2 DEF QuietIn, Idle
  <2>4. \A u \in Threads : QuietIn(tx[u])'
    BY <2>1, <2>2, <2>3 DEF QuietIn, Idle
  <2>5. \A u \in Threads : Current(tx[u])'  BY <2>1, <2>2 DEF Current
  <2>6. Alone'  BY <2>1, <2>2, LoadsAlone DEF Alone
  <2>. QED  BY <2>3, <2>4, <2>5, <2>6
<1>4. ASSUME NEW r \in Requests, NEW a \in alarms, acknowledge(r, a)
      PROVE  QuietInv'
  <2> DEFINE r1 == [Idle EXCEPT !.op = "ack", !.touched = {a.circuit}, !.acks = {a}]
  <2>1. r1.loaded = {} /\ r1.touched = {a.circuit} /\ r1.raised = {} /\ r1.acks = {a}  BY DEF Idle
  <2>2. tx' = [tx EXCEPT ![r] = r1]  BY <1>4 DEF acknowledge
  <2> HIDE DEF r1
  <2>3. /\ UNCHANGED <<alarms, activation, grace, straddled>> /\ Loads({a.circuit})
        /\ \A u \in Threads : tx'[u] = IF u = r THEN r1 ELSE tx[u]
    BY <1>4, <2>2 DEF acknowledge, rows, circuits, TypeOK, Threads
  <2>4. QuietIn(Idle)'  BY <2>3 DEF QuietIn, Idle
  <2>5. \A u \in Threads : QuietIn(tx[u])' /\ Current(tx[u])'
    BY <2>1, <2>3 DEF QuietIn, Current
  <2>6. Alone'  BY <2>1, <2>3, LoadsAlone DEF Alone
  <2>. QED  BY <2>4, <2>5, <2>6
<1>5. ASSUME UNCHANGED <<tx, activation, grace, straddled>>, alarms' \subseteq alarms,
             \A c \in Circuits : completing'[c] = completing[c] \/ completing'[c].type = "none"
      PROVE  QuietInv'
  BY <1>5 DEF QuietIn, Current, Alone, Idle
<1>6. ASSUME NEW a \in alarms, clear(a)
      PROVE  QuietInv'
  BY <1>5, <1>6 DEF clear, Cleared, circuits, history
<1>7. ASSUME NEW c \in Circuits, DecommissionCompletes(c)
      PROVE  QuietInv'
  BY <1>5, <1>7 DEF DecommissionCompletes, Cleared, history, NoCompletion, TypeOK
<1>8. ASSUME NEW c \in Circuits, NEW type \in {"provision", "decommission"}, OrderSucceeds(c, type)
      PROVE  QuietInv'
  <2>1. UNCHANGED <<tx, activation, grace, straddled, alarms>>
    BY <1>8 DEF OrderSucceeds, rows, circuits, history
  <2>2. QuietIn(Idle)' /\ \A t \in Threads : Current(tx[t])' /\ QuietIn(tx[t])'
    BY <2>1 DEF QuietIn, Current, Idle
  <2>3. /\ completing'[c].cleared = ActiveFor(c)
        /\ completing'[c].alone = \A t \in Threads : c \notin tx[t].loaded \union tx[t].touched
        /\ \A d \in Circuits : d # c => completing'[d] = completing[d]
    BY <1>8 DEF OrderSucceeds, TypeOK
  <2>4. Alone'  BY <2>1, <2>3 DEF Alone, ActiveFor
  <2>. QED  BY <2>2, <2>4
<1>. QED
  BY <1>1, <1>2, <1>3, <1>4, <1>6, <1>7, <1>8, WorkedQuiet, CommitQuiet, ProvisionQuiet DEF Step

\* alarms_suppressed and clear_active_alarms_for_circuit: no alarm in the
\* grace period, unless the activation came amid a collector's work.
THEOREM QuietHolds == Spec => []QuietAfterActivation
<1> DEFINE Inv == TypeInv /\ Books /\ QuietInv
<1>1. Init => Inv
  <2> SUFFICES ASSUME Init PROVE Inv  OBVIOUS
  <2>1. \A t \in Threads : tx[t] = Idle  BY DEF Init
  <2>2. QuietIn(Idle)  BY DEF Init, QuietIn
  <2>3. Current(Idle)  BY IdleOrderly DEF Current
  <2>4. Alone  BY DEF Init, Alone, NoCompletion
  <2>. QED  BY <2>1, <2>2, <2>3, <2>4, InitType, InitBooks, MonitoringAssumption DEF QuietInv
<1>2. Inv /\ [Next]_vars => Inv'
  <2> SUFFICES ASSUME Inv, [Next]_vars PROVE Inv'  OBVIOUS
  <2>1. TypeInv'  BY TypeKept, AllowanceKept, MonitoringAssumption DEF TypeInv
  <2>2. Step /\ Books'  BY NextIsStep, MonitoringAssumption
  <2>3. QuietInv'  BY <2>2, QuietKept DEF TypeInv
  <2>. QED  BY <2>1, <2>2, <2>3
<1>3. Inv => QuietAfterActivation
  BY DEF QuietInv, QuietIn, QuietAfterActivation
<1>. QED  BY <1>1, <1>2, <1>3, PTL DEF Spec
=============================================================================
