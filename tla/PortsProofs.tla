---------------------------- MODULE PortsProofs ----------------------------
(***************************************************************************)
(* Theorems about Ports, for any number of circuits, devices, requests and *)
(* workers of one process.                                                 *)
(***************************************************************************)
EXTENDS Ports, TLAPS

Distinct(E) == \A e, f \in E : e.row = f.row => e = f

RowsApart == \A c, d \in Circuits : \A e \in eps[c], f \in eps[d] : e.row = f.row => c = d /\ e = f

-----------------------------------------------------------------------------
(* Scans. *)

LEMMA EndpointParts ==
  ASSUME NEW e \in Endpoint
  PROVE  /\ e.row \in Rows /\ e.alias \in BOOLEAN /\ e.at \in Binding
         /\ e.at.device \in Devices /\ e.at.iface \in Interfaces /\ e.at.encap \in Tags \union {Untagged}
         /\ e = [row |-> e.row, at |-> e.at, alias |-> e.alias]
BY DEF Endpoint, Binding

LEMMA AsLoaded ==
  ASSUME NEW L \in SUBSET Endpoint, NEW e \in Endpoint
  PROVE  /\ As(L, e) \in Endpoint /\ As(L, e).row = e.row
         /\ As(L, e) = e \/ As(L, e) \in L
         /\ e \in L /\ Distinct(L) => As(L, e) = e
BY DEF As, Distinct

LEMMA ViewType ==
  ASSUME NEW L \in SUBSET Endpoint, eps \in [Circuits -> SUBSET Endpoint]
  PROVE  View(L) \in [Circuits -> SUBSET Endpoint]
BY AsLoaded DEF View

LEMMA ScanType ==
  ASSUME NEW view \in [Circuits -> SUBSET Endpoint], NEW C \in SUBSET Circuits,
         NEW D \in SUBSET Devices, NEW snapshot \in SUBSET Binding, inventory \subseteq Entry
  PROVE  ScanOf(view, C, D, snapshot) \in Scan
<1> DEFINE intent == {e.at : e \in UNION {view[c] : c \in C}}
<1>1. intent \subseteq Binding  BY EndpointParts
<1>2. Merge(intent, snapshot) \subseteq Entry
  BY <1>1 DEF Merge, Entry
<1>3. \A d \in D : scan_device(intent, d, snapshot) \subseteq Entry
  BY <1>2 DEF scan_device
<1>4. {e \in UNION {view[c] : c \in Circuits} : e.at.device \in D /\ e.alias} \subseteq Endpoint
  OBVIOUS
<1>. QED  BY <1>3, <1>4 DEF ScanOf, Scan

\* What a renaming makes of a row.
After(R, e) ==
  IF \E o \in R : o.row = e.row
  THEN LET o == CHOOSE o \in R : o.row = e.row
       IN [e EXCEPT !.at.iface = o.at.iface, !.alias = FALSE]
  ELSE e

LEMMA AfterParts ==
  ASSUME NEW R \in SUBSET Endpoint, NEW e \in Endpoint
  PROVE  /\ After(R, e) \in Endpoint /\ After(R, e).row = e.row
         /\ After(R, e).at.device = e.at.device
         /\ After(R, e).alias => e.alias /\ \A o \in R : o.row # e.row
<1>1. CASE \E o \in R : o.row = e.row
  <2> DEFINE o == CHOOSE o \in R : o.row = e.row
  <2>1. o \in Endpoint  BY <1>1
  <2>2. After(R, e) = [e EXCEPT !.at.iface = o.at.iface, !.alias = FALSE]  BY <1>1 DEF After
  <2> HIDE DEF o
  <2>3. o.at.iface \in Interfaces  BY <2>1, EndpointParts
  <2>. QED  BY <2>2, <2>3 DEF Endpoint, Binding
<1>2. CASE ~\E o \in R : o.row = e.row
  BY <1>2 DEF After
<1>. QED  BY <1>1, <1>2

LEMMA RenamedParts ==
  ASSUME NEW R \in SUBSET Endpoint, NEW E \in SUBSET Endpoint
  PROVE  /\ Renamed(E, R) \subseteq Endpoint
         /\ \A g \in Renamed(E, R) : \E e \in E :
              /\ g.row = e.row /\ g.at.device = e.at.device
              /\ g.alias => e.alias /\ \A o \in R : o.row # e.row
         /\ Distinct(E) => Distinct(Renamed(E, R))
<1>1. Renamed(E, R) = {After(R, e) : e \in E}
  BY DEF Renamed, After
<1>. QED  BY <1>1, AfterParts DEF Distinct

\* A renaming of rows by their own loaded copies leaves their bindings.
LEMMA RenamedByItself ==
  ASSUME NEW E \in SUBSET Endpoint, Distinct(E)
  PROVE  \A g \in Renamed(E, E) : ~g.alias /\ \E e \in E : g.row = e.row /\ g.at = e.at
<1>1. Renamed(E, E) = {After(E, e) : e \in E}
  BY DEF Renamed, After
<1>2. ASSUME NEW e \in E
      PROVE  After(E, e).row = e.row /\ After(E, e).at = e.at /\ ~After(E, e).alias
  <2>1. (CHOOSE o \in E : o.row = e.row) = e  BY DEF Distinct
  <2>2. After(E, e) = [e EXCEPT !.at.iface = e.at.iface, !.alias = FALSE]  BY <2>1 DEF After
  <2>. QED  BY <2>2 DEF Endpoint, Binding
<1>. QED  BY <1>1, <1>2

\* Rows that have not been moved have the bindings they had.
LEMMA Unmoved ==
  ASSUME NEW c \in Circuits \ Moved
  PROVE  /\ \A g \in eps'[c] : \E e \in eps[c] : e.row = g.row /\ e.at = g.at
         /\ \A e \in eps[c] : \E g \in eps'[c] : e.row = g.row /\ e.at = g.at
<1>1. Bindings(eps[c]) = Bindings(eps'[c])  BY DEF Moved
<1>2. \A g \in eps'[c] : [row |-> g.row, at |-> g.at] \in Bindings(eps[c])  BY <1>1 DEF Bindings
<1>3. \A e \in eps[c] : [row |-> e.row, at |-> e.at] \in Bindings(eps'[c])  BY <1>1 DEF Bindings
<1>4. ASSUME NEW g \in eps'[c]
      PROVE  \E e \in eps[c] : e.row = g.row /\ e.at = g.at
  <2>1. PICK e \in eps[c] : [row |-> g.row, at |-> g.at] = [row |-> e.row, at |-> e.at]
    BY <1>2 DEF Bindings
  <2>. QED  BY <2>1
<1>5. ASSUME NEW e \in eps[c]
      PROVE  \E g \in eps'[c] : e.row = g.row /\ e.at = g.at
  <2>1. PICK g \in eps'[c] : [row |-> e.row, at |-> e.at] = [row |-> g.row, at |-> g.at]
    BY <1>3 DEF Bindings
  <2>. QED  BY <2>1
<1>. QED  BY <1>4, <1>5

-----------------------------------------------------------------------------
(* Types and rows. *)

Types ==
  /\ status \in [Circuits -> Status]
  /\ adopted \subseteq Circuits
  /\ eps \in [Circuits -> SUBSET Endpoint]
  /\ inventory \subseteq Entry
  /\ learned \subseteq Binding
  /\ run \in [Workers -> Run]
  /\ tx \in [Requests -> Transaction]
  /\ operations \in 0..MaxOperations
  /\ validated \subseteq Circuits
  /\ contested \subseteq Circuits

\* Operations that add rows of their own.
Adding == {"create", "adopt", "replace"}

\* The ids of rows to be added are nobody else's.
Fresh ==
  /\ \A r \in Requests : tx[r].op \in Adding =>
       /\ Distinct(tx[r].new)
       /\ \A c \in Circuits : \A e \in tx[r].new, f \in eps[c] : e.row # f.row
  /\ \A r, q \in Requests : tx[r].op \in Adding /\ tx[q].op \in Adding /\ r # q =>
       \A e \in tx[r].new, f \in tx[q].new : e.row # f.row

Creating(r) == tx[r].op \in {"create", "adopt"}

\* Who works on which circuit.
Owners ==
  /\ \A r \in Requests : tx[r].op \in {"create", "adopt", "replace", "update"} => tx[r].circuit \in Circuits
  /\ \A w \in Workers : run[w].pc # "idle" => run[w].circuit \in Circuits
  /\ \A r \in Requests : Creating(r) =>
       /\ status[tx[r].circuit] = "absent"
       /\ \A w \in Workers : run[w].circuit # tx[r].circuit
       /\ \A q \in Requests \ {r} : tx[q].circuit # tx[r].circuit

LEMMA NoScanType == NoScan \in Scan
BY DEF NoScan, Scan

LEMMA NoRunType == NoRun \in Run
BY NoScanType DEF NoRun, Run, Status

LEMMA NoTransactionType == NoTransaction \in Transaction
BY NoScanType DEF NoTransaction, Transaction

LEMMA DevicesType ==
  ASSUME NEW E \in SUBSET Endpoint
  PROVE  DevicesOf(E) \subseteq Devices
BY EndpointParts DEF DevicesOf

LEMMA RunScanType ==
  ASSUME Types, NEW w \in Workers
  PROVE  RunScan(w) \in Scan /\ DevicesOf(run[w].loaded) \subseteq Devices
<1>1. run[w].loaded \in SUBSET Endpoint  BY DEF Types, Run
<1>2. Reserving \in SUBSET Circuits  BY DEF Reserving
<1>3. DevicesOf(run[w].loaded) \in SUBSET Devices  BY <1>1, DevicesType
<1>4. View(run[w].loaded) \in [Circuits -> SUBSET Endpoint]  BY <1>1, ViewType DEF Types
<1>. QED  BY <1>2, <1>3, <1>4, ScanType DEF RunScan, Types

\* The rows a scan leaves.
LEMMA WriteScanParts ==
  ASSUME Types, NEW E \in [Circuits -> SUBSET Endpoint], NEW scan \in Scan, WriteScan(E, scan)
  PROVE  /\ eps' \in [Circuits -> SUBSET Endpoint] /\ inventory' \subseteq Entry
         /\ \A c \in Circuits : \A g \in eps'[c] : \E e \in E[c] :
              /\ g.row = e.row /\ g.at.device = e.at.device
              /\ g.alias => e.alias /\ \A o \in scan.renamed : o.row # e.row
         /\ \A c \in Circuits : Distinct(E[c]) => Distinct(eps'[c])
<1>1. scan.renamed \in SUBSET Endpoint /\ scan.entries \subseteq Entry  BY DEF Scan
<1>2. \A c \in Circuits : eps'[c] = Renamed(E[c], scan.renamed)  BY DEF WriteScan
<1>3. inventory' \subseteq Entry  BY <1>1 DEF WriteScan, Inventory, Types
<1>4. eps' \in [Circuits -> SUBSET Endpoint]  BY <1>1, RenamedParts DEF WriteScan
<1>. QED  BY <1>1, <1>2, <1>3, <1>4, RenamedParts

LEMMA RequestTypes ==
  ASSUME Types, Owners, PortsAssumption, NEW r \in Requests, Request(r)
  PROVE  Types'
<1>1. tx[r] \in Transaction /\ tx[r].scan \in Scan /\ tx[r].new \subseteq Endpoint
      /\ tx[r].old \subseteq Endpoint /\ tx[r].learned \subseteq Binding
  BY DEF Types, Transaction
<1>2. ASSUME NEW c \in Circuits, NEW e \in Endpoint, create_circuit(r, c, e)
      PROVE  Types'
  <2>1. [NoTransaction EXCEPT !.op = "create", !.circuit = c, !.new = {e}] \in Transaction
    BY NoTransactionType DEF Transaction
  <2>. QED  BY <1>2, <2>1 DEF create_circuit, Operation, Types, PortsAssumption
<1>3. ASSUME NEW c \in Circuits, NEW e \in Endpoint, adopt_circuit(r, c, e)
      PROVE  Types'
  <2>1. [eps EXCEPT ![c] = {e}] \in [Circuits -> SUBSET Endpoint] /\ Reserving \union {c} \in SUBSET Circuits
        /\ {e.at.device} \in SUBSET Devices
    BY EndpointParts DEF Types, Reserving
  <2>2. ScanOf([eps EXCEPT ![c] = {e}], Reserving \union {c}, {e.at.device}, learned) \in Scan
    BY <2>1, ScanType DEF Types
  <2> DEFINE scan == ScanOf([eps EXCEPT ![c] = {e}], Reserving \union {c}, {e.at.device}, learned)
  <2>3. scan \in Scan  BY <2>2
  <2>4. tx' = [tx EXCEPT ![r] = [NoTransaction EXCEPT !.op = "adopt", !.circuit = c, !.new = {e}, !.scan = scan]]
    BY <1>3 DEF adopt_circuit
  <2> HIDE DEF scan
  <2>5. [NoTransaction EXCEPT !.op = "adopt", !.circuit = c, !.new = {e}, !.scan = scan] \in Transaction
    BY <2>3, NoTransactionType DEF Transaction
  <2>. QED  BY <1>3, <2>4, <2>5 DEF adopt_circuit, Operation, Types, PortsAssumption
<1>4. ASSUME NEW c \in Circuits, NEW e \in Endpoint, replace_endpoints(r, c, e)
      PROVE  Types'
  <2>1. eps[c] \subseteq Endpoint  BY DEF Types
  <2>2. [NoTransaction EXCEPT !.op = "replace", !.circuit = c, !.old = eps[c], !.new = {e}] \in Transaction
    BY <2>1, NoTransactionType DEF Transaction
  <2>. QED  BY <1>4, <2>2 DEF replace_endpoints, Operation, Types, PortsAssumption
<1>5. ASSUME NEW c \in Circuits, NEW e \in Endpoint, NEW old \in eps[c], update_endpoint(r, c, old, e)
      PROVE  Types'
  <2>1. old \in Endpoint  BY DEF Types
  <2>2. [NoTransaction EXCEPT !.op = "update", !.circuit = c, !.old = {old}, !.new = {e}] \in Transaction
    BY <2>1, NoTransactionType DEF Transaction
  <2>. QED  BY <1>5, <2>2 DEF update_endpoint, Operation, Types, PortsAssumption
<1>6. CASE CommitCreate(r)
  BY <1>1, <1>6, NoTransactionType DEF CommitCreate, Types, Owners, Status
<1>7. CASE CommitAdopt(r)
  <2>1. tx[r].circuit \in Circuits  BY <1>7 DEF Owners, CommitAdopt
  <2>2. [eps EXCEPT ![tx[r].circuit] = tx[r].new] \in [Circuits -> SUBSET Endpoint]
    BY <1>1 DEF Types
  <2>3. eps' \in [Circuits -> SUBSET Endpoint] /\ inventory' \subseteq Entry
    BY <1>1, <1>7, <2>2, WriteScanParts DEF CommitAdopt
  <2>4. Moved \subseteq Circuits  BY DEF Moved
  <2>5. status' \in [Circuits -> Status]  BY <1>7, <2>1 DEF CommitAdopt, Types, Status
  <2>. QED  BY <1>7, <2>1, <2>3, <2>4, <2>5, NoTransactionType DEF CommitAdopt, Types
<1>8. CASE CommitReplace(r)
  <2>1. [NoTransaction EXCEPT !.op = "rescan", !.new = tx[r].new] \in Transaction
    BY <1>1, NoTransactionType DEF Transaction
  <2>2. tx[r].circuit \in Circuits  BY <1>8 DEF Owners, CommitReplace
  <2>. QED  BY <1>1, <1>8, <2>1, <2>2 DEF CommitReplace, Types
<1>9. CASE CommitUpdate(r)
  <2>1. tx[r].circuit \in Circuits  BY <1>9 DEF Owners, CommitUpdate
  <2>2. ASSUME NEW o \in tx[r].old, NEW n \in tx[r].new, NEW e \in eps[tx[r].circuit]
        PROVE  Updated(e, o, n) \in Endpoint
    <3>1. o \in Endpoint /\ n \in Endpoint /\ e \in Endpoint  BY <1>1, <2>1 DEF Types
    <3>2. /\ e.row \in Rows
          /\ Written(e.at.device, o.at.device, n.at.device) \in Devices
          /\ Written(e.at.encap, o.at.encap, n.at.encap) \in Tags \union {Untagged}
          /\ n.at.iface \in Interfaces /\ e.at.iface \in Interfaces
          /\ n.alias \in BOOLEAN /\ e.alias \in BOOLEAN
      BY <3>1, EndpointParts DEF Written
    <3>. QED  BY <3>2 DEF Updated, Endpoint, Binding
  <2>3. eps' \in [Circuits -> SUBSET Endpoint]
    BY <1>9, <2>1, <2>2 DEF CommitUpdate, Types
  <2>. QED  BY <1>9, <2>1, <2>3, NoTransactionType DEF CommitUpdate, Types
<1>10. CASE CommitScan(r)
  <2>1. eps' \in [Circuits -> SUBSET Endpoint] /\ inventory' \subseteq Entry
    BY <1>1, <1>10, WriteScanParts DEF CommitScan, Types
  <2>2. Moved \subseteq Circuits  BY DEF Moved
  <2>. QED  BY <1>1, <1>10, <2>1, <2>2, NoTransactionType DEF CommitScan, Types
<1>11. CASE Rescan(r)
  <2>1. DevicesOf(tx[r].new) \in SUBSET Devices /\ Reserving \in SUBSET Circuits
    BY <1>1, DevicesType DEF Reserving
  <2> DEFINE scan == ScanOf(eps, Reserving, DevicesOf(tx[r].new), learned)
  <2>2. scan \in Scan  BY <2>1, ScanType DEF Types
  <2>3. tx' = [tx EXCEPT ![r] = [NoTransaction EXCEPT !.op = "scan", !.scan = scan]]
    BY <1>11 DEF Rescan, Scans
  <2> HIDE DEF scan
  <2>4. [NoTransaction EXCEPT !.op = "scan", !.scan = scan] \in Transaction
    BY <2>2, NoTransactionType DEF Transaction
  <2>. QED  BY <1>11, <2>3, <2>4 DEF Rescan, Types, history
<1>12. CASE RequestFails(r)
  BY <1>12, NoTransactionType DEF RequestFails, Types, history
<1>13. ASSUME NEW device \in Devices, StartScan(r, device)
       PROVE  Types'
  <2>1. {device} \in SUBSET Devices /\ Reserving \in SUBSET Circuits  BY DEF Reserving
  <2> DEFINE scan == ScanOf(eps, Reserving, {device}, learned)
  <2>2. scan \in Scan  BY <2>1, ScanType DEF Types
  <2>3. tx' = [tx EXCEPT ![r] = [NoTransaction EXCEPT !.op = "scan", !.scan = scan]]
    BY <1>13 DEF StartScan, Scans
  <2> HIDE DEF scan
  <2>4. [NoTransaction EXCEPT !.op = "scan", !.scan = scan] \in Transaction
    BY <2>2, NoTransactionType DEF Transaction
  <2>. QED  BY <1>13, <2>3, <2>4 DEF StartScan, Operation, Types, PortsAssumption, history
<1>14. ASSUME NEW device \in Devices, NEW snapshot \in SUBSET Found, learn_device(r, device, snapshot)
       PROVE  Types'
  <2>1. {device} \in SUBSET Devices /\ Reserving \in SUBSET Circuits /\ snapshot \in SUBSET Binding
    BY DEF Reserving, PortsAssumption
  <2> DEFINE scan == ScanOf(eps, Reserving, {device}, snapshot)
  <2>2. scan \in Scan  BY <2>1, ScanType DEF Types
  <2>3. tx' = [tx EXCEPT ![r] = [NoTransaction EXCEPT !.op = "learn", !.scan = scan, !.learned = snapshot]]
    BY <1>14 DEF learn_device
  <2> HIDE DEF scan
  <2>4. [NoTransaction EXCEPT !.op = "learn", !.scan = scan, !.learned = snapshot] \in Transaction
    BY <2>1, <2>2, NoTransactionType DEF Transaction
  <2>. QED  BY <1>14, <2>3, <2>4 DEF learn_device, Operation, Types, PortsAssumption, history
<1>. QED
  BY <1>2, <1>3, <1>4, <1>5, <1>6, <1>7, <1>8, <1>9, <1>10, <1>11, <1>12, <1>13, <1>14 DEF Request

LEMMA WorkTypes ==
  ASSUME Types, Owners, PortsAssumption, NEW w \in Workers, Work(w)
  PROVE  Types'
<1>1. /\ run[w] \in Run /\ run[w].scan \in Scan /\ run[w].outcome \in Status
      /\ RunScan(w) \in Scan /\ DevicesOf(run[w].loaded) \subseteq Devices
  BY RunScanType DEF Types, Run, Status
<1>2. Moved \subseteq Circuits  BY DEF Moved
<1>3. ASSUME NEW c \in Circuits, NEW type \in {"apply", "decommission"}, StartRun(w, c, type)
      PROVE  Types'
  <2>1. eps[c] \subseteq Endpoint  BY DEF Types
  <2>2. [NoRun EXCEPT !.pc = "located", !.circuit = c, !.type = type, !.loaded = eps[c]] \in Run
    BY <2>1, NoRunType DEF Run
  <2>. QED  BY <1>3, <2>2 DEF StartRun, Operation, Types, Status, PortsAssumption, history
<1>4. CASE Acquire(w)
  <2>1. [run[w] EXCEPT !.pc = "locked", !.held = DevicesOf(run[w].loaded)] \in Run
    BY <1>1 DEF Run
  <2>2. run' = [run EXCEPT ![w] = [run[w] EXCEPT !.pc = "locked", !.held = DevicesOf(run[w].loaded)]]
    BY <1>4 DEF Acquire, Types, Run
  <2>. QED  BY <1>4, <2>1, <2>2 DEF Acquire, Types, history
<1>5. CASE Preflight(w)
  <2> DEFINE pc == IF Passes(w) THEN "checked" ELSE "ended"
             scan == RunScan(w)
  <2>1. run' = [run EXCEPT ![w] = [run[w] EXCEPT !.pc = pc, !.outcome = "failed", !.scan = scan]]
    BY <1>5 DEF Preflight
  <2>2. scan \in Scan /\ pc \in {"checked", "ended"}  BY <1>1
  <2> HIDE DEF pc, scan
  <2>3. [run[w] EXCEPT !.pc = pc, !.outcome = "failed", !.scan = scan] \in Run
    BY <1>1, <2>2 DEF Run, Status
  <2>4. run[w].circuit \in Circuits  BY <1>5 DEF Owners, Preflight
  <2>. QED  BY <1>5, <2>1, <2>3, <2>4 DEF Preflight, Types
<1>6. CASE ExecuteAdopted(w)
  <2> DEFINE scan == RunScan(w)
             outcome == IF run[w].type = "apply" THEN "active" ELSE "decommissioned"
  <2>1. run' = [run EXCEPT ![w] = [run[w] EXCEPT !.pc = "ended", !.scan = scan, !.outcome = outcome]]
    BY <1>6 DEF ExecuteAdopted
  <2>2. scan \in Scan /\ outcome \in {"active", "failed", "decommissioned"}  BY <1>1
  <2> HIDE DEF scan, outcome
  <2>3. [run[w] EXCEPT !.pc = "ended", !.scan = scan, !.outcome = outcome] \in Run
    BY <1>1, <2>2 DEF Run
  <2>. QED  BY <1>6, <2>1, <2>3 DEF ExecuteAdopted, Types, history
<1>7. CASE BeginRun(w)
  <2>1. run[w].circuit \in Circuits  BY <1>7 DEF Owners, BeginRun
  <2>2. eps' \in [Circuits -> SUBSET Endpoint] /\ inventory' \subseteq Entry
    BY <1>1, <1>7, WriteScanParts DEF BeginRun, Types
  <2>3. eps'[run[w].circuit] \subseteq Endpoint  BY <2>1, <2>2
  <2> DEFINE r1 == [run[w] EXCEPT !.pc = "running", !.scan = NoScan, !.loaded = eps'[run[w].circuit]]
  <2>4. r1 \in Run  BY <1>1, <2>3, NoScanType DEF Run
  <2>5. run' = [run EXCEPT ![w] = r1]  BY <1>7 DEF BeginRun, Types, Run
  <2> HIDE DEF r1
  <2>6. status' \in [Circuits -> Status]  BY <1>7, <2>1 DEF BeginRun, Types, Status
  <2>7. run' \in [Workers -> Run]  BY <2>4, <2>5 DEF Types
  <2>8. /\ UNCHANGED <<adopted, learned, tx, operations>>
        /\ validated' = validated \ Moved /\ contested' = contested \union Moved
    BY <1>7 DEF BeginRun
  <2>. QED  BY <1>2, <2>2, <2>6, <2>7, <2>8 DEF Types
<1>8. ASSUME NEW ok \in BOOLEAN, EndRun(w, ok)
      PROVE  Types'
  <2> DEFINE scan == RunScan(w)
             outcome == IF ~ok THEN "failed" ELSE IF run[w].type = "apply" THEN "active" ELSE "decommissioned"
  <2>1. run' = [run EXCEPT ![w] = [run[w] EXCEPT !.pc = "ended", !.outcome = outcome, !.scan = scan]]
    BY <1>8 DEF EndRun
  <2>2. scan \in Scan /\ outcome \in {"active", "failed", "decommissioned"}  BY <1>1
  <2> HIDE DEF scan, outcome
  <2>3. [run[w] EXCEPT !.pc = "ended", !.outcome = outcome, !.scan = scan] \in Run
    BY <1>1, <2>2 DEF Run
  <2>. QED  BY <1>8, <2>1, <2>3 DEF EndRun, Types, history
<1>9. CASE Raises(w)
  <2>1. [run[w] EXCEPT !.pc = "ended", !.outcome = "failed"] \in Run
    BY <1>1 DEF Run, Status
  <2>2. run' = [run EXCEPT ![w] = [run[w] EXCEPT !.pc = "ended", !.outcome = "failed"]]
    BY <1>9 DEF Raises, Types, Run
  <2>. QED  BY <1>9, <2>1, <2>2 DEF Raises, Types, history
<1>10. CASE CommitRun(w)
  <2>1. run[w].circuit \in Circuits  BY <1>10 DEF Owners, CommitRun
  <2>2. eps' \in [Circuits -> SUBSET Endpoint] /\ inventory' \subseteq Entry
    BY <1>1, <1>10, WriteScanParts DEF CommitRun, Types
  <2>. QED  BY <1>1, <1>2, <1>10, <2>1, <2>2, NoRunType DEF CommitRun, Types
<1>11. CASE AbortRun(w)
  BY <1>11, NoRunType DEF AbortRun, Types
<1>. QED
  BY <1>3, <1>4, <1>5, <1>6, <1>7, <1>8, <1>9, <1>10, <1>11 DEF Work

LEMMA TypesKept ==
  ASSUME Types, Owners, PortsAssumption, [Next]_vars
  PROVE  Types'
<1>1. CASE UNCHANGED vars  BY <1>1 DEF Types, vars, history
<1>2. ASSUME NEW c \in Circuits, NEW e \in Endpoint, add_endpoint(c, e)
      PROVE  Types'
  BY <1>2 DEF add_endpoint, Operation, Types, PortsAssumption
<1>3. ASSUME NEW c \in Circuits, NEW e \in eps[c], delete_endpoint(c, e)
      PROVE  Types'
  BY <1>3 DEF delete_endpoint, Operation, Types, PortsAssumption
<1>4. ASSUME NEW c \in Circuits, delete_circuit(c)
      PROVE  Types'
  BY <1>4 DEF delete_circuit, Operation, Types, Status, PortsAssumption
<1>. QED  BY <1>1, <1>2, <1>3, <1>4, RequestTypes, WorkTypes DEF Next

-----------------------------------------------------------------------------
(* Rows keep apart. *)

\* A step after which c may have rows with the ids N, and rows have no other
\* new ids.
Adds(c, N) ==
  \A d \in Circuits : /\ Distinct(eps'[d])
                      /\ \A g \in eps'[d] : \/ \E e \in eps[d] : g.row = e.row
                                            \/ d = c /\ g.row \in N

LEMMA RowsStep ==
  ASSUME RowsApart, Fresh, NEW c, NEW N, Adds(c, N),
         \A d \in Circuits : \A e \in eps[d] : e.row \notin N,
         \A q \in Requests : tx'[q].op \in Adding => tx'[q] = tx[q] /\ \A e \in tx[q].new : e.row \notin N
  PROVE  RowsApart' /\ Fresh'
<1>. USE DEF Adds
<1>1. ASSUME NEW a \in Circuits, NEW b \in Circuits, NEW e \in eps'[a], NEW f \in eps'[b], e.row = f.row
      PROVE  a = b /\ e = f
  <2>1. a = b
    <3>1. CASE e.row \in N  BY <1>1, <3>1
    <3>2. CASE e.row \notin N
      <4>1. PICK e0 \in eps[a], f0 \in eps[b] : e0.row = e.row /\ f0.row = f.row  BY <1>1, <3>2
      <4>. QED  BY <1>1, <4>1 DEF RowsApart
    <3>. QED  BY <3>1, <3>2
  <2>. QED  BY <1>1, <2>1 DEF Distinct
<1>2. RowsApart'  BY <1>1 DEF RowsApart
<1>3. ASSUME NEW r \in Requests, tx'[r].op \in Adding
      PROVE  /\ Distinct(tx'[r].new)
             /\ \A d \in Circuits : \A e \in tx'[r].new, f \in eps'[d] : e.row # f.row
  <2>1. tx'[r] = tx[r] /\ \A e \in tx[r].new : e.row \notin N  BY <1>3
  <2>2. /\ Distinct(tx[r].new)
        /\ \A d \in Circuits : \A e \in tx[r].new, f \in eps[d] : e.row # f.row
    BY <1>3, <2>1 DEF Fresh
  <2>3. ASSUME NEW d \in Circuits, NEW e \in tx[r].new, NEW f \in eps'[d], e.row = f.row
        PROVE  FALSE
    <3>1. PICK f0 \in eps[d] : f.row = f0.row  BY <2>1, <2>3
    <3>. QED  BY <2>2, <2>3, <3>1
  <2>. QED  BY <2>1, <2>2, <2>3 DEF Distinct
<1>4. \A r, q \in Requests : tx'[r].op \in Adding /\ tx'[q].op \in Adding /\ r # q =>
        \A e \in tx'[r].new, f \in tx'[q].new : e.row # f.row
  BY DEF Fresh
<1>5. Fresh'  BY <1>3, <1>4 DEF Fresh, Distinct
<1>. QED  BY <1>2, <1>5

\* A step that adds none.
LEMMA RowsStay ==
  ASSUME RowsApart, Fresh,
         \A d \in Circuits : Distinct(eps'[d]) /\ \A g \in eps'[d] : \E e \in eps[d] : g.row = e.row,
         \A q \in Requests : tx'[q].op \in Adding => tx'[q] = tx[q]
  PROVE  RowsApart' /\ Fresh'
<1>1. /\ \A d \in Circuits : \A e \in eps[d] : e.row \notin {}
      /\ \A q \in Requests : \A e \in tx[q].new : e.row \notin {}
  OBVIOUS
<1> DEFINE N == {}
<1>2. /\ \A d \in Circuits : \A e \in eps[d] : e.row \notin N
      /\ \A q \in Requests : tx'[q].op \in Adding => tx'[q] = tx[q] /\ \A e \in tx[q].new : e.row \notin N
  BY <1>1
<1> HIDE DEF N
<1>3. Adds(0, N)  BY DEF Adds
<1>. QED  BY <1>2, <1>3, RowsStep

\* A request that begins with a row of its own.
LEMMA RowsPlanned ==
  ASSUME Types, RowsApart, Fresh, NEW r \in Requests, NEW e \in Endpoint, e.row \in FreeRows,
         NEW t, t.new = {e}, tx' = [tx EXCEPT ![r] = t], eps' = eps
  PROVE  RowsApart' /\ Fresh'
<1>1. \A q \in Requests : tx'[q] = IF q = r THEN t ELSE tx[q]  BY DEF Types
<1>2. /\ \A c \in Circuits : \A f \in eps[c] : f.row # e.row
      /\ \A q \in Requests : \A f \in tx[q].new : f.row # e.row
  BY DEF FreeRows, AllRows
<1>3. RowsApart'  BY DEF RowsApart
<1>4. Fresh'  BY <1>1, <1>2 DEF Fresh, Distinct
<1>. QED  BY <1>3, <1>4

LEMMA DistinctRows ==
  ASSUME RowsApart, NEW c \in Circuits
  PROVE  Distinct(eps[c])
BY DEF RowsApart, Distinct

LEMMA RequestRows ==
  ASSUME Types, RowsApart, Fresh, Owners, NEW r \in Requests, Request(r)
  PROVE  RowsApart' /\ Fresh'
<1>1. /\ tx[r] \in Transaction /\ tx[r].scan \in Scan /\ tx[r].new \subseteq Endpoint
      /\ tx \in [Requests -> Transaction] /\ eps \in [Circuits -> SUBSET Endpoint]
  BY DEF Types, Transaction
<1>2. NoTransaction.op \notin Adding /\ NoTransaction.new = {}  BY DEF NoTransaction, Adding
<1>3. ASSUME NEW t, tx' = [tx EXCEPT ![r] = t], t.op \notin Adding, eps' = eps
      PROVE  RowsApart' /\ Fresh'
  BY <1>1, <1>3, RowsStay, DistinctRows
<1>4. ASSUME NEW c \in Circuits, NEW e \in Endpoint, create_circuit(r, c, e)
      PROVE  RowsApart' /\ Fresh'
  <2>1. [NoTransaction EXCEPT !.op = "create", !.circuit = c, !.new = {e}].new = {e}  BY DEF NoTransaction
  <2>. QED  BY <1>4, <2>1, RowsPlanned DEF create_circuit
<1>5. ASSUME NEW c \in Circuits, NEW e \in Endpoint, adopt_circuit(r, c, e)
      PROVE  RowsApart' /\ Fresh'
  <2> DEFINE scan == ScanOf([eps EXCEPT ![c] = {e}], Reserving \union {c}, {e.at.device}, learned)
             t == [NoTransaction EXCEPT !.op = "adopt", !.circuit = c, !.new = {e}, !.scan = scan]
  <2>1. t.new = {e}  BY DEF NoTransaction
  <2>2. tx' = [tx EXCEPT ![r] = t] /\ eps' = eps /\ e.row \in FreeRows  BY <1>5 DEF adopt_circuit
  <2> HIDE DEF t
  <2>. QED  BY <2>1, <2>2, RowsPlanned
<1>6. ASSUME NEW c \in Circuits, NEW e \in Endpoint, replace_endpoints(r, c, e)
      PROVE  RowsApart' /\ Fresh'
  <2>1. [NoTransaction EXCEPT !.op = "replace", !.circuit = c, !.old = eps[c], !.new = {e}].new = {e}
    BY DEF NoTransaction
  <2>. QED  BY <1>6, <2>1, RowsPlanned DEF replace_endpoints
<1>7. ASSUME NEW c \in Circuits, NEW e \in Endpoint, NEW old \in eps[c], update_endpoint(r, c, old, e)
      PROVE  RowsApart' /\ Fresh'
  <2>1. [NoTransaction EXCEPT !.op = "update", !.circuit = c, !.old = {old}, !.new = {e}].op \notin Adding
    BY DEF NoTransaction, Adding
  <2>. QED  BY <1>3, <1>7, <2>1 DEF update_endpoint
<1>8. ASSUME tx[r].op \in Adding, tx'[r].op \notin Adding, \A q \in Requests \ {r} : tx'[q] = tx[q],
             NEW c, Adds(c, {e.row : e \in tx[r].new})
      PROVE  RowsApart' /\ Fresh'
  <2> DEFINE N == {e.row : e \in tx[r].new}
  <2>1. \A d \in Circuits : \A e \in eps[d] : e.row \notin N  BY <1>8 DEF Fresh
  <2>2. \A q \in Requests : tx'[q].op \in Adding => q # r /\ tx'[q] = tx[q]  BY <1>8
  <2>3. \A q \in Requests : tx'[q].op \in Adding => tx'[q] = tx[q] /\ \A e \in tx[q].new : e.row \notin N
    BY <1>8, <2>2 DEF Fresh
  <2>4. Adds(c, N)  BY <1>8
  <2> HIDE DEF N
  <2>. QED  BY <2>1, <2>3, <2>4, RowsStep
<1>9. CASE CommitCreate(r)
  <2> DEFINE c == tx[r].circuit
  <2>1. tx[r].op \in Adding /\ Distinct(tx[r].new) /\ c \in Circuits
    BY <1>9 DEF CommitCreate, Adding, Fresh, Owners
  <2>2. eps' = [eps EXCEPT ![c] = tx[r].new] /\ tx' = [tx EXCEPT ![r] = NoTransaction]
    BY <1>9 DEF CommitCreate
  <2> HIDE DEF c
  <2>3. \A d \in Circuits : eps'[d] = IF d = c THEN tx[r].new ELSE eps[d]
    BY <1>1, <2>1, <2>2
  <2>4. \A d \in Circuits : Distinct(eps'[d])  BY <2>1, <2>3, DistinctRows
  <2>5. Adds(c, {e.row : e \in tx[r].new})  BY <2>3, <2>4 DEF Adds
  <2>. QED  BY <1>1, <1>2, <1>8, <2>1, <2>2, <2>5
<1>10. CASE CommitAdopt(r)
  <2> DEFINE c == tx[r].circuit
             E == [eps EXCEPT ![c] = tx[r].new]
  <2>1. tx[r].op \in Adding /\ Distinct(tx[r].new) /\ c \in Circuits
    BY <1>10 DEF CommitAdopt, Adding, Fresh, Owners
  <2>2. WriteScan(E, tx[r].scan) /\ tx' = [tx EXCEPT ![r] = NoTransaction]
    BY <1>10 DEF CommitAdopt
  <2> HIDE DEF c
  <2>3. E \in [Circuits -> SUBSET Endpoint] /\ \A d \in Circuits : E[d] = IF d = c THEN tx[r].new ELSE eps[d]
    BY <1>1, <2>1
  <2> HIDE DEF E
  <2>4. \A d \in Circuits : Distinct(E[d])  BY <2>1, <2>3, DistinctRows
  <2>5. \A d \in Circuits : Distinct(eps'[d]) /\ \A g \in eps'[d] : \E e \in E[d] : g.row = e.row
    BY <1>1, <2>2, <2>3, <2>4, WriteScanParts
  <2>6. Adds(c, {e.row : e \in tx[r].new})  BY <2>3, <2>5 DEF Adds
  <2>. QED  BY <1>1, <1>2, <1>8, <2>1, <2>2, <2>6
<1>11. CASE CommitReplace(r)
  <2> DEFINE t == [NoTransaction EXCEPT !.op = "rescan", !.new = tx[r].new]
             c == tx[r].circuit
             kept == {e \in eps[c] : \A o \in tx[r].old : o.row # e.row}
  <2>1. tx[r].op \in Adding /\ Distinct(tx[r].new) /\ c \in Circuits
    BY <1>11 DEF CommitReplace, Adding, Fresh, Owners
  <2>2. t.op \notin Adding  BY DEF NoTransaction, Adding
  <2>3. tx' = [tx EXCEPT ![r] = t] /\ eps' = [eps EXCEPT ![c] = kept \union tx[r].new]
    BY <1>11 DEF CommitReplace
  <2> HIDE DEF c, t
  <2>4. \A d \in Circuits : eps'[d] = IF d = c THEN kept \union tx[r].new ELSE eps[d]
    BY <1>1, <2>1, <2>3
  <2>5. \A e \in tx[r].new, f \in eps[c] : e.row # f.row  BY <2>1 DEF Fresh
  <2>6. Distinct(kept \union tx[r].new)
    <3>1. Distinct(eps[c])  BY <2>1, DistinctRows
    <3>. QED  BY <2>1, <2>5, <3>1 DEF Distinct
  <2>7. \A d \in Circuits : Distinct(eps'[d])  BY <2>4, <2>6, DistinctRows
  <2>8. Adds(c, {e.row : e \in tx[r].new})  BY <2>4, <2>7 DEF Adds
  <2>. QED  BY <1>1, <1>8, <2>1, <2>2, <2>3, <2>8
<1>12. CASE CommitUpdate(r)
  <2> DEFINE c == tx[r].circuit
  <2>1. c \in Circuits  BY <1>12 DEF CommitUpdate, Owners
  <2>2. PICK o \in tx[r].old, n \in tx[r].new, e \in eps[c] :
           eps' = [eps EXCEPT ![c] = (@ \ {e}) \union {Updated(e, o, n)}]
    BY <1>12 DEF CommitUpdate
  <2> HIDE DEF c
  <2>3. Updated(e, o, n).row = e.row  BY DEF Updated
  <2>4. eps'[c] = (eps[c] \ {e}) \union {Updated(e, o, n)}  BY <1>1, <2>1, <2>2
  <2>5. \A d \in Circuits : d # c => eps'[d] = eps[d]  BY <1>1, <2>2
  <2>6. Distinct(eps'[c])
    <3>1. Distinct(eps[c])  BY <2>1, DistinctRows
    <3>. QED  BY <2>3, <2>4, <3>1 DEF Distinct
  <2>7. \A d \in Circuits : Distinct(eps'[d]) /\ \A g \in eps'[d] : \E f \in eps[d] : g.row = f.row
    BY <2>3, <2>4, <2>5, <2>6, DistinctRows
  <2>8. \A q \in Requests : tx'[q].op \in Adding => tx'[q] = tx[q]
    BY <1>1, <1>2, <1>12 DEF CommitUpdate
  <2>. QED  BY <2>7, <2>8, RowsStay
<1>13. CASE CommitScan(r)
  <2>1. \A d \in Circuits : Distinct(eps'[d]) /\ \A g \in eps'[d] : \E f \in eps[d] : g.row = f.row
    BY <1>1, <1>13, WriteScanParts, DistinctRows DEF CommitScan
  <2>2. \A q \in Requests : tx'[q].op \in Adding => tx'[q] = tx[q]
    BY <1>1, <1>2, <1>13 DEF CommitScan
  <2>. QED  BY <2>1, <2>2, RowsStay
<1>14. CASE Rescan(r) \/ \E device \in Devices : StartScan(r, device)
  <2>1. PICK D : Scans(r, D) /\ eps' = eps  BY <1>14 DEF Rescan, StartScan
  <2> DEFINE scan == ScanOf(eps, Reserving, D, learned)
             t == [NoTransaction EXCEPT !.op = "scan", !.scan = scan]
  <2>2. tx' = [tx EXCEPT ![r] = t]  BY <2>1 DEF Scans
  <2>3. t.op \notin Adding  BY DEF NoTransaction, Adding
  <2> HIDE DEF t
  <2>. QED  BY <1>3, <2>1, <2>2, <2>3
<1>15. CASE RequestFails(r)  BY <1>2, <1>3, <1>15 DEF RequestFails
<1>16. ASSUME NEW device \in Devices, NEW snapshot \in SUBSET Found, learn_device(r, device, snapshot)
       PROVE  RowsApart' /\ Fresh'
  <2> DEFINE scan == ScanOf(eps, Reserving, {device}, snapshot)
             t == [NoTransaction EXCEPT !.op = "learn", !.scan = scan, !.learned = snapshot]
  <2>1. tx' = [tx EXCEPT ![r] = t] /\ eps' = eps  BY <1>16 DEF learn_device
  <2>2. t.op \notin Adding  BY DEF NoTransaction, Adding
  <2> HIDE DEF t
  <2>. QED  BY <1>3, <2>1, <2>2
<1>. QED
  BY <1>4, <1>5, <1>6, <1>7, <1>9, <1>10, <1>11, <1>12, <1>13, <1>14, <1>15, <1>16 DEF Request

LEMMA RowsKept ==
  ASSUME Types, RowsApart, Fresh, Owners, [Next]_vars
  PROVE  RowsApart' /\ Fresh'
<1>1. eps \in [Circuits -> SUBSET Endpoint] /\ \A c \in Circuits : Distinct(eps[c])
  BY DistinctRows DEF Types
<1>2. CASE UNCHANGED <<eps, tx>>  BY <1>2 DEF RowsApart, Fresh, Distinct
<1>3. ASSUME NEW c \in Circuits, NEW e \in Endpoint, add_endpoint(c, e)
      PROVE  RowsApart' /\ Fresh'
  <2> DEFINE N == {e.row}
  <2>1. /\ \A d \in Circuits : \A f \in eps[d] : f.row \notin N
        /\ \A q \in Requests : \A f \in tx[q].new : f.row \notin N
    BY <1>3 DEF add_endpoint, FreeRows, AllRows
  <2>2. tx' = tx /\ \A d \in Circuits : eps'[d] = IF d = c THEN eps[d] \union {e} ELSE eps[d]
    BY <1>1, <1>3 DEF add_endpoint
  <2>3. Adds(c, N)  BY <1>1, <2>1, <2>2 DEF Distinct, Adds
  <2> HIDE DEF N
  <2>. QED  BY <2>1, <2>2, <2>3, RowsStep
<1>4. ASSUME UNCHANGED tx, \A d \in Circuits : eps'[d] \subseteq eps[d]
      PROVE  RowsApart' /\ Fresh'
  BY <1>1, <1>4, RowsStay DEF Distinct
<1>5. ASSUME NEW c \in Circuits, delete_circuit(c) \/ \E e \in eps[c] : delete_endpoint(c, e)
      PROVE  RowsApart' /\ Fresh'
  BY <1>1, <1>4, <1>5 DEF delete_circuit, delete_endpoint
<1>6. ASSUME NEW w \in Workers, Work(w)
      PROVE  RowsApart' /\ Fresh'
  <2>1. CASE BeginRun(w) \/ CommitRun(w)
    <3>1. WriteScan(eps, run[w].scan) /\ run[w].scan \in Scan /\ tx' = tx
      BY <2>1 DEF BeginRun, CommitRun, Types, Run
    <3>2. \A d \in Circuits : Distinct(eps'[d]) /\ \A g \in eps'[d] : \E f \in eps[d] : g.row = f.row
      BY <1>1, <3>1, WriteScanParts
    <3>. QED  BY <3>1, <3>2, RowsStay
  <2>2. CASE ~(BeginRun(w) \/ CommitRun(w))
    BY <1>2, <1>6, <2>2 DEF Work, StartRun, Acquire, Preflight, ExecuteAdopted, EndRun, Raises, AbortRun
  <2>. QED  BY <2>1, <2>2
<1>. QED  BY <1>2, <1>3, <1>5, <1>6, RequestRows DEF Next, vars

-----------------------------------------------------------------------------
(* Who works on what. *)

\* What of a transaction Owners is about.
LEMMA OwnersByRequest ==
  ASSUME Types, Owners, NEW r \in Requests, NEW t, tx' = [tx EXCEPT ![r] = t], run' = run,
         t.op \in {"create", "adopt", "replace", "update"} => t.circuit \in Circuits,
         t.op \in {"create", "adopt"} => New(t.circuit),
         \A q \in Requests \ {r} : Creating(q) => t.circuit # tx[q].circuit /\ status'[tx[q].circuit] = "absent",
         t.op \in {"create", "adopt"} => status' = status
  PROVE  Owners'
<1>1. \A q \in Requests : tx'[q] = IF q = r THEN t ELSE tx[q]  BY DEF Types
<1>2. \A q \in Requests : tx'[q].op \in {"create", "adopt", "replace", "update"} => tx'[q].circuit \in Circuits
  BY <1>1 DEF Owners
<1>3. \A w \in Workers : run'[w].pc # "idle" => run'[w].circuit \in Circuits
  BY DEF Owners
<1>4. ASSUME NEW q \in Requests, tx'[q].op \in {"create", "adopt"}
      PROVE  /\ status'[tx'[q].circuit] = "absent"
             /\ \A w \in Workers : run'[w].circuit # tx'[q].circuit
             /\ \A p \in Requests \ {q} : tx'[p].circuit # tx'[q].circuit
  <2>1. CASE q = r  BY <1>1, <1>4, <2>1 DEF New
  <2>2. CASE q # r  BY <1>1, <1>4, <2>2 DEF Owners, Creating
  <2>. QED  BY <2>1, <2>2
<1>. QED  BY <1>2, <1>3, <1>4 DEF Owners, Creating

LEMMA RequestOwners ==
  ASSUME Types, Owners, PortsAssumption, NEW r \in Requests, Request(r)
  PROVE  Owners'
<1>1. tx[r] \in Transaction /\ status \in [Circuits -> Status]  BY DEF Types
<1>2. NoTransaction.op = "none" /\ NoTransaction.circuit = Nobody  BY DEF NoTransaction
<1>3. \A q \in Requests : Creating(q) => tx[q].circuit \in Circuits /\ status[tx[q].circuit] = "absent"
  BY DEF Owners, Creating
\* A request that is over, or scans.
<1>4. ASSUME NEW t, tx' = [tx EXCEPT ![r] = t], run' = run, t.circuit = Nobody,
             t.op \notin {"create", "adopt", "replace", "update"},
             \A q \in Requests \ {r} : Creating(q) => status'[tx[q].circuit] = "absent"
      PROVE  Owners'
  BY <1>3, <1>4, OwnersByRequest DEF PortsAssumption
\* A request on a circuit that exists.
<1>5. ASSUME NEW t, tx' = [tx EXCEPT ![r] = t], run' = run, status' = status,
             t.circuit \in Circuits, status[t.circuit] # "absent", t.op \in {"replace", "update"}
      PROVE  Owners'
  <2>1. \A q \in Requests \ {r} : Creating(q) => t.circuit # tx[q].circuit /\ status'[tx[q].circuit] = "absent"
    BY <1>3, <1>5
  <2>2. t.op \notin {"create", "adopt"}  BY <1>5
  <2>. QED  BY <1>5, <2>1, <2>2, OwnersByRequest
\* A request on a new one.
<1>6. ASSUME NEW t, tx' = [tx EXCEPT ![r] = t], run' = run, status' = status,
             t.circuit \in Circuits, New(t.circuit), t.op \in {"create", "adopt"}
      PROVE  Owners'
  <2>1. \A q \in Requests \ {r} : Creating(q) => t.circuit # tx[q].circuit /\ status'[tx[q].circuit] = "absent"
    BY <1>3, <1>6 DEF New
  <2>. QED  BY <1>6, <2>1, OwnersByRequest
<1>7. ASSUME NEW c \in Circuits, NEW e \in Endpoint, create_circuit(r, c, e)
      PROVE  Owners'
  <2> DEFINE t == [NoTransaction EXCEPT !.op = "create", !.circuit = c, !.new = {e}]
  <2>1. t.circuit = c /\ t.op = "create"  BY DEF NoTransaction
  <2>2. tx' = [tx EXCEPT ![r] = t] /\ run' = run /\ status' = status /\ New(c)  BY <1>7 DEF create_circuit
  <2> HIDE DEF t
  <2>. QED  BY <1>6, <2>1, <2>2
<1>8. ASSUME NEW c \in Circuits, NEW e \in Endpoint, adopt_circuit(r, c, e)
      PROVE  Owners'
  <2> DEFINE scan == ScanOf([eps EXCEPT ![c] = {e}], Reserving \union {c}, {e.at.device}, learned)
             t == [NoTransaction EXCEPT !.op = "adopt", !.circuit = c, !.new = {e}, !.scan = scan]
  <2>1. t.circuit = c /\ t.op = "adopt"  BY DEF NoTransaction
  <2>2. tx' = [tx EXCEPT ![r] = t] /\ run' = run /\ status' = status /\ New(c)  BY <1>8 DEF adopt_circuit
  <2> HIDE DEF t
  <2>. QED  BY <1>6, <2>1, <2>2
<1>9. ASSUME NEW c \in Circuits, NEW e \in Endpoint, replace_endpoints(r, c, e)
      PROVE  Owners'
  <2> DEFINE t == [NoTransaction EXCEPT !.op = "replace", !.circuit = c, !.old = eps[c], !.new = {e}]
  <2>1. t.circuit = c /\ t.op = "replace"  BY DEF NoTransaction
  <2>2. tx' = [tx EXCEPT ![r] = t] /\ run' = run /\ status' = status /\ status[c] # "absent"
    BY <1>9 DEF replace_endpoints
  <2> HIDE DEF t
  <2>. QED  BY <1>5, <2>1, <2>2
<1>10. ASSUME NEW c \in Circuits, NEW e \in Endpoint, NEW old \in eps[c], update_endpoint(r, c, old, e)
       PROVE  Owners'
  <2> DEFINE t == [NoTransaction EXCEPT !.op = "update", !.circuit = c, !.old = {old}, !.new = {e}]
  <2>1. t.circuit = c /\ t.op = "update"  BY DEF NoTransaction
  <2>2. tx' = [tx EXCEPT ![r] = t] /\ run' = run /\ status' = status /\ status[c] # "absent"
    BY <1>10 DEF update_endpoint
  <2> HIDE DEF t
  <2>. QED  BY <1>5, <2>1, <2>2
<1>11. CASE CommitCreate(r) \/ CommitAdopt(r)
  <2>1. /\ tx' = [tx EXCEPT ![r] = NoTransaction] /\ run' = run
        /\ \E s : status' = [status EXCEPT ![tx[r].circuit] = s]
        /\ Creating(r)
    BY <1>11 DEF CommitCreate, CommitAdopt, Creating
  <2>2. \A q \in Requests \ {r} : Creating(q) => tx[q].circuit # tx[r].circuit
    BY DEF Owners
  <2>3. \A q \in Requests \ {r} : Creating(q) => status'[tx[q].circuit] = "absent"
    BY <1>1, <1>3, <2>1, <2>2
  <2>. QED  BY <1>2, <1>4, <2>1, <2>3
<1>12. CASE CommitReplace(r)
  <2> DEFINE t == [NoTransaction EXCEPT !.op = "rescan", !.new = tx[r].new]
  <2>1. t.circuit = Nobody /\ t.op = "rescan"  BY DEF NoTransaction
  <2>2. tx' = [tx EXCEPT ![r] = t] /\ run' = run /\ status' = status  BY <1>12 DEF CommitReplace
  <2> HIDE DEF t
  <2>. QED  BY <1>3, <1>4, <2>1, <2>2
<1>13. CASE CommitUpdate(r) \/ CommitScan(r) \/ RequestFails(r)
  BY <1>2, <1>3, <1>4, <1>13 DEF CommitUpdate, CommitScan, RequestFails
<1>14. CASE Rescan(r) \/ \E device \in Devices : StartScan(r, device)
  <2>1. PICK D : Scans(r, D) /\ run' = run /\ status' = status  BY <1>14 DEF Rescan, StartScan
  <2> DEFINE scan == ScanOf(eps, Reserving, D, learned)
             t == [NoTransaction EXCEPT !.op = "scan", !.scan = scan]
  <2>2. tx' = [tx EXCEPT ![r] = t]  BY <2>1 DEF Scans
  <2>3. t.circuit = Nobody /\ t.op = "scan"  BY DEF NoTransaction
  <2> HIDE DEF t
  <2>. QED  BY <1>3, <1>4, <2>1, <2>2, <2>3
<1>15. ASSUME NEW device \in Devices, NEW snapshot \in SUBSET Found, learn_device(r, device, snapshot)
       PROVE  Owners'
  <2> DEFINE scan == ScanOf(eps, Reserving, {device}, snapshot)
             t == [NoTransaction EXCEPT !.op = "learn", !.scan = scan, !.learned = snapshot]
  <2>1. tx' = [tx EXCEPT ![r] = t] /\ run' = run /\ status' = status  BY <1>15 DEF learn_device
  <2>2. t.circuit = Nobody /\ t.op = "learn"  BY DEF NoTransaction
  <2> HIDE DEF t
  <2>. QED  BY <1>3, <1>4, <2>1, <2>2
<1>. QED
  BY <1>7, <1>8, <1>9, <1>10, <1>11, <1>12, <1>13, <1>14, <1>15 DEF Request

LEMMA OwnersKept ==
  ASSUME Types, Owners, PortsAssumption, [Next]_vars
  PROVE  Owners'
<1>1. /\ status \in [Circuits -> Status] /\ run \in [Workers -> Run]
      /\ \A q \in Requests : Creating(q) => tx[q].circuit \in Circuits /\ status[tx[q].circuit] = "absent"
  BY DEF Types, Owners, Creating
<1>2. CASE UNCHANGED <<status, run, tx>>  BY <1>2 DEF Owners, Creating
<1>3. ASSUME NEW c \in Circuits, delete_circuit(c)
      PROVE  Owners'
  <2>1. run' = run /\ tx' = tx /\ \A d \in Circuits : status[d] = "absent" => status'[d] = "absent"
    BY <1>1, <1>3 DEF delete_circuit
  <2>. QED  BY <1>1, <2>1 DEF Owners, Creating
\* A run leaves what requests create alone.
<1>4. ASSUME NEW w \in Workers, tx' = tx, \A v \in Workers \ {w} : run'[v] = run[v],
             run'[w].circuit \in Circuits \/ (run'[w].pc = "idle" /\ run'[w].circuit = Nobody),
             \A q \in Requests : Creating(q) => run'[w].circuit # tx[q].circuit
                                                /\ status'[tx[q].circuit] = "absent"
      PROVE  Owners'
  BY <1>4 DEF Owners, Creating
<1>5. ASSUME NEW w \in Workers, Work(w)
      PROVE  Owners'
  <2>1. /\ \A q \in Requests : Creating(q) => run[w].circuit # tx[q].circuit /\ tx[q].circuit # Nobody
        /\ run[w].pc # "idle" => run[w].circuit \in Circuits
        /\ NoRun.circuit = Nobody /\ NoRun.pc = "idle"
    BY <1>1 DEF Owners, PortsAssumption, NoRun
  <2>2. \A v \in Workers \ {w} : run'[v] = run[v]
    BY <1>1, <1>5 DEF Work, StartRun, Acquire, Preflight, ExecuteAdopted, BeginRun, EndRun, Raises,
       CommitRun, AbortRun
  <2>3. CASE \E c \in Circuits, type \in {"apply", "decommission"} : StartRun(w, c, type)
    <3>1. PICK c \in Circuits, type \in {"apply", "decommission"} : StartRun(w, c, type)  BY <2>3
    <3> DEFINE r1 == [NoRun EXCEPT !.pc = "located", !.circuit = c, !.type = type, !.loaded = eps[c]]
    <3>2. r1.circuit = c  BY DEF NoRun
    <3>3. run' = [run EXCEPT ![w] = r1] /\ tx' = tx /\ status[c] # "absent"  BY <3>1 DEF StartRun
    <3> HIDE DEF r1
    <3>4. run'[w].circuit = c  BY <1>1, <3>2, <3>3
    <3>5. \A d \in Circuits : status[d] = "absent" => status'[d] = "absent"
      BY <1>1, <3>1 DEF StartRun
    <3>6. \A q \in Requests : Creating(q) => run'[w].circuit # tx[q].circuit
                                              /\ status'[tx[q].circuit] = "absent"
      BY <1>1, <3>3, <3>4, <3>5
    <3>. QED  BY <1>4, <2>2, <3>3, <3>4, <3>6
  <2>4. CASE CommitRun(w) \/ AbortRun(w)
    <3>1. run'[w] = NoRun /\ tx' = tx  BY <1>1, <2>4 DEF CommitRun, AbortRun
    <3>2. \A q \in Requests : Creating(q) => status'[tx[q].circuit] = "absent"
      BY <1>1, <2>1, <2>4 DEF CommitRun, AbortRun
    <3>. QED  BY <1>4, <2>1, <2>2, <3>1, <3>2
  <2>5. CASE BeginRun(w)
    <3>1. run'[w].circuit = run[w].circuit /\ tx' = tx /\ run[w].pc # "idle"
      BY <1>1, <2>5 DEF BeginRun, Run
    <3>2. \A q \in Requests : Creating(q) => status'[tx[q].circuit] = "absent"
      BY <1>1, <2>1, <2>5 DEF BeginRun
    <3>3. \A q \in Requests : Creating(q) => run'[w].circuit # tx[q].circuit
                                              /\ status'[tx[q].circuit] = "absent"
      BY <2>1, <3>1, <3>2
    <3>4. run'[w].circuit \in Circuits  BY <2>1, <3>1
    <3>. QED  BY <1>4, <2>2, <3>1, <3>3, <3>4
  <2>6. CASE Acquire(w) \/ Preflight(w) \/ ExecuteAdopted(w) \/ Raises(w) \/ \E ok \in BOOLEAN : EndRun(w, ok)
    <3>1. run'[w].circuit = run[w].circuit /\ tx' = tx /\ status' = status /\ run[w].pc # "idle"
      <4>1. CASE Acquire(w)  BY <1>1, <4>1 DEF Acquire, Run
      <4>2. CASE Preflight(w)  BY <1>1, <4>2 DEF Preflight
      <4>3. CASE ExecuteAdopted(w)  BY <1>1, <4>3 DEF ExecuteAdopted
      <4>4. CASE Raises(w)  BY <1>1, <4>4 DEF Raises, Run
      <4>5. CASE \E ok \in BOOLEAN : EndRun(w, ok)  BY <1>1, <4>5 DEF EndRun
      <4>. QED  BY <2>6, <4>1, <4>2, <4>3, <4>4, <4>5
    <3>2. \A q \in Requests : Creating(q) => run'[w].circuit # tx[q].circuit
                                              /\ status'[tx[q].circuit] = "absent"
      BY <1>1, <2>1, <3>1
    <3>3. run'[w].circuit \in Circuits  BY <2>1, <3>1
    <3>. QED  BY <1>4, <2>2, <3>1, <3>2, <3>3
  <2>. QED  BY <1>5, <2>3, <2>4, <2>5, <2>6 DEF Work
<1>6. ASSUME NEW c \in Circuits, \/ \E e \in Endpoint : add_endpoint(c, e)
                                 \/ \E e \in eps[c] : delete_endpoint(c, e)
      PROVE  Owners'
  BY <1>2, <1>6 DEF add_endpoint, delete_endpoint
<1>. QED  BY <1>2, <1>3, <1>5, <1>6, RequestOwners DEF Next, vars

-----------------------------------------------------------------------------

LEMMA InitHolds == PortsAssumption /\ Init => Types /\ RowsApart /\ Fresh /\ Owners
<1> SUFFICES ASSUME PortsAssumption, Init PROVE Types /\ RowsApart /\ Fresh /\ Owners
  OBVIOUS
<1>1. Types  BY NoRunType, NoTransactionType DEF Init, Types, Status, PortsAssumption
<1>2. RowsApart  BY DEF Init, RowsApart
<1>3. \A r \in Requests : tx[r].op = "none"  BY DEF Init, NoTransaction
<1>4. \A w \in Workers : run[w].pc = "idle"  BY DEF Init, NoRun
<1>5. Fresh  BY <1>3 DEF Fresh, Adding
<1>6. Owners  BY <1>3, <1>4 DEF Owners, Creating
<1>. QED  BY <1>1, <1>2, <1>5, <1>6

BaseInv == Types /\ RowsApart /\ Fresh /\ Owners

LEMMA BaseKept == PortsAssumption /\ BaseInv /\ [Next]_vars => BaseInv'
BY TypesKept, RowsKept, OwnersKept DEF BaseInv

LEMMA BaseHolds == Spec => []BaseInv
<1>1. Init => BaseInv  BY InitHolds, PortsAssumption DEF BaseInv
<1>2. BaseInv /\ [Next]_vars => BaseInv'  BY BaseKept, PortsAssumption
<1>. QED  BY <1>1, <1>2, PTL DEF Spec

\* Every variable keeps its type, and no two endpoints share a row: requests
\* that add rows at the same time, replacements that keep what they did not
\* load, and renamings by sessions that loaded the rows long before.
THEOREM TypeCorrect == Spec => []TypeOK
<1>1. BaseInv => TypeOK  BY DEF BaseInv, TypeOK, Types, RowsApart
<1>. QED  BY <1>1, BaseHolds, PTL

-----------------------------------------------------------------------------
(* Reservations. *)

Plain(c) == \A e \in eps[c] : ~e.alias

\* Circuits whose reservations the checks of requests answer for.
Sure == {c \in Circuits \ contested : status[c] # "absent"}

\* A request that may still write rows.
Live(r) ==
  \/ Creating(r)
  \/ tx[r].op \in {"replace", "update"} /\ status[tx[r].circuit] # "absent"

\* The rows a request is going to write conflict with no reservation.
Cleared(r) ==
  LET c == tx[r].circuit IN
  /\ \A d \in Reserving \ contested : d # c => \A f \in eps[d], e \in tx[r].new : ~Conflict(f.at, e.at)
  /\ tx[r].op = "update" => \A o \in tx[r].old, e \in eps[c] : e.row = o.row => e.at = o.at

ReserveInv ==
  /\ ReservationsApart
  /\ \A c \in Sure : Plain(c)
  /\ \A r \in Requests : tx[r].op = "adopt" => tx[r].circuit \in contested
  /\ \A r, q \in Requests : r # q /\ Live(r) /\ Live(q) =>
       tx[r].circuit \in contested \/ tx[q].circuit \in contested
  /\ \A r \in Requests : Live(r) /\ tx[r].circuit \notin contested => Cleared(r)

LEMMA ConflictSymmetric ==
  ASSUME NEW a, NEW b, Conflict(a, b)
  PROVE  Conflict(b, a)
BY DEF Conflict, SamePort

LEMMA LiveParts ==
  ASSUME Owners, NEW r \in Requests, Live(r)
  PROVE  /\ tx[r].circuit \in Circuits /\ tx[r].op \in {"create", "adopt", "replace", "update"}
         /\ Creating(r) => \A q \in Requests \ {r} : tx[q].circuit # tx[r].circuit
BY DEF Live, Creating, Owners

\* A step that adds no reservation but of contested circuits.
Keeps ==
  /\ Reserving' \ contested' \subseteq Reserving \ contested
  /\ \A c \in Sure' : /\ c \in Sure
                      /\ \A g \in eps'[c] : \E e \in eps[c] : /\ g.row = e.row /\ g.at = e.at
                                                              /\ g.alias => e.alias
  /\ \A q \in Requests : Live(q)' =>
       /\ tx'[q] = tx[q] /\ Live(q)
       /\ tx[q].circuit \in contested => tx[q].circuit \in contested'

LEMMA ReserveStep ==
  ASSUME Owners', ReserveInv, Keeps
  PROVE  ReserveInv'
<1>1. /\ Reserving' \ contested' \subseteq Sure'
      /\ Reserving \ contested \subseteq Circuits
  BY DEF Reserving, Sure, Deployed
<1>2. ReservationsApart'
  <2> SUFFICES ASSUME NEW c \in Reserving' \ contested', NEW d \in Reserving' \ contested', c # d,
                      NEW e \in eps'[c], NEW f \in eps'[d], Conflict(e.at, f.at)
               PROVE  FALSE
    BY DEF ReservationsApart, Collide
  <2>1. PICK e0 \in eps[c], f0 \in eps[d] : e0.at = e.at /\ f0.at = f.at  BY <1>1 DEF Keeps
  <2>2. c \in Reserving \ contested /\ d \in Reserving \ contested  BY DEF Keeps
  <2>. QED  BY <2>1, <2>2 DEF ReserveInv, ReservationsApart, Collide
<1>3. \A c \in Sure' : Plain(c)'  BY DEF Keeps, ReserveInv, Plain
<1>4. \A r \in Requests : tx'[r].op = "adopt" => tx'[r].circuit \in contested'
  BY DEF Keeps, ReserveInv, Live, Creating
<1>5. \A r, q \in Requests : r # q /\ Live(r)' /\ Live(q)' =>
        tx'[r].circuit \in contested' \/ tx'[q].circuit \in contested'
  BY DEF Keeps, ReserveInv
<1>6. ASSUME NEW r \in Requests, Live(r)', tx'[r].circuit \notin contested'
      PROVE  Cleared(r)'
  <2>1. Cleared(r) /\ tx'[r] = tx[r]  BY <1>6 DEF Keeps, ReserveInv
  <2>2. ASSUME NEW d \in Reserving' \ contested', d # tx[r].circuit, NEW f \in eps'[d], NEW e \in tx[r].new
        PROVE  ~Conflict(f.at, e.at)
    <3>1. PICK f0 \in eps[d] : f0.at = f.at  BY <1>1 DEF Keeps
    <3>2. d \in Reserving \ contested  BY DEF Keeps
    <3>. QED  BY <2>1, <2>2, <3>1, <3>2 DEF Cleared
  <2>3. ASSUME tx[r].op = "update", NEW o \in tx[r].old, NEW g \in eps'[tx[r].circuit], g.row = o.row
        PROVE  g.at = o.at
    <3>1. tx[r].circuit \in Sure'
      BY <1>6, <2>1, <2>3 DEF Live, Creating, Owners, Sure
    <3>2. PICK e \in eps[tx[r].circuit] : g.row = e.row /\ g.at = e.at  BY <3>1 DEF Keeps
    <3>. QED  BY <2>1, <2>3, <3>2 DEF Cleared
  <2>. QED  BY <2>1, <2>2, <2>3 DEF Cleared
<1>. QED  BY <1>2, <1>3, <1>4, <1>5, <1>6 DEF ReserveInv

\* A request that begins.
LEMMA ReserveStart ==
  ASSUME Types, ReserveInv, NEW r \in Requests, NEW t, tx' = [tx EXCEPT ![r] = t],
         eps' = eps, status' = status, contested \subseteq contested',
         t.op \in {"create", "adopt", "replace", "update"},
         \/ t.circuit \in contested'
         \/ /\ t.op # "adopt" /\ ~Overlaps(r)
            /\ \A d \in Reserving \ {t.circuit} : \A f \in eps[d], e \in t.new : ~f.alias => ~Conflict(f.at, e.at)
            /\ t.op = "update" => \A o \in t.old, e \in eps[t.circuit] : e.row = o.row => e.at = o.at
  PROVE  ReserveInv'
<1>1. \A q \in Requests : tx'[q] = IF q = r THEN t ELSE tx[q]  BY DEF Types
<1>2. Reserving' = Reserving /\ Sure' \subseteq Sure /\ Reserving \ contested \subseteq Sure
  BY DEF Reserving, Sure, Deployed
<1>3. ReservationsApart'
  BY <1>2 DEF ReserveInv, ReservationsApart, Collide
<1>4. \A c \in Sure' : Plain(c)'  BY <1>2 DEF ReserveInv, Plain
<1>5. \A q \in Requests : tx'[q].op = "adopt" => tx'[q].circuit \in contested'
  BY <1>1 DEF ReserveInv
<1>6. \A q \in Requests \ {r} : Live(q)' <=> Live(q)  BY <1>1 DEF Live, Creating
<1>7. t.circuit \notin contested' => \A q \in Requests \ {r} : ~Live(q)
  BY DEF Overlaps, Live, Creating
<1>8. \A p, q \in Requests : p # q /\ Live(p)' /\ Live(q)' =>
        tx'[p].circuit \in contested' \/ tx'[q].circuit \in contested'
  BY <1>1, <1>6, <1>7 DEF ReserveInv
<1>9. ASSUME NEW q \in Requests, Live(q)', tx'[q].circuit \notin contested'
      PROVE  Cleared(q)'
  <2>1. CASE q # r
    <3>1. tx'[q] = tx[q] /\ Cleared(q)  BY <1>1, <1>6, <1>9, <2>1 DEF ReserveInv
    <3>. QED  BY <1>2, <3>1 DEF Cleared
  <2>2. CASE q = r
    <3>1. tx'[q] = t  BY <1>1, <2>2
    <3>2. \A d \in Reserving \ contested : Plain(d)  BY <1>2 DEF ReserveInv
    <3>3. \A d \in Reserving' \ contested' : d # t.circuit => \A f \in eps'[d], e \in t.new : ~Conflict(f.at, e.at)
      BY <1>2, <1>9, <3>1, <3>2 DEF Plain
    <3>4. t.op = "update" => \A o \in t.old, e \in eps'[t.circuit] : e.row = o.row => e.at = o.at
      BY <1>9, <3>1
    <3>. QED  BY <3>1, <3>3, <3>4 DEF Cleared
  <2>. QED  BY <2>1, <2>2
<1>. QED  BY <1>3, <1>4, <1>5, <1>8, <1>9 DEF ReserveInv

\* A request that writes the rows it has been cleared for.
LEMMA ReserveCommit ==
  ASSUME ReserveInv, NEW r \in Requests, NEW c, c = tx[r].circuit, c \notin contested, Live(r),
         contested' = contested, ~Live(r)',
         \A d \in Circuits \ {c} : eps'[d] = eps[d] /\ status'[d] = status[d],
         \A q \in Requests \ {r} : Live(q)' => tx'[q] = tx[q] /\ Live(q),
         \A g \in eps'[c] : ~g.alias /\ ((g \in eps[c] /\ c \in Sure) \/ \E n \in tx[r].new : n.at = g.at),
         c \in Reserving' /\ c \in Sure => c \in Reserving
  PROVE  ReserveInv'
<1>1. Cleared(r)  BY DEF ReserveInv
<1>2. \A d \in Circuits \ {c} : /\ d \in Reserving' \ contested' <=> d \in Reserving \ contested
                                /\ d \in Sure' <=> d \in Sure
  BY DEF Reserving, Sure
<1>3. ASSUME NEW d \in Reserving' \ contested', d # c, NEW g \in eps'[c], c \in Reserving', NEW f \in eps'[d]
      PROVE  ~Conflict(g.at, f.at) /\ ~Conflict(f.at, g.at)
  <2>1. d \in Reserving \ contested /\ f \in eps[d]  BY <1>2, <1>3 DEF Reserving
  <2>2. CASE g \in eps[c] /\ c \in Sure
    BY <1>3, <2>1, <2>2 DEF ReserveInv, ReservationsApart, Collide
  <2>3. CASE \E n \in tx[r].new : n.at = g.at
    BY <1>1, <1>3, <2>1, <2>3, ConflictSymmetric DEF Cleared
  <2>. QED  BY <1>3, <2>2, <2>3
<1>4. ReservationsApart'
  <2> SUFFICES ASSUME NEW a \in Reserving' \ contested', NEW b \in Reserving' \ contested', a # b,
                      NEW e \in eps'[a], NEW f \in eps'[b], Conflict(e.at, f.at)
               PROVE  FALSE
    BY DEF ReservationsApart, Collide
  <2>1. CASE a = c \/ b = c  BY <1>3, <2>1
  <2>2. CASE a # c /\ b # c
    <3>1. a \in Reserving \ contested /\ b \in Reserving \ contested /\ e \in eps[a] /\ f \in eps[b]
      BY <1>2, <2>2 DEF Reserving
    <3>. QED  BY <3>1 DEF ReserveInv, ReservationsApart, Collide
  <2>. QED  BY <2>1, <2>2
<1>5. \A d \in Sure' : Plain(d)'
  BY <1>2 DEF ReserveInv, Plain, Sure
<1>6. \A q \in Requests : tx'[q].op = "adopt" => tx'[q].circuit \in contested'
  BY DEF ReserveInv, Live, Creating
<1>7. \A p, q \in Requests : p # q /\ Live(p)' /\ Live(q)' =>
        tx'[p].circuit \in contested' \/ tx'[q].circuit \in contested'
  BY DEF ReserveInv
<1>8. \A q \in Requests : Live(q)' => tx'[q].circuit \in contested'
  BY DEF ReserveInv
<1>. QED  BY <1>4, <1>5, <1>6, <1>7, <1>8 DEF ReserveInv

\* A scan moves no row of a circuit that is not Moved.
LEMMA ScanKeepsRows ==
  ASSUME Types, RowsApart, NEW E \in [Circuits -> SUBSET Endpoint], NEW scan \in Scan, WriteScan(E, scan),
         NEW c \in Circuits \ Moved, E[c] = eps[c]
  PROVE  \A g \in eps'[c] : \E e \in eps[c] : /\ g.row = e.row /\ g.at = e.at
                                              /\ g.alias => e.alias /\ \A o \in scan.renamed : o.row # e.row
<1> TAKE g \in eps'[c]
<1>1. PICK e \in eps[c] : g.row = e.row /\ (g.alias => e.alias /\ \A o \in scan.renamed : o.row # e.row)
  BY WriteScanParts
<1>2. PICK f \in eps[c] : f.row = g.row /\ f.at = g.at  BY Unmoved
<1>3. e = f  BY <1>1, <1>2 DEF RowsApart
<1>. QED  BY <1>1, <1>2, <1>3

LEMMA WriteScanKeeps ==
  ASSUME Types, RowsApart, NEW E \in [Circuits -> SUBSET Endpoint], NEW scan \in Scan, WriteScan(E, scan),
         contested \union Moved \subseteq contested',
         \A c \in Circuits \ contested' : status'[c] # "absent" => status[c] # "absent" /\ E[c] = eps[c],
         Reserving' \ contested' \subseteq Reserving,
         \A q \in Requests : Live(q)' => tx'[q] = tx[q] /\ Live(q)
  PROVE  Keeps
<1>1. \A c \in Sure' : /\ c \in Sure /\ c \in Circuits \ Moved /\ E[c] = eps[c]
  BY DEF Sure
<1>2. \A c \in Sure' : \A g \in eps'[c] : \E e \in eps[c] : g.row = e.row /\ g.at = e.at /\ (g.alias => e.alias)
  BY <1>1, ScanKeepsRows
<1>. QED  BY <1>1, <1>2 DEF Keeps

\* A step that leaves the rows.
LEMMA SameRowsKeep ==
  ASSUME eps' = eps, contested' = contested, Reserving' \subseteq Reserving,
         \A c \in Circuits : status[c] = "absent" => status'[c] = "absent",
         \A q \in Requests : Live(q)' => tx'[q] = tx[q] /\ Live(q)
  PROVE  Keeps
BY DEF Keeps, Sure

\* Requests that are left alone are as live as before.
LEMMA OthersLive ==
  ASSUME Owners, \A c \in Circuits : status[c] = "absent" => status'[c] = "absent",
         NEW q \in Requests, tx'[q] = tx[q], Live(q)'
  PROVE  Live(q)
BY DEF Live, Creating, Owners

LEMMA ReserveRuns ==
  ASSUME BaseInv, BaseInv', PortsAssumption, ReserveInv, NEW w \in Workers, Work(w)
  PROVE  ReserveInv'
<1>. USE DEF BaseInv
<1>1. /\ status \in [Circuits -> Status] /\ run \in [Workers -> Run] /\ eps \in [Circuits -> SUBSET Endpoint]
      /\ run[w].scan \in Scan
  BY DEF Types, Run
<1>2. run[w].pc # "idle" => run[w].circuit \in Circuits  BY DEF Owners
<1>3. CASE BeginRun(w) \/ CommitRun(w)
  <2>1. WriteScan(eps, run[w].scan) /\ contested \union Moved \subseteq contested' /\ tx' = tx
    BY <1>3 DEF BeginRun, CommitRun
  <2>2. \A c \in Circuits : status[c] = "absent" => status'[c] = "absent"
    BY <1>1, <1>2, <1>3 DEF BeginRun, CommitRun
  <2>3. Reserving' \ contested' \subseteq Reserving
    <3>1. CASE BeginRun(w)
      <4>1. \A c \in Circuits : status'[c] # status[c] => status[c] \notin {"absent", "active", "decommissioned"}
        BY <1>1, <1>2, <3>1 DEF BeginRun
      <4>. QED  BY <1>1, <4>1 DEF Reserving, Deployed, Status
    <3>2. CASE CommitRun(w)
      <4> DEFINE c == run[w].circuit
      <4>1. /\ \A d \in Circuits \ {c} : status'[d] = status[d]
            /\ status[c] # "absent" /\ c \in Circuits /\ status'[c] = run[w].outcome
            /\ status[c] = "decommissioned" /\ run[w].outcome # "decommissioned" => c \in contested'
        BY <1>1, <1>2, <3>2 DEF CommitRun
      <4>. QED  BY <1>1, <4>1 DEF Reserving, Deployed, Status
    <3>. QED  BY <1>3, <3>1, <3>2
  <2>4. \A q \in Requests : Live(q)' => tx'[q] = tx[q] /\ Live(q)  BY <2>1, <2>2, OthersLive
  <2>5. \A c \in Circuits \ contested' : status'[c] # "absent" => status[c] # "absent" /\ eps[c] = eps[c]
    BY <2>2
  <2>6. Keeps  BY <1>1, <2>1, <2>3, <2>4, <2>5, WriteScanKeeps
  <2>. QED  BY <2>6, ReserveStep
<1>4. CASE ~(BeginRun(w) \/ CommitRun(w))
  <2>1. eps' = eps /\ contested' = contested /\ tx' = tx
    BY <1>4 DEF Work, StartRun, Acquire, Preflight, ExecuteAdopted, EndRun, Raises, AbortRun, history
  <2>2. \/ status' = status
        \/ \E c \in Circuits, type \in {"apply", "decommission"} : StartRun(w, c, type)
    BY <1>4 DEF Work, Acquire, Preflight, ExecuteAdopted, EndRun, Raises, AbortRun
  <2>3. \A c \in Circuits : status'[c] # status[c] => status[c] \notin {"absent", "active", "decommissioned"}
    BY <1>1, <2>2 DEF StartRun
  <2>4. Reserving' \subseteq Reserving  BY <1>1, <2>3 DEF Reserving, Deployed, Status
  <2>5. \A c \in Circuits : status[c] = "absent" => status'[c] = "absent"  BY <2>3
  <2>6. \A q \in Requests : Live(q)' => tx'[q] = tx[q] /\ Live(q)  BY <2>1, <2>5, OthersLive
  <2>7. Keeps  BY <2>1, <2>4, <2>5, <2>6, SameRowsKeep
  <2>. QED  BY <2>7, ReserveStep
<1>. QED  BY <1>3, <1>4

\* A check before which no circuit has a name spelled otherwise.
LEMMA CheckClears ==
  ASSUME NEW c, NEW e, check_endpoint_available(c, e.at, inventory)
  PROVE  \A d \in Reserving \ {c} : \A f \in eps[d], n \in {e} : ~f.alias => ~Conflict(f.at, n.at)
BY DEF check_endpoint_available

LEMMA ReserveBegins ==
  ASSUME BaseInv, ReserveInv, NEW r \in Requests, NEW c \in Circuits, NEW e \in Endpoint,
         \/ create_circuit(r, c, e) \/ adopt_circuit(r, c, e) \/ replace_endpoints(r, c, e)
         \/ \E old \in eps[c] : update_endpoint(r, c, old, e)
  PROVE  ReserveInv'
<1>. USE DEF BaseInv
<1>1. CASE create_circuit(r, c, e)
  <2> DEFINE t == [NoTransaction EXCEPT !.op = "create", !.circuit = c, !.new = {e}]
  <2>1. t.op = "create" /\ t.circuit = c /\ t.new = {e}  BY DEF NoTransaction
  <2>2. tx' = [tx EXCEPT ![r] = t] /\ eps' = eps /\ status' = status /\ contested \subseteq contested'
    BY <1>1 DEF create_circuit
  <2>3. /\ Overlaps(r) => c \in contested'
        /\ \A d \in Reserving \ {c} : \A f \in eps[d], n \in {e} : ~f.alias => ~Conflict(f.at, n.at)
    BY <1>1, CheckClears DEF create_circuit
  <2> HIDE DEF t
  <2>4. \/ t.circuit \in contested'
        \/ /\ t.op # "adopt" /\ ~Overlaps(r)
           /\ \A d \in Reserving \ {t.circuit} : \A f \in eps[d], n \in t.new : ~f.alias => ~Conflict(f.at, n.at)
           /\ t.op = "update" => \A o \in t.old, n \in eps[t.circuit] : n.row = o.row => n.at = o.at
    BY <2>1, <2>3
  <2>. QED  BY <2>1, <2>2, <2>4, ReserveStart
<1>2. CASE adopt_circuit(r, c, e)
  <2> DEFINE scan == ScanOf([eps EXCEPT ![c] = {e}], Reserving \union {c}, {e.at.device}, learned)
             t == [NoTransaction EXCEPT !.op = "adopt", !.circuit = c, !.new = {e}, !.scan = scan]
  <2>1. t.op = "adopt" /\ t.circuit = c  BY DEF NoTransaction
  <2>2. /\ tx' = [tx EXCEPT ![r] = t] /\ eps' = eps /\ status' = status /\ contested \subseteq contested'
        /\ c \in contested'
    BY <1>2 DEF adopt_circuit
  <2> HIDE DEF t
  <2>. QED  BY <2>1, <2>2, ReserveStart
<1>3. CASE replace_endpoints(r, c, e)
  <2> DEFINE t == [NoTransaction EXCEPT !.op = "replace", !.circuit = c, !.old = eps[c], !.new = {e}]
  <2>1. t.op = "replace" /\ t.circuit = c /\ t.new = {e}  BY DEF NoTransaction
  <2>2. tx' = [tx EXCEPT ![r] = t] /\ eps' = eps /\ status' = status /\ contested \subseteq contested'
    BY <1>3 DEF replace_endpoints
  <2>3. /\ Overlaps(r) \/ c \in adopted => c \in contested'
        /\ c \notin adopted => check_endpoint_available(c, e.at, inventory)
    BY <1>3 DEF replace_endpoints, Allowed
  <2>4. c \notin contested' =>
          \A d \in Reserving \ {c} : \A f \in eps[d], n \in {e} : ~f.alias => ~Conflict(f.at, n.at)
    BY <2>3, CheckClears
  <2> HIDE DEF t
  <2>5. \/ t.circuit \in contested'
        \/ /\ t.op # "adopt" /\ ~Overlaps(r)
           /\ \A d \in Reserving \ {t.circuit} : \A f \in eps[d], n \in t.new : ~f.alias => ~Conflict(f.at, n.at)
           /\ t.op = "update" => \A o \in t.old, n \in eps[t.circuit] : n.row = o.row => n.at = o.at
    BY <2>1, <2>3, <2>4
  <2>. QED  BY <2>1, <2>2, <2>5, ReserveStart
<1>4. ASSUME NEW old \in eps[c], update_endpoint(r, c, old, e)
      PROVE  ReserveInv'
  <2> DEFINE t == [NoTransaction EXCEPT !.op = "update", !.circuit = c, !.old = {old}, !.new = {e}]
  <2>1. t.op = "update" /\ t.circuit = c /\ t.new = {e} /\ t.old = {old}  BY DEF NoTransaction
  <2>2. tx' = [tx EXCEPT ![r] = t] /\ eps' = eps /\ status' = status /\ contested \subseteq contested'
    BY <1>4 DEF update_endpoint
  <2>3. /\ Overlaps(r) => c \in contested'
        /\ \A d \in Reserving \ {c} : \A f \in eps[d], n \in {e} : ~f.alias => ~Conflict(f.at, n.at)
    BY <1>4, CheckClears DEF update_endpoint
  <2>4. \A o \in {old}, n \in eps[c] : n.row = o.row => n.at = o.at  BY DEF RowsApart
  <2> HIDE DEF t
  <2>5. \/ t.circuit \in contested'
        \/ /\ t.op # "adopt" /\ ~Overlaps(r)
           /\ \A d \in Reserving \ {t.circuit} : \A f \in eps[d], n \in t.new : ~f.alias => ~Conflict(f.at, n.at)
           /\ t.op = "update" => \A o \in t.old, n \in eps[t.circuit] : n.row = o.row => n.at = o.at
    BY <2>1, <2>3, <2>4
  <2>. QED  BY <2>1, <2>2, <2>5, ReserveStart
<1>. QED  BY <1>1, <1>2, <1>3, <1>4

\* A commit by which r is over, on a circuit that is contested or was absent,
\* or that touches no circuit.
LEMMA ReserveCommits ==
  ASSUME BaseInv, BaseInv', ReserveInv, NEW r \in Requests,
         CommitCreate(r) \/ CommitReplace(r) \/ CommitUpdate(r)
  PROVE  ReserveInv'
<1>. USE DEF BaseInv
<1> DEFINE c == tx[r].circuit
<1>1. /\ status \in [Circuits -> Status] /\ eps \in [Circuits -> SUBSET Endpoint] /\ c \in Circuits
      /\ tx[r].new \subseteq Endpoint /\ tx[r].old \subseteq Endpoint
  BY DEF Types, Transaction, Owners, CommitCreate, CommitReplace, CommitUpdate
<1>2. /\ \A q \in Requests \ {r} : tx'[q] = tx[q]
      /\ tx'[r].op \notin {"create", "adopt", "replace", "update"}
  <2>1. [NoTransaction EXCEPT !.op = "rescan", !.new = tx[r].new].op = "rescan" /\ NoTransaction.op = "none"
    BY DEF NoTransaction
  <2>. QED  BY <2>1 DEF Types, CommitCreate, CommitReplace, CommitUpdate
<1>3. ~Live(r)'  BY <1>2 DEF Live, Creating
<1>4. \A d \in Circuits \ {c} : eps'[d] = eps[d] /\ status'[d] = status[d]
  BY <1>1 DEF CommitCreate, CommitReplace, CommitUpdate
<1>5. contested \subseteq contested' /\ contested' \subseteq contested \union {c}
  BY DEF CommitCreate, CommitReplace, CommitUpdate
<1>6. ASSUME NEW q \in Requests \ {r}, Live(q)'
      PROVE  tx'[q] = tx[q] /\ Live(q)
  <2>1. tx'[q] = tx[q]  BY <1>2
  <2>2. CASE Creating(r)  BY <1>4, <1>6, <2>1, <2>2 DEF Live, Creating, Owners
  <2>3. CASE ~Creating(r)
    <3>1. status' = status  BY <2>3 DEF CommitCreate, CommitReplace, CommitUpdate, Creating
    <3>. QED  BY <1>6, <2>1, <3>1 DEF Live, Creating
  <2>. QED  BY <2>1, <2>2, <2>3
\* The circuit is none the checks answer for.
<1>7. CASE c \in contested' \/ status'[c] = "absent"
  <2>1. c \notin Sure' /\ c \notin Reserving' \ contested'  BY <1>7 DEF Sure, Reserving, Deployed
  <2>2. \A d \in Circuits \ {c} : /\ d \in Reserving' <=> d \in Reserving
                                  /\ d \in contested' <=> d \in contested
    BY <1>4, <1>5 DEF Reserving
  <2>3. Reserving' \ contested' \subseteq Reserving \ contested  BY <2>1, <2>2 DEF Reserving
  <2>4. \A d \in Sure' : d \in Sure /\ eps'[d] = eps[d]  BY <1>4, <2>1, <2>2 DEF Sure
  <2>5. Keeps  BY <1>3, <1>5, <1>6, <2>3, <2>4 DEF Keeps
  <2>. QED  BY <2>5, ReserveStep
<1>8. CASE c \notin contested' /\ status'[c] # "absent"
  <2>1. c \notin contested /\ contested' = contested  BY <1>5, <1>8
  <2>2. Live(r)
    BY <1>8 DEF CommitCreate, CommitReplace, CommitUpdate, Live, Creating
  <2>3. c \in Reserving' /\ c \in Sure => c \in Reserving
    <3>1. CASE CommitCreate(r)  BY <3>1 DEF CommitCreate, Owners, Creating, Sure
    <3>2. CASE ~CommitCreate(r)
      <4>1. status' = status  BY <3>2 DEF CommitReplace, CommitUpdate
      <4>. QED  BY <4>1 DEF Reserving
    <3>. QED  BY <3>1, <3>2
  <2>4. c \in Sure => Plain(c)  BY DEF ReserveInv
  <2>5. ASSUME NEW g \in eps'[c]
        PROVE  ~g.alias /\ ((g \in eps[c] /\ c \in Sure) \/ \E n \in tx[r].new : n.at = g.at)
    <3>1. CASE CommitCreate(r)
      <4>1. eps'[c] = tx[r].new /\ ~Aliased(tx[r].new)  BY <1>1, <1>8, <3>1 DEF CommitCreate
      <4>. QED  BY <4>1 DEF Aliased
    <3>2. CASE CommitReplace(r)
      <4>1. g \in eps[c] \/ g \in tx[r].new  BY <1>1, <3>2 DEF CommitReplace
      <4>2. ~Aliased(tx[r].new) /\ c \in Sure  BY <1>1, <1>8, <2>1, <3>2 DEF CommitReplace, Sure
      <4>. QED  BY <2>4, <4>1, <4>2 DEF Aliased, Plain
    <3>3. CASE CommitUpdate(r)
      <4>1. PICK o \in tx[r].old, n \in tx[r].new, e \in eps[c] :
              e.row = o.row /\ eps' = [eps EXCEPT ![c] = (@ \ {e}) \union {Updated(e, o, n)}]
        BY <3>3 DEF CommitUpdate
      <4>2. g \in eps[c] \/ g = Updated(e, o, n)  BY <1>1, <4>1
      <4>3. ~g.alias  BY <1>1, <1>8, <3>3 DEF CommitUpdate, Aliased
      <4>4. c \in Sure  BY <1>1, <1>8, <2>1, <3>3 DEF CommitUpdate, Sure
      <4>5. e.at = o.at  BY <2>1, <2>2, <3>3, <4>1 DEF ReserveInv, Cleared, CommitUpdate
      <4>6. Updated(e, o, n).at = [device |-> n.at.device, iface |-> n.at.iface, encap |-> n.at.encap]
        <5>1. e \in Endpoint /\ o \in Endpoint /\ n \in Endpoint  BY <1>1
        <5>2. /\ Written(e.at.device, o.at.device, n.at.device) = n.at.device
              /\ Written(e.at.encap, o.at.encap, n.at.encap) = n.at.encap
          BY <4>5 DEF Written
        <5>3. (IF n.at.iface # o.at.iface \/ n.alias # o.alias THEN n.at.iface ELSE e.at.iface) = n.at.iface
          BY <4>5
        <5>. QED  BY <5>2, <5>3 DEF Updated
      <4>7. n.at = [device |-> n.at.device, iface |-> n.at.iface, encap |-> n.at.encap]
        BY <1>1 DEF Endpoint, Binding
      <4>. QED  BY <4>2, <4>3, <4>4, <4>6, <4>7
    <3>. QED  BY <3>1, <3>2, <3>3
  <2>. QED  BY <1>3, <1>4, <1>6, <2>1, <2>2, <2>3, <2>5, ReserveCommit
<1>. QED  BY <1>7, <1>8

LEMMA ReserveRequests ==
  ASSUME BaseInv, BaseInv', ReserveInv, NEW r \in Requests, Request(r)
  PROVE  ReserveInv'
<1>. USE DEF BaseInv
<1>1. /\ status \in [Circuits -> Status] /\ eps \in [Circuits -> SUBSET Endpoint]
      /\ tx \in [Requests -> Transaction]
      /\ tx[r] \in Transaction /\ tx[r].scan \in Scan /\ tx[r].new \subseteq Endpoint
  BY DEF Types, Transaction
\* A step by which r is over, or scans, and that leaves the rows.
<1>2. ASSUME NEW t, tx' = [tx EXCEPT ![r] = t], t.op \notin {"create", "adopt", "replace", "update"},
             status' = status, eps' = eps, contested' = contested
      PROVE  ReserveInv'
  <2>1. \A q \in Requests : tx'[q] = IF q = r THEN t ELSE tx[q]  BY <1>1, <1>2
  <2>2. \A q \in Requests : Live(q)' => tx'[q] = tx[q] /\ Live(q)
    BY <1>2, <2>1 DEF Live, Creating
  <2>3. Reserving' \subseteq Reserving  BY <1>2 DEF Reserving
  <2>4. Keeps  BY <1>2, <2>2, <2>3, SameRowsKeep
  <2>. QED  BY <2>4, ReserveStep
<1>3. CASE CommitAdopt(r)
  <2> DEFINE c == tx[r].circuit
             E == [eps EXCEPT ![c] = tx[r].new]
  <2>1. Creating(r) /\ c \in Circuits  BY <1>3 DEF CommitAdopt, Creating, Owners
  <2>2. c \in contested  BY <1>3 DEF CommitAdopt, ReserveInv
  <2>3. /\ WriteScan(E, tx[r].scan) /\ contested' = contested \union Moved
        /\ tx' = [tx EXCEPT ![r] = NoTransaction] /\ status' = [status EXCEPT ![c] = "active"]
    BY <1>3 DEF CommitAdopt
  <2>4. \A q \in Requests \ {r} : Creating(q) => tx[q].circuit # c  BY <2>1 DEF Owners
  <2> HIDE DEF c
  <2>5. E \in [Circuits -> SUBSET Endpoint] /\ \A d \in Circuits \ {c} : E[d] = eps[d]  BY <1>1
  <2> HIDE DEF E
  <2>6. \A d \in Circuits \ {c} : status'[d] = status[d]  BY <1>1, <2>3
  <2>7. tx'[r].op = "none" /\ \A q \in Requests \ {r} : tx'[q] = tx[q]
    BY <1>1, <2>3 DEF NoTransaction
  <2>8. \A q \in Requests : Live(q)' => tx'[q] = tx[q] /\ Live(q)
    <3>1. \A q \in Requests \ {r} : tx[q].circuit # c
      BY <2>1 DEF Owners, c
    <3>. QED  BY <2>6, <2>7, <3>1 DEF Live, Creating, Owners
  <2>9. Reserving' \ contested' \subseteq Reserving  BY <2>2, <2>3, <2>6 DEF Reserving
  <2>10. \A d \in Circuits \ contested' : status'[d] # "absent" => status[d] # "absent" /\ E[d] = eps[d]
    BY <2>2, <2>3, <2>5, <2>6
  <2>11. Keeps  BY <1>1, <2>3, <2>5, <2>8, <2>9, <2>10, WriteScanKeeps
  <2>. QED  BY <2>11, ReserveStep
<1>4. CASE CommitScan(r)
  <2>1. /\ WriteScan(eps, tx[r].scan) /\ contested' = contested \union Moved /\ status' = status
        /\ tx' = [tx EXCEPT ![r] = NoTransaction]
    BY <1>4 DEF CommitScan
  <2>2. tx'[r].op = "none" /\ \A q \in Requests \ {r} : tx'[q] = tx[q]
    BY <1>1, <2>1 DEF NoTransaction
  <2>3. \A q \in Requests : Live(q)' => tx'[q] = tx[q] /\ Live(q)
    BY <2>1, <2>2 DEF Live, Creating
  <2>4. Reserving' \ contested' \subseteq Reserving  BY <2>1 DEF Reserving
  <2>5. \A d \in Circuits \ contested' : status'[d] # "absent" => status[d] # "absent" /\ eps[d] = eps[d]
    BY <2>1
  <2>6. Keeps  BY <1>1, <2>1, <2>3, <2>4, <2>5, WriteScanKeeps
  <2>. QED  BY <2>6, ReserveStep
<1>5. CASE Rescan(r) \/ \E device \in Devices : StartScan(r, device)
  <2>1. PICK D : Scans(r, D)  BY <1>5 DEF Rescan, StartScan
  <2> DEFINE scan == ScanOf(eps, Reserving, D, learned)
             t == [NoTransaction EXCEPT !.op = "scan", !.scan = scan]
  <2>2. tx' = [tx EXCEPT ![r] = t]  BY <2>1 DEF Scans
  <2>3. t.op = "scan"  BY DEF NoTransaction
  <2>4. status' = status /\ eps' = eps /\ contested' = contested  BY <1>5 DEF Rescan, StartScan, history
  <2> HIDE DEF t
  <2>. QED  BY <1>2, <2>2, <2>3, <2>4
<1>6. CASE RequestFails(r)
  <2>1. NoTransaction.op = "none"  BY DEF NoTransaction
  <2>2. /\ tx' = [tx EXCEPT ![r] = NoTransaction]
        /\ status' = status /\ eps' = eps /\ contested' = contested
    BY <1>6 DEF RequestFails, history
  <2>. QED  BY <1>2, <2>1, <2>2
<1>7. ASSUME NEW device \in Devices, NEW snapshot \in SUBSET Found, learn_device(r, device, snapshot)
      PROVE  ReserveInv'
  <2> DEFINE scan == ScanOf(eps, Reserving, {device}, snapshot)
             t == [NoTransaction EXCEPT !.op = "learn", !.scan = scan, !.learned = snapshot]
  <2>1. tx' = [tx EXCEPT ![r] = t]  BY <1>7 DEF learn_device
  <2>2. t.op = "learn"  BY DEF NoTransaction
  <2>3. status' = status /\ eps' = eps /\ contested' = contested  BY <1>7 DEF learn_device, history
  <2> HIDE DEF t
  <2>. QED  BY <1>2, <2>1, <2>2, <2>3
<1>. QED  BY <1>3, <1>4, <1>5, <1>6, <1>7, ReserveBegins, ReserveCommits DEF Request

LEMMA ReserveKept ==
  ASSUME BaseInv, BaseInv', PortsAssumption, ReserveInv, [Next]_vars
  PROVE  ReserveInv'
<1>. USE DEF BaseInv
<1>1. status \in [Circuits -> Status] /\ eps \in [Circuits -> SUBSET Endpoint]
  BY DEF Types
<1>2. CASE UNCHANGED vars
  BY <1>2 DEF vars, history, ReserveInv, ReservationsApart, Reserving, Collide, Sure, Plain, Live, Creating, Cleared
<1>3. ASSUME NEW c \in Circuits, \/ \E e \in Endpoint : add_endpoint(c, e)
                                 \/ \E e \in eps[c] : delete_endpoint(c, e)
      PROVE  ReserveInv'
  <2>1. /\ status' = status /\ tx' = tx /\ contested \subseteq contested'
        /\ \A d \in Circuits : d \in contested' \/ eps'[d] \subseteq eps[d]
    BY <1>1, <1>3 DEF add_endpoint, delete_endpoint
  <2>2. \A q \in Requests : Live(q)' => Live(q)  BY <2>1 DEF Live, Creating
  <2>3. Reserving' = Reserving  BY <2>1 DEF Reserving
  <2>4. \A d \in Sure' : d \in Sure /\ eps'[d] \subseteq eps[d]  BY <2>1 DEF Sure
  <2>5. Keeps  BY <2>1, <2>2, <2>3, <2>4 DEF Keeps
  <2>. QED  BY <2>5, ReserveStep
<1>4. ASSUME NEW c \in Circuits, delete_circuit(c)
      PROVE  ReserveInv'
  <2>1. /\ tx' = tx /\ contested' = contested \ {c} /\ status[c] # "absent" /\ status'[c] = "absent"
        /\ \A d \in Circuits \ {c} : status'[d] = status[d] /\ eps'[d] = eps[d]
    BY <1>1, <1>4 DEF delete_circuit
  <2>2. \A q \in Requests : Live(q)' => Live(q) /\ tx[q].circuit # c
    BY <2>1 DEF Live, Creating, Owners
  <2>3. Reserving' \ contested' \subseteq Reserving \ contested  BY <2>1 DEF Reserving, Deployed
  <2>4. \A d \in Sure' : d \in Sure /\ eps'[d] = eps[d]  BY <2>1 DEF Sure
  <2>5. Keeps  BY <2>1, <2>2, <2>3, <2>4 DEF Keeps
  <2>. QED  BY <2>5, ReserveStep
<1>. QED  BY <1>2, <1>3, <1>4, ReserveRuns, ReserveRequests DEF Next

\* The checks of requests keep the circuits apart that none of the ways past
\* them has touched: a check sees every such circuit that is committed, and
\* of two requests between check and commit one is counted as overlapping.
THEOREM ReservationsHold == Spec => []ReservationsApart
<1>1. Init => ReserveInv
  <2> SUFFICES ASSUME Init PROVE ReserveInv
    OBVIOUS
  <2>1. Reserving = {} /\ Sure = {}  BY DEF Init, Reserving, Sure, Deployed
  <2>2. \A r \in Requests : tx[r].op = "none"  BY DEF Init, NoTransaction
  <2>3. \A r \in Requests : ~Live(r)  BY <2>2 DEF Live, Creating
  <2>. QED  BY <2>1, <2>2, <2>3 DEF ReserveInv, ReservationsApart
<1>2. BaseInv /\ BaseInv' /\ ReserveInv /\ [Next]_vars => ReserveInv'
  BY ReserveKept, PortsAssumption
<1>3. ReserveInv => ReservationsApart  BY DEF ReserveInv
<1>. QED  BY <1>1, <1>2, <1>3, BaseHolds, PTL DEF Spec

-----------------------------------------------------------------------------
(* Preflights. *)

\* What a worker holds, and on which circuit it works alone.
RunInv ==
  /\ \A w \in Workers :
       /\ run[w].pc \in {"idle", "located"} => run[w].held = {}
       /\ run[w].pc \in {"locked", "checked"} => DevicesOf(run[w].loaded) \subseteq run[w].held
       /\ Distinct(run[w].loaded)
  /\ \A v, w \in Workers : v # w =>
       /\ run[v].held \intersect run[w].held = {}
       /\ run[v].pc # "idle" /\ run[w].pc # "idle" => run[v].circuit # run[w].circuit

\* A step of w that changes neither its locks nor its circuit.
LEMMA RunStep ==
  ASSUME RunInv, NEW w \in Workers, \A v \in Workers \ {w} : run'[v] = run[v],
         run'[w].held = {} \/ (run'[w].held = run[w].held /\ run'[w].pc \notin {"idle", "located"}),
         run'[w].pc = "idle" \/ (run'[w].circuit = run[w].circuit /\ run[w].pc # "idle"),
         run'[w].pc \in {"locked", "checked"} => DevicesOf(run'[w].loaded) \subseteq run'[w].held,
         Distinct(run'[w].loaded)
  PROVE  RunInv'
<1>1. \A v \in Workers :
        /\ run'[v].pc \in {"idle", "located"} => run'[v].held = {}
        /\ run'[v].pc \in {"locked", "checked"} => DevicesOf(run'[v].loaded) \subseteq run'[v].held
        /\ Distinct(run'[v].loaded)
  BY DEF RunInv
<1>2. \A v \in Workers : run'[v].held \subseteq run[v].held  OBVIOUS
<1>3. \A u, v \in Workers : u # v => run'[u].held \intersect run'[v].held = {}
  BY <1>2 DEF RunInv
<1>4. \A v \in Workers : run'[v].pc # "idle" => run'[v].circuit = run[v].circuit /\ run[v].pc # "idle"
  OBVIOUS
<1>5. \A u, v \in Workers : u # v /\ run'[u].pc # "idle" /\ run'[v].pc # "idle" =>
        run'[u].circuit # run'[v].circuit
  BY <1>4 DEF RunInv
<1>. QED  BY <1>1, <1>3, <1>5 DEF RunInv, Distinct, DevicesOf

LEMMA RunsKept ==
  ASSUME BaseInv, BaseInv', RunInv, [Next]_vars
  PROVE  RunInv'
<1>. USE DEF BaseInv
<1>1. run \in [Workers -> Run] /\ \A c \in Circuits : Distinct(eps[c]) /\ Distinct(eps[c])'
  BY DEF Types, RowsApart, Distinct
<1>2. CASE run' = run  BY <1>2 DEF RunInv, Distinct, DevicesOf
<1>3. NoRun.pc = "idle" /\ NoRun.held = {} /\ NoRun.loaded = {}  BY DEF NoRun
<1>4. ASSUME NEW w \in Workers, Work(w)
      PROVE  RunInv'
  <2>1. \A v \in Workers \ {w} : run'[v] = run[v]
    BY <1>1, <1>4 DEF Work, StartRun, Acquire, Preflight, ExecuteAdopted, BeginRun, EndRun, Raises,
       CommitRun, AbortRun
  <2>2. CASE \E c \in Circuits, type \in {"apply", "decommission"} : StartRun(w, c, type)
    <3>1. PICK c \in Circuits, type \in {"apply", "decommission"} : StartRun(w, c, type)  BY <2>2
    <3> DEFINE r1 == [NoRun EXCEPT !.pc = "located", !.circuit = c, !.type = type, !.loaded = eps[c]]
    <3>2. r1.circuit = c /\ r1.pc = "located" /\ r1.held = {} /\ r1.loaded = eps[c]  BY DEF NoRun
    <3>3. /\ run' = [run EXCEPT ![w] = r1]
          /\ \A v \in Workers : run[v].pc # "idle" => run[v].circuit # c
      BY <3>1 DEF StartRun
    <3> HIDE DEF r1
    <3>4. run'[w] = r1  BY <1>1, <3>3
    <3>5. \A v \in Workers :
            /\ run'[v].pc \in {"idle", "located"} => run'[v].held = {}
            /\ run'[v].pc \in {"locked", "checked"} => DevicesOf(run'[v].loaded) \subseteq run'[v].held
            /\ Distinct(run'[v].loaded)
      BY <1>1, <2>1, <3>2, <3>4 DEF RunInv
    <3>6. \A u, v \in Workers : u # v => run'[u].held \intersect run'[v].held = {}
      BY <2>1, <3>2, <3>4 DEF RunInv
    <3>7. \A u, v \in Workers : u # v /\ run'[u].pc # "idle" /\ run'[v].pc # "idle" =>
            run'[u].circuit # run'[v].circuit
      BY <2>1, <3>2, <3>3, <3>4 DEF RunInv
    <3>. QED  BY <3>5, <3>6, <3>7 DEF RunInv, Distinct, DevicesOf
  <2>3. CASE Acquire(w)
    <3>1. /\ run'[w].held = DevicesOf(run[w].loaded) /\ run'[w].pc = "locked" /\ run[w].pc = "located"
          /\ run'[w].loaded = run[w].loaded /\ run'[w].circuit = run[w].circuit
          /\ \A v \in Workers : DevicesOf(run[w].loaded) \intersect run[v].held = {}
      BY <1>1, <2>3 DEF Acquire, Run
    <3>2. \A v \in Workers :
            /\ run'[v].pc \in {"idle", "located"} => run'[v].held = {}
            /\ run'[v].pc \in {"locked", "checked"} => DevicesOf(run'[v].loaded) \subseteq run'[v].held
            /\ Distinct(run'[v].loaded)
      BY <2>1, <3>1 DEF RunInv
    <3>3. \A u, v \in Workers : u # v => run'[u].held \intersect run'[v].held = {}
      BY <2>1, <3>1 DEF RunInv
    <3>4. \A v \in Workers : run'[v].pc # "idle" => run'[v].circuit = run[v].circuit /\ run[v].pc # "idle"
      BY <2>1, <3>1
    <3>5. \A u, v \in Workers : u # v /\ run'[u].pc # "idle" /\ run'[v].pc # "idle" =>
            run'[u].circuit # run'[v].circuit
      BY <3>4 DEF RunInv
    <3>. QED  BY <3>2, <3>3, <3>5 DEF RunInv, Distinct, DevicesOf
  <2>4. CASE Preflight(w)
    <3>1. /\ run'[w].held = run[w].held /\ run'[w].pc \in {"checked", "ended"} /\ run[w].pc = "locked"
          /\ run'[w].circuit = run[w].circuit /\ run'[w].loaded = run[w].loaded
      BY <1>1, <2>4 DEF Preflight, Run
    <3>. QED  BY <2>1, <3>1, RunStep DEF RunInv
  <2>5. CASE ExecuteAdopted(w) \/ Raises(w) \/ \E ok \in BOOLEAN : EndRun(w, ok)
    <3>1. /\ run'[w].held = run[w].held /\ run'[w].pc = "ended" /\ run[w].pc # "idle"
          /\ run'[w].circuit = run[w].circuit /\ run'[w].loaded = run[w].loaded
      <4>1. CASE ExecuteAdopted(w)  BY <1>1, <4>1 DEF ExecuteAdopted, Run
      <4>2. CASE Raises(w)  BY <1>1, <4>2 DEF Raises, Run
      <4>3. CASE \E ok \in BOOLEAN : EndRun(w, ok)  BY <1>1, <4>3 DEF EndRun, Run
      <4>. QED  BY <2>5, <4>1, <4>2, <4>3
    <3>. QED  BY <2>1, <3>1, RunStep DEF RunInv
  <2>6. CASE BeginRun(w)
    <3>1. /\ run'[w].held = run[w].held /\ run'[w].pc = "running" /\ run[w].pc # "idle"
          /\ run'[w].circuit = run[w].circuit /\ run'[w].loaded = eps'[run[w].circuit]
      BY <1>1, <2>6 DEF BeginRun, Run
    <3>2. run[w].circuit \in Circuits  BY <3>1 DEF Owners
    <3>3. Distinct(run'[w].loaded)  BY <1>1, <3>1, <3>2 DEF Distinct
    <3>. QED  BY <2>1, <3>1, <3>3, RunStep DEF RunInv
  <2>7. CASE CommitRun(w) \/ AbortRun(w)
    <3>1. run'[w] = NoRun  BY <1>1, <2>7 DEF CommitRun, AbortRun
    <3>2. Distinct(run'[w].loaded)  BY <1>3, <3>1 DEF Distinct
    <3>. QED  BY <1>3, <2>1, <3>1, <3>2, RunStep
  <2>. QED  BY <1>4, <2>2, <2>3, <2>4, <2>5, <2>6, <2>7 DEF Work
<1>5. ASSUME NEW r \in Requests, Request(r)
      PROVE  run' = run
  BY <1>5 DEF Request, create_circuit, adopt_circuit, replace_endpoints, update_endpoint, CommitCreate,
     CommitAdopt, CommitReplace, CommitUpdate, CommitScan, Rescan, RequestFails, StartScan, learn_device
<1>6. ASSUME NEW c \in Circuits, \/ delete_circuit(c) \/ \E e \in Endpoint : add_endpoint(c, e)
                                 \/ \E e \in eps[c] : delete_endpoint(c, e)
      PROVE  run' = run
  BY <1>6 DEF delete_circuit, add_endpoint, delete_endpoint
<1>. QED  BY <1>2, <1>4, <1>5, <1>6 DEF Next, vars

\* A circuit whose rows every check compares.
Settled(c) == c \in Reserving /\ Plain(c)

\* The renaming of a run leaves no other spelling.
Renames(w) == \A e \in eps[run[w].circuit] : e.alias => \E o \in run[w].scan.renamed : o.row = e.row

\* A run that has passed its preflight, under the locks of the endpoints.
Covers(w) ==
  /\ run[w].type = "apply" /\ run[w].pc # "idle"
  /\ DevicesOf(eps[run[w].circuit]) \subseteq run[w].held
  /\ \/ run[w].pc = "checked" /\ Renames(w)
     \/ run[w].pc = "running" /\ Plain(run[w].circuit)
     \/ run[w].pc = "ended" /\ Renames(w) /\ run[w].outcome # "decommissioned"

Covered(c) == \E w \in Workers : run[w].circuit = c /\ Covers(w)

\* Until a run that validated a circuit is over, its locks keep others off.
ValidInv ==
  /\ ValidatedApart
  /\ \A c \in validated : Settled(c) \/ Covered(c)

\* The rows of a circuit keep their ports, and get no other spelling.
Stay(c) ==
  \A g \in eps'[c] : \E e \in eps[c] : /\ g.row = e.row /\ g.at = e.at
                                       /\ g.alias => e.alias

LEMMA ApartStep ==
  ASSUME ValidatedApart, validated' \subseteq validated, \A c \in validated' : Stay(c)
  PROVE  ValidatedApart'
<1> SUFFICES ASSUME NEW c \in validated', NEW d \in validated', c # d,
                    NEW e \in eps'[c], NEW f \in eps'[d], Conflict(e.at, f.at)
             PROVE  FALSE
  BY DEF ValidatedApart, Collide
<1>1. PICK e0 \in eps[c], f0 \in eps[d] : e0.at = e.at /\ f0.at = f.at  BY DEF Stay
<1>. QED  BY <1>1 DEF ValidatedApart, Collide

LEMMA SettledStep ==
  ASSUME NEW c, Settled(c), Stay(c), c \in Reserving'
  PROVE  Settled(c)'
BY DEF Settled, Plain, Stay

LEMMA CoversStep ==
  ASSUME NEW v \in Workers, Covers(v), run'[v] = run[v], Stay(run[v].circuit)
  PROVE  Covers(v)'
<1> DEFINE c == run[v].circuit
<1>1. DevicesOf(eps'[c]) \subseteq DevicesOf(eps[c])  BY DEF DevicesOf, Stay
<1>2. Renames(v) => Renames(v)'
  <2> SUFFICES ASSUME Renames(v), NEW g \in eps'[c], g.alias
               PROVE  \E o \in run[v].scan.renamed : o.row = g.row
    BY DEF Renames
  <2>1. PICK e \in eps[c] : g.row = e.row /\ e.alias  BY DEF Stay
  <2>. QED  BY <2>1 DEF Renames
<1>3. Plain(c) => Plain(c)'  BY DEF Plain, Stay
<1>. QED  BY <1>1, <1>2, <1>3 DEF Covers

\* A step that leaves the runs.
LEMMA ValidStep ==
  ASSUME ValidInv, run' = run, validated' \subseteq validated,
         \A c \in validated' : Stay(c) /\ (c \in Reserving => c \in Reserving')
  PROVE  ValidInv'
<1>1. ValidatedApart'  BY ApartStep DEF ValidInv
<1>2. ASSUME NEW c \in validated'
      PROVE  Settled(c)' \/ Covered(c)'
  <2>1. CASE Settled(c)  BY <2>1, SettledStep DEF Settled
  <2>2. CASE Covered(c)
    <3>1. PICK w \in Workers : run[w].circuit = c /\ Covers(w)  BY <2>2 DEF Covered
    <3>2. Covers(w)'  BY <3>1, CoversStep
    <3>. QED  BY <3>1, <3>2 DEF Covered
  <2>. QED  BY <2>1, <2>2 DEF ValidInv
<1>. QED  BY <1>1, <1>2 DEF ValidInv

\* A step of the run w.
LEMMA ValidRunStep ==
  ASSUME ValidInv, NEW w \in Workers, \A v \in Workers \ {w} : run'[v] = run[v],
         validated' \subseteq validated,
         \A c \in validated' : /\ Stay(c)
                               /\ c \in Reserving => c \in Reserving'
                               /\ c = run[w].circuit /\ Covers(w) => Settled(c)' \/ Covered(c)'
  PROVE  ValidInv'
<1>1. ValidatedApart'  BY ApartStep DEF ValidInv
<1>2. ASSUME NEW c \in validated'
      PROVE  Settled(c)' \/ Covered(c)'
  <2>1. CASE Settled(c)  BY <2>1, SettledStep DEF Settled
  <2>2. CASE Covered(c)
    <3>1. PICK v \in Workers : run[v].circuit = c /\ Covers(v)  BY <2>2 DEF Covered
    <3>2. CASE v = w  BY <3>1, <3>2
    <3>3. CASE v # w
      <4>1. run'[v] = run[v]  BY <3>3
      <4>2. Covers(v)'  BY <3>1, <4>1, CoversStep
      <4>. QED  BY <3>1, <4>1, <4>2 DEF Covered
    <3>. QED  BY <3>2, <3>3
  <2>. QED  BY <2>1, <2>2 DEF ValidInv
<1>. QED  BY <1>1, <1>2 DEF ValidInv

\* Validated circuits are there, and none is being created.
LEMMA ValidatedExist ==
  ASSUME Owners, ValidInv, NEW c \in validated
  PROVE  \A r \in Requests : Creating(r) => tx[r].circuit # c
<1>1. CASE Settled(c)  BY <1>1 DEF Settled, Reserving, Deployed, Owners
<1>2. CASE Covered(c)  BY <1>2 DEF Covered, Owners
<1>. QED  BY <1>1, <1>2 DEF ValidInv

LEMMA ScanStays ==
  ASSUME Types, RowsApart, NEW E \in [Circuits -> SUBSET Endpoint], NEW scan \in Scan, WriteScan(E, scan),
         NEW c \in Circuits \ Moved, E[c] = eps[c]
  PROVE  Stay(c)
BY ScanKeepsRows DEF Stay

LEMMA SameStays ==
  ASSUME NEW c, eps'[c] = eps[c]
  PROVE  Stay(c)
BY DEF Stay

LEMMA ValidRequests ==
  ASSUME BaseInv, ValidInv, NEW r \in Requests, Request(r)
  PROVE  ValidInv'
<1>. USE DEF BaseInv
<1>1. /\ status \in [Circuits -> Status] /\ eps \in [Circuits -> SUBSET Endpoint]
      /\ tx[r].scan \in Scan /\ tx[r].new \subseteq Endpoint /\ validated \subseteq Circuits
  BY DEF Types, Transaction
<1>2. run' = run /\ validated' \subseteq validated
  BY DEF Request, create_circuit, adopt_circuit, replace_endpoints, update_endpoint, CommitCreate,
     CommitAdopt, CommitReplace, CommitUpdate, CommitScan, Rescan, RequestFails, StartScan, learn_device, history
<1> DEFINE c == tx[r].circuit
<1>3. CASE CommitCreate(r) \/ CommitReplace(r) \/ CommitUpdate(r)
  <2>1. c \in Circuits /\ c \notin validated'
    <3>1. CASE CommitCreate(r)
      BY <1>1, <3>1, ValidatedExist DEF CommitCreate, Creating, Owners
    <3>2. CASE CommitReplace(r) \/ CommitUpdate(r)  BY <3>2 DEF CommitReplace, CommitUpdate, Owners
    <3>. QED  BY <1>3, <3>1, <3>2
  <2>2. \A d \in Circuits \ {c} : eps'[d] = eps[d] /\ status'[d] = status[d]
    BY <1>1, <1>3, <2>1 DEF CommitCreate, CommitReplace, CommitUpdate
  <2>3. \A d \in validated' : Stay(d) /\ (d \in Reserving => d \in Reserving')
    BY <1>1, <1>2, <2>1, <2>2, SameStays DEF Reserving
  <2>. QED  BY <1>2, <2>3, ValidStep
<1>4. CASE CommitAdopt(r)
  <2> DEFINE E == [eps EXCEPT ![c] = tx[r].new]
  <2>1. Creating(r) /\ c \in Circuits  BY <1>4 DEF CommitAdopt, Creating, Owners
  <2>2. c \notin validated  BY <2>1, ValidatedExist
  <2>3. /\ WriteScan(E, tx[r].scan) /\ validated' = validated \ Moved
        /\ status' = [status EXCEPT ![c] = "active"]
    BY <1>4 DEF CommitAdopt
  <2> HIDE DEF c
  <2>4. E \in [Circuits -> SUBSET Endpoint] /\ \A d \in Circuits \ {c} : E[d] = eps[d]  BY <1>1
  <2> HIDE DEF E
  <2>5. \A d \in validated' : Stay(d) /\ (d \in Reserving => d \in Reserving')
    BY <1>1, <2>2, <2>3, <2>4, ScanStays DEF Reserving
  <2>. QED  BY <1>2, <2>5, ValidStep
<1>5. CASE CommitScan(r)
  <2>1. WriteScan(eps, tx[r].scan) /\ validated' = validated \ Moved /\ status' = status
    BY <1>5 DEF CommitScan
  <2>2. \A d \in validated' : Stay(d) /\ (d \in Reserving => d \in Reserving')
    BY <1>1, <2>1, ScanStays DEF Reserving
  <2>. QED  BY <1>2, <2>2, ValidStep
<1>6. CASE eps' = eps /\ status' = status
  <2>1. \A d \in validated' : Stay(d) /\ (d \in Reserving => d \in Reserving')
    BY <1>6, SameStays DEF Reserving
  <2>. QED  BY <1>2, <2>1, ValidStep
<1>. QED
  BY <1>3, <1>4, <1>5, <1>6 DEF Request, create_circuit, adopt_circuit, replace_endpoints, update_endpoint,
     Rescan, RequestFails, StartScan, learn_device, history

\* Endpoints on devices that no lock is shared for are on different ports.
LEMMA OtherDevices ==
  ASSUME NEW E, NEW F, DevicesOf(E) \intersect DevicesOf(F) = {}, NEW e \in E, NEW f \in F
  PROVE  ~Conflict(e.at, f.at)
BY DEF DevicesOf, Conflict, SamePort

LEMMA PreflightValidates ==
  ASSUME BaseInv, RunInv, ValidInv, NEW w \in Workers, Preflight(w)
  PROVE  ValidInv'
<1>. USE DEF BaseInv
<1> DEFINE c == run[w].circuit
           L == run[w].loaded
<1>1. /\ run \in [Workers -> Run] /\ eps \in [Circuits -> SUBSET Endpoint] /\ L \in SUBSET Endpoint
      /\ run[w].pc = "locked" /\ run[w].type = "apply" /\ c \in Circuits /\ validated \subseteq Circuits
      /\ Distinct(L) /\ DevicesOf(L) \subseteq run[w].held
  BY DEF Types, Run, Preflight, Owners, RunInv
<1>2. /\ \A v \in Workers \ {w} : run'[v] = run[v]
      /\ eps' = eps /\ status' = status
  BY <1>1 DEF Preflight
<1>3. ~Covers(w) /\ \A d : Stay(d)
  BY <1>1, <1>2, SameStays DEF Covers
<1>4. Reserving' = Reserving  BY <1>2 DEF Reserving
<1>5. CASE ~(Passes(w) /\ eps[c] \in {L, Renamed(L, L)})
  <2>1. validated' = validated  BY <1>5 DEF Preflight
  <2>. QED  BY <1>2, <1>3, <1>4, <2>1, ValidRunStep
<1>6. CASE Passes(w) /\ eps[c] \in {L, Renamed(L, L)}
  <2>1. validated' = validated \union {c}  BY <1>6 DEF Preflight
  <2>2. /\ run'[w].pc = "checked" /\ run'[w].scan = RunScan(w) /\ run'[w].circuit = c
        /\ run'[w].type = "apply" /\ run'[w].held = run[w].held
    <3>1. run' = [run EXCEPT ![w] = [run[w] EXCEPT !.pc = "checked", !.outcome = "failed", !.scan = RunScan(w)]]
      BY <1>6 DEF Preflight
    <3>2. [run[w] EXCEPT !.pc = "checked", !.outcome = "failed", !.scan = RunScan(w)].pc = "checked"
          /\ [run[w] EXCEPT !.pc = "checked", !.outcome = "failed", !.scan = RunScan(w)].scan = RunScan(w)
          /\ [run[w] EXCEPT !.pc = "checked", !.outcome = "failed", !.scan = RunScan(w)].circuit = c
          /\ [run[w] EXCEPT !.pc = "checked", !.outcome = "failed", !.scan = RunScan(w)].type = "apply"
          /\ [run[w] EXCEPT !.pc = "checked", !.outcome = "failed", !.scan = RunScan(w)].held = run[w].held
      BY <1>1 DEF Run
    <3>. QED  BY <1>1, <3>1, <3>2
  \* The rows are those that were checked.
  <2>3. \A g \in eps[c] : \E e \in L : g.at = e.at  BY <1>1, <1>6, RenamedByItself
  <2>4. DevicesOf(eps[c]) \subseteq run[w].held  BY <1>1, <2>3 DEF DevicesOf
  <2>5. \A e \in eps[c] : e.alias => e \in L
    BY <1>1, <1>6, RenamedByItself
  <2>6. ASSUME NEW e \in eps[c], e.alias
        PROVE  e \in RunScan(w).renamed
    <3>1. e \in L /\ As(L, e) = e  BY <1>1, <2>5, <2>6, AsLoaded
    <3>2. e \in View(L)[c]  BY <1>1, <3>1 DEF View
    <3>3. e.at.device \in DevicesOf(L)  BY <3>1 DEF DevicesOf
    <3>. QED  BY <1>1, <2>6, <3>2, <3>3 DEF RunScan, ScanOf
  <2>7. Covers(w)'
    BY <1>2, <2>2, <2>4, <2>6 DEF Covers, Renames
  <2>8. \A d : d = c => Covered(d)'  BY <2>2, <2>7 DEF Covered
  <2>9. ASSUME NEW d \in validated, d # c
        PROVE  Settled(d)' \/ Covered(d)'
    <3>1. CASE Settled(d)  BY <1>3, <1>4, <3>1, SettledStep DEF Settled
    <3>2. CASE Covered(d)
      <4>1. PICK v \in Workers : run[v].circuit = d /\ Covers(v)  BY <3>2 DEF Covered
      <4>2. run'[v] = run[v]  BY <1>2, <1>3, <4>1
      <4>3. Covers(v)'  BY <1>3, <4>1, <4>2, CoversStep
      <4>. QED  BY <4>1, <4>2, <4>3 DEF Covered
    <3>. QED  BY <3>1, <3>2 DEF ValidInv
  \* Against the circuits that have been validated before.
  <2>10. ASSUME NEW d \in validated, d # c, NEW g \in eps[c], NEW f \in eps[d]
         PROVE  ~Conflict(g.at, f.at) /\ ~Conflict(f.at, g.at)
    <3>1. CASE Settled(d)
      <4>1. PICK e \in L : g.at = e.at  BY <2>3
      <4>2. check_endpoint_available(c, e.at, Inventory(RunScan(w)))  BY <1>6 DEF Passes
      <4>3. d \in Reserving \ {c} /\ ~f.alias  BY <2>10, <3>1 DEF Settled, Plain
      <4>4. ~Conflict(f.at, e.at)  BY <4>2, <4>3 DEF check_endpoint_available
      <4>. QED  BY <4>1, <4>4, ConflictSymmetric
    <3>2. CASE Covered(d)
      <4>1. PICK v \in Workers : run[v].circuit = d /\ Covers(v)  BY <3>2 DEF Covered
      <4>2. v # w /\ DevicesOf(eps[d]) \subseteq run[v].held  BY <2>10, <4>1 DEF Covers
      <4>3. run[v].held \intersect run[w].held = {}  BY <4>2 DEF RunInv
      <4>4. ~Conflict(g.at, f.at)  BY <2>4, <4>2, <4>3, OtherDevices
      <4>. QED  BY <4>4, ConflictSymmetric
    <3>. QED  BY <3>1, <3>2 DEF ValidInv
  <2>11. ValidatedApart'
    BY <1>2, <2>1, <2>10 DEF ValidInv, ValidatedApart, Collide
  <2>. QED  BY <2>1, <2>8, <2>9, <2>11 DEF ValidInv
<1>. QED  BY <1>5, <1>6

LEMMA ValidWriting ==
  ASSUME BaseInv, RunInv, ValidInv, NEW w \in Workers, BeginRun(w) \/ CommitRun(w)
  PROVE  ValidInv'
<1>. USE DEF BaseInv
<1> DEFINE c == run[w].circuit
<1>1. /\ run \in [Workers -> Run] /\ eps \in [Circuits -> SUBSET Endpoint] /\ status \in [Circuits -> Status]
      /\ run[w].scan \in Scan /\ c \in Circuits /\ validated \subseteq Circuits /\ run[w].pc # "idle"
  BY DEF Types, Run, BeginRun, CommitRun, Owners
<1>2. WriteScan(eps, run[w].scan) /\ validated' \subseteq validated \ Moved
  BY DEF BeginRun, CommitRun
<1>3. \A v \in Workers \ {w} : run'[v] = run[v]  BY <1>1 DEF BeginRun, CommitRun
<1>4. \A d \in validated' : Stay(d)  BY <1>1, <1>2, ScanStays
<1>5. ASSUME c \in validated', Renames(w)
      PROVE  \A g \in eps'[c] : ~g.alias
  <2>1. c \in Circuits \ Moved  BY <1>1, <1>2, <1>5
  <2>2. ASSUME NEW g \in eps'[c], g.alias
        PROVE  FALSE
    <3>1. PICK e \in eps[c] : g.row = e.row /\ e.alias /\ \A o \in run[w].scan.renamed : o.row # e.row
      BY <1>1, <1>2, <2>1, <2>2, ScanKeepsRows
    <3>. QED  BY <1>5, <3>1 DEF Renames
  <2>. QED  BY <2>2
<1>6. \A d \in Circuits \ {c} : status'[d] = status[d]  BY <1>1 DEF BeginRun, CommitRun
<1>7. CASE BeginRun(w)
  <2>1. \A d \in Circuits : d \in Reserving => d \in Reserving'
    BY <1>1, <1>7 DEF BeginRun, Reserving, Deployed
  <2>2. ASSUME NEW d \in validated', d = c, Covers(w)
        PROVE  Covered(d)'
    <3>1. run[w].pc = "checked" /\ Renames(w) /\ run[w].type = "apply" /\ DevicesOf(eps[c]) \subseteq run[w].held
      BY <1>7, <2>2 DEF BeginRun, Covers
    <3>2. /\ run'[w].pc = "running" /\ run'[w].type = "apply" /\ run'[w].held = run[w].held
          /\ run'[w].circuit = c
      BY <1>1, <1>7, <3>1 DEF BeginRun, Run
    <3>3. DevicesOf(eps'[c]) \subseteq DevicesOf(eps[c])  BY <1>4, <2>2 DEF Stay, DevicesOf
    <3>4. \A g \in eps'[c] : ~g.alias  BY <1>5, <2>2, <3>1
    <3>5. Covers(w)'  BY <3>1, <3>2, <3>3, <3>4 DEF Covers, Plain
    <3>. QED  BY <2>2, <3>2, <3>5 DEF Covered
  <2>3. \A d \in validated' : /\ Stay(d)
                              /\ d \in Reserving => d \in Reserving'
                              /\ d = run[w].circuit /\ Covers(w) => Settled(d)' \/ Covered(d)'
    BY <1>1, <1>2, <1>4, <2>1, <2>2
  <2>. QED  BY <1>2, <1>3, <2>3, ValidRunStep
<1>8. CASE CommitRun(w)
  <2>1. status'[c] = run[w].outcome /\ run[w].outcome \in {"active", "failed", "decommissioned"}
    BY <1>1, <1>8 DEF CommitRun, Run
  <2>2. c \in validated' => c \in Reserving'
    BY <1>1, <1>8, <2>1 DEF CommitRun, Reserving, Deployed
  <2>3. \A d \in validated' : d \in Reserving => d \in Reserving'
    BY <1>6, <2>2 DEF Reserving
  <2>4. ASSUME NEW d \in validated', d = c, Covers(w)
        PROVE  Settled(d)'
    <3>1. Renames(w)  BY <1>8, <2>4 DEF CommitRun, Covers
    <3>. QED  BY <1>5, <2>2, <2>4, <3>1 DEF Settled, Plain
  <2>5. \A d \in validated' : /\ Stay(d)
                              /\ d \in Reserving => d \in Reserving'
                              /\ d = run[w].circuit /\ Covers(w) => Settled(d)' \/ Covered(d)'
    BY <1>4, <2>3, <2>4
  <2>. QED  BY <1>2, <1>3, <2>5, ValidRunStep
<1>. QED  BY <1>7, <1>8

LEMMA ValidRuns ==
  ASSUME BaseInv, RunInv, ValidInv, NEW w \in Workers, Work(w)
  PROVE  ValidInv'
<1>. USE DEF BaseInv
<1> DEFINE c == run[w].circuit
<1>1. /\ run \in [Workers -> Run] /\ status \in [Circuits -> Status] /\ validated \subseteq Circuits
      /\ run[w].outcome \in {"active", "failed", "decommissioned"}
  BY DEF Types, Run
<1>2. CASE Preflight(w) \/ BeginRun(w) \/ CommitRun(w)
  BY <1>2, PreflightValidates, ValidWriting
<1>3. CASE ~(Preflight(w) \/ BeginRun(w) \/ CommitRun(w))
  <2>1. \A v \in Workers \ {w} : run'[v] = run[v]
    BY <1>1, <1>3 DEF Work, StartRun, Acquire, ExecuteAdopted, EndRun, Raises, AbortRun
  <2>2. eps' = eps /\ validated' \subseteq validated
    BY <1>3 DEF Work, StartRun, Acquire, ExecuteAdopted, EndRun, Raises, AbortRun, history
  <2>3. \A d \in Circuits : d \in Reserving => d \in Reserving'
    <3>1. \/ status' = status
          \/ \E d \in Circuits, type \in {"apply", "decommission"} : StartRun(w, d, type)
      BY <1>3 DEF Work, Acquire, ExecuteAdopted, EndRun, Raises, AbortRun
    <3>. QED  BY <1>1, <3>1 DEF StartRun, Reserving, Deployed
  <2>4. ASSUME NEW d \in validated', d = c, Covers(w)
        PROVE  Covered(d)'
    <3>1. run[w].pc \in {"checked", "running", "ended"} /\ run[w].type = "apply"  BY <2>4 DEF Covers
    <3>2. CASE Raises(w)
      <4>1. /\ run'[w].pc = "ended" /\ run'[w].outcome = "failed" /\ run'[w].scan = run[w].scan
            /\ run'[w].circuit = c /\ run'[w].type = run[w].type /\ run'[w].held = run[w].held
        BY <1>1, <3>2 DEF Raises, Run
      <4>2. Renames(w)  BY <2>4, <3>2 DEF Covers, Raises, Renames, Plain
      <4>3. Covers(w)'  BY <2>2, <2>4, <4>1, <4>2 DEF Covers, Renames
      <4>. QED  BY <2>4, <4>1, <4>3 DEF Covered
    <3>3. ASSUME NEW ok \in BOOLEAN, EndRun(w, ok)
          PROVE  Covered(d)'
      <4> DEFINE outcome == IF ~ok THEN "failed" ELSE IF run[w].type = "apply" THEN "active" ELSE "decommissioned"
                 scan == RunScan(w)
      <4>1. run' = [run EXCEPT ![w] = [run[w] EXCEPT !.pc = "ended", !.outcome = outcome, !.scan = scan]]
        BY <3>3 DEF EndRun
      <4>2. outcome # "decommissioned"  BY <3>1
      <4> HIDE DEF outcome, scan
      <4>3. /\ run'[w].pc = "ended" /\ run'[w].outcome = outcome
            /\ run'[w].circuit = c /\ run'[w].type = run[w].type /\ run'[w].held = run[w].held
        BY <1>1, <4>1 DEF Run
      <4>4. Plain(c)  BY <2>4, <3>3 DEF Covers, EndRun
      <4>5. Covers(w)'  BY <2>2, <2>4, <4>2, <4>3, <4>4 DEF Covers, Renames, Plain
      <4>. QED  BY <2>4, <4>3, <4>5 DEF Covered
    <3>4. CASE AbortRun(w)
      BY <2>4, <3>4 DEF AbortRun
    <3>. QED
      BY <1>3, <3>1, <3>2, <3>3, <3>4 DEF Work, StartRun, Acquire, ExecuteAdopted
  <2>5. \A d \in validated' : /\ Stay(d)
                              /\ d \in Reserving => d \in Reserving'
                              /\ d = run[w].circuit /\ Covers(w) => Settled(d)' \/ Covered(d)'
    BY <1>1, <2>2, <2>3, <2>4, SameStays
  <2>. QED  BY <2>1, <2>2, <2>5, ValidRunStep
<1>. QED  BY <1>2, <1>3

LEMMA ValidKept ==
  ASSUME BaseInv, RunInv, ValidInv, [Next]_vars
  PROVE  ValidInv'
<1>. USE DEF BaseInv
<1>1. /\ status \in [Circuits -> Status] /\ eps \in [Circuits -> SUBSET Endpoint]
      /\ validated \subseteq Circuits
  BY DEF Types
<1>2. ASSUME NEW c \in Circuits, \/ delete_circuit(c) \/ \E e \in Endpoint : add_endpoint(c, e)
                                 \/ \E e \in eps[c] : delete_endpoint(c, e)
      PROVE  ValidInv'
  <2>1. /\ run' = run /\ validated' = validated \ {c}
        /\ \A d \in Circuits \ {c} : eps'[d] = eps[d] /\ status'[d] = status[d]
    BY <1>1, <1>2 DEF delete_circuit, add_endpoint, delete_endpoint
  <2>2. \A d \in validated' : Stay(d) /\ (d \in Reserving => d \in Reserving')
    BY <1>1, <2>1, SameStays DEF Reserving
  <2>. QED  BY <2>1, <2>2, ValidStep
<1>3. CASE UNCHANGED vars
  <2>1. run' = run /\ validated' = validated /\ eps' = eps /\ status' = status
    BY <1>3 DEF vars, history
  <2>2. \A d \in validated' : Stay(d) /\ (d \in Reserving => d \in Reserving')
    BY <2>1, SameStays DEF Reserving
  <2>. QED  BY <2>1, <2>2, ValidStep
<1>. QED  BY <1>2, <1>3, ValidRequests, ValidRuns DEF Next

\* Two circuits that passed a preflight never claim the same encapsulation of
\* a port: a preflight compares with every circuit that is settled, and the
\* locks of the devices keep it off those that another run has validated and
\* has not yet committed.
THEOREM PreflightHolds == Spec => []ValidatedApart
<1>1. Init => RunInv /\ ValidInv
  <2> SUFFICES ASSUME Init PROVE RunInv /\ ValidInv
    OBVIOUS
  <2>1. \A w \in Workers : run[w].pc = "idle" /\ run[w].held = {} /\ run[w].loaded = {}
    BY DEF Init, NoRun
  <2>2. RunInv  BY <2>1 DEF RunInv, Distinct
  <2>3. ValidInv  BY DEF Init, ValidInv, ValidatedApart
  <2>. QED  BY <2>2, <2>3
<1>2. BaseInv /\ BaseInv' /\ RunInv /\ ValidInv /\ [Next]_vars => RunInv' /\ ValidInv'
  BY RunsKept, ValidKept
<1>3. ValidInv => ValidatedApart  BY DEF ValidInv
<1>. QED  BY <1>1, <1>2, <1>3, BaseHolds, PTL DEF Spec
=============================================================================
