------------------------------- MODULE Ports -------------------------------
(***************************************************************************)
(* Who may use which encapsulation on which customer port.                 *)
(*                                                                         *)
(* An endpoint of a circuit reserves a VLAN of a port, or the whole port   *)
(* untagged.  Nothing in the schema keeps two endpoints apart.  A request  *)
(* looks for conflicts with what is committed and with the inventory of    *)
(* the device, and commits later; a run of a provision or modify order     *)
(* looks again under the locks of the devices.  Both compare interface     *)
(* names, which are rewritten to one spelling only by the scans that       *)
(* renew the inventory, at the commit of the transaction they are part of. *)
(***************************************************************************)
EXTENDS Naturals, FiniteSets

CONSTANTS
  Circuits, Nobody,
  Devices, Interfaces,
  Tags,        \* VLANs
  Untagged,    \* the access mode that takes the whole port
  Rows,        \* bound: ids of circuit_endpoints rows
  Workers,     \* threads of the worker, all of one process
  Requests,    \* threads that serve the API
  Found,       \* bindings put on the devices by hand, for learning to find
  MaxOperations \* bound: requests and runs

Binding == [device : Devices, iface : Interfaces, encap : Tags \union {Untagged}]
\* alias: the interface is spelled otherwise than SNMP has it.
Endpoint == [row : Rows, at : Binding, alias : BOOLEAN]
Entry == [at : Binding, source : {"platform", "device"}]

ASSUME PortsAssumption ==
  /\ Untagged \notin Tags
  /\ Nobody \notin Circuits
  /\ Found \subseteq Binding
  /\ Workers \intersect Requests = {}
  /\ MaxOperations \in Nat

VARIABLES
  status,      \* circuits.status, "absent" if there is no row
  adopted,     \* circuits that record a service found, and are never pushed
  eps,         \* the rows of circuit_endpoints of a circuit
  inventory,   \* device_interfaces.used_s_vids
  learned,     \* what the latest learned snapshots show
  run,         \* the order a worker executes
  tx,          \* what a request has read and will commit
  operations,  \* how many requests and runs there have been
  validated,   \* history: circuits whose endpoints, as they are, passed a preflight
  contested    \* history: circuits that may have got past a check of another one

history == <<validated, contested>>
vars == <<status, adopted, eps, inventory, learned, run, tx, operations, history>>

Status == {"absent", "draft", "provisioning", "active", "failed", "decommissioned"}

\* What a transaction will write for the scans in it.
Scan == [devices : SUBSET Devices, renamed : SUBSET Endpoint, entries : SUBSET Entry]
NoScan == [devices |-> {}, renamed |-> {}, entries |-> {}]

Run ==
  [pc : {"idle", "located", "locked", "checked", "running", "ended"},
   circuit : Circuits \union {Nobody}, type : {"apply", "decommission"},
   loaded : SUBSET Endpoint,   \* the endpoints as the worker loaded them
   held : SUBSET Devices,      \* device locks
   outcome : {"active", "failed", "decommissioned"}, \* the circuit's status at the end
   scan : Scan]

NoRun == [pc |-> "idle", circuit |-> Nobody, type |-> "apply",
          loaded |-> {}, held |-> {}, outcome |-> "failed", scan |-> NoScan]

Transaction ==
  [op : {"none", "create", "adopt", "replace", "update", "rescan", "scan", "learn"},
   circuit : Circuits \union {Nobody},
   old : SUBSET Endpoint,      \* the rows it has loaded to replace or update
   new : SUBSET Endpoint,
   scan : Scan,
   learned : SUBSET Binding]   \* the new snapshot

NoTransaction == [op |-> "none", circuit |-> Nobody,
                  old |-> {}, new |-> {}, scan |-> NoScan, learned |-> {}]

TypeOK ==
  /\ status \in [Circuits -> Status]
  /\ adopted \subseteq Circuits
  /\ eps \in [Circuits -> SUBSET Endpoint]
  /\ inventory \subseteq Entry
  /\ learned \subseteq Binding
  /\ run \in [Workers -> Run]
  /\ tx \in [Requests -> Transaction]
  /\ operations \in 0..MaxOperations
  /\ validated \subseteq Circuits
  /\ contested \subseteq Circuits
  /\ \A c, d \in Circuits : \A e \in eps[c], f \in eps[d] : e.row = f.row => c = d /\ e = f

Init ==
  /\ status = [c \in Circuits |-> "absent"]
  /\ adopted = {}
  /\ eps = [c \in Circuits |-> {}]
  /\ inventory = {} /\ learned = {}
  /\ run = [w \in Workers |-> NoRun]
  /\ tx = [r \in Requests |-> NoTransaction]
  /\ operations = 0
  /\ validated = {} /\ contested = {}

---------------------------------------------------------------------------
(* The check. *)

Deployed == {"draft", "provisioning", "active"}
\* Slip: a failed circuit gives its ports up.
ReservingUnlessFailed == {c \in Circuits : status[c] \in Deployed}

Reserving == {c \in Circuits : status[c] \in Deployed \union {"failed"}}

SamePort(a, b) == a.device = b.device /\ a.iface = b.iface

Conflict(a, b) ==
  SamePort(a, b) /\ (a.encap = b.encap \/ Untagged \in {a.encap, b.encap})

\* Slip: the same encapsulation only.
CheckSameKey(c, b, entries) ==
  /\ \A d \in Reserving \ {c} : \A e \in eps[d] :
       ~e.alias => ~(SamePort(e.at, b) /\ e.at.encap = b.encap)
  /\ \A i \in entries : i.source # "platform" => ~(SamePort(i.at, b) /\ i.at.encap = b.encap)

\* The rows are compared by the name they have in the table; entries of the
\* inventory that come from the platform itself are skipped.
check_endpoint_available(c, b, entries) ==
  /\ \A d \in Reserving \ {c} : \A e \in eps[d] : ~e.alias => ~Conflict(e.at, b)
  /\ \A i \in entries : i.source # "platform" => ~Conflict(i.at, b)

---------------------------------------------------------------------------
(* Scans. *)

\* Rows a session has loaded are to it what they were then.
As(loaded, e) == IF \E o \in loaded : o.row = e.row THEN CHOOSE o \in loaded : o.row = e.row ELSE e
View(loaded) == [c \in Circuits |-> {As(loaded, e) : e \in eps[c]}]

\* What circuits intend hides what the device has of the same key.
Merge(intent, snapshot) ==
  {[at |-> b, source |-> IF b \in intent THEN "platform" ELSE "device"] : b \in intent \union snapshot}

\* A device of which nothing is known keeps its entries.
scan_device(intent, device, snapshot) ==
  LET here == {i \in Merge(intent, snapshot) : i.at.device = device}
  IN IF here = {} THEN {i \in inventory : i.at.device = device} ELSE here

\* A scan that sees the rows of view, those of the circuits C as intended.
ScanOf(view, C, D, snapshot) ==
  LET intent == {e.at : e \in UNION {view[c] : c \in C}}
  IN [devices |-> D,
      renamed |-> {e \in UNION {view[c] : c \in Circuits} : e.at.device \in D /\ e.alias},
      entries |-> UNION {scan_device(intent, d, snapshot) : d \in D}]

DevicesOf(E) == {e.at.device : e \in E}

AllRows == UNION {eps[c] : c \in Circuits}
Persists(rows) == \A e \in rows : \E f \in AllRows : f.row = e.row

\* An UPDATE writes the columns that differ from what was loaded.
Written(current, loaded, new) == IF new = loaded THEN current ELSE new

\* Slip: the renamed rows are written, not updated.
RenamedUpsert(E, renamed) ==
  {e \in E : \A o \in renamed : o.row # e.row} \union {[o EXCEPT !.alias = FALSE] : o \in renamed}

\* Renaming writes the interface name, whatever it is by now.
Renamed(E, renamed) ==
  {IF \E o \in renamed : o.row = e.row
   THEN LET o == CHOOSE o \in renamed : o.row = e.row
        IN [e EXCEPT !.at.iface = o.at.iface, !.alias = FALSE]
   ELSE e : e \in E}

\* What is committed of a scan.
Inventory(scan) == {i \in inventory : i.at.device \notin scan.devices} \union scan.entries

Bindings(E) == {[row |-> e.row, at |-> e.at] : e \in E}

---------------------------------------------------------------------------
(* Requests. *)

Operation ==
  /\ operations < MaxOperations
  /\ operations' = operations + 1

FreeRows ==
  {n \in Rows : /\ \A e \in AllRows : e.row # n
                /\ \A w \in Workers : \A e \in run[w].scan.renamed \union run[w].loaded : e.row # n
                /\ \A r \in Requests : \A e \in tx[r].new \union tx[r].old \union tx[r].scan.renamed :
                     e.row # n}

\* Another transaction is between its check and its commit.
Overlaps(r) == \E q \in Requests \ {r} : tx[q].op \in {"create", "adopt", "replace", "update"}

\* An id that nothing is at work on, as a database would choose it.
New(c) ==
  /\ status[c] = "absent"
  /\ \A q \in Requests : tx[q].circuit # c
  /\ \A w \in Workers : run[w].circuit # c

create_circuit(r, c, e) ==
  /\ Operation
  /\ tx[r].op = "none" /\ New(c)
  /\ e.row \in FreeRows
  /\ check_endpoint_available(c, e.at, inventory)
  /\ tx' = [tx EXCEPT ![r] = [NoTransaction EXCEPT !.op = "create", !.circuit = c, !.new = {e}]]
  /\ contested' = IF Overlaps(r) THEN contested \union {c} ELSE contested
  /\ UNCHANGED <<status, adopted, eps, inventory, learned, run, validated>>

\* Rows hide entries of their key.  An untagged row has a VLAN id all the
\* same, which its entry has not: they differ in key.
list_port_bindings ==
  LET rows == {e.at : e \in {f \in AllRows : f.at.encap # Untagged}}
  IN {[at |-> b, source |-> "platform"] : b \in rows} \union {i \in inventory : i.at \notin rows}

find_adoptable_binding(b) == [at |-> b, source |-> "device"] \in list_port_bindings

\* Its own scan sees the new row and rewrites its name.
adopt_circuit(r, c, e) ==
  /\ Operation
  /\ tx[r].op = "none" /\ New(c)
  /\ e.row \in FreeRows /\ ~e.alias
  /\ find_adoptable_binding(e.at)
  /\ tx' = [tx EXCEPT ![r] =
       [NoTransaction EXCEPT !.op = "adopt", !.circuit = c, !.new = {e},
          !.scan = ScanOf([eps EXCEPT ![c] = {e}], Reserving \union {c}, {e.at.device}, learned)]]
  /\ contested' = contested \union {c}
  /\ UNCHANGED <<status, adopted, eps, inventory, learned, run, validated>>

\* Endpoints of an adopted circuit have to be found on the device.
Allowed(c, e) ==
  IF c \in adopted THEN find_adoptable_binding(e.at) \/ \E o \in eps[c] : o.at = e.at
  ELSE check_endpoint_available(c, e.at, inventory)

replace_endpoints(r, c, e) ==
  /\ Operation
  /\ tx[r].op = "none" /\ status[c] # "absent"
  /\ e.row \in FreeRows
  /\ Allowed(c, e)
  /\ tx' = [tx EXCEPT ![r] =
       [NoTransaction EXCEPT !.op = "replace", !.circuit = c, !.old = eps[c], !.new = {e}]]
  /\ contested' = IF Overlaps(r) \/ c \in adopted THEN contested \union {c} ELSE contested
  /\ UNCHANGED <<status, adopted, eps, inventory, learned, run, validated>>

update_endpoint(r, c, old, e) ==
  /\ Operation
  /\ tx[r].op = "none" /\ status[c] # "absent"
  /\ old \in eps[c] /\ e.row = old.row
  /\ check_endpoint_available(c, e.at, inventory)
  /\ tx' = [tx EXCEPT ![r] =
       [NoTransaction EXCEPT !.op = "update", !.circuit = c, !.old = {old}, !.new = {e}]]
  /\ contested' = IF Overlaps(r) THEN contested \union {c} ELSE contested
  /\ UNCHANGED <<status, adopted, eps, inventory, learned, run, validated>>

\* The columns of a row that update_endpoint changes.
Updated(current, loaded, new) ==
  LET renames == new.at.iface # loaded.at.iface \/ new.alias # loaded.alias
  IN [row |-> current.row,
      at |-> [device |-> Written(current.at.device, loaded.at.device, new.at.device),
              iface |-> IF renames THEN new.at.iface ELSE current.at.iface,
              encap |-> Written(current.at.encap, loaded.at.encap, new.at.encap)],
      alias |-> IF renames THEN new.alias ELSE current.alias]

\* The renaming of rows and the new entries become visible; E are the rows
\* as the rest of the transaction leaves them.
WriteScan(E, scan) ==
  /\ Persists(scan.renamed)
  /\ eps' = [c \in Circuits |-> Renamed(E[c], scan.renamed)]
  /\ inventory' = Inventory(scan)

\* Circuits whose rows a late renaming moves to another port.
Moved == {c \in Circuits : Bindings(eps[c]) # Bindings(eps'[c])}

Aliased(E) == \E e \in E : e.alias

CommitCreate(r) == LET c == tx[r].circuit IN
  /\ tx[r].op = "create"
  /\ status' = [status EXCEPT ![c] = "draft"]
  /\ eps' = [eps EXCEPT ![c] = tx[r].new]
  /\ contested' = IF Aliased(tx[r].new) THEN contested \union {c} ELSE contested
  /\ tx' = [tx EXCEPT ![r] = NoTransaction]
  /\ UNCHANGED <<adopted, inventory, learned, run, validated, operations>>

CommitAdopt(r) == LET c == tx[r].circuit IN
  /\ tx[r].op = "adopt"
  /\ status' = [status EXCEPT ![c] = "active"]
  /\ adopted' = adopted \union {c}
  /\ WriteScan([eps EXCEPT ![c] = tx[r].new], tx[r].scan)
  /\ validated' = validated \ Moved
  /\ contested' = contested \union Moved
  /\ tx' = [tx EXCEPT ![r] = NoTransaction]
  /\ UNCHANGED <<learned, run, operations>>

\* Rows added since the request has loaded them stay, rows gone are no error.
\* The devices of the new rows are scanned next.
CommitReplace(r) == LET c == tx[r].circuit IN
  /\ tx[r].op = "replace" /\ status[c] # "absent"
  /\ LET added == {e \in eps[c] : \A o \in tx[r].old : o.row # e.row}
     IN /\ eps' = [eps EXCEPT ![c] = added \union tx[r].new]
        /\ contested' = IF Aliased(tx[r].new) THEN contested \union {c} ELSE contested
  /\ validated' = validated \ {c}
  /\ tx' = [tx EXCEPT ![r] = [NoTransaction EXCEPT !.op = "rescan", !.new = tx[r].new]]
  /\ UNCHANGED <<status, adopted, inventory, learned, run, operations>>

CommitUpdate(r) == LET c == tx[r].circuit IN
  /\ tx[r].op = "update"
  /\ \E o \in tx[r].old, n \in tx[r].new, e \in eps[c] :
       /\ e.row = o.row
       /\ eps' = [eps EXCEPT ![c] = (@ \ {e}) \union {Updated(e, o, n)}]
  /\ validated' = validated \ {c}
  /\ contested' = IF Aliased(eps'[c]) THEN contested \union {c} ELSE contested
  /\ tx' = [tx EXCEPT ![r] = NoTransaction]
  /\ UNCHANGED <<status, adopted, inventory, learned, run, operations>>

\* The row or the circuit is gone, or the request fails for another reason.
RequestFails(r) ==
  /\ tx[r].op # "none"
  /\ tx' = [tx EXCEPT ![r] = NoTransaction]
  /\ UNCHANGED <<status, adopted, eps, inventory, learned, run, operations, history>>

\* No check.
add_endpoint(c, e) ==
  /\ Operation
  /\ status[c] # "absent" /\ e.row \in FreeRows
  /\ eps' = [eps EXCEPT ![c] = @ \union {e}]
  /\ validated' = validated \ {c}
  /\ contested' = contested \union {c}
  /\ UNCHANGED <<status, adopted, inventory, learned, run, tx>>

delete_endpoint(c, e) ==
  /\ Operation
  /\ e \in eps[c]
  /\ eps' = [eps EXCEPT ![c] = @ \ {e}]
  /\ validated' = validated \ {c}
  /\ UNCHANGED <<status, adopted, inventory, learned, run, tx, contested>>

delete_circuit(c) ==
  /\ Operation
  /\ status[c] \in {"draft", "failed", "decommissioned"}
  /\ status' = [status EXCEPT ![c] = "absent"]
  /\ eps' = [eps EXCEPT ![c] = {}]
  /\ validated' = validated \ {c}
  /\ contested' = contested \ {c}
  /\ adopted' = adopted \ {c}
  /\ UNCHANGED <<inventory, learned, run, tx>>

\* A scan in a transaction of its own, alone or after a replacement.
Scans(r, D) ==
  tx' = [tx EXCEPT ![r] = [NoTransaction EXCEPT !.op = "scan",
                                                !.scan = ScanOf(eps, Reserving, D, learned)]]

StartScan(r, device) ==
  /\ Operation
  /\ tx[r].op = "none"
  /\ Scans(r, {device})
  /\ UNCHANGED <<status, adopted, eps, inventory, learned, run, history>>

Rescan(r) ==
  /\ tx[r].op = "rescan"
  /\ Scans(r, DevicesOf(tx[r].new))
  /\ UNCHANGED <<status, adopted, eps, inventory, learned, run, operations, history>>

\* The learning of a device: a new snapshot, and a scan that sees it.
learn_device(r, device, snapshot) ==
  /\ Operation
  /\ tx[r].op = "none"
  /\ \A b \in snapshot : b.device = device
  /\ tx' = [tx EXCEPT ![r] =
       [NoTransaction EXCEPT !.op = "learn", !.scan = ScanOf(eps, Reserving, {device}, snapshot),
                             !.learned = snapshot]]
  /\ UNCHANGED <<status, adopted, eps, inventory, learned, run, history>>

CommitScan(r) ==
  /\ tx[r].op \in {"scan", "learn"}
  /\ WriteScan(eps, tx[r].scan)
  /\ learned' = IF tx[r].op = "scan" THEN learned
                ELSE {b \in learned : b.device \notin tx[r].scan.devices} \union tx[r].learned
  /\ validated' = validated \ Moved
  /\ contested' = contested \union Moved
  /\ tx' = [tx EXCEPT ![r] = NoTransaction]
  /\ UNCHANGED <<status, adopted, run, operations>>

---------------------------------------------------------------------------
(* Runs.  A provisioning that was ordered for a circuit, and the look-up   *)
(* of its devices, are one step here.                                      *)

StartRun(w, c, type) ==
  /\ Operation
  /\ run[w].pc = "idle" /\ status[c] # "absent"
  /\ \A v \in Workers : run[v].pc # "idle" => run[v].circuit # c
  /\ run' = [run EXCEPT ![w] = [NoRun EXCEPT !.pc = "located", !.circuit = c, !.type = type,
                                            !.loaded = eps[c]]]
  /\ status' = IF type = "apply" /\ status[c] \notin {"active", "decommissioned"}
               THEN [status EXCEPT ![c] = "provisioning"] ELSE status
  /\ UNCHANGED <<adopted, eps, inventory, learned, tx, history>>

\* Slip: the locks end with the wait for them.
AcquireBriefly(w) == LET D == DevicesOf(run[w].loaded) IN
  /\ run[w].pc = "located"
  /\ \A v \in Workers : D \intersect run[v].held = {}
  /\ run' = [run EXCEPT ![w].pc = "locked"]
  /\ UNCHANGED <<status, adopted, eps, inventory, learned, tx, operations, history>>

Acquire(w) == LET D == DevicesOf(run[w].loaded) IN
  /\ run[w].pc = "located"
  /\ \A v \in Workers : D \intersect run[v].held = {}
  /\ run' = [run EXCEPT ![w].pc = "locked", ![w].held = D]
  /\ UNCHANGED <<status, adopted, eps, inventory, learned, tx, operations, history>>

\* The scan of the devices of the endpoints as loaded.
RunScan(w) == ScanOf(View(run[w].loaded), Reserving, DevicesOf(run[w].loaded), learned)

\* _refresh_live_inventory and validate_circuit, on the endpoints as loaded.
Passes(w) == LET scan == RunScan(w) IN
  \A e \in run[w].loaded :
    check_endpoint_available(run[w].circuit, e.at, Inventory(scan))

Preflight(w) == LET c == run[w].circuit IN
  /\ run[w].pc = "locked" /\ run[w].type = "apply" /\ c \notin adopted
  /\ run' = [run EXCEPT ![w] =
       [run[w] EXCEPT !.pc = IF Passes(w) THEN "checked" ELSE "ended",
                 !.outcome = "failed",
                 !.scan = RunScan(w)]]
  /\ validated' = IF Passes(w) /\ eps[c] \in {run[w].loaded, Renamed(run[w].loaded, run[w].loaded)}
                  THEN validated \union {c} ELSE validated
  /\ UNCHANGED <<status, adopted, eps, inventory, learned, tx, contested, operations>>

\* The order of an adopted circuit changes the record only.
ExecuteAdopted(w) ==
  /\ run[w].pc = "locked" /\ run[w].circuit \in adopted
  /\ run' = [run EXCEPT ![w] =
       [run[w] EXCEPT !.pc = "ended", !.scan = RunScan(w),
                 !.outcome = IF run[w].type = "apply" THEN "active" ELSE "decommissioned"]]
  /\ UNCHANGED <<status, adopted, eps, inventory, learned, tx, operations, history>>

\* The first commit of the run.
BeginRun(w) == LET c == run[w].circuit IN
  /\ \/ run[w].pc = "checked"
     \/ run[w].pc = "locked" /\ run[w].type = "decommission" /\ c \notin adopted
  /\ status[c] # "absent"
  /\ WriteScan(eps, run[w].scan)
  /\ run' = [run EXCEPT ![w].pc = "running", ![w].scan = NoScan, ![w].loaded = eps'[c]]
  /\ status' = IF run[w].type = "apply" /\ status[c] \notin {"active", "decommissioned"}
               THEN [status EXCEPT ![c] = "provisioning"] ELSE status
  /\ validated' = validated \ Moved
  /\ contested' = contested \union Moved
  /\ UNCHANGED <<adopted, learned, tx, operations>>

\* The pushes are over, the devices of the endpoints are scanned.
EndRun(w, ok) ==
  /\ run[w].pc = "running"
  /\ run' = [run EXCEPT ![w] =
       [run[w] EXCEPT !.pc = "ended",
                 !.outcome = IF ~ok THEN "failed"
                             ELSE IF run[w].type = "apply" THEN "active" ELSE "decommissioned",
                 !.scan = RunScan(w)]]
  /\ UNCHANGED <<status, adopted, eps, inventory, learned, tx, operations, history>>

\* An exception: the worker marks the circuit as failed.
Raises(w) ==
  /\ run[w].pc \in {"locked", "checked", "running"}
  /\ run' = [run EXCEPT ![w].pc = "ended", ![w].outcome = "failed"]
  /\ UNCHANGED <<status, adopted, eps, inventory, learned, tx, operations, history>>

CommitRun(w) == LET c == run[w].circuit IN
  /\ run[w].pc = "ended" /\ status[c] # "absent"
  /\ WriteScan(eps, run[w].scan)
  /\ status' = [status EXCEPT ![c] = run[w].outcome]
  /\ validated' = (validated \ Moved) \ (IF run[w].outcome = "decommissioned" THEN {c} ELSE {})
  /\ contested' = contested \union Moved
                    \union (IF status[c] = "decommissioned" /\ run[w].outcome # "decommissioned"
                            THEN {c} ELSE {})
  /\ run' = [run EXCEPT ![w] = NoRun]
  /\ UNCHANGED <<adopted, learned, tx, operations>>

\* A commit fails, for a row that is gone for instance: nothing is written,
\* the order stays RUNNING.
AbortRun(w) ==
  /\ run[w].pc \in {"locked", "checked", "ended"}
  /\ run' = [run EXCEPT ![w] = NoRun]
  /\ validated' = validated \ {run[w].circuit}
  /\ UNCHANGED <<status, adopted, eps, inventory, learned, tx, contested, operations>>

---------------------------------------------------------------------------
Request(r) ==
  \/ \E c \in Circuits, e \in Endpoint :
       \/ create_circuit(r, c, e) \/ adopt_circuit(r, c, e) \/ replace_endpoints(r, c, e)
       \/ \E old \in eps[c] : update_endpoint(r, c, old, e)
  \/ CommitCreate(r) \/ CommitAdopt(r) \/ CommitReplace(r) \/ CommitUpdate(r) \/ CommitScan(r)
  \/ Rescan(r) \/ RequestFails(r)
  \/ \E device \in Devices :
       StartScan(r, device) \/ \E snapshot \in SUBSET Found : learn_device(r, device, snapshot)

Work(w) ==
  \/ \E c \in Circuits, type \in {"apply", "decommission"} : StartRun(w, c, type)
  \/ Acquire(w) \/ Preflight(w) \/ ExecuteAdopted(w) \/ BeginRun(w) \/ Raises(w) \/ CommitRun(w) \/ AbortRun(w)
  \/ \E ok \in BOOLEAN : EndRun(w, ok)

Next ==
  \/ \E r \in Requests : Request(r)
  \/ \E c \in Circuits :
       \/ \E e \in Endpoint : add_endpoint(c, e)
       \/ \E e \in eps[c] : delete_endpoint(c, e)
       \/ delete_circuit(c)
  \/ \E w \in Workers : Work(w)

Spec == Init /\ [][Next]_vars

---------------------------------------------------------------------------
(* Properties. *)

Collide(c, d) == \E e \in eps[c], f \in eps[d] : Conflict(e.at, f.at)

\* port_inventory.py: "Prevents provisioning collisions": two circuits whose
\* endpoints, as they are, passed a preflight never claim the same
\* encapsulation of a port, whatever got past the checks of requests.
ValidatedApart ==
  \A c, d \in validated : c # d => ~Collide(c, d)

\* The checks of requests keep reservations apart by themselves, but for
\* requests that overlap, single endpoints added, names spelled otherwise,
\* services adopted and circuits that were decommissioned and come back.
ReservationsApart ==
  \A c, d \in Reserving \ contested : c # d => ~Collide(c, d)

\* platform_settings.py: "the collision pre-check runs against the freshest
\* known on-box state": a circuit does not pass it where learning has found a
\* binding that collides with it.
LearnedSpared ==
  [][\A c \in validated' \ validated : \A e \in eps[c], b \in learned : ~Conflict(e.at, b)]_vars
=============================================================================
