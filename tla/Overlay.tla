------------------------------ MODULE Overlay ------------------------------
(***************************************************************************)
(* The overlay tables of the built-in SDN controller: which VNIs a VTEP    *)
(* serves, the EVPN routes of a circuit, and the VNI a circuit was given.  *)
(* They are edited by database transactions of worker threads, which hold  *)
(* the locks of their devices, and of request threads, which hold none.    *)
(* The database is PostgreSQL at READ COMMITTED under SQLAlchemy sessions  *)
(* without autoflush: a row is read when an object is loaded, the changed  *)
(* columns are written at a flush, the row then stays locked until the     *)
(* commit, and a circle of waiting costs one of its transactions.          *)
(***************************************************************************)
EXTENDS Integers, Sequences, FiniteSets

CONSTANTS
  Devices,          \* device ids; the session rows of devices are in this order
  Circuits,
  Workers,          \* threads of the provisioning worker, one process
  Requests,         \* threads that serve the API
  VniBase, VniMax,  \* settings.vni_base, VNI_MAX
  MaxTransactions,  \* bound: transactions in a behaviour
  None

Sessions == Workers \union Requests
Pool == VniBase..VniMax

ASSUME OverlayAssumption ==
  /\ Workers \intersect Requests = {}
  /\ MaxTransactions \in Nat /\ VniBase \in Nat /\ VniMax \in Nat /\ VniBase <= VniMax
  /\ None \notin Pool /\ None \notin Circuits
  /\ Devices \subseteq Int /\ IsFiniteSet(Devices)

VARIABLES
  vni,      \* circuits.vni, None where there is no such row
  status,   \* circuits.status
  eps,      \* the devices of the circuit's endpoints
  routes,   \* evpn_routes: the circuit, the origin and the session that inserted it
  vtep,     \* vtep_peers.vnis
  tx,       \* the open transaction of each session, as far as it has come
  tainted,  \* history: VNIs of transactions that overlapped, and of edited circuits
  opened    \* transactions opened so far

tables == <<vni, status, eps, routes, vtep>>
vars == <<tables, tx, tainted, opened>>

Kinds == {"none", "create", "install", "withdraw", "undone", "sync", "purge"}
Row == [circuit : Circuits, device : Devices, by : Sessions]
RowLocks == ({"vtep", "bgp"} \X Devices) \union {<<"nodes", None>>}

Idle == [kind |-> "none", circuit |-> None, vni |-> None, devices |-> {},
         held |-> {}, at |-> "none", todo |-> <<>>, edited |-> {}, locks |-> {},
         seen |-> [d \in Devices |-> {}], del |-> {}]

Transaction ==
  [kind : Kinds, circuit : Circuits \union {None}, vni : Pool \union {None},
   devices : SUBSET Devices, held : SUBSET Devices,
   at : {"none", "begin", "read", "write", "undo"},
   todo : Seq({"vtep", "bgp", "nodes"}), edited : SUBSET Devices,
   locks : SUBSET RowLocks,
   seen : [Devices -> SUBSET Pool], del : SUBSET Row]

TypeOK ==
  /\ vni \in [Circuits -> Pool \union {None}]
  /\ status \in [Circuits -> {"absent", "draft", "provisioning", "active", "failed",
                              "decommissioned"}]
  /\ eps \in [Circuits -> SUBSET Devices]
  /\ routes \subseteq Row
  /\ vtep \in [Devices -> SUBSET Pool]
  /\ tx \in [Sessions -> Transaction]
  /\ tainted \subseteq Pool
  /\ opened \in 0..MaxTransactions

Init ==
  /\ vni = [c \in Circuits |-> None]
  /\ status = [c \in Circuits |-> "absent"]
  /\ eps = [c \in Circuits |-> {}]
  /\ routes = {}
  /\ vtep = [d \in Devices |-> {}]
  /\ tx = [s \in Sessions |-> Idle]
  /\ tainted = {}
  /\ opened = 0

----------------------------------------------------------------------------
(* Transactions. *)

RowsOf(c) == {r \in routes : r.circuit = c}

Open(s) == tx[s].kind \notin {"none", "create"}
Finished(s) == tx[s].at = "write" /\ tx[s].todo = <<>>
Exists(s) == vni[tx[s].circuit] # None

\* Slip: released when the last push is done, before the commit.
HeldWhilePushing(s) == IF Finished(s) THEN {} ELSE tx[s].held

\* The device locks of worker._acquire_device_locks a thread still holds.
Held(s) == tx[s].held

\* What a finished transaction makes of the VNIs it saw on a device.
Registers(t) == t.kind \in {"install", "sync"}
_register_vtep(t, d) == t.seen[d] \union {t.vni}
_deregister_vni(t, d) == t.seen[d] \ {t.vni}
NewVnis(t, d) == IF Registers(t) THEN _register_vtep(t, d) ELSE _deregister_vni(t, d)

\* vnis is written where it changed; registering also stamps last_seen, so it
\* updates every row.
Changed(t) == {d \in t.devices : NewVnis(t, d) # t.seen[d]}
Updated(t) == IF Registers(t) THEN t.devices ELSE Changed(t)

\* Slip: an installation stamps sessions and nodes in either order.
LockOrdersAnyStamp(kind) ==
  CASE kind \in {"install", "sync"} -> {<<"vtep", "bgp", "nodes">>, <<"vtep", "nodes", "bgp">>}
    [] kind = "withdraw" -> {<<"vtep", "nodes", "bgp">>}
    [] OTHER -> {<<"vtep", "nodes">>, <<"nodes", "vtep">>}

\* The order in which the flushes reach the tables.  install: VTEPs, then
\* ensure_sessions and sync_sessions on the BGP sessions, then bump_rib_version, which
\* stamps the cluster nodes; withdraw does the last two the other way round;
\* purge has one flush, in the order the library picks.
LockOrders(kind) ==
  CASE kind \in {"install", "sync"} -> {<<"vtep", "bgp", "nodes">>}
    [] kind = "withdraw" -> {<<"vtep", "nodes", "bgp">>}
    [] OTHER -> {<<"vtep", "nodes">>, <<"nodes", "vtep">>}

\* sync_sessions stamps the BGP session rows of all devices in ascending order;
\* an installation has flushed those of its own devices before, as far as the
\* device was edited since (ensure_sessions).
Unlocked(t) == {d \in Devices : <<"bgp", d>> \notin t.locks}
Changes(t) == Unlocked(t) \intersect t.edited
NextSession(t) ==
  LET D == IF Changes(t) # {} THEN Changes(t) ELSE Unlocked(t)
  IN  {d \in D : \A e \in D : d <= e}

Takes(s) ==
  CASE Head(tx[s].todo) = "vtep" -> {"vtep"} \X Updated(tx[s])
    [] Head(tx[s].todo) = "bgp" -> {"bgp"} \X NextSession(tx[s])
    [] OTHER -> {<<"nodes", None>>}

\* The row is the last one of its table.
TableDone(t) == Head(t.todo) = "bgp" => Unlocked(t) \subseteq NextSession(t)

\* The operator may have edited any device since its session row was written.
EditedDevices(t) ==
  CASE Head(t.todo) = "vtep" /\ Registers(t) -> SUBSET t.devices
    [] Head(t.todo) = "bgp" /\ ~TableDone(t) -> {t.edited}
    [] OTHER -> {{}}

\* u has inserted rows that refer to its circuit, so the circuit stays until
\* u ends.
Refers(u) ==
  /\ tx[u].kind \in {"install", "sync", "withdraw", "undone"}
  /\ tx[u].at \in {"write", "undo"}
  /\ tx[u].todo = <<>> \/ Head(tx[u].todo) # "vtep"

\* The statement s is about to issue needs a row u has locked.
Waits(s, u) ==
  /\ s # u
  /\ \/ /\ tx[s].at \in {"read", "undo"}
        /\ tx[u].del \intersect RowsOf(tx[s].circuit) # {}
     \/ /\ tx[s].at = "write" /\ tx[s].todo # <<>>
        /\ Takes(s) \intersect tx[u].locks # {}
     \/ /\ tx[s].kind = "purge" /\ Finished(s)
        /\ tx[u].circuit = tx[s].circuit /\ Refers(u)

Free(s) == \A u \in Sessions : ~Waits(s, u)

Circle(S) == \A u \in S : (\E x \in S : Waits(u, x)) /\ (\E x \in S : Waits(x, u))

\* t opens while u is open, they touch the same rows, and the device locks do
\* not keep them apart.
Covered(t) == t.devices \subseteq t.held
Clash(t, u) ==
  /\ t.circuit = u.circuit \/ t.devices \intersect u.devices # {}
  /\ ~(Covered(t) /\ Covered(u))
Overlapped(s, t) ==
  UNION {{t.vni, tx[u].vni} : u \in {x \in Sessions \ {s} : Open(x) /\ Clash(t, tx[x])}}

Opens(s, t) ==
  /\ tx' = [tx EXCEPT ![s] = t]
  /\ tainted' = tainted \union Overlapped(s, t)

----------------------------------------------------------------------------
(* Creating a circuit: the VNI is chosen, other work follows, the row is    *)
(* committed.                                                               *)

\* Slip: the VNIs of circuits in service only.
VnisInService == {vni[c] : c \in {x \in Circuits : status[x] \in {"provisioning", "active"}}}

_used_vnis == {vni[c] : c \in Circuits} \ {None}

\* Slip: the search does not stop at the last VNI.
UnboundedVni(used) ==
  CHOOSE v \in VniBase..(VniMax + 1) : v \notin used /\ VniBase..(v - 1) \subseteq used

\* The first free VNI; the last one when there is none.
allocate_vni(used) ==
  IF VniBase..(VniMax - 1) \subseteq used THEN VniMax
  ELSE CHOOSE v \in Pool \ used : \A w \in Pool \ used : v <= w

\* The operator may name a VNI that nobody uses.
create_circuit(r, c, D, v) ==
  /\ tx[r].kind = "none" /\ status[c] = "absent" /\ D # {}
  /\ \A s \in Sessions : tx[s].circuit # c
  /\ v = allocate_vni(_used_vnis) \/ v \in Pool \ _used_vnis
  /\ tx' = [tx EXCEPT ![r] = [Idle EXCEPT !.kind = "create", !.circuit = c,
                                          !.vni = v, !.devices = D]]
  /\ tainted' =
       IF \/ Pool \subseteq _used_vnis
          \/ \E s \in Sessions : tx[s].kind = "create" /\ tx[s].vni = v
       THEN tainted \union {v} ELSE tainted
  /\ UNCHANGED tables

InsertCircuit(r) ==
  /\ tx[r].kind = "create"
  /\ LET c == tx[r].circuit IN
       /\ vni' = [vni EXCEPT ![c] = tx[r].vni]
       /\ status' = [status EXCEPT ![c] = "draft"]
       /\ eps' = [eps EXCEPT ![c] = tx[r].devices]
  /\ tx' = [tx EXCEPT ![r] = Idle]
  /\ UNCHANGED <<routes, vtep, tainted>>

----------------------------------------------------------------------------
(* Runs of orders.  A circuit has one queued or running order at a time, so *)
(* one worker; POST /execute runs an order in the request, without locks.   *)

StartRun(s, c, kind) ==
  /\ tx[s].kind = "none" /\ vni[c] # None
  /\ s \in Workers =>
       \A u \in Workers \ {s} : tx[u].circuit # c /\ Held(u) \intersect eps[c] = {}
  /\ Opens(s, [Idle EXCEPT !.kind = kind, !.circuit = c, !.vni = vni[c], !.at = "begin",
                           !.devices = eps[c],
                           !.held = IF s \in Workers THEN eps[c] ELSE {}])
  /\ UNCHANGED tables

PreflightFails(s) ==
  /\ tx[s].at = "begin" /\ tx[s].kind = "install" /\ Exists(s)
  /\ status' = [status EXCEPT ![tx[s].circuit] = "failed"]
  /\ tx' = [tx EXCEPT ![s] = Idle]
  /\ UNCHANGED <<vni, eps, routes, vtep, tainted>>

\* The commit before the pushes; the endpoints are loaded again after it.
BeginRun(s) ==
  /\ tx[s].at = "begin" /\ Exists(s)
  /\ LET c == tx[s].circuit IN
       /\ status' = IF tx[s].kind = "install" /\ status[c] \notin {"active", "decommissioned"}
                    THEN [status EXCEPT ![c] = "provisioning"] ELSE status
       /\ Opens(s, [tx[s] EXCEPT !.at = "read", !.devices = eps[c]])
  /\ UNCHANGED <<vni, eps, routes, vtep>>

\* A push after the controller's step has failed: withdraw what was installed.
PushFails(s) ==
  /\ tx[s].kind = "install" /\ Finished(s)
  /\ tx' = [tx EXCEPT ![s].at = "undo"]
  /\ UNCHANGED <<tables, tainted>>

_undo_bugis(s) ==
  /\ tx[s].at = "undo" /\ Free(s)
  /\ tx' = [tx EXCEPT ![s].kind = "undone", ![s].at = "write",
                      ![s].del = @ \union RowsOf(tx[s].circuit)]
  /\ UNCHANGED <<tables, tainted>>

----------------------------------------------------------------------------
(* Requests that edit the overlay. *)

\* replace_endpoints: committed, then the ports are scanned, then the overlay
\* is synchronised if the status loaded before the scan calls for it.
replace_endpoints(r, c, D) ==
  /\ tx[r].kind = "none" /\ vni[c] # None /\ D # {} /\ D # eps[c]
  /\ eps' = [eps EXCEPT ![c] = D]
  /\ LET t == [Idle EXCEPT !.kind = "sync", !.circuit = c, !.vni = vni[c], !.at = "read",
                           !.devices = D]
         syncs == status[c] \in {"provisioning", "active"}
     IN  /\ tx' = IF syncs THEN [tx EXCEPT ![r] = t] ELSE tx
         /\ tainted' = tainted \union {vni[c]} \union IF syncs THEN Overlapped(r, t) ELSE {}
  /\ UNCHANGED <<vni, status, routes, vtep>>

\* Adding, changing and deleting single endpoints leaves the overlay alone.
\* The last endpoint stays: a circuit without endpoints has no controller step.
edit_endpoints(r, c, D) ==
  /\ tx[r].kind = "none" /\ vni[c] # None /\ D # {} /\ D # eps[c]
  /\ eps' = [eps EXCEPT ![c] = D]
  /\ tainted' = tainted \union {vni[c]}
  /\ UNCHANGED <<vni, status, routes, vtep, tx>>

delete_circuit(r, c) ==
  /\ tx[r].kind = "none" /\ status[c] \in {"draft", "failed", "decommissioned"}
  /\ Opens(r, [Idle EXCEPT !.kind = "purge", !.circuit = c, !.vni = vni[c], !.at = "read",
                           !.devices = eps[c]])
  /\ UNCHANGED tables

----------------------------------------------------------------------------
(* The transaction of install_circuit, withdraw_circuit and purge_circuit.  *)

\* The routes of the circuit are deleted and the VTEPs of its devices loaded.
Read(s) ==
  /\ tx[s].at = "read" /\ Exists(s) /\ Free(s)
  /\ \E order \in LockOrders(tx[s].kind) :
       tx' = [tx EXCEPT ![s].at = "write", ![s].todo = order, ![s].del = RowsOf(tx[s].circuit),
                        ![s].seen = [d \in Devices |-> IF d \in tx[s].devices THEN vtep[d] ELSE {}]]
  /\ UNCHANGED <<tables, tainted>>

Flush(s) ==
  /\ tx[s].at = "write" /\ tx[s].todo # <<>> /\ Free(s)
  /\ Exists(s)
  /\ \E edited \in EditedDevices(tx[s]) :
       tx' = [tx EXCEPT ![s].todo = IF TableDone(tx[s]) THEN Tail(@) ELSE @,
                        ![s].edited = edited, ![s].locks = @ \union Takes(s)]
  /\ UNCHANGED <<tables, tainted>>

Inserted(s) ==
  IF Registers(tx[s]) THEN [circuit : {tx[s].circuit}, device : tx[s].devices, by : {s}]
  ELSE {}

\* Slip: a run that was rolled back is recorded as one that succeeded.
OutcomesIgnoringRollback(s) ==
  CASE tx[s].kind \in {"install", "undone"} -> {"active", "failed"}
    [] tx[s].kind = "withdraw" -> {"decommissioned", "failed"}
    [] OTHER -> {status[tx[s].circuit]}

\* An exception that the controller's step or the worker catches fails the
\* circuit and leaves what was installed.
Outcomes(s) ==
  CASE tx[s].kind = "install" -> {"active", "failed"}
    [] tx[s].kind = "undone" -> {"failed"}
    [] tx[s].kind = "withdraw" -> {"decommissioned", "failed"}
    [] OTHER -> {status[tx[s].circuit]}

WriteVteps(s) ==
  vtep' = [d \in Devices |-> IF d \in Changed(tx[s]) THEN NewVnis(tx[s], d) ELSE vtep[d]]

Commit(s) ==
  /\ tx[s].kind # "purge" /\ Finished(s) /\ Exists(s)
  /\ WriteVteps(s)
  /\ routes' = (routes \ tx[s].del) \union Inserted(s)
  /\ \E st \in Outcomes(s) : status' = [status EXCEPT ![tx[s].circuit] = st]
  /\ tx' = [tx EXCEPT ![s] = Idle]
  /\ UNCHANGED <<vni, eps, tainted>>

\* The circuit's row goes too, and with it whatever routes refer to it.
CommitPurge(s) ==
  /\ tx[s].kind = "purge" /\ Finished(s) /\ Exists(s) /\ Free(s)
  /\ LET c == tx[s].circuit IN
       /\ WriteVteps(s)
       /\ routes' = routes \ RowsOf(c)
       /\ status' = [status EXCEPT ![c] = "absent"]
       /\ vni' = [vni EXCEPT ![c] = None]
       /\ eps' = [eps EXCEPT ![c] = {}]
  /\ tx' = [tx EXCEPT ![s] = Idle]
  /\ UNCHANGED tainted

\* The circuit was deleted meanwhile: a statement or the commit fails.
CircuitGone(s) ==
  /\ Open(s) /\ ~Exists(s)
  /\ tx' = [tx EXCEPT ![s] = Idle]
  /\ UNCHANGED <<tables, tainted>>

\* A request that fails closes its session without a commit.
RequestFails(s) ==
  /\ s \in Requests /\ tx[s].kind # "none"
  /\ tx' = [tx EXCEPT ![s] = Idle]
  /\ UNCHANGED <<tables, tainted>>

\* The database ends a circle of waiting by rolling one transaction back.
DeadlockVictim(s) ==
  /\ \E S \in SUBSET Sessions : s \in S /\ Circle(S)
  /\ tx' = [tx EXCEPT ![s] = Idle]
  /\ UNCHANGED <<tables, tainted>>

----------------------------------------------------------------------------
Step(s) ==
  \/ PreflightFails(s) \/ BeginRun(s) \/ Read(s) \/ Flush(s) \/ PushFails(s)
  \/ _undo_bugis(s) \/ Commit(s) \/ CommitPurge(s) \/ CircuitGone(s) \/ DeadlockVictim(s)
  \/ InsertCircuit(s) \/ RequestFails(s)

Begin(s) ==
  \/ \E c \in Circuits, kind \in {"install", "withdraw"} : StartRun(s, c, kind)
  \/ s \in Requests /\ \E c \in Circuits :
       \/ delete_circuit(s, c)
       \/ \E D \in SUBSET Devices :
            \/ replace_endpoints(s, c, D) \/ edit_endpoints(s, c, D)
            \/ \E v \in Pool \union {allocate_vni(_used_vnis)} : create_circuit(s, c, D, v)

Next ==
  \E s \in Sessions :
    \/ Begin(s) /\ opened < MaxTransactions /\ opened' = opened + 1
    \/ Step(s) /\ UNCHANGED opened

Spec == Init /\ [][Next]_vars

----------------------------------------------------------------------------
(* Properties. *)

Serves(d, v) == \E r \in routes : r.device = d /\ vni[r.circuit] = v

\* The VTEP table and the RIB agree: a VTEP lists exactly the VNIs of the
\* routes its device originates.  Interference is confined to the VNIs whose
\* transactions overlapped: what two unprotected edits do to each other's
\* entries never reaches a third circuit on the same VTEP, and worker threads,
\* whose device locks outlast the commit, do not interfere at all.
OverlayExact == \A d \in Devices, v \in Pool \ tainted : v \in vtep[d] <=> Serves(d, v)

\* A settled circuit has the routes its status says: an active one exactly
\* those of its endpoints, a draft or decommissioned one none.
RoutesFollowStatus ==
  \A c \in Circuits :
    LET origins == {r.device : r \in RowsOf(c)} IN
    vni[c] \notin tainted =>
      /\ status[c] = "active" => origins = eps[c]
      /\ status[c] \in {"draft", "decommissioned", "absent"} => origins = {}

\* Two circuits never share a VNI, short of overlapping creations and of an
\* exhausted pool.
DistinctVnis ==
  \A c1, c2 \in Circuits : c1 # c2 /\ vni[c1] = vni[c2] => vni[c1] \in tainted \union {None}

\* A session row of an edited device was flushed ahead of rows before it.
FlushedAhead(t) == \E d \in Unlocked(t), e \in Devices : <<"bgp", e>> \in t.locks /\ d < e

\* Transactions of different circuits that stamp the shared rows in the same
\* order never wait in a circle: installations do not block each other, nor do
\* withdrawals.  Mixed ones do: worker.py:13 has orders run in parallel, and an
\* install and a withdraw of unrelated circuits can end with one of the two
\* rolled back by the database.  So do two deletions, whose one flush has no
\* order of its own, and installations after a device was edited: one holds the
\* session row of that device while it waits for a row before it.
CirclesMixOrders ==
  \A S \in SUBSET Sessions :
    S # {} /\ Circle(S) =>
      \/ \E s \in S : FlushedAhead(tx[s])
      \/ \E s, u \in S :
           /\ s # u
           /\ \/ LockOrders(tx[s].kind) # LockOrders(tx[u].kind)
              \/ tx[s].circuit = tx[u].circuit
              \/ tx[s].kind = "purge" /\ tx[u].kind = "purge"
=============================================================================
