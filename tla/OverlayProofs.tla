--------------------------- MODULE OverlayProofs ---------------------------
(***************************************************************************)
(* VNIs are distinct and the overlay tables exact, for any number of       *)
(* sessions, circuits and devices.                                         *)
(***************************************************************************)
EXTENDS Overlay, FiniteSetTheorems, TLAPS

Tables == {"vtep", "bgp", "nodes"}

\* A session that works on the overlay knows a circuit and its VNI.
Shape ==
  \A s \in Sessions :
    /\ tx[s].at # "none" <=> Open(s)
    /\ tx[s].kind # "none" => tx[s].circuit \in Circuits /\ tx[s].vni \in Pool
    /\ tx[s].kind = "none" => tx[s].circuit = None /\ tx[s].held = {}
    /\ tx[s].kind = "create" => tx[s].held = {}

\* A circuit has a row exactly if it has a VNI; open transactions know its VNI.
RowsHaveVnis ==
  /\ \A c \in Circuits : status[c] = "absent" <=> vni[c] = None
  /\ \A s \in Sessions : Open(s) => vni[tx[s].circuit] \in {tx[s].vni, None}

\* A circuit that is being created is no other session's business, and what
\* else has its VNI is on record.
Creations ==
  \A s \in Sessions : tx[s].kind = "create" =>
    /\ vni[tx[s].circuit] = None
    /\ \A u \in Sessions \ {s} : tx[u].circuit # tx[s].circuit
    /\ \A c \in Circuits : vni[c] = tx[s].vni => tx[s].vni \in tainted
    /\ \A u \in Sessions \ {s} : tx[u].kind = "create" /\ tx[u].vni = tx[s].vni
                                   => tx[s].vni \in tainted

NamesInv == TypeOK /\ Shape /\ RowsHaveVnis /\ Creations /\ DistinctVnis

-----------------------------------------------------------------------------
LEMMA LockOrdersType ==
  \A kind \in Kinds : LockOrders(kind) \subseteq Seq(Tables)
<1>1. /\ <<"vtep", "bgp", "nodes">> \in Seq(Tables)
      /\ <<"vtep", "nodes", "bgp">> \in Seq(Tables)
      /\ <<"vtep", "nodes">> \in Seq(Tables)
      /\ <<"nodes", "vtep">> \in Seq(Tables)
  BY DEF Tables
<1> QED
  BY <1>1 DEF LockOrders

LEMMA TailType ==
  ASSUME NEW q \in Seq(Tables), q # <<>>
  PROVE  Tail(q) \in Seq(Tables) /\ Head(q) \in Tables
  OBVIOUS

LEMMA IdleType == Idle \in Transaction
<1>1. <<>> \in Seq({"vtep", "bgp", "nodes"})
  OBVIOUS
<1> QED
  BY <1>1 DEF Idle, Transaction, Kinds

\* A flush leaves a transaction as it is but for the locks and what is to do.
LEMMA FlushEffect ==
  ASSUME TypeOK, NEW s \in Sessions, Flush(s)
  PROVE  /\ tx[s].at = "write" /\ tx[s].todo # <<>> /\ UNCHANGED <<tables, tainted>>
         /\ \E edited \in SUBSET Devices, todo \in Seq(Tables) :
              /\ todo = IF TableDone(tx[s]) THEN Tail(tx[s].todo) ELSE tx[s].todo
              /\ tx' = [tx EXCEPT ![s] = [tx[s] EXCEPT !.todo = todo, !.edited = edited,
                                                       !.locks = @ \union Takes(s)]]
<1>1. tx[s] \in Transaction /\ tx \in [Sessions -> Transaction]
  BY DEF TypeOK
<1>2. PICK edited \in EditedDevices(tx[s]) :
        tx' = [tx EXCEPT ![s].todo = IF TableDone(tx[s]) THEN Tail(@) ELSE @,
                         ![s].edited = edited, ![s].locks = @ \union Takes(s)]
  BY DEF Flush
<1>3. edited \in SUBSET Devices
  BY <1>1, <1>2 DEF EditedDevices, Transaction
<1>4. tx[s].todo \in Seq(Tables) /\ tx[s].todo # <<>>
  BY <1>1 DEF Transaction, Tables, Flush
<1> DEFINE todo == IF TableDone(tx[s]) THEN Tail(tx[s].todo) ELSE tx[s].todo
<1>5. todo \in Seq(Tables)
  BY <1>4, TailType
<1>6. tx' = [tx EXCEPT ![s] = [tx[s] EXCEPT !.todo = todo, !.edited = edited,
                                            !.locks = @ \union Takes(s)]]
  BY <1>1, <1>2
<1>7. tx[s].at = "write" /\ UNCHANGED <<tables, tainted>>
  BY DEF Flush
<1> HIDE DEF todo
<1> QED
  BY <1>3, <1>4, <1>5, <1>6, <1>7 DEF todo

LEMMA NewVnisType ==
  ASSUME NEW t \in Transaction, t.vni \in Pool, NEW d \in Devices
  PROVE  NewVnis(t, d) \in SUBSET Pool
  BY DEF Transaction, NewVnis, _register_vtep, _deregister_vni

\* allocate_vni returns a number of the pool, and one in use only when all are.
LEMMA AllocateVni ==
  ASSUME NEW used
  PROVE  /\ allocate_vni(used) \in Pool
         /\ allocate_vni(used) \in used => Pool \subseteq used
<1>1. CASE VniBase..(VniMax - 1) \subseteq used
  BY <1>1, OverlayAssumption DEF allocate_vni, Pool
<1>2. CASE ~(VniBase..(VniMax - 1) \subseteq used)
  <2> DEFINE free == Pool \ used
  <2>1. free \in SUBSET Nat /\ free # {}
    BY <1>2, OverlayAssumption DEF Pool
  <2>2. \E v \in free : \A w \in free : v <= w
    <3> DEFINE less == OpToRel(<, Nat)
    <3>1. \E v \in free : \A w \in free : <<w, v>> \notin less
      <4>1. IsWellFoundedOn(less, Nat)
        BY NatLessThanWellFounded
      <4> HIDE DEF free, less
      <4> QED
        BY <2>1, <4>1, WFMin
    <3>2. \A v, w \in Nat : <<w, v>> \in less <=> w < v
      BY DEF OpToRel
    <3> HIDE DEF free, less
    <3>3. PICK v \in free : \A w \in free : <<w, v>> \notin less
      BY <3>1
    <3>4. ASSUME NEW w \in free PROVE v <= w
      <4>1. w \in Nat /\ v \in Nat
        BY <2>1
      <4>2. ~(w < v)
        BY <3>2, <3>3, <4>1
      <4> QED
        BY <4>1, <4>2
    <3> QED
      BY <3>4
  <2>3. allocate_vni(used) \in free
    BY <1>2, <2>2 DEF allocate_vni
  <2> QED
    BY <2>3
<1> QED
  BY <1>1, <1>2

-----------------------------------------------------------------------------
(* Types. *)

LEMMA TxType ==
  ASSUME TypeOK, NEW s \in Sessions, NEW t \in Transaction,
         tx' = [tx EXCEPT ![s] = t]
  PROVE  tx' \in [Sessions -> Transaction]
  BY DEF TypeOK

LEMMA OverlappedType ==
  ASSUME TypeOK, Shape, NEW s \in Sessions, NEW t, t.vni \in Pool
  PROVE  Overlapped(s, t) \subseteq Pool
  BY DEF Overlapped, Shape, Open

LEMMA InitType == Init => TypeOK
<1> SUFFICES ASSUME Init PROVE TypeOK
  OBVIOUS
<1>1. 0 \in 0..MaxTransactions
  BY OverlayAssumption
<1> QED
  BY <1>1, IdleType DEF Init, TypeOK

LEMMA StartRunType ==
  ASSUME TypeOK, Shape, NEW s \in Sessions, NEW c \in Circuits,
         NEW kind \in {"install", "withdraw"}, StartRun(s, c, kind)
  PROVE  /\ tx' \in [Sessions -> Transaction] /\ tainted' \subseteq Pool
<1> DEFINE t == [Idle EXCEPT !.kind = kind, !.circuit = c, !.vni = vni[c], !.at = "begin",
                             !.devices = eps[c],
                             !.held = IF s \in Workers THEN eps[c] ELSE {}]
<1>1. t \in Transaction /\ t.vni \in Pool
  BY IdleType DEF Transaction, TypeOK, StartRun, Kinds
<1>2. Opens(s, t)
  BY DEF StartRun
<1> HIDE DEF t
<1> QED
  BY <1>1, <1>2, TxType, OverlappedType DEF Opens, TypeOK

LEMMA DeleteType ==
  ASSUME TypeOK, Shape, NEW s \in Sessions, NEW c \in Circuits, RowsHaveVnis,
         delete_circuit(s, c)
  PROVE  /\ tx' \in [Sessions -> Transaction] /\ tainted' \subseteq Pool
<1> DEFINE t == [Idle EXCEPT !.kind = "purge", !.circuit = c, !.vni = vni[c], !.at = "read",
                             !.devices = eps[c]]
<1>1. t \in Transaction /\ t.vni \in Pool
  BY IdleType DEF Transaction, TypeOK, RowsHaveVnis, delete_circuit, Kinds
<1>2. Opens(s, t)
  BY DEF delete_circuit
<1> HIDE DEF t
<1> QED
  BY <1>1, <1>2, TxType, OverlappedType DEF Opens, TypeOK

LEMMA ReplaceType ==
  ASSUME TypeOK, Shape, NEW s \in Sessions, NEW c \in Circuits, NEW D \in SUBSET Devices,
         replace_endpoints(s, c, D)
  PROVE  /\ tx' \in [Sessions -> Transaction] /\ tainted' \subseteq Pool
<1> DEFINE t == [Idle EXCEPT !.kind = "sync", !.circuit = c, !.vni = vni[c], !.at = "read",
                             !.devices = D]
           syncs == status[c] \in {"provisioning", "active"}
<1>1. t \in Transaction /\ t.vni \in Pool /\ vni[c] \in Pool
  BY IdleType DEF Transaction, TypeOK, replace_endpoints, Kinds
<1>2. /\ tx' = IF syncs THEN [tx EXCEPT ![s] = t] ELSE tx
      /\ tainted' = tainted \union {vni[c]} \union IF syncs THEN Overlapped(s, t) ELSE {}
  BY DEF replace_endpoints
<1> HIDE DEF t
<1>3. CASE syncs
  BY <1>1, <1>2, <1>3, TxType, OverlappedType DEF TypeOK
<1>4. CASE ~syncs
  BY <1>1, <1>2, <1>4 DEF TypeOK
<1> QED
  BY <1>3, <1>4

LEMMA BeginRunType ==
  ASSUME TypeOK, Shape, NEW s \in Sessions, BeginRun(s)
  PROVE  /\ tx' \in [Sessions -> Transaction] /\ tainted' \subseteq Pool
         /\ status' \in [Circuits -> {"absent", "draft", "provisioning", "active", "failed",
                                     "decommissioned"}]
<1> DEFINE t == [tx[s] EXCEPT !.at = "read", !.devices = eps[tx[s].circuit]]
<1>1. tx[s] \in Transaction /\ tx[s].circuit \in Circuits /\ tx[s].vni \in Pool
  BY DEF TypeOK, Shape, Open, BeginRun
<1>2. t \in Transaction /\ t.vni \in Pool
  BY <1>1 DEF Transaction, TypeOK
<1>3. Opens(s, t)
  BY DEF BeginRun
<1>4. status' \in [Circuits -> {"absent", "draft", "provisioning", "active", "failed",
                               "decommissioned"}]
  BY <1>1 DEF BeginRun, TypeOK
<1> HIDE DEF t
<1> QED
  BY <1>2, <1>3, <1>4, TxType, OverlappedType DEF Opens, TypeOK

LEMMA ReadType ==
  ASSUME TypeOK, Shape, NEW s \in Sessions, Read(s)
  PROVE  tx' \in [Sessions -> Transaction]
<1>1. tx[s] \in Transaction
  BY DEF TypeOK
<1>2. PICK order \in LockOrders(tx[s].kind) :
        tx' = [tx EXCEPT ![s].at = "write", ![s].todo = order, ![s].del = RowsOf(tx[s].circuit),
                 ![s].seen = [d \in Devices |-> IF d \in tx[s].devices THEN vtep[d] ELSE {}]]
  BY DEF Read
<1>3. order \in Seq({"vtep", "bgp", "nodes"})
  BY <1>1, LockOrdersType DEF Transaction, Tables
<1>4. RowsOf(tx[s].circuit) \in SUBSET Row
  BY DEF RowsOf, TypeOK
<1>5. [d \in Devices |-> IF d \in tx[s].devices THEN vtep[d] ELSE {}] \in [Devices -> SUBSET Pool]
  BY DEF TypeOK
<1>6. [tx[s] EXCEPT !.at = "write", !.todo = order, !.del = RowsOf(tx[s].circuit),
         !.seen = [d \in Devices |-> IF d \in tx[s].devices THEN vtep[d] ELSE {}]] \in Transaction
  BY <1>1, <1>3, <1>4, <1>5 DEF Transaction
<1> QED
  BY <1>2, <1>6 DEF TypeOK

LEMMA FlushType ==
  ASSUME TypeOK, Shape, NEW s \in Sessions, Flush(s)
  PROVE  tx' \in [Sessions -> Transaction]
<1>1. tx[s] \in Transaction
  BY DEF TypeOK
<1>2. PICK edited \in SUBSET Devices, todo \in Seq(Tables) :
        tx' = [tx EXCEPT ![s] = [tx[s] EXCEPT !.todo = todo, !.edited = edited,
                                              !.locks = @ \union Takes(s)]]
  BY FlushEffect
<1>3. Updated(tx[s]) \subseteq Devices /\ NextSession(tx[s]) \subseteq Devices
  BY <1>1 DEF Transaction, Updated, Changed, NextSession, Changes, Unlocked
<1>4. Takes(s) \subseteq RowLocks
  BY <1>3 DEF Takes, RowLocks
<1>5. [tx[s] EXCEPT !.todo = todo, !.edited = edited, !.locks = @ \union Takes(s)] \in Transaction
  BY <1>1, <1>4 DEF Transaction, Tables
<1> QED
  BY <1>2, <1>5, TxType

LEMMA UndoType ==
  ASSUME TypeOK, NEW s \in Sessions, PushFails(s) \/ _undo_bugis(s)
  PROVE  tx' \in [Sessions -> Transaction]
<1>1. tx[s] \in Transaction /\ RowsOf(tx[s].circuit) \in SUBSET Row
  BY DEF TypeOK, RowsOf
<1>2. CASE PushFails(s)
  <2>1. [tx[s] EXCEPT !.at = "undo"] \in Transaction
    BY <1>1 DEF Transaction
  <2> QED
    BY <1>2, <2>1 DEF PushFails, TypeOK
<1>3. CASE _undo_bugis(s)
  <2>1. [tx[s] EXCEPT !.kind = "undone", !.at = "write",
                      !.del = @ \union RowsOf(tx[s].circuit)] \in Transaction
    BY <1>1 DEF Transaction, Kinds
  <2> QED
    BY <1>3, <2>1 DEF _undo_bugis, TypeOK
<1> QED
  BY <1>2, <1>3

LEMMA CommitType ==
  ASSUME TypeOK, Shape, NEW s \in Sessions, Finished(s), WriteVteps(s)
  PROVE  /\ tx[s].circuit \in Circuits /\ tx[s].vni \in Pool
         /\ vtep' \in [Devices -> SUBSET Pool]
         /\ Inserted(s) \subseteq Row
<1>1. tx[s] \in Transaction /\ tx[s].circuit \in Circuits /\ tx[s].vni \in Pool
  BY DEF TypeOK, Shape, Open, Finished
<1>2. \A d \in Devices : NewVnis(tx[s], d) \in SUBSET Pool
  BY <1>1, NewVnisType
<1>3. vtep' \in [Devices -> SUBSET Pool]
  BY <1>2 DEF WriteVteps, TypeOK
<1>4. tx[s].devices \subseteq Devices
  BY <1>1 DEF Transaction
<1>5. Inserted(s) \subseteq Row
  BY <1>1, <1>4 DEF Inserted, Row
<1> QED
  BY <1>1, <1>3, <1>5

LEMMA StepType ==
  ASSUME TypeOK, Shape, NEW s \in Sessions, Step(s), UNCHANGED opened
  PROVE  TypeOK'
<1>1. CASE PreflightFails(s)
  BY <1>1, IdleType, TxType DEF PreflightFails, TypeOK
<1>2. CASE BeginRun(s)
  <2>1. UNCHANGED <<vni, eps, routes, vtep>>
    BY <1>2 DEF BeginRun
  <2> QED
    BY <1>2, <2>1, BeginRunType DEF TypeOK
<1>3. CASE Read(s)
  BY <1>3, ReadType DEF Read, TypeOK, tables
<1>4. CASE Flush(s)
  BY <1>4, FlushType DEF Flush, TypeOK, tables
<1>5. CASE PushFails(s) \/ _undo_bugis(s)
  BY <1>5, UndoType DEF PushFails, _undo_bugis, TypeOK, tables
<1>6. CASE Commit(s)
  <2>1. /\ Finished(s) /\ WriteVteps(s)
        /\ routes' = (routes \ tx[s].del) \union Inserted(s)
        /\ tx' = [tx EXCEPT ![s] = Idle] /\ UNCHANGED <<vni, eps, tainted>>
    BY <1>6 DEF Commit
  <2>2. PICK st \in Outcomes(s) : status' = [status EXCEPT ![tx[s].circuit] = st]
    BY <1>6 DEF Commit
  <2>3. st \in {"absent", "draft", "provisioning", "active", "failed", "decommissioned"}
    BY <2>1, <2>2, CommitType DEF Outcomes, TypeOK
  <2> QED
    BY <2>1, <2>2, <2>3, CommitType, IdleType, TxType DEF TypeOK
<1>7. CASE CommitPurge(s)
  <2>1. /\ Finished(s) /\ WriteVteps(s)
        /\ routes' \subseteq routes
        /\ tx' = [tx EXCEPT ![s] = Idle] /\ UNCHANGED tainted
    BY <1>7 DEF CommitPurge
  <2>2. /\ vni' \in [Circuits -> Pool \union {None}]
        /\ eps' \in [Circuits -> SUBSET Devices]
        /\ status' \in [Circuits -> {"absent", "draft", "provisioning", "active", "failed",
                                    "decommissioned"}]
    BY <1>7 DEF CommitPurge, TypeOK
  <2> QED
    BY <2>1, <2>2, CommitType, IdleType, TxType DEF TypeOK
<1>8. CASE CircuitGone(s) \/ DeadlockVictim(s) \/ RequestFails(s)
  BY <1>8, IdleType, TxType DEF CircuitGone, DeadlockVictim, RequestFails, TypeOK, tables
<1>9. CASE InsertCircuit(s)
  <2>1. tx[s] \in Transaction /\ tx[s].vni \in Pool
    BY <1>9 DEF TypeOK, Shape, InsertCircuit
  <2>2. tx[s].devices \in SUBSET Devices
    BY <2>1 DEF Transaction
  <2> QED
    BY <1>9, <2>1, <2>2, IdleType, TxType DEF InsertCircuit, TypeOK
<1> QED
  BY <1>1, <1>2, <1>3, <1>4, <1>5, <1>6, <1>7, <1>8, <1>9 DEF Step

LEMMA BeginType ==
  ASSUME TypeOK, Shape, RowsHaveVnis, NEW s \in Sessions, Begin(s),
         opened < MaxTransactions, opened' = opened + 1
  PROVE  TypeOK'
<1>0. opened' \in 0..MaxTransactions
  BY OverlayAssumption DEF TypeOK
<1>1. CASE \E c \in Circuits, kind \in {"install", "withdraw"} : StartRun(s, c, kind)
  BY <1>0, <1>1, StartRunType DEF StartRun, TypeOK, tables
<1>2. CASE \E c \in Circuits : delete_circuit(s, c)
  BY <1>0, <1>2, DeleteType DEF delete_circuit, TypeOK, tables
<1>3. CASE \E c \in Circuits, D \in SUBSET Devices : replace_endpoints(s, c, D)
  <2>1. PICK c \in Circuits, D \in SUBSET Devices : replace_endpoints(s, c, D)
    BY <1>3
  <2>2. eps' \in [Circuits -> SUBSET Devices] /\ UNCHANGED <<vni, status, routes, vtep>>
    BY <2>1 DEF replace_endpoints, TypeOK
  <2> QED
    BY <1>0, <2>1, <2>2, ReplaceType DEF TypeOK
<1>4. CASE \E c \in Circuits, D \in SUBSET Devices : edit_endpoints(s, c, D)
  BY <1>0, <1>4 DEF edit_endpoints, TypeOK
<1>5. CASE \E c \in Circuits, D \in SUBSET Devices, v \in Pool \union {allocate_vni(_used_vnis)} :
               create_circuit(s, c, D, v)
  <2>1. PICK c \in Circuits, D \in SUBSET Devices, v \in Pool : create_circuit(s, c, D, v)
    BY <1>5, AllocateVni
  <2>2. [Idle EXCEPT !.kind = "create", !.circuit = c, !.vni = v, !.devices = D] \in Transaction
    BY IdleType DEF Transaction, Kinds
  <2>3. tx' \in [Sessions -> Transaction]
    BY <2>1, <2>2, TxType DEF create_circuit
  <2>4. tainted' \subseteq Pool
    BY <2>1 DEF create_circuit, TypeOK
  <2> QED
    BY <1>0, <2>1, <2>3, <2>4 DEF create_circuit, TypeOK, tables
<1> QED
  BY <1>1, <1>2, <1>3, <1>4, <1>5 DEF Begin

-----------------------------------------------------------------------------
(* Names: circuits, VNIs and who knows them. *)

\* A session that carries on with its transaction, or ends it, without
\* touching the circuits' names.
CarriesOn(s, t) ==
  /\ tx' = [tx EXCEPT ![s] = t] /\ vni' = vni
  /\ \/ t = Idle
     \/ /\ Open(s) /\ t.circuit = tx[s].circuit /\ t.vni = tx[s].vni /\ t.held = tx[s].held
        /\ t.kind \notin {"none", "create"} /\ t.at # "none"
  /\ tainted \subseteq tainted'
  /\ \A c \in Circuits : status'[c] = "absent" <=> status[c] = "absent"

LEMMA CarriesOnNames ==
  ASSUME NamesInv, NEW s \in Sessions, NEW t, CarriesOn(s, t)
  PROVE  Shape' /\ RowsHaveVnis' /\ Creations' /\ DistinctVnis'
<1>1. /\ \A u \in Sessions \ {s} : tx'[u] = tx[u]
      /\ tx'[s] = t
      /\ vni' = vni /\ tainted \subseteq tainted'
  BY DEF CarriesOn, NamesInv, TypeOK
<1>2. \/ t.kind = "none" /\ t.at = "none" /\ t.circuit = None /\ t.held = {}
      \/ /\ Open(s) /\ t.circuit = tx[s].circuit /\ t.vni = tx[s].vni
         /\ t.kind \notin {"none", "create"} /\ t.at # "none"
  BY DEF CarriesOn, Idle
<1>3. Shape'
  BY <1>1, <1>2 DEF NamesInv, Shape, Open
<1>4. RowsHaveVnis'
  BY <1>1, <1>2 DEF NamesInv, RowsHaveVnis, Open, CarriesOn
<1>5. Creations'
  <2> SUFFICES ASSUME NEW u \in Sessions, tx'[u].kind = "create"
               PROVE  /\ vni'[tx'[u].circuit] = None
                      /\ \A x \in Sessions \ {u} : tx'[x].circuit # tx'[u].circuit
                      /\ \A c \in Circuits : vni'[c] = tx'[u].vni => tx'[u].vni \in tainted'
                      /\ \A x \in Sessions \ {u} :
                           tx'[x].kind = "create" /\ tx'[x].vni = tx'[u].vni
                             => tx'[u].vni \in tainted'
    BY DEF Creations
  <2>1. u # s /\ tx[u].kind = "create" /\ tx'[u] = tx[u]
    BY <1>1, <1>2
  <2>2. tx[u].circuit \in Circuits
    BY <2>1 DEF NamesInv, Shape
  <2> QED
    BY <1>1, <1>2, <2>1, <2>2, OverlayAssumption DEF NamesInv, Creations
<1>6. DistinctVnis'
  BY <1>1 DEF NamesInv, DistinctVnis
<1> QED
  BY <1>3, <1>4, <1>5, <1>6

\* Every step of an open transaction except the purge's commit carries on.
LEMMA WorkCarriesOn ==
  ASSUME NamesInv, NEW s \in Sessions,
         \/ PreflightFails(s) \/ BeginRun(s) \/ Read(s) \/ Flush(s) \/ PushFails(s)
         \/ _undo_bugis(s) \/ CircuitGone(s) \/ DeadlockVictim(s) \/ RequestFails(s)
  PROVE  \E t : CarriesOn(s, t)
<1> USE DEF NamesInv
<1>0. /\ \A t : tx' = [tx EXCEPT ![s] = t] => tx'[s] = t
      /\ tx[s].at # "none" <=> Open(s)
      /\ tx[s] \in Transaction
      /\ Open(s) => tx[s].circuit \in Circuits
  BY DEF TypeOK, Shape, Open
<1>1. CASE PreflightFails(s)
  <2>1. Open(s) /\ status[tx[s].circuit] # "absent"
    BY <1>0, <1>1 DEF PreflightFails, Exists, RowsHaveVnis
  <2>2. \A c \in Circuits : status'[c] = "absent" <=> status[c] = "absent"
    BY <1>1, <2>1 DEF PreflightFails, TypeOK
  <2>3. CarriesOn(s, Idle)
    BY <1>1, <2>1, <2>2 DEF PreflightFails, CarriesOn
  <2> QED
    BY <2>3
<1>2. CASE BeginRun(s)
  <2> DEFINE t == [tx[s] EXCEPT !.at = "read", !.devices = eps[tx[s].circuit]]
  <2>1. Open(s) /\ status[tx[s].circuit] # "absent"
    BY <1>0, <1>2 DEF BeginRun, Exists, RowsHaveVnis
  <2>2. \A c \in Circuits : status'[c] = "absent" <=> status[c] = "absent"
    BY <1>2, <2>1 DEF BeginRun, TypeOK
  <2>3. /\ t.circuit = tx[s].circuit /\ t.vni = tx[s].vni /\ t.held = tx[s].held
        /\ t.kind \notin {"none", "create"} /\ t.at # "none"
    BY <1>0, <2>1 DEF Open, Transaction
  <2>4. tx' = [tx EXCEPT ![s] = t] /\ tainted \subseteq tainted' /\ vni' = vni
    BY <1>2 DEF BeginRun, Opens
  <2> HIDE DEF t
  <2>5. CarriesOn(s, t)
    BY <2>1, <2>2, <2>3, <2>4 DEF CarriesOn
  <2> QED
    BY <2>5
<1>3. CASE Read(s)
  <2>1. Open(s) /\ UNCHANGED <<tables, tainted>>
    BY <1>0, <1>3 DEF Read
  <2>2. PICK order \in LockOrders(tx[s].kind) :
          tx' = [tx EXCEPT ![s].at = "write", ![s].todo = order, ![s].del = RowsOf(tx[s].circuit),
                   ![s].seen = [d \in Devices |-> IF d \in tx[s].devices THEN vtep[d] ELSE {}]]
    BY <1>3 DEF Read
  <2> DEFINE t == [tx[s] EXCEPT !.at = "write", !.todo = order, !.del = RowsOf(tx[s].circuit),
                     !.seen = [d \in Devices |-> IF d \in tx[s].devices THEN vtep[d] ELSE {}]]
  <2>3. tx' = [tx EXCEPT ![s] = t]
    BY <2>2 DEF TypeOK
  <2>4. /\ t.circuit = tx[s].circuit /\ t.vni = tx[s].vni /\ t.held = tx[s].held
        /\ t.kind \notin {"none", "create"} /\ t.at # "none"
    BY <1>0, <2>1 DEF Open, Transaction
  <2> HIDE DEF t
  <2>5. CarriesOn(s, t)
    BY <2>1, <2>3, <2>4 DEF CarriesOn, tables
  <2> QED
    BY <2>5
<1>4. CASE Flush(s)
  <2>0. PICK edited \in SUBSET Devices, todo \in Seq(Tables) :
          tx' = [tx EXCEPT ![s] = [tx[s] EXCEPT !.todo = todo, !.edited = edited,
                                                !.locks = @ \union Takes(s)]]
    BY <1>4, FlushEffect
  <2> DEFINE t == [tx[s] EXCEPT !.todo = todo, !.edited = edited, !.locks = @ \union Takes(s)]
  <2>1. Open(s) /\ UNCHANGED <<tables, tainted>> /\ tx[s].at = "write"
    BY <1>0, <1>4 DEF Flush
  <2>2. tx' = [tx EXCEPT ![s] = t]
    BY <2>0
  <2>3. /\ t.circuit = tx[s].circuit /\ t.vni = tx[s].vni /\ t.held = tx[s].held
        /\ t.kind \notin {"none", "create"} /\ t.at # "none"
    BY <1>0, <2>1 DEF Open, Transaction
  <2> HIDE DEF t
  <2>4. CarriesOn(s, t)
    BY <2>1, <2>2, <2>3 DEF CarriesOn, tables
  <2> QED
    BY <2>4
<1>5. CASE PushFails(s)
  <2> DEFINE t == [tx[s] EXCEPT !.at = "undo"]
  <2>1. Open(s) /\ UNCHANGED <<tables, tainted>>
    BY <1>0, <1>5 DEF PushFails, Finished
  <2>2. tx' = [tx EXCEPT ![s] = t]
    BY <1>5 DEF PushFails, TypeOK
  <2>3. /\ t.circuit = tx[s].circuit /\ t.vni = tx[s].vni /\ t.held = tx[s].held
        /\ t.kind \notin {"none", "create"} /\ t.at # "none"
    BY <1>0, <2>1 DEF Open, Transaction
  <2> HIDE DEF t
  <2>4. CarriesOn(s, t)
    BY <2>1, <2>2, <2>3 DEF CarriesOn, tables
  <2> QED
    BY <2>4
<1>6. CASE _undo_bugis(s)
  <2> DEFINE t == [tx[s] EXCEPT !.kind = "undone", !.at = "write",
                                !.del = @ \union RowsOf(tx[s].circuit)]
  <2>1. Open(s) /\ UNCHANGED <<tables, tainted>>
    BY <1>0, <1>6 DEF _undo_bugis
  <2>2. tx' = [tx EXCEPT ![s] = t]
    BY <1>6 DEF _undo_bugis, TypeOK
  <2>3. /\ t.circuit = tx[s].circuit /\ t.vni = tx[s].vni /\ t.held = tx[s].held
        /\ t.kind \notin {"none", "create"} /\ t.at # "none"
    BY <1>0, <2>1 DEF Open, Transaction
  <2> HIDE DEF t
  <2>4. CarriesOn(s, t)
    BY <2>1, <2>2, <2>3 DEF CarriesOn, tables
  <2> QED
    BY <2>4
<1>7. CASE CircuitGone(s) \/ RequestFails(s)
  <2>1. CarriesOn(s, Idle)
    BY <1>7 DEF CircuitGone, RequestFails, CarriesOn, tables
  <2> QED
    BY <2>1
<1>8. CASE DeadlockVictim(s)
  <2>1. \E u \in Sessions : Waits(s, u)
    BY <1>8 DEF DeadlockVictim, Circle
  <2>2. Open(s)
    BY <1>0, <2>1 DEF Waits, Finished
  <2>3. CarriesOn(s, Idle)
    BY <1>8, <2>2 DEF DeadlockVictim, CarriesOn, tables
  <2> QED
    BY <2>3
<1> QED
  BY <1>1, <1>2, <1>3, <1>4, <1>5, <1>6, <1>7, <1>8

LEMMA CommitCarriesOn ==
  ASSUME NamesInv, NEW s \in Sessions, Commit(s)
  PROVE  CarriesOn(s, Idle)
<1>1. /\ Open(s) /\ tx[s].circuit \in Circuits
      /\ status[tx[s].circuit] # "absent"
  BY DEF NamesInv, Shape, RowsHaveVnis, Commit, Finished, Exists, Open
<1>2. PICK st \in Outcomes(s) : status' = [status EXCEPT ![tx[s].circuit] = st]
  BY DEF Commit
<1>3. st # "absent"
  BY <1>1, <1>2 DEF Outcomes
<1>4. \A c \in Circuits : status'[c] = "absent" <=> status[c] = "absent"
  BY <1>1, <1>2, <1>3 DEF NamesInv, TypeOK
<1> QED
  BY <1>1, <1>4 DEF Commit, CarriesOn

\* The circuit and its VNI go together.
LEMMA CommitPurgeNames ==
  ASSUME NamesInv, NEW s \in Sessions, CommitPurge(s)
  PROVE  Shape' /\ RowsHaveVnis' /\ Creations' /\ DistinctVnis'
<1> USE DEF NamesInv
<1> DEFINE c == tx[s].circuit
<1>1. /\ Open(s) /\ c \in Circuits
      /\ status' = [status EXCEPT ![c] = "absent"] /\ vni' = [vni EXCEPT ![c] = None]
      /\ tx' = [tx EXCEPT ![s] = Idle] /\ tainted' = tainted
  BY DEF CommitPurge, Finished, Shape, Open
<1>2. tx'[s] = Idle /\ \A u \in Sessions \ {s} : tx'[u] = tx[u]
  BY <1>1 DEF TypeOK
<1>3. /\ vni'[c] = None /\ status'[c] = "absent"
      /\ \A x \in Circuits \ {c} : vni'[x] = vni[x] /\ status'[x] = status[x]
  BY <1>1 DEF TypeOK
<1>4. Idle.kind = "none" /\ Idle.at = "none" /\ Idle.circuit = None /\ Idle.held = {}
  BY DEF Idle
<1>5. Shape'
  BY <1>2, <1>4 DEF Shape, Open
<1>6. RowsHaveVnis'
  BY <1>2, <1>3, <1>4 DEF Shape, RowsHaveVnis, Open
<1>7. Creations'
  BY <1>1, <1>2, <1>3, <1>4, OverlayAssumption DEF Creations, Shape
<1>8. DistinctVnis'
  BY <1>1, <1>3 DEF DistinctVnis
<1> QED
  BY <1>5, <1>6, <1>7, <1>8

\* A VNI that was free when it was chosen is still nobody else's.
LEMMA InsertNames ==
  ASSUME NamesInv, NEW s \in Sessions, InsertCircuit(s)
  PROVE  Shape' /\ RowsHaveVnis' /\ Creations' /\ DistinctVnis'
<1> USE DEF NamesInv
<1> DEFINE c == tx[s].circuit
           v == tx[s].vni
<1>1. /\ tx[s].kind = "create" /\ c \in Circuits /\ v \in Pool
      /\ status' = [status EXCEPT ![c] = "draft"] /\ vni' = [vni EXCEPT ![c] = v]
      /\ tx' = [tx EXCEPT ![s] = Idle] /\ tainted' = tainted
  BY DEF InsertCircuit, Shape
<1>2. tx'[s] = Idle /\ \A u \in Sessions \ {s} : tx'[u] = tx[u]
  BY <1>1 DEF TypeOK
<1>3. /\ vni'[c] = v /\ status'[c] = "draft"
      /\ \A x \in Circuits \ {c} : vni'[x] = vni[x] /\ status'[x] = status[x]
  BY <1>1 DEF TypeOK
<1>4. /\ Idle.kind = "none" /\ Idle.at = "none" /\ Idle.circuit = None /\ Idle.held = {}
      /\ v # None
  BY <1>1, OverlayAssumption DEF Idle
<1>5. /\ \A u \in Sessions \ {s} : tx[u].circuit # c
      /\ \A x \in Circuits : vni[x] = v => v \in tainted
      /\ \A u \in Sessions \ {s} : tx[u].kind = "create" /\ tx[u].vni = v => v \in tainted
  BY <1>1 DEF Creations
<1>6. Shape'
  BY <1>2, <1>4 DEF Shape, Open
<1>7. RowsHaveVnis'
  <2>1. \A x \in Circuits : status'[x] = "absent" <=> vni'[x] = None
    BY <1>3, <1>4 DEF RowsHaveVnis
  <2>2. ASSUME NEW u \in Sessions, Open(u)' PROVE vni'[tx'[u].circuit] \in {tx'[u].vni, None}
    <3>1. u # s /\ Open(u) /\ tx'[u] = tx[u]
      BY <1>2, <1>4, <2>2 DEF Open
    <3>2. tx[u].circuit \in Circuits \ {c}
      BY <1>5, <3>1 DEF Shape, Open
    <3> QED
      BY <1>3, <3>1, <3>2 DEF RowsHaveVnis
  <2> QED
    BY <2>1, <2>2 DEF RowsHaveVnis
<1>8. Creations'
  <2> SUFFICES ASSUME NEW u \in Sessions, tx'[u].kind = "create"
               PROVE  /\ vni'[tx'[u].circuit] = None
                      /\ \A x \in Sessions \ {u} : tx'[x].circuit # tx'[u].circuit
                      /\ \A x \in Circuits : vni'[x] = tx'[u].vni => tx'[u].vni \in tainted'
                      /\ \A x \in Sessions \ {u} :
                           tx'[x].kind = "create" /\ tx'[x].vni = tx'[u].vni
                             => tx'[u].vni \in tainted'
    BY DEF Creations
  <2>1. u # s /\ tx[u].kind = "create" /\ tx'[u] = tx[u] /\ tx[u].circuit \in Circuits \ {c}
    BY <1>2, <1>4, <1>5 DEF Shape
  <2>2. vni'[tx'[u].circuit] = None
    BY <1>3, <2>1 DEF Creations
  <2>3. \A x \in Sessions \ {u} : tx'[x].circuit # tx'[u].circuit
    BY <1>2, <1>4, <2>1, OverlayAssumption DEF Creations
  <2>4. ASSUME NEW x \in Circuits, vni'[x] = tx'[u].vni PROVE tx'[u].vni \in tainted'
    BY <1>1, <1>3, <1>5, <2>1, <2>4 DEF Creations
  <2>5. ASSUME NEW x \in Sessions \ {u}, tx'[x].kind = "create", tx'[x].vni = tx'[u].vni
        PROVE  tx'[u].vni \in tainted'
    BY <1>1, <1>2, <1>4, <2>1, <2>5 DEF Creations
  <2> QED
    BY <2>2, <2>3, <2>4, <2>5
<1>9. DistinctVnis'
  BY <1>1, <1>3, <1>5 DEF DistinctVnis
<1> QED
  BY <1>6, <1>7, <1>8, <1>9

\* A session without a transaction opens one on an existing circuit.
Opening(s, t) ==
  /\ tx[s].kind = "none" /\ tx' = [tx EXCEPT ![s] = t] /\ UNCHANGED <<vni, status>>
  /\ t.circuit \in Circuits /\ t.vni = vni[t.circuit] /\ t.vni # None
  /\ t.kind \notin {"none", "create"} /\ t.at # "none"
  /\ tainted \subseteq tainted'

LEMMA OpeningNames ==
  ASSUME NamesInv, NEW s \in Sessions, NEW t, Opening(s, t)
  PROVE  Shape' /\ RowsHaveVnis' /\ Creations' /\ DistinctVnis'
<1> USE DEF NamesInv
<1>1. tx'[s] = t /\ \A u \in Sessions \ {s} : tx'[u] = tx[u]
  BY DEF Opening, TypeOK
<1>2. /\ t.circuit \in Circuits /\ t.vni = vni[t.circuit] /\ t.vni # None /\ t.vni \in Pool
      /\ t.kind \notin {"none", "create"} /\ t.at # "none"
      /\ tainted \subseteq tainted' /\ vni' = vni /\ status' = status
  BY DEF Opening, TypeOK
<1>3. Shape'
  BY <1>1, <1>2 DEF Shape, Open
<1>4. RowsHaveVnis'
  BY <1>1, <1>2 DEF RowsHaveVnis, Open
<1>5. Creations'
  BY <1>1, <1>2 DEF Creations
<1>6. DistinctVnis'
  BY <1>2 DEF DistinctVnis
<1> QED
  BY <1>3, <1>4, <1>5, <1>6

LEMMA OpeningSteps ==
  ASSUME NamesInv, NEW s \in Sessions, NEW c \in Circuits,
         \/ \E kind \in {"install", "withdraw"} : StartRun(s, c, kind)
         \/ delete_circuit(s, c)
         \/ /\ \E D \in SUBSET Devices : replace_endpoints(s, c, D)
            /\ status[c] \in {"provisioning", "active"}
  PROVE  \E t : Opening(s, t)
<1> USE DEF NamesInv
<1>1. ASSUME NEW kind \in {"install", "withdraw"}, StartRun(s, c, kind)
      PROVE  \E t : Opening(s, t)
  <2> DEFINE t == [Idle EXCEPT !.kind = kind, !.circuit = c, !.vni = vni[c], !.at = "begin",
                               !.devices = eps[c],
                               !.held = IF s \in Workers THEN eps[c] ELSE {}]
  <2>1. t.circuit = c /\ t.vni = vni[c] /\ t.kind = kind /\ t.at = "begin"
    BY DEF Idle
  <2>2. tx' = [tx EXCEPT ![s] = t] /\ tainted \subseteq tainted' /\ UNCHANGED tables
        /\ tx[s].kind = "none" /\ vni[c] # None
    BY <1>1 DEF StartRun, Opens
  <2> HIDE DEF t
  <2>3. Opening(s, t)
    BY <2>1, <2>2 DEF Opening, tables
  <2> QED
    BY <2>3
<1>2. CASE delete_circuit(s, c)
  <2> DEFINE t == [Idle EXCEPT !.kind = "purge", !.circuit = c, !.vni = vni[c], !.at = "read",
                               !.devices = eps[c]]
  <2>1. t.circuit = c /\ t.vni = vni[c] /\ t.kind = "purge" /\ t.at = "read"
    BY DEF Idle
  <2>2. tx' = [tx EXCEPT ![s] = t] /\ tainted \subseteq tainted' /\ UNCHANGED tables
        /\ tx[s].kind = "none" /\ vni[c] # None
    BY <1>2 DEF delete_circuit, Opens, RowsHaveVnis
  <2> HIDE DEF t
  <2>3. Opening(s, t)
    BY <2>1, <2>2 DEF Opening, tables
  <2> QED
    BY <2>3
<1>3. ASSUME NEW D \in SUBSET Devices, replace_endpoints(s, c, D),
             status[c] \in {"provisioning", "active"}
      PROVE  \E t : Opening(s, t)
  <2> DEFINE t == [Idle EXCEPT !.kind = "sync", !.circuit = c, !.vni = vni[c], !.at = "read",
                               !.devices = D]
  <2>1. t.circuit = c /\ t.vni = vni[c] /\ t.kind = "sync" /\ t.at = "read"
    BY DEF Idle
  <2>2. tx' = [tx EXCEPT ![s] = t] /\ tainted \subseteq tainted' /\ UNCHANGED <<vni, status>>
        /\ tx[s].kind = "none" /\ vni[c] # None
    BY <1>3 DEF replace_endpoints
  <2> HIDE DEF t
  <2>3. Opening(s, t)
    BY <2>1, <2>2 DEF Opening
  <2> QED
    BY <2>3
<1> QED
  BY <1>1, <1>2, <1>3

\* Steps that leave sessions and names alone.
LEMMA QuietNames ==
  ASSUME NamesInv, UNCHANGED <<vni, status, tx>>, tainted \subseteq tainted'
  PROVE  Shape' /\ RowsHaveVnis' /\ Creations' /\ DistinctVnis'
<1>1. Shape' /\ RowsHaveVnis'
  BY DEF NamesInv, Shape, RowsHaveVnis, Open
<1>2. Creations'
  BY DEF NamesInv, Creations
<1>3. DistinctVnis'
  BY DEF NamesInv, DistinctVnis
<1> QED
  BY <1>1, <1>2, <1>3

\* The chosen VNI is nobody's, or whoever has it is on record.
LEMMA CreateNames ==
  ASSUME NamesInv, NEW s \in Sessions, NEW c \in Circuits, NEW D \in SUBSET Devices,
         NEW v \in Pool, create_circuit(s, c, D, v)
  PROVE  Shape' /\ RowsHaveVnis' /\ Creations' /\ DistinctVnis'
<1> USE DEF NamesInv
<1> DEFINE t == [Idle EXCEPT !.kind = "create", !.circuit = c, !.vni = v, !.devices = D]
<1>1. /\ tx[s].kind = "none" /\ status[c] = "absent" /\ vni[c] = None
      /\ \A u \in Sessions : tx[u].circuit # c
      /\ tx' = [tx EXCEPT ![s] = t] /\ UNCHANGED tables /\ tainted \subseteq tainted'
  BY DEF create_circuit, RowsHaveVnis
<1>2. /\ t.kind = "create" /\ t.circuit = c /\ t.vni = v /\ t.at = "none" /\ t.held = {}
  BY DEF Idle
<1>3. v \in _used_vnis => v \in tainted'
  <2>1. ASSUME v \in _used_vnis PROVE Pool \subseteq _used_vnis
    BY <2>1, AllocateVni DEF create_circuit
  <2>2. Pool \subseteq _used_vnis => v \in tainted'
    BY DEF create_circuit
  <2> QED
    BY <2>1, <2>2
<1>4. (\E u \in Sessions : tx[u].kind = "create" /\ tx[u].vni = v) => v \in tainted'
  BY DEF create_circuit
<1> HIDE DEF t
<1>5. tx'[s] = t /\ \A u \in Sessions \ {s} : tx'[u] = tx[u]
  BY <1>1 DEF TypeOK
<1>6. Shape'
  BY <1>2, <1>5 DEF Shape, Open
<1>7. RowsHaveVnis'
  BY <1>1, <1>2, <1>5 DEF RowsHaveVnis, Open, tables
<1>8. \A x \in Circuits : vni[x] = v => v \in tainted'
  BY <1>3, OverlayAssumption DEF _used_vnis
<1>9. Creations'
  <2> SUFFICES ASSUME NEW u \in Sessions, tx'[u].kind = "create"
               PROVE  /\ vni'[tx'[u].circuit] = None
                      /\ \A x \in Sessions \ {u} : tx'[x].circuit # tx'[u].circuit
                      /\ \A x \in Circuits : vni'[x] = tx'[u].vni => tx'[u].vni \in tainted'
                      /\ \A x \in Sessions \ {u} :
                           tx'[x].kind = "create" /\ tx'[x].vni = tx'[u].vni
                             => tx'[u].vni \in tainted'
    BY DEF Creations
  <2>0. vni' = vni
    BY <1>1 DEF tables
  <2>1. CASE u = s
    BY <1>1, <1>2, <1>4, <1>5, <1>8, <2>0, <2>1
  <2>2. CASE u # s
    <3>1. tx[u].kind = "create" /\ tx'[u] = tx[u] /\ tx[u].circuit # c
      BY <1>1, <1>5, <2>2
    <3>2. \A x \in Sessions \ {u} : tx'[x].circuit # tx'[u].circuit
      BY <1>2, <1>5, <2>2, <3>1 DEF Creations
    <3>3. ASSUME NEW x \in Sessions \ {u}, tx'[x].kind = "create", tx'[x].vni = tx'[u].vni
          PROVE  tx'[u].vni \in tainted'
      BY <1>1, <1>2, <1>4, <1>5, <2>2, <3>1, <3>3 DEF Creations
    <3> QED
      BY <1>1, <2>0, <3>1, <3>2, <3>3 DEF Creations
  <2> QED
    BY <2>1, <2>2
<1>10. DistinctVnis'
  BY <1>1 DEF DistinctVnis, tables
<1> QED
  BY <1>6, <1>7, <1>9, <1>10

LEMMA NextNames ==
  ASSUME NamesInv, [Next]_vars
  PROVE  Shape' /\ RowsHaveVnis' /\ Creations' /\ DistinctVnis'
<1>1. CASE UNCHANGED vars
  BY <1>1, QuietNames DEF vars, tables
<1>2. ASSUME NEW s \in Sessions, Step(s)
      PROVE  Shape' /\ RowsHaveVnis' /\ Creations' /\ DistinctVnis'
  <2>1. CASE CommitPurge(s)
    BY <2>1, CommitPurgeNames
  <2>2. CASE InsertCircuit(s)
    BY <2>2, InsertNames
  <2>3. CASE Commit(s)
    BY <2>3, CommitCarriesOn, CarriesOnNames
  <2>4. CASE \/ PreflightFails(s) \/ BeginRun(s) \/ Read(s) \/ Flush(s) \/ PushFails(s)
             \/ _undo_bugis(s) \/ CircuitGone(s) \/ DeadlockVictim(s) \/ RequestFails(s)
    BY <2>4, WorkCarriesOn, CarriesOnNames
  <2> QED
    BY <1>2, <2>1, <2>2, <2>3, <2>4 DEF Step
<1>3. ASSUME NEW s \in Sessions, Begin(s)
      PROVE  Shape' /\ RowsHaveVnis' /\ Creations' /\ DistinctVnis'
  <2>1. CASE \E c \in Circuits, kind \in {"install", "withdraw"} : StartRun(s, c, kind)
    BY <2>1, OpeningSteps, OpeningNames
  <2>2. CASE \E c \in Circuits : delete_circuit(s, c)
    BY <2>2, OpeningSteps, OpeningNames
  <2>3. ASSUME NEW c \in Circuits, NEW D \in SUBSET Devices, replace_endpoints(s, c, D)
        PROVE  Shape' /\ RowsHaveVnis' /\ Creations' /\ DistinctVnis'
    <3>1. CASE status[c] \in {"provisioning", "active"}
      BY <2>3, <3>1, OpeningSteps, OpeningNames
    <3>2. CASE status[c] \notin {"provisioning", "active"}
      BY <2>3, <3>2, QuietNames DEF replace_endpoints
    <3> QED
      BY <3>1, <3>2
  <2>4. CASE \E c \in Circuits, D \in SUBSET Devices : edit_endpoints(s, c, D)
    BY <2>4, QuietNames DEF edit_endpoints
  <2>5. CASE \E c \in Circuits, D \in SUBSET Devices, v \in Pool \union {allocate_vni(_used_vnis)} :
               create_circuit(s, c, D, v)
    BY <2>5, AllocateVni, CreateNames
  <2> QED
    BY <1>3, <2>1, <2>2, <2>3, <2>4, <2>5 DEF Begin
<1> QED
  BY <1>1, <1>2, <1>3 DEF Next

LEMMA NextTypes ==
  ASSUME NamesInv, [Next]_vars
  PROVE  TypeOK'
<1>1. CASE UNCHANGED vars
  BY <1>1 DEF NamesInv, TypeOK, vars, tables
<1>2. ASSUME NEW s \in Sessions, Step(s), UNCHANGED opened
      PROVE  TypeOK'
  BY <1>2, StepType DEF NamesInv
<1>3. ASSUME NEW s \in Sessions, Begin(s), opened < MaxTransactions, opened' = opened + 1
      PROVE  TypeOK'
  BY <1>3, BeginType DEF NamesInv
<1> QED
  BY <1>1, <1>2, <1>3 DEF Next

LEMMA NamesInvariant == Spec => []NamesInv
<1>1. Init => NamesInv
  <2> SUFFICES ASSUME Init PROVE NamesInv
    OBVIOUS
  <2>1. TypeOK
    BY InitType
  <2>2. \A s \in Sessions : tx[s] = Idle
    BY DEF Init
  <2>3. Idle.kind = "none" /\ Idle.at = "none" /\ Idle.circuit = None /\ Idle.held = {}
    BY DEF Idle
  <2>4. Shape /\ RowsHaveVnis /\ Creations
    BY <2>2, <2>3 DEF Init, Shape, RowsHaveVnis, Creations, Open
  <2>5. DistinctVnis
    BY DEF Init, DistinctVnis
  <2> QED
    BY <2>1, <2>4, <2>5 DEF NamesInv
<1>2. NamesInv /\ [Next]_vars => NamesInv'
  BY NextNames, NextTypes DEF NamesInv
<1> QED
  BY <1>1, <1>2, PTL DEF Spec

\* Every variable keeps to its domain: in particular no VTEP ever lists a VNI
\* outside the pool and no transaction takes the locks of unknown rows.
THEOREM OverlayTypes == Spec => []TypeOK
<1>1. NamesInv => TypeOK
  BY DEF NamesInv
<1> QED
  BY <1>1, NamesInvariant, PTL

\* Two circuits share a VNI only if they were created by overlapping requests
\* or when every VNI was taken (allocation.allocate_vni).
THEOREM VnisDistinct == Spec => []DistinctVnis
<1>1. NamesInv => DistinctVnis
  BY DEF NamesInv
<1> QED
  BY <1>1, NamesInvariant, PTL

-----------------------------------------------------------------------------
(* The overlay tables are exact. *)

Locks ==
  /\ \A s, u \in Workers : s # u =>
       /\ tx[s].held \intersect tx[u].held = {}
       /\ Open(s) /\ Open(u) => tx[s].circuit # tx[u].circuit
  /\ \A s \in Requests : tx[s].held = {}

Nonempty ==
  /\ \A c \in Circuits : vni[c] # None => eps[c] # {}
  /\ \A s \in Sessions : tx[s].kind # "none" => tx[s].devices # {}

ClashTainted ==
  \A s, u \in Sessions : s # u /\ Open(s) /\ Open(u) /\ Clash(tx[s], tx[u])
                           => {tx[s].vni, tx[u].vni} \subseteq tainted

Guarded == Locks /\ Nonempty /\ ClashTainted

\* What an open transaction has read still holds for the VNIs that no other
\* transaction can have touched.
Reading(s) == tx[s].at \in {"write", "undo"}

TxFaithful(s) ==
  /\ tx[s].kind = "sync" => tx[s].vni \in tainted
  /\ \A r \in tx[s].del : r.circuit = tx[s].circuit
  /\ tx[s].vni \notin tainted =>
       /\ vni[tx[s].circuit] = tx[s].vni /\ tx[s].devices = eps[tx[s].circuit]
       /\ Reading(s) => RowsOf(tx[s].circuit) \subseteq tx[s].del
  /\ Reading(s) => \A d \in tx[s].devices, v \in Pool \ tainted :
                      v \in tx[s].seen[d] <=> v \in vtep[d]

Faithful == \A s \in Sessions : Open(s) => TxFaithful(s)

RowsOnEndpoints ==
  \A r \in routes :
    /\ vni[r.circuit] # None
    /\ vni[r.circuit] \notin tainted => r.device \in eps[r.circuit]

TablesExact == Faithful /\ RowsOnEndpoints /\ OverlayExact /\ RoutesFollowStatus

OverlayInv == NamesInv /\ Guarded /\ TablesExact

\* Device locks and the history together keep transactions apart.
LEMMA Apart ==
  ASSUME NamesInv, Guarded, NEW s \in Sessions, NEW u \in Sessions, s # u,
         Open(s), Open(u), tx[s].vni \notin tainted \/ tx[u].vni \notin tainted
  PROVE  /\ tx[s].circuit # tx[u].circuit
         /\ tx[s].devices \intersect tx[u].devices = {}
<1>1. ~Clash(tx[s], tx[u])
  BY DEF Guarded, ClashTainted
<1>2. CASE Covered(tx[s]) /\ Covered(tx[u])
  <2>1. tx[s].devices # {} /\ tx[u].devices # {}
    BY DEF Guarded, Nonempty, Open
  <2>2. tx[s].held # {} /\ tx[u].held # {}
    BY <1>2, <2>1 DEF Covered
  <2>3. s \in Workers /\ u \in Workers
    BY <2>2 DEF Guarded, Locks, Sessions
  <2>4. tx[s].held \intersect tx[u].held = {} /\ tx[s].circuit # tx[u].circuit
    BY <2>3 DEF Guarded, Locks
  <2> QED
    BY <1>2, <2>4 DEF Covered
<1>3. CASE ~(Covered(tx[s]) /\ Covered(tx[u]))
  BY <1>1, <1>3 DEF Clash
<1> QED
  BY <1>2, <1>3

\* One session moves on to t.
LEMMA GuardedStep ==
  ASSUME NamesInv, Guarded, NEW s \in Sessions, NEW t, tx' = [tx EXCEPT ![s] = t],
         tainted \subseteq tainted',
         t.kind \notin {"none", "create"} => Overlapped(s, t) \subseteq tainted',
         t.kind # "none" => t.devices # {},
         s \in Requests => t.held = {},
         \A u \in Workers \ {s} : s \in Workers =>
           /\ t.held \intersect tx[u].held = {}
           /\ t.kind \notin {"none", "create"} /\ Open(u) => t.circuit # tx[u].circuit,
         \A c \in Circuits : vni'[c] # None => eps'[c] # {}
  PROVE  Guarded'
<1>1. tx'[s] = t /\ \A u \in Sessions \ {s} : tx'[u] = tx[u]
  BY DEF NamesInv, TypeOK
<1>2. Workers \subseteq Sessions /\ Requests \subseteq Sessions
  BY DEF Sessions
<1>3. Locks'
  <2>1. ASSUME NEW x \in Workers, NEW u \in Workers, x # u
        PROVE  /\ tx'[x].held \intersect tx'[u].held = {}
               /\ Open(x)' /\ Open(u)' => tx'[x].circuit # tx'[u].circuit
    <3>1. CASE x = s
      BY <1>1, <1>2, <2>1, <3>1 DEF Open
    <3>2. CASE u = s
      BY <1>1, <1>2, <2>1, <3>2 DEF Open
    <3>3. CASE x # s /\ u # s
      BY <1>1, <1>2, <2>1, <3>3 DEF Guarded, Locks, Open
    <3> QED
      BY <3>1, <3>2, <3>3
  <2>2. \A x \in Requests : tx'[x].held = {}
    BY <1>1, <1>2 DEF Guarded, Locks
  <2> QED
    BY <2>1, <2>2 DEF Locks
<1>4. Nonempty'
  BY <1>1 DEF Guarded, Nonempty
<1>5. ClashTainted'
  <2> SUFFICES ASSUME NEW x \in Sessions, NEW u \in Sessions, x # u, Open(x)', Open(u)',
                      Clash(tx'[x], tx'[u])
               PROVE  {tx'[x].vni, tx'[u].vni} \subseteq tainted'
    BY DEF ClashTainted
  <2>1. CASE x = s
    <3>1. Open(u) /\ tx'[u] = tx[u] /\ t.kind \notin {"none", "create"} /\ Clash(t, tx[u])
      BY <1>1, <2>1 DEF Open
    <3> QED
      BY <1>1, <2>1, <3>1 DEF Overlapped
  <2>2. CASE u = s
    <3>1. Open(x) /\ tx'[x] = tx[x] /\ t.kind \notin {"none", "create"} /\ Clash(t, tx[x])
      BY <1>1, <2>2 DEF Open, Clash
    <3> QED
      BY <1>1, <2>2, <3>1 DEF Overlapped
  <2>3. CASE x # s /\ u # s
    BY <1>1, <2>3 DEF Guarded, ClashTainted, Open
  <2> QED
    BY <2>1, <2>2, <2>3
<1> QED
  BY <1>3, <1>4, <1>5 DEF Guarded

\* A step that leaves scope and locks of the transaction as they are, or ends it.
LEMMA GuardedKept ==
  ASSUME NamesInv, Guarded, NEW s \in Sessions, NEW t, tx' = [tx EXCEPT ![s] = t],
         tainted' = tainted,
         \/ t = Idle
         \/ /\ t.circuit = tx[s].circuit /\ t.vni = tx[s].vni
            /\ t.held = tx[s].held /\ t.devices = tx[s].devices /\ Open(s),
         \A c \in Circuits : vni'[c] # None => eps'[c] # {}
  PROVE  Guarded'
<1>1. CASE t = Idle
  <2>1. t.kind = "none" /\ t.held = {}
    BY <1>1 DEF Idle
  <2> HIDE <1>1
  <2> QED
    BY <2>1, GuardedStep
<1>2. CASE /\ t.circuit = tx[s].circuit /\ t.vni = tx[s].vni
           /\ t.held = tx[s].held /\ t.devices = tx[s].devices /\ Open(s)
  <2>1. Overlapped(s, t) \subseteq tainted'
    <3> SUFFICES ASSUME NEW u \in Sessions \ {s}, Open(u), Clash(t, tx[u])
                 PROVE  {t.vni, tx[u].vni} \subseteq tainted'
      BY DEF Overlapped
    <3>1. Clash(tx[s], tx[u])
      BY <1>2 DEF Clash, Covered
    <3> QED
      BY <1>2, <3>1 DEF Guarded, ClashTainted
  <2>2. t.devices # {} /\ (s \in Requests => t.held = {})
    BY <1>2 DEF Guarded, Nonempty, Locks, Open
  <2>3. \A u \in Workers \ {s} : s \in Workers =>
          /\ t.held \intersect tx[u].held = {}
          /\ t.kind \notin {"none", "create"} /\ Open(u) => t.circuit # tx[u].circuit
    BY <1>2 DEF Guarded, Locks
  <2>4. tainted \subseteq tainted'
    OBVIOUS
  <2> QED
    BY <2>1, <2>2, <2>3, <2>4, GuardedStep
<1> QED
  BY <1>1, <1>2

\* A step of one session that leaves the rows alone, status aside.
LEMMA RowsKept ==
  ASSUME OverlayInv, NEW s \in Sessions, NEW t, tx' = [tx EXCEPT ![s] = t],
         tainted \subseteq tainted', UNCHANGED <<vni, eps, routes, vtep>>,
         t.kind \notin {"none", "create"} => TxFaithful(s)',
         \A c \in Circuits : status'[c] = status[c] \/ status'[c] \in {"provisioning", "failed"}
  PROVE  TablesExact'
<1> USE DEF OverlayInv, TablesExact
<1>1. tx'[s] = t /\ \A u \in Sessions \ {s} : tx'[u] = tx[u]
  BY DEF NamesInv, TypeOK
<1>2. RowsOnEndpoints'
  BY DEF RowsOnEndpoints
<1>3. OverlayExact'
  BY DEF OverlayExact, Serves
<1>4. Faithful'
  <2> SUFFICES ASSUME NEW u \in Sessions, Open(u)' PROVE TxFaithful(u)'
    BY DEF Faithful
  <2>1. CASE u = s
    BY <1>1, <2>1 DEF Open
  <2>2. CASE u # s
    <3>1. Open(u) /\ TxFaithful(u) /\ tx'[u] = tx[u]
      BY <1>1, <2>2 DEF Open, Faithful
    <3> QED
      BY <3>1 DEF TxFaithful, Reading, RowsOf
  <2> QED
    BY <2>1, <2>2
<1>5. RoutesFollowStatus'
  <2> SUFFICES ASSUME NEW c \in Circuits, vni'[c] \notin tainted'
               PROVE  LET origins == {r.device : r \in RowsOf(c)'} IN
                        /\ status'[c] = "active" => origins = eps'[c]
                        /\ status'[c] \in {"draft", "decommissioned", "absent"} => origins = {}
    BY DEF RoutesFollowStatus
  <2>1. RowsOf(c)' = RowsOf(c) /\ vni[c] \notin tainted
    BY DEF RowsOf
  <2>2. /\ status[c] = "active" => {r.device : r \in RowsOf(c)} = eps[c]
        /\ status[c] \in {"draft", "decommissioned", "absent"}
             => {r.device : r \in RowsOf(c)} = {}
    BY <2>1 DEF RoutesFollowStatus
  <2> QED
    BY <2>1, <2>2
<1> QED
  BY <1>2, <1>3, <1>4, <1>5

\* A transaction that ends without having written.
LEMMA EndInv ==
  ASSUME OverlayInv, NEW s \in Sessions,
         PreflightFails(s) \/ CircuitGone(s) \/ DeadlockVictim(s) \/ RequestFails(s)
  PROVE  Guarded' /\ TablesExact'
<1>1. /\ tx' = [tx EXCEPT ![s] = Idle] /\ UNCHANGED <<vni, eps, routes, vtep, tainted>>
      /\ \A c \in Circuits : status'[c] = status[c] \/ status'[c] \in {"provisioning", "failed"}
  BY DEF PreflightFails, CircuitGone, DeadlockVictim, RequestFails, tables, OverlayInv, NamesInv, TypeOK
<1>2. Idle.kind = "none"
  BY DEF Idle
<1>3. Guarded'
  BY <1>1, GuardedKept DEF OverlayInv, Guarded, Nonempty
<1>4. TablesExact'
  BY <1>1, <1>2, RowsKept
<1> QED
  BY <1>3, <1>4

\* A transaction opens, or opens again after the commit before the pushes.
LEMMA OpensInv ==
  ASSUME OverlayInv, NEW s \in Sessions, NEW t, Opens(s, t),
         UNCHANGED <<vni, eps, routes, vtep>>,
         \A c \in Circuits : status'[c] = status[c] \/ status'[c] \in {"provisioning", "failed"},
         t.kind \notin {"none", "create"}, t.circuit \in Circuits,
         vni[t.circuit] # None, t.vni = vni[t.circuit], t.devices = eps[t.circuit],
         t.at \in {"begin", "read"},
         t.kind = "sync" => t.vni \in tainted, \A r \in t.del : r.circuit = t.circuit,
         s \in Requests => t.held = {},
         \A u \in Workers \ {s} : s \in Workers =>
           /\ t.held \intersect tx[u].held = {}
           /\ Open(u) => t.circuit # tx[u].circuit
  PROVE  Guarded' /\ TablesExact'
<1>1. /\ tx' = [tx EXCEPT ![s] = t] /\ tainted \subseteq tainted'
      /\ Overlapped(s, t) \subseteq tainted'
  BY DEF Opens
<1>2. tx'[s] = t
  BY <1>1 DEF OverlayInv, NamesInv, TypeOK
<1>3. t.devices # {} /\ \A c \in Circuits : vni'[c] # None => eps'[c] # {}
  BY DEF OverlayInv, Guarded, Nonempty
<1>4. TxFaithful(s)'
  BY <1>1, <1>2 DEF TxFaithful, Reading
<1>5. \A u \in Workers \ {s} : s \in Workers =>
        /\ t.held \intersect tx[u].held = {}
        /\ t.kind \notin {"none", "create"} /\ Open(u) => t.circuit # tx[u].circuit
  OBVIOUS
<1>6. Guarded'
  <2>1. NamesInv /\ Guarded
    BY DEF OverlayInv
  <2> QED
    BY <1>1, <1>3, <1>5, <2>1, GuardedStep
<1>7. TablesExact'
  BY <1>1, <1>4, RowsKept
<1> QED
  BY <1>6, <1>7

LEMMA StartRunInv ==
  ASSUME OverlayInv, NEW s \in Sessions, NEW c \in Circuits,
         NEW kind \in {"install", "withdraw"}, StartRun(s, c, kind)
  PROVE  Guarded' /\ TablesExact'
<1> DEFINE t == [Idle EXCEPT !.kind = kind, !.circuit = c, !.vni = vni[c], !.at = "begin",
                             !.devices = eps[c],
                             !.held = IF s \in Workers THEN eps[c] ELSE {}]
<1>1. /\ t.kind = kind /\ t.circuit = c /\ t.vni = vni[c] /\ t.at = "begin"
      /\ t.devices = eps[c] /\ t.del = {}
      /\ t.held = IF s \in Workers THEN eps[c] ELSE {}
  BY DEF Idle
<1>2. Opens(s, t) /\ UNCHANGED <<vni, status, eps, routes, vtep>> /\ vni[c] # None
  BY DEF StartRun, tables
<1>3. s \in Requests => t.held = {}
  BY <1>1, OverlayAssumption
<1>4. \A u \in Workers \ {s} : s \in Workers =>
        /\ t.held \intersect tx[u].held = {}
        /\ Open(u) => t.circuit # tx[u].circuit
  BY <1>1 DEF StartRun, Held
<1> HIDE DEF t
<1> QED
  BY <1>1, <1>2, <1>3, <1>4, OpensInv

LEMMA DeleteInv ==
  ASSUME OverlayInv, NEW s \in Requests, NEW c \in Circuits, delete_circuit(s, c)
  PROVE  Guarded' /\ TablesExact'
<1> DEFINE t == [Idle EXCEPT !.kind = "purge", !.circuit = c, !.vni = vni[c], !.at = "read",
                             !.devices = eps[c]]
<1>1. /\ t.kind = "purge" /\ t.circuit = c /\ t.vni = vni[c] /\ t.at = "read"
      /\ t.devices = eps[c] /\ t.del = {} /\ t.held = {}
  BY DEF Idle
<1>2. Opens(s, t) /\ UNCHANGED <<vni, status, eps, routes, vtep>> /\ vni[c] # None
  BY DEF delete_circuit, tables, OverlayInv, NamesInv, RowsHaveVnis
<1>3. s \in Sessions /\ s \notin Workers
  BY OverlayAssumption DEF Sessions
<1> HIDE DEF t
<1> QED
  BY <1>1, <1>2, <1>3, OpensInv

LEMMA BeginRunInv ==
  ASSUME OverlayInv, NEW s \in Sessions, BeginRun(s)
  PROVE  Guarded' /\ TablesExact'
<1> DEFINE c == tx[s].circuit
           t == [tx[s] EXCEPT !.at = "read", !.devices = eps[c]]
<1>1. /\ tx[s] \in Transaction /\ Open(s) /\ c \in Circuits /\ vni[c] # None
      /\ vni[c] = tx[s].vni
  BY DEF BeginRun, Exists, OverlayInv, NamesInv, TypeOK, Shape, RowsHaveVnis, Open
<1>2. /\ t.kind = tx[s].kind /\ t.circuit = c /\ t.vni = vni[c] /\ t.at = "read"
      /\ t.devices = eps[c] /\ t.del = tx[s].del /\ t.held = tx[s].held
  BY <1>1 DEF Transaction
<1>3. /\ Opens(s, t) /\ UNCHANGED <<vni, eps, routes, vtep>>
      /\ \A x \in Circuits : status'[x] = status[x] \/ status'[x] \in {"provisioning", "failed"}
  BY DEF BeginRun, OverlayInv, NamesInv, TypeOK
<1>4. TxFaithful(s)
  BY <1>1 DEF OverlayInv, TablesExact, Faithful
<1>5. /\ t.kind = "sync" => t.vni \in tainted
      /\ \A r \in t.del : r.circuit = t.circuit
      /\ t.kind \notin {"none", "create"}
  BY <1>1, <1>2, <1>4 DEF TxFaithful, Open
<1>6. s \in Requests => t.held = {}
  BY <1>2 DEF OverlayInv, Guarded, Locks
<1>7. \A u \in Workers \ {s} : s \in Workers =>
        /\ t.held \intersect tx[u].held = {}
        /\ Open(u) => t.circuit # tx[u].circuit
  BY <1>1, <1>2 DEF OverlayInv, Guarded, Locks
<1> HIDE DEF t
<1> QED
  BY <1>1, <1>2, <1>3, <1>5, <1>6, <1>7, OpensInv

LEMMA CreateInv ==
  ASSUME OverlayInv, NEW s \in Sessions, NEW c \in Circuits, NEW D \in SUBSET Devices,
         NEW v \in Pool, create_circuit(s, c, D, v)
  PROVE  Guarded' /\ TablesExact'
<1> DEFINE t == [Idle EXCEPT !.kind = "create", !.circuit = c, !.vni = v, !.devices = D]
<1>1. t.kind = "create" /\ t.held = {} /\ t.devices = D /\ D # {}
  BY DEF Idle, create_circuit
<1>2. /\ tx' = [tx EXCEPT ![s] = t] /\ UNCHANGED <<vni, status, eps, routes, vtep>>
      /\ tainted \subseteq tainted'
  BY DEF create_circuit, tables
<1> HIDE DEF t
<1>3. \A x \in Circuits : vni'[x] # None => eps'[x] # {}
  BY <1>2 DEF OverlayInv, Guarded, Nonempty
<1>4. Guarded'
  <2>1. NamesInv /\ Guarded
    BY DEF OverlayInv
  <2> QED
    BY <1>1, <1>2, <1>3, <2>1, GuardedStep
<1>5. TablesExact'
  BY <1>1, <1>2, RowsKept
<1> QED
  BY <1>4, <1>5

\* The steps between opening and commit.
LEMMA WorkInv ==
  ASSUME OverlayInv, NEW s \in Sessions, NEW t, tx' = [tx EXCEPT ![s] = t],
         UNCHANGED <<tables, tainted>>, Open(s),
         /\ t.kind = "sync" => tx[s].kind = "sync"
         /\ t.circuit = tx[s].circuit /\ t.vni = tx[s].vni
         /\ t.held = tx[s].held /\ t.devices = tx[s].devices,
         \/ /\ t.at = "write"
            /\ \A d \in t.devices : t.seen[d] = vtep[d]
            /\ t.del = RowsOf(tx[s].circuit)
         \/ /\ t.at \in {"write", "undo"} /\ Reading(s)
            /\ t.seen = tx[s].seen
            /\ t.del \in {tx[s].del, tx[s].del \union RowsOf(tx[s].circuit)}
  PROVE  Guarded' /\ TablesExact'
<1>1. tx'[s] = t
  BY DEF OverlayInv, NamesInv, TypeOK
<1>2. TxFaithful(s)
  BY DEF OverlayInv, TablesExact, Faithful
<1>3. TxFaithful(s)'
  <2>1. UNCHANGED <<vni, eps, vtep, routes, tainted>>
    BY DEF tables
  <2>2. \A r \in t.del : r.circuit = t.circuit
    BY <1>2 DEF TxFaithful, RowsOf
  <2>3. /\ t.vni \notin tainted => RowsOf(t.circuit) \subseteq t.del
        /\ \A d \in t.devices, v \in Pool \ tainted : v \in t.seen[d] <=> v \in vtep[d]
    BY <1>2 DEF TxFaithful
  <2>4. RowsOf(t.circuit)' = RowsOf(t.circuit)
    BY <2>1 DEF RowsOf
  <2> QED
    BY <1>1, <1>2, <2>1, <2>2, <2>3, <2>4 DEF TxFaithful, RowsOf
<1>4. Guarded'
  <2>1. \A c \in Circuits : vni'[c] # None => eps'[c] # {}
    BY DEF OverlayInv, Guarded, Nonempty, tables
  <2>2. NamesInv /\ Guarded /\ tainted' = tainted
    BY DEF OverlayInv
  <2> QED
    BY <2>1, <2>2, GuardedKept
<1>5. TablesExact'
  BY <1>3, RowsKept DEF tables
<1> QED
  BY <1>4, <1>5

LEMMA WorkSteps ==
  ASSUME OverlayInv, NEW s \in Sessions,
         Read(s) \/ Flush(s) \/ PushFails(s) \/ _undo_bugis(s)
  PROVE  Guarded' /\ TablesExact'
<1>1. /\ tx[s] \in Transaction /\ UNCHANGED <<tables, tainted>> /\ Open(s)
  BY DEF Read, Flush, PushFails, _undo_bugis, Finished, OverlayInv, NamesInv, TypeOK, Shape
<1>2. CASE Read(s)
  <2>1. PICK order \in LockOrders(tx[s].kind) :
          tx' = [tx EXCEPT ![s].at = "write", ![s].todo = order, ![s].del = RowsOf(tx[s].circuit),
                   ![s].seen = [d \in Devices |-> IF d \in tx[s].devices THEN vtep[d] ELSE {}]]
    BY <1>2 DEF Read
  <2> DEFINE t == [tx[s] EXCEPT !.at = "write", !.todo = order, !.del = RowsOf(tx[s].circuit),
                     !.seen = [d \in Devices |-> IF d \in tx[s].devices THEN vtep[d] ELSE {}]]
  <2>2. tx' = [tx EXCEPT ![s] = t]
    BY <2>1 DEF OverlayInv, NamesInv, TypeOK
  <2>3. /\ t.kind = tx[s].kind /\ t.circuit = tx[s].circuit /\ t.vni = tx[s].vni
        /\ t.held = tx[s].held /\ t.devices = tx[s].devices
        /\ t.at = "write" /\ t.del = RowsOf(tx[s].circuit)
        /\ \A d \in t.devices : t.seen[d] = vtep[d]
    BY <1>1 DEF Transaction
  <2> HIDE DEF t
  <2> QED
    BY <1>1, <2>2, <2>3, WorkInv
<1>3. CASE Flush(s)
  <2>0. PICK edited \in SUBSET Devices, todo \in Seq(Tables) :
          tx' = [tx EXCEPT ![s] = [tx[s] EXCEPT !.todo = todo, !.edited = edited,
                                                !.locks = @ \union Takes(s)]]
    BY <1>3, FlushEffect DEF OverlayInv, NamesInv
  <2> DEFINE t == [tx[s] EXCEPT !.todo = todo, !.edited = edited, !.locks = @ \union Takes(s)]
  <2>1. tx' = [tx EXCEPT ![s] = t] /\ tx[s].at = "write"
    BY <1>3, <2>0 DEF Flush
  <2>2. /\ t.kind = tx[s].kind /\ t.circuit = tx[s].circuit /\ t.vni = tx[s].vni
        /\ t.held = tx[s].held /\ t.devices = tx[s].devices
        /\ t.at = tx[s].at /\ t.del = tx[s].del /\ t.seen = tx[s].seen
    BY <1>1 DEF Transaction
  <2> HIDE DEF t
  <2> QED
    BY <1>1, <2>1, <2>2, WorkInv DEF Reading
<1>4. CASE PushFails(s)
  <2> DEFINE t == [tx[s] EXCEPT !.at = "undo"]
  <2>1. tx' = [tx EXCEPT ![s] = t] /\ tx[s].at = "write"
    BY <1>4 DEF PushFails, Finished, OverlayInv, NamesInv, TypeOK
  <2>2. /\ t.kind = tx[s].kind /\ t.circuit = tx[s].circuit /\ t.vni = tx[s].vni
        /\ t.held = tx[s].held /\ t.devices = tx[s].devices
        /\ t.at = "undo" /\ t.del = tx[s].del /\ t.seen = tx[s].seen
    BY <1>1 DEF Transaction
  <2> HIDE DEF t
  <2> QED
    BY <1>1, <2>1, <2>2, WorkInv DEF Reading
<1>5. CASE _undo_bugis(s)
  <2> DEFINE t == [tx[s] EXCEPT !.kind = "undone", !.at = "write",
                                !.del = @ \union RowsOf(tx[s].circuit)]
  <2>1. tx' = [tx EXCEPT ![s] = t] /\ tx[s].at = "undo"
    BY <1>5 DEF _undo_bugis, OverlayInv, NamesInv, TypeOK
  <2>2. /\ t.kind = "undone" /\ t.circuit = tx[s].circuit /\ t.vni = tx[s].vni
        /\ t.held = tx[s].held /\ t.devices = tx[s].devices
        /\ t.at = "write" /\ t.seen = tx[s].seen
        /\ t.del = tx[s].del \union RowsOf(tx[s].circuit)
    BY <1>1 DEF Transaction
  <2> HIDE DEF t
  <2> QED
    BY <1>1, <2>1, <2>2, WorkInv DEF Reading
<1> QED
  BY <1>2, <1>3, <1>4, <1>5

\* Endpoints are replaced: the circuit's VNI is on record from then on.
LEMMA EditTables ==
  ASSUME OverlayInv, NEW c \in Circuits, NEW D \in SUBSET Devices,
         eps' = [eps EXCEPT ![c] = D], UNCHANGED <<vni, status, routes, vtep>>,
         vni[c] \in tainted', tainted \subseteq tainted',
         \A u \in Sessions : Open(u)' /\ tx'[u] # tx[u] => TxFaithful(u)'
  PROVE  TablesExact'
<1> USE DEF OverlayInv, TablesExact
<1>1. /\ \A x \in Circuits \ {c} : eps'[x] = eps[x]
      /\ \A x \in Circuits : vni[x] \notin tainted' => x # c
  BY DEF NamesInv, TypeOK
<1>2. RowsOnEndpoints'
  BY <1>1 DEF RowsOnEndpoints, NamesInv, TypeOK, Row
<1>3. OverlayExact'
  BY DEF OverlayExact, Serves
<1>4. Faithful'
  <2> SUFFICES ASSUME NEW u \in Sessions, Open(u)', tx'[u] = tx[u] PROVE TxFaithful(u)'
    BY DEF Faithful
  <2>1. Open(u) /\ TxFaithful(u) /\ tx[u].circuit \in Circuits
    BY DEF Open, Faithful, NamesInv, Shape
  <2>2. tx[u].vni \notin tainted' => eps'[tx[u].circuit] = eps[tx[u].circuit]
    BY <1>1, <2>1 DEF TxFaithful
  <2> QED
    BY <2>1, <2>2 DEF TxFaithful, Reading, RowsOf
<1>5. RoutesFollowStatus'
  <2> SUFFICES ASSUME NEW x \in Circuits, vni'[x] \notin tainted'
               PROVE  LET origins == {r.device : r \in RowsOf(x)'} IN
                        /\ status'[x] = "active" => origins = eps'[x]
                        /\ status'[x] \in {"draft", "decommissioned", "absent"} => origins = {}
    BY DEF RoutesFollowStatus
  <2>1. RowsOf(x)' = RowsOf(x) /\ vni[x] \notin tainted /\ eps'[x] = eps[x]
    BY <1>1 DEF RowsOf
  <2>2. /\ status[x] = "active" => {r.device : r \in RowsOf(x)} = eps[x]
        /\ status[x] \in {"draft", "decommissioned", "absent"}
             => {r.device : r \in RowsOf(x)} = {}
    BY <2>1 DEF RoutesFollowStatus
  <2> QED
    BY <2>1, <2>2
<1> QED
  BY <1>2, <1>3, <1>4, <1>5

LEMMA GuardedQuiet ==
  ASSUME NamesInv, Guarded, UNCHANGED tx, tainted \subseteq tainted',
         \A c \in Circuits : vni'[c] # None => eps'[c] # {}
  PROVE  Guarded'
<1>1. Locks'
  BY DEF Guarded, Locks, Open
<1>2. Nonempty'
  BY DEF Guarded, Nonempty
<1>3. ClashTainted'
  BY DEF Guarded, ClashTainted, Open
<1> QED
  BY <1>1, <1>2, <1>3 DEF Guarded

LEMMA EditInv ==
  ASSUME OverlayInv, NEW s \in Requests, NEW c \in Circuits, NEW D \in SUBSET Devices,
         replace_endpoints(s, c, D) \/ edit_endpoints(s, c, D)
  PROVE  Guarded' /\ TablesExact'
<1> DEFINE t == [Idle EXCEPT !.kind = "sync", !.circuit = c, !.vni = vni[c], !.at = "read",
                             !.devices = D]
           syncs == status[c] \in {"provisioning", "active"}
<1>1. /\ eps' = [eps EXCEPT ![c] = D] /\ UNCHANGED <<vni, status, routes, vtep>>
      /\ vni[c] \in tainted' /\ tainted \subseteq tainted' /\ D # {}
  BY DEF replace_endpoints, edit_endpoints
<1>2. \/ tx' = tx
      \/ tx' = [tx EXCEPT ![s] = t] /\ Overlapped(s, t) \subseteq tainted'
  BY DEF replace_endpoints, edit_endpoints
<1>3. /\ t.kind = "sync" /\ t.circuit = c /\ t.vni = vni[c] /\ t.at = "read"
      /\ t.devices = D /\ t.del = {} /\ t.held = {}
  BY DEF Idle
<1> HIDE DEF t, syncs
<1>4. \A x \in Circuits : vni'[x] # None => eps'[x] # {}
  BY <1>1 DEF OverlayInv, Guarded, Nonempty, NamesInv, TypeOK
<1>5. NamesInv /\ Guarded
  BY DEF OverlayInv
<1>6. CASE tx' = tx
  BY <1>1, <1>4, <1>5, <1>6, GuardedQuiet, EditTables
<1>7. CASE tx' = [tx EXCEPT ![s] = t] /\ Overlapped(s, t) \subseteq tainted'
  <2>1. s \in Sessions /\ s \notin Workers
    BY OverlayAssumption DEF Sessions
  <2>2. tx'[s] = t /\ \A u \in Sessions \ {s} : tx'[u] = tx[u]
    BY <1>5, <1>7, <2>1 DEF NamesInv, TypeOK
  <2>3. TxFaithful(s)'
    BY <1>1, <1>3, <2>2 DEF TxFaithful, Reading
  <2>4. TablesExact'
    BY <1>1, <2>2, <2>3, EditTables
  <2>5. Guarded'
    BY <1>1, <1>3, <1>4, <1>5, <1>7, <2>1, GuardedStep
  <2> QED
    BY <2>4, <2>5
<1> QED
  BY <1>2, <1>6, <1>7

LEMMA InsertInv ==
  ASSUME OverlayInv, NEW s \in Sessions, InsertCircuit(s)
  PROVE  Guarded' /\ TablesExact'
<1> USE DEF OverlayInv, TablesExact
<1> DEFINE c == tx[s].circuit
           v == tx[s].vni
<1>1. /\ tx[s].kind = "create" /\ c \in Circuits /\ vni[c] = None
      /\ vni' = [vni EXCEPT ![c] = v] /\ status' = [status EXCEPT ![c] = "draft"]
      /\ eps' = [eps EXCEPT ![c] = tx[s].devices]
      /\ tx' = [tx EXCEPT ![s] = Idle] /\ UNCHANGED <<routes, vtep, tainted>>
  BY DEF InsertCircuit, NamesInv, Shape, Creations
<1>2. /\ tx'[s] = Idle /\ \A u \in Sessions \ {s} : tx'[u] = tx[u]
      /\ Idle.kind = "none"
  BY <1>1 DEF NamesInv, TypeOK, Idle
<1>3. /\ vni'[c] = v /\ status'[c] = "draft" /\ eps'[c] = tx[s].devices
      /\ \A x \in Circuits \ {c} :
           vni'[x] = vni[x] /\ status'[x] = status[x] /\ eps'[x] = eps[x]
  BY <1>1 DEF NamesInv, TypeOK
<1>4. \A r \in routes : r.circuit \in Circuits \ {c}
  BY <1>1 DEF RowsOnEndpoints, NamesInv, TypeOK, Row
<1>5. Guarded'
  <2>1. \A x \in Circuits : vni'[x] # None => eps'[x] # {}
    BY <1>1, <1>3 DEF Guarded, Nonempty
  <2> QED
    BY <1>1, <2>1, GuardedKept
<1>6. RowsOnEndpoints'
  BY <1>1, <1>3, <1>4 DEF RowsOnEndpoints
<1>7. OverlayExact'
  BY <1>1, <1>3, <1>4 DEF OverlayExact, Serves
<1>8. Faithful'
  <2> SUFFICES ASSUME NEW u \in Sessions, Open(u)' PROVE TxFaithful(u)'
    BY DEF Faithful
  <2>1. u # s /\ tx'[u] = tx[u] /\ Open(u) /\ TxFaithful(u)
    BY <1>2 DEF Open, Faithful
  <2>2. tx[u].circuit \in Circuits \ {c}
    BY <1>1, <2>1 DEF NamesInv, Shape, Creations, Open
  <2> QED
    BY <1>1, <1>3, <2>1, <2>2 DEF TxFaithful, Reading, RowsOf
<1>9. RoutesFollowStatus'
  <2> SUFFICES ASSUME NEW x \in Circuits, vni'[x] \notin tainted'
               PROVE  LET origins == {r.device : r \in RowsOf(x)'} IN
                        /\ status'[x] = "active" => origins = eps'[x]
                        /\ status'[x] \in {"draft", "decommissioned", "absent"} => origins = {}
    BY DEF RoutesFollowStatus
  <2>1. RowsOf(x)' = RowsOf(x)
    BY <1>1 DEF RowsOf
  <2>2. CASE x = c
    <3>1. RowsOf(x)' = {}
      BY <1>4, <2>1, <2>2 DEF RowsOf
    <3> QED
      BY <1>3, <2>2, <3>1
  <2>3. CASE x # c
    <3>1. vni[x] \notin tainted /\ status'[x] = status[x] /\ eps'[x] = eps[x]
      BY <1>1, <1>3, <2>3
    <3>2. /\ status[x] = "active" => {r.device : r \in RowsOf(x)} = eps[x]
          /\ status[x] \in {"draft", "decommissioned", "absent"}
               => {r.device : r \in RowsOf(x)} = {}
      BY <3>1 DEF RoutesFollowStatus
    <3> QED
      BY <2>1, <3>1, <3>2
  <2> QED
    BY <2>2, <2>3
<1> QED
  BY <1>5, <1>6, <1>7, <1>8, <1>9

\* What a commit does to the VTEPs: nothing outside its devices, and on them
\* nothing but its own VNI, as far as VNIs are untainted.
LEMMA VtepsWritten ==
  ASSUME OverlayInv, NEW s \in Sessions, Finished(s), WriteVteps(s),
         NEW d \in Devices, NEW v \in Pool \ tainted
  PROVE  /\ d \notin tx[s].devices \/ v # tx[s].vni => (v \in vtep'[d] <=> v \in vtep[d])
         /\ d \in tx[s].devices /\ v = tx[s].vni => (v \in vtep'[d] <=> Registers(tx[s]))
<1>1. Open(s) /\ TxFaithful(s) /\ Reading(s)
  BY DEF OverlayInv, NamesInv, Shape, TablesExact, Faithful, Finished, Reading
<1>2. vtep'[d] = IF d \in Changed(tx[s]) THEN NewVnis(tx[s], d) ELSE vtep[d]
  BY DEF WriteVteps
<1>3. CASE d \notin tx[s].devices
  BY <1>2, <1>3 DEF Changed
<1>4. CASE d \in tx[s].devices
  <2>1. v \in tx[s].seen[d] <=> v \in vtep[d]
    BY <1>1, <1>4 DEF TxFaithful
  <2>2. v \in vtep'[d] <=> v \in NewVnis(tx[s], d)
    BY <1>2, <1>4, <2>1 DEF Changed
  <2> QED
    BY <1>4, <2>1, <2>2 DEF NewVnis, _register_vtep, _deregister_vni
<1> QED
  BY <1>3, <1>4

\* A commit disturbs no other transaction.
LEMMA OthersFaithful ==
  ASSUME OverlayInv, NEW s \in Sessions, Finished(s), WriteVteps(s), tainted' = tainted,
         tx' = [tx EXCEPT ![s] = Idle],
         \A x \in Circuits \ {tx[s].circuit} :
           vni'[x] = vni[x] /\ eps'[x] = eps[x] /\ RowsOf(x)' = RowsOf(x)
  PROVE  Faithful'
<1> SUFFICES ASSUME NEW u \in Sessions, Open(u)' PROVE TxFaithful(u)'
  BY DEF Faithful
<1>1. u # s /\ tx'[u] = tx[u] /\ Open(u)
  BY DEF Open, Idle, OverlayInv, NamesInv, TypeOK
<1>2. TxFaithful(u) /\ Open(s) /\ tx[u] \in Transaction /\ tx[u].circuit \in Circuits
  BY <1>1 DEF OverlayInv, TablesExact, Faithful, NamesInv, TypeOK, Shape, Finished, Open
<1>3. tx[u].vni \notin tainted =>
        /\ vni'[tx[u].circuit] = vni[tx[u].circuit] /\ eps'[tx[u].circuit] = eps[tx[u].circuit]
        /\ RowsOf(tx[u].circuit)' = RowsOf(tx[u].circuit)
  BY <1>1, <1>2, Apart DEF OverlayInv
<1>4. ASSUME NEW d \in tx[u].devices, NEW v \in Pool \ tainted
      PROVE  v \in vtep'[d] <=> v \in vtep[d]
  <2>1. d \in Devices
    BY <1>2, <1>4 DEF Transaction
  <2>2. CASE d \notin tx[s].devices \/ v # tx[s].vni
    BY <2>1, <2>2, VtepsWritten
  <2>3. CASE d \in tx[s].devices /\ v = tx[s].vni
    BY <1>1, <1>2, <2>3, Apart DEF OverlayInv
  <2> QED
    BY <2>2, <2>3
<1>5. RowsOf(tx[u].circuit)' = {r \in routes' : r.circuit = tx[u].circuit}
  BY <1>1 DEF RowsOf
<1> QED
  BY <1>1, <1>2, <1>3, <1>4, <1>5 DEF TxFaithful, Reading, RowsOf

LEMMA CommitInv ==
  ASSUME OverlayInv, NEW s \in Sessions, Commit(s)
  PROVE  Guarded' /\ TablesExact'
<1> USE DEF OverlayInv
<1> DEFINE c == tx[s].circuit
           v == tx[s].vni
<1>1. /\ Finished(s) /\ Open(s) /\ TxFaithful(s) /\ Reading(s) /\ tx[s].kind # "purge"
      /\ c \in Circuits /\ vni[c] = v /\ v \in Pool
      /\ tx[s] \in Transaction
  BY DEF Commit, Exists, NamesInv, TypeOK, Shape, RowsHaveVnis, TablesExact, Faithful,
         Finished, Reading, Open
<1>2. /\ WriteVteps(s) /\ tx' = [tx EXCEPT ![s] = Idle] /\ UNCHANGED <<vni, eps, tainted>>
      /\ routes' = (routes \ tx[s].del) \union Inserted(s)
  BY DEF Commit
<1>3. PICK st \in Outcomes(s) : status' = [status EXCEPT ![c] = st]
  BY DEF Commit
<1>4. \A r \in tx[s].del \union Inserted(s) : r.circuit = c
  BY <1>1 DEF TxFaithful, Inserted
<1>5. \A x \in Circuits \ {c} : RowsOf(x)' = RowsOf(x) /\ status'[x] = status[x]
  BY <1>2, <1>3, <1>4 DEF RowsOf, NamesInv, TypeOK
<1>6. v \notin tainted =>
        {r \in routes' : r.circuit = c} = Inserted(s) /\ tx[s].devices = eps[c]
  BY <1>1, <1>2, <1>4 DEF TxFaithful, RowsOf
<1>7. {r.device : r \in Inserted(s)} = IF Registers(tx[s]) THEN tx[s].devices ELSE {}
  <2>1. CASE Registers(tx[s])
    <3>1. \A r \in Inserted(s) : r.device \in tx[s].devices
      BY <2>1 DEF Inserted
    <3>2. ASSUME NEW d \in tx[s].devices PROVE \E r \in Inserted(s) : r.device = d
      <4>1. [circuit |-> c, device |-> d, by |-> s] \in Inserted(s)
        BY <2>1 DEF Inserted
      <4> QED
        BY <4>1
    <3> QED
      BY <2>1, <3>1, <3>2
  <2>2. CASE ~Registers(tx[s])
    BY <2>2 DEF Inserted
  <2> QED
    BY <2>1, <2>2
<1>8. Guarded'
  <2>1. \A x \in Circuits : vni'[x] # None => eps'[x] # {}
    BY <1>2 DEF Guarded, Nonempty
  <2> QED
    BY <1>2, <2>1, GuardedKept
<1>9. Faithful'
  BY <1>1, <1>2, <1>5, OthersFaithful
<1>10. RowsOnEndpoints'
  <2> SUFFICES ASSUME NEW r \in routes'
               PROVE  /\ vni[r.circuit] # None
                      /\ vni[r.circuit] \notin tainted => r.device \in eps[r.circuit]
    BY <1>2 DEF RowsOnEndpoints
  <2>1. CASE r \in routes
    BY <2>1 DEF TablesExact, RowsOnEndpoints
  <2>2. CASE r \in Inserted(s)
    <3>1. r.circuit = c /\ r.device \in tx[s].devices
      BY <2>2 DEF Inserted
    <3> QED
      BY <1>1, <1>6, <3>1, OverlayAssumption
  <2> QED
    BY <1>2, <2>1, <2>2
<1>11. OverlayExact'
  <2> SUFFICES ASSUME NEW d \in Devices, NEW w \in Pool \ tainted
               PROVE  w \in vtep'[d] <=> \E r \in routes' : r.device = d /\ vni[r.circuit] = w
    BY <1>2 DEF OverlayExact, Serves
  <2>1. w \in vtep[d] <=> \E r \in routes : r.device = d /\ vni[r.circuit] = w
    BY DEF TablesExact, OverlayExact, Serves
  <2>2. CASE w # v
    <3>1. w \in vtep'[d] <=> w \in vtep[d]
      BY <1>1, <1>2, <2>2, VtepsWritten
    <3>2. \A r : vni[r.circuit] = w => (r \in routes <=> r \in routes')
      BY <1>1, <1>2, <1>4, <2>2
    <3> QED
      BY <2>1, <3>1, <3>2
  <2>3. CASE w = v
    <3>1. \A r \in routes \union routes' : vni[r.circuit] = w => r.circuit = c
      <4>1. \A r \in routes \union routes' : r.circuit \in Circuits
        BY <1>1, <1>2, <1>4 DEF NamesInv, TypeOK, Row
      <4> QED
        BY <1>1, <2>3, <4>1, OverlayAssumption DEF NamesInv, DistinctVnis
    <3>2. (\E r \in routes' : r.device = d /\ vni[r.circuit] = w)
            <=> d \in {r.device : r \in Inserted(s)}
      BY <1>1, <1>2, <1>4, <1>6, <2>3, <3>1 DEF RowsOf
    <3>3. CASE d \in tx[s].devices
      <4>1. w \in vtep'[d] <=> Registers(tx[s])
        BY <1>1, <1>2, <2>3, <3>3, VtepsWritten
      <4> QED
        BY <1>7, <3>2, <3>3, <4>1
    <3>4. CASE d \notin tx[s].devices
      <4>1. w \in vtep'[d] <=> w \in vtep[d]
        BY <1>1, <1>2, <3>4, VtepsWritten
      <4>2. ~ \E r \in routes : r.device = d /\ vni[r.circuit] = w
        BY <1>1, <1>6, <2>3, <3>1, <3>4 DEF TablesExact, RowsOnEndpoints
      <4> QED
        BY <1>7, <2>1, <3>2, <3>4, <4>1, <4>2
    <3> QED
      BY <3>3, <3>4
  <2> QED
    BY <2>2, <2>3
<1>12. RoutesFollowStatus'
  <2> SUFFICES ASSUME NEW x \in Circuits, vni[x] \notin tainted
               PROVE  LET origins == {r.device : r \in RowsOf(x)'} IN
                        /\ status'[x] = "active" => origins = eps[x]
                        /\ status'[x] \in {"draft", "decommissioned", "absent"} => origins = {}
    BY <1>2 DEF RoutesFollowStatus
  <2>1. CASE x # c
    <3>1. /\ status[x] = "active" => {r.device : r \in RowsOf(x)} = eps[x]
          /\ status[x] \in {"draft", "decommissioned", "absent"}
               => {r.device : r \in RowsOf(x)} = {}
      BY DEF TablesExact, RoutesFollowStatus
    <3> QED
      BY <1>5, <2>1, <3>1
  <2>2. CASE x = c
    <3>1. status'[c] = st /\ v \notin tainted
      BY <1>1, <1>3, <2>2 DEF NamesInv, TypeOK
    <3>2. RowsOf(x)' = Inserted(s) /\ tx[s].devices = eps[x]
      BY <1>6, <2>2, <3>1 DEF RowsOf
    <3>3. tx[s].kind \in {"install", "withdraw", "undone"}
      BY <1>1, <3>1 DEF Transaction, Kinds, Open, TxFaithful
    <3>4. /\ Registers(tx[s]) => st \in {"active", "failed"}
          /\ ~Registers(tx[s]) => st \in {"failed", "decommissioned"}
      BY <1>3, <3>3 DEF Outcomes, Registers
    <3> QED
      BY <1>7, <2>2, <3>1, <3>2, <3>4
  <2> QED
    BY <2>1, <2>2
<1> QED
  BY <1>8, <1>9, <1>10, <1>11, <1>12 DEF TablesExact

LEMMA PurgeInv ==
  ASSUME OverlayInv, NEW s \in Sessions, CommitPurge(s)
  PROVE  Guarded' /\ TablesExact'
<1> USE DEF OverlayInv
<1> DEFINE c == tx[s].circuit
           v == tx[s].vni
<1>1. /\ Finished(s) /\ Open(s) /\ TxFaithful(s) /\ tx[s].kind = "purge"
      /\ c \in Circuits /\ vni[c] = v /\ v \in Pool /\ tx[s] \in Transaction
  BY DEF CommitPurge, Exists, NamesInv, TypeOK, Shape, RowsHaveVnis, TablesExact, Faithful,
         Finished, Open
<1>2. /\ WriteVteps(s) /\ tx' = [tx EXCEPT ![s] = Idle] /\ tainted' = tainted
      /\ routes' = {r \in routes : r.circuit # c}
  BY DEF CommitPurge, RowsOf
<1>3. /\ vni'[c] = None /\ status'[c] = "absent"
      /\ \A x \in Circuits \ {c} :
           /\ vni'[x] = vni[x] /\ status'[x] = status[x] /\ eps'[x] = eps[x]
           /\ RowsOf(x)' = RowsOf(x)
  BY <1>1, <1>2 DEF CommitPurge, NamesInv, TypeOK, RowsOf
<1>4. \A r \in routes : r.circuit \in Circuits
  BY DEF NamesInv, TypeOK, Row
<1>5. Guarded'
  <2>1. \A x \in Circuits : vni'[x] # None => eps'[x] # {}
    BY <1>3 DEF Guarded, Nonempty
  <2> QED
    BY <1>2, <2>1, GuardedKept
<1>6. Faithful'
  BY <1>1, <1>2, <1>3, OthersFaithful
<1>7. RowsOnEndpoints'
  BY <1>2, <1>3, <1>4 DEF TablesExact, RowsOnEndpoints
<1>8. OverlayExact'
  <2> SUFFICES ASSUME NEW d \in Devices, NEW w \in Pool \ tainted
               PROVE  w \in vtep'[d] <=> \E r \in routes' : r.device = d /\ vni'[r.circuit] = w
    BY <1>2 DEF OverlayExact, Serves
  <2>1. w \in vtep[d] <=> \E r \in routes : r.device = d /\ vni[r.circuit] = w
    BY DEF TablesExact, OverlayExact, Serves
  <2>2. CASE w # v
    <3>1. w \in vtep'[d] <=> w \in vtep[d]
      BY <1>1, <1>2, <2>2, VtepsWritten
    <3>2. \A r \in routes' : vni'[r.circuit] = vni[r.circuit]
      BY <1>2, <1>3, <1>4
    <3>3. \A r \in routes : vni[r.circuit] = w => r \in routes'
      BY <1>1, <1>2, <2>2
    <3> QED
      BY <1>2, <2>1, <3>1, <3>2, <3>3
  <2>3. CASE w = v
    <3>1. \A r \in routes : vni[r.circuit] = w => r.circuit = c
      BY <1>1, <1>4, <2>3, OverlayAssumption DEF NamesInv, DistinctVnis
    <3>2. ~ \E r \in routes' : vni'[r.circuit] = w
      BY <1>2, <1>3, <1>4, <3>1
    <3>3. CASE d \in tx[s].devices
      <4>1. ~Registers(tx[s])
        BY <1>1 DEF Registers
      <4>2. w \notin vtep'[d]
        BY <1>1, <1>2, <2>3, <3>3, <4>1, VtepsWritten
      <4> QED
        BY <3>2, <4>2
    <3>4. CASE d \notin tx[s].devices
      <4>1. w \in vtep'[d] <=> w \in vtep[d]
        BY <1>1, <1>2, <3>4, VtepsWritten
      <4>2. tx[s].devices = eps[c]
        BY <1>1, <2>3 DEF TxFaithful
      <4>3. ~ \E r \in routes : r.device = d /\ vni[r.circuit] = w
        BY <2>3, <3>1, <3>4, <4>2 DEF TablesExact, RowsOnEndpoints
      <4> QED
        BY <2>1, <3>2, <4>1, <4>3
    <3> QED
      BY <3>3, <3>4
  <2> QED
    BY <2>2, <2>3
<1>9. RoutesFollowStatus'
  <2> SUFFICES ASSUME NEW x \in Circuits, vni'[x] \notin tainted
               PROVE  LET origins == {r.device : r \in RowsOf(x)'} IN
                        /\ status'[x] = "active" => origins = eps'[x]
                        /\ status'[x] \in {"draft", "decommissioned", "absent"} => origins = {}
    BY <1>2 DEF RoutesFollowStatus
  <2>1. CASE x = c
    <3>1. RowsOf(x)' = {}
      BY <1>2, <2>1 DEF RowsOf
    <3> QED
      BY <1>3, <2>1, <3>1
  <2>2. CASE x # c
    <3>1. vni[x] \notin tainted
      BY <1>3, <2>2
    <3>2. /\ status[x] = "active" => {r.device : r \in RowsOf(x)} = eps[x]
          /\ status[x] \in {"draft", "decommissioned", "absent"}
               => {r.device : r \in RowsOf(x)} = {}
      BY <3>1 DEF TablesExact, RoutesFollowStatus
    <3> QED
      BY <1>3, <2>2, <3>2
  <2> QED
    BY <2>1, <2>2
<1> QED
  BY <1>5, <1>6, <1>7, <1>8, <1>9 DEF TablesExact

LEMMA NextTables ==
  ASSUME OverlayInv, [Next]_vars
  PROVE  Guarded' /\ TablesExact'
<1>1. CASE UNCHANGED vars
  <2>1. Guarded'
    BY <1>1, GuardedQuiet DEF OverlayInv, Guarded, Nonempty, vars, tables
  <2>2. TablesExact'
    BY <1>1 DEF OverlayInv, TablesExact, Faithful, TxFaithful, Open, Reading, RowsOf,
                RowsOnEndpoints, OverlayExact, Serves, RoutesFollowStatus, vars, tables
  <2> QED
    BY <2>1, <2>2
<1>2. ASSUME NEW s \in Sessions, Step(s)
      PROVE  Guarded' /\ TablesExact'
  BY <1>2, EndInv, BeginRunInv, WorkSteps, CommitInv, PurgeInv, InsertInv DEF Step
<1>3. ASSUME NEW s \in Sessions, Begin(s)
      PROVE  Guarded' /\ TablesExact'
  <2>1. CASE \E c \in Circuits, kind \in {"install", "withdraw"} : StartRun(s, c, kind)
    BY <2>1, StartRunInv
  <2>2. CASE s \in Requests /\ \E c \in Circuits : delete_circuit(s, c)
    BY <2>2, DeleteInv
  <2>3. CASE s \in Requests /\ \E c \in Circuits, D \in SUBSET Devices :
               replace_endpoints(s, c, D) \/ edit_endpoints(s, c, D)
    BY <2>3, EditInv
  <2>4. CASE \E c \in Circuits, D \in SUBSET Devices, v \in Pool \union {allocate_vni(_used_vnis)} :
               create_circuit(s, c, D, v)
    BY <2>4, AllocateVni, CreateInv
  <2> QED
    BY <1>3, <2>1, <2>2, <2>3, <2>4 DEF Begin
<1> QED
  BY <1>1, <1>2, <1>3 DEF Next

LEMMA OverlayInvariant == Spec => []OverlayInv
<1>1. Init /\ NamesInv => OverlayInv
  <2> SUFFICES ASSUME Init, NamesInv PROVE Guarded /\ TablesExact
    BY DEF OverlayInv
  <2>1. \A s \in Sessions : tx[s] = Idle
    BY DEF Init
  <2>2. /\ Idle.kind = "none" /\ Idle.held = {} /\ \A s \in Sessions : ~Open(s)
        /\ \A c \in Circuits : vni[c] = None
    BY <2>1 DEF Idle, Open, Init
  <2>3. Guarded
    BY <2>1, <2>2 DEF Guarded, Locks, Nonempty, ClashTainted, Sessions
  <2>4. Faithful /\ RowsOnEndpoints /\ OverlayExact
    BY <2>2 DEF Init, Faithful, RowsOnEndpoints, OverlayExact, Serves
  <2>5. RoutesFollowStatus
    BY DEF Init, RoutesFollowStatus, RowsOf
  <2> QED
    BY <2>3, <2>4, <2>5 DEF TablesExact
<1>2. OverlayInv /\ NamesInv' /\ [Next]_vars => OverlayInv'
  BY NextTables DEF OverlayInv
<1> QED
  BY <1>1, <1>2, NamesInvariant, PTL DEF Spec

\* The VTEP table and the RIB agree on every VNI whose transactions did not
\* overlap unprotected, whatever the other sessions do: the register and the
\* deregister of engine.py lose none of the entries of a third circuit.
THEOREM OverlayStaysExact == Spec => []OverlayExact
<1>1. OverlayInv => OverlayExact
  BY DEF OverlayInv, TablesExact
<1> QED
  BY <1>1, OverlayInvariant, PTL

\* An active circuit has exactly the routes of its endpoints and a draft or
\* decommissioned one none, through failed pushes, rollbacks and deadlocks.
THEOREM RoutesStayWithStatus == Spec => []RoutesFollowStatus
<1>1. OverlayInv => RoutesFollowStatus
  BY DEF OverlayInv, TablesExact
<1> QED
  BY <1>1, OverlayInvariant, PTL

-----------------------------------------------------------------------------
(* Who waits for whom. *)

\* The second and the third table a transaction stamps, deletions aside.
Second(kind) == IF kind = "withdraw" THEN "nodes" ELSE "bgp"
Third(kind) == IF kind = "withdraw" THEN "bgp" ELSE "nodes"

\* What is left to flush determines which rows can be locked; the session rows
\* are locked one by one.
InOrder(t) ==
  \/ t.todo = <<"vtep", Second(t.kind), Third(t.kind)>> /\ t.locks = {}
  \/ /\ t.todo = <<Second(t.kind), Third(t.kind)>>
     /\ \A x \in t.locks : x[1] = "vtep" \/ (x[1] = "bgp" /\ Second(t.kind) = "bgp")
  \/ /\ t.todo = <<Third(t.kind)>>
     /\ \A x \in t.locks : x[1] \in {"vtep", Second(t.kind)} \/ x[1] = "bgp"

\* A transaction deletes routes of its own circuit, starts without locks and
\* has flushed everything before it undoes anything.
Staged(t) ==
  /\ \A row \in t.del : row.circuit = t.circuit
  /\ t.at \in {"none", "begin", "read"} => t.locks = {} /\ t.kind # "undone"
  /\ t.at = "undo" => t.kind = "install" /\ t.todo = <<>>
  /\ t.kind = "undone" => t.todo = <<>>
  /\ t.at = "write" /\ t.todo # <<>> /\ t.kind # "purge" => InOrder(t)

StagesInv == \A s \in Sessions : Staged(tx[s])

LEMMA OrderOf ==
  ASSUME NEW kind \in {"install", "sync", "withdraw"}
  PROVE  LockOrders(kind) = {<<"vtep", Second(kind), Third(kind)>>}
  BY DEF LockOrders, Second, Third

\* The kinds of work whose locks have one order: the order tells the tables.
LEMMA SameOrder ==
  ASSUME NEW k \in {"install", "sync", "withdraw", "purge"},
         NEW l \in {"install", "sync", "withdraw", "purge"},
         LockOrders(k) = LockOrders(l)
  PROVE  (k = "purge" <=> l = "purge") /\ Second(k) = Second(l) /\ Third(k) = Third(l)
<1>1. /\ <<"vtep", "bgp", "nodes">> # <<"vtep", "nodes", "bgp">>
      /\ <<"vtep", "nodes">> # <<"nodes", "vtep">>
      /\ <<"vtep", "bgp", "nodes">> # <<"vtep", "nodes">>
      /\ <<"vtep", "nodes", "bgp">> # <<"vtep", "nodes">>
  OBVIOUS
<1> QED
  BY <1>1 DEF LockOrders, Second, Third

LEMMA IdleStaged == Staged(Idle)
  BY DEF Idle, Staged

LEMMA ReadStaged ==
  ASSUME TypeOK, Shape, StagesInv, NEW s \in Sessions, Read(s)
  PROVE  Staged(tx'[s])
<1>1. PICK order \in LockOrders(tx[s].kind) :
        tx' = [tx EXCEPT ![s].at = "write", ![s].todo = order, ![s].del = RowsOf(tx[s].circuit),
                 ![s].seen = [d \in Devices |-> IF d \in tx[s].devices THEN vtep[d] ELSE {}]]
  BY DEF Read
<1>2. /\ tx[s] \in Transaction /\ Staged(tx[s]) /\ tx[s].at = "read"
      /\ tx[s].kind \in {"install", "sync", "withdraw", "purge"}
  BY DEF Read, TypeOK, StagesInv, Staged, Shape, Open, Transaction, Kinds
<1>3. /\ tx'[s].at = "write" /\ tx'[s].todo = order /\ tx'[s].del = RowsOf(tx[s].circuit)
      /\ tx'[s].kind = tx[s].kind /\ tx'[s].circuit = tx[s].circuit /\ tx'[s].locks = tx[s].locks
  BY <1>1, <1>2 DEF TypeOK, Transaction
<1>4. tx'[s].locks = {} /\ tx'[s].kind # "undone"
  BY <1>2, <1>3 DEF Staged
<1>5. tx[s].kind # "purge" => order = <<"vtep", Second(tx[s].kind), Third(tx[s].kind)>>
  BY <1>1, <1>2, OrderOf
<1>6. tx[s].kind # "purge" => InOrder(tx'[s])
  BY <1>3, <1>4, <1>5 DEF InOrder
<1> QED
  BY <1>3, <1>4, <1>6 DEF Staged, RowsOf

\* A flush takes the rows of one table and leaves the rest for later.
LEMMA FlushStaged ==
  ASSUME TypeOK, Shape, StagesInv, NEW s \in Sessions, Flush(s)
  PROVE  Staged(tx'[s])
<1>1. /\ tx[s] \in Transaction /\ Staged(tx[s]) /\ tx[s].at = "write" /\ tx[s].todo # <<>>
  BY DEF Flush, TypeOK, StagesInv
<1>2. /\ tx'[s].at = "write" /\ tx'[s].del = tx[s].del
      /\ tx'[s].todo = IF TableDone(tx[s]) THEN Tail(tx[s].todo) ELSE tx[s].todo
      /\ tx'[s].kind = tx[s].kind /\ tx'[s].circuit = tx[s].circuit
      /\ tx'[s].locks = tx[s].locks \union Takes(s)
  <2>1. PICK edited \in SUBSET Devices, todo \in Seq(Tables) :
          /\ todo = IF TableDone(tx[s]) THEN Tail(tx[s].todo) ELSE tx[s].todo
          /\ tx' = [tx EXCEPT ![s] = [tx[s] EXCEPT !.todo = todo, !.edited = edited,
                                                   !.locks = @ \union Takes(s)]]
    BY FlushEffect
  <2>2. tx'[s] = [tx[s] EXCEPT !.todo = todo, !.edited = edited, !.locks = @ \union Takes(s)]
    BY <2>1 DEF TypeOK
  <2>3. /\ tx'[s].at = tx[s].at /\ tx'[s].del = tx[s].del /\ tx'[s].todo = todo
        /\ tx'[s].kind = tx[s].kind /\ tx'[s].circuit = tx[s].circuit
        /\ tx'[s].locks = tx[s].locks \union Takes(s)
    BY <1>1, <2>2 DEF Transaction
  <2> QED
    BY <1>1, <2>1, <2>3
<1>3. \A x \in Takes(s) : x[1] = Head(tx[s].todo)
  <2>1. Head(tx[s].todo) \in {"vtep", "bgp", "nodes"}
    BY <1>1 DEF Transaction
  <2> QED
    BY <2>1 DEF Takes
<1>4. tx[s].kind # "undone"
  BY <1>1 DEF Staged
<1>5. ASSUME tx[s].kind # "purge", tx'[s].todo # <<>> PROVE InOrder(tx'[s])
  <2> DEFINE a == Second(tx[s].kind)
             b == Third(tx[s].kind)
  <2>0. a # "vtep" /\ b # "vtep"
    BY DEF Second, Third
  <2>1. InOrder(tx[s])
    BY <1>1, <1>5 DEF Staged
  <2>2. CASE tx[s].todo = <<"vtep", a, b>> /\ tx[s].locks = {}
    <3>1. tx'[s].todo = <<a, b>> /\ \A x \in Takes(s) : x[1] = "vtep"
      BY <1>2, <1>3, <2>2 DEF TableDone
    <3> QED
      BY <1>2, <2>2, <3>1 DEF InOrder
  <2>3. CASE /\ tx[s].todo = <<a, b>>
             /\ \A x \in tx[s].locks : x[1] = "vtep" \/ (x[1] = "bgp" /\ a = "bgp")
    <3>1. \A x \in Takes(s) : x[1] = a
      BY <1>3, <2>3
    <3>2. tx'[s].todo = <<b>> \/ (tx'[s].todo = <<a, b>> /\ a = "bgp")
      BY <1>2, <2>3 DEF TableDone
    <3> QED
      BY <1>2, <2>3, <3>1, <3>2 DEF InOrder
  <2>4. CASE tx[s].todo = <<b>> /\ \A x \in tx[s].locks : x[1] \in {"vtep", a} \/ x[1] = "bgp"
    <3>1. \A x \in Takes(s) : x[1] = b
      BY <1>3, <2>4
    <3>2. tx'[s].todo = <<>> \/ (tx'[s].todo = <<b>> /\ b = "bgp")
      BY <1>2, <2>4 DEF TableDone
    <3> QED
      BY <1>2, <1>5, <2>4, <3>1, <3>2 DEF InOrder
  <2> QED
    BY <2>1, <2>2, <2>3, <2>4 DEF InOrder
<1> QED
  BY <1>1, <1>2, <1>4, <1>5 DEF Staged

LEMMA StepStaged ==
  ASSUME TypeOK, Shape, StagesInv, NEW s \in Sessions, Step(s)
  PROVE  StagesInv'
<1>0. tx[s] \in Transaction /\ Staged(tx[s])
  BY DEF TypeOK, StagesInv
<1>1. CASE BeginRun(s)
  <2>1. tx'[s].at = "read" /\ tx[s].at = "begin" /\ tx'[s].kind = tx[s].kind
        /\ tx'[s].locks = tx[s].locks /\ tx'[s].del = tx[s].del /\ tx'[s].circuit = tx[s].circuit
    BY <1>0, <1>1 DEF BeginRun, Opens, TypeOK, Transaction
  <2>2. Staged(tx'[s])
    BY <1>0, <2>1 DEF Staged
  <2> QED
    BY <1>1, <2>2 DEF BeginRun, Opens, TypeOK, StagesInv
<1>2. CASE Read(s)
  BY <1>2, ReadStaged DEF Read, TypeOK, StagesInv
<1>3. CASE Flush(s)
  BY <1>3, FlushStaged DEF Flush, TypeOK, StagesInv
<1>4. CASE PushFails(s)
  <2>1. tx'[s].at = "undo" /\ tx'[s].kind = "install" /\ tx'[s].todo = <<>>
        /\ tx'[s].del = tx[s].del /\ tx'[s].circuit = tx[s].circuit
    BY <1>0, <1>4 DEF PushFails, Finished, TypeOK, Transaction
  <2>2. Staged(tx'[s])
    BY <1>0, <2>1 DEF Staged
  <2> QED
    BY <1>4, <2>2 DEF PushFails, TypeOK, StagesInv
<1>5. CASE _undo_bugis(s)
  <2>1. tx'[s].at = "write" /\ tx'[s].kind = "undone" /\ tx'[s].todo = tx[s].todo
        /\ tx[s].at = "undo" /\ tx'[s].del = tx[s].del \union RowsOf(tx[s].circuit)
        /\ tx'[s].circuit = tx[s].circuit
    BY <1>0, <1>5 DEF _undo_bugis, TypeOK, Transaction
  <2>2. Staged(tx'[s])
    BY <1>0, <2>1 DEF Staged, RowsOf
  <2> QED
    BY <1>5, <2>2 DEF _undo_bugis, TypeOK, StagesInv
<1>6. CASE \/ PreflightFails(s) \/ Commit(s) \/ CommitPurge(s) \/ CircuitGone(s)
           \/ DeadlockVictim(s) \/ InsertCircuit(s) \/ RequestFails(s)
  <2>1. tx' = [tx EXCEPT ![s] = Idle]
    BY <1>6 DEF PreflightFails, Commit, CommitPurge, CircuitGone, DeadlockVictim,
                InsertCircuit, RequestFails
  <2> QED
    BY <2>1, IdleStaged DEF TypeOK, StagesInv
<1> QED
  BY <1>1, <1>2, <1>3, <1>4, <1>5, <1>6 DEF Step

\* Whatever begins has locked nothing.
LEMMA BeginStaged ==
  ASSUME TypeOK, StagesInv, NEW s \in Sessions, Begin(s)
  PROVE  StagesInv'
<1> DEFINE Fresh(t) == t.locks = {} /\ t.del = {} /\ t.at \in {"none", "begin", "read"}
                       /\ t.kind # "undone"
<1>1. \A t : Fresh(t) => Staged(t)
  BY DEF Staged
<1>2. CASE \E c \in Circuits, kind \in {"install", "withdraw"} : StartRun(s, c, kind)
  <2>1. Fresh(tx'[s]) /\ \A u \in Sessions \ {s} : tx'[u] = tx[u]
    BY <1>2 DEF StartRun, Opens, Idle, TypeOK
  <2> QED
    BY <1>1, <2>1 DEF StagesInv
<1>3. CASE \E c \in Circuits : delete_circuit(s, c)
  <2>1. Fresh(tx'[s]) /\ \A u \in Sessions \ {s} : tx'[u] = tx[u]
    BY <1>3 DEF delete_circuit, Opens, Idle, TypeOK
  <2> QED
    BY <1>1, <2>1 DEF StagesInv
<1>4. ASSUME NEW c \in Circuits, NEW D \in SUBSET Devices, replace_endpoints(s, c, D)
      PROVE  StagesInv'
  <2>1. CASE tx' = tx
    BY <2>1 DEF StagesInv
  <2>2. CASE tx' = [tx EXCEPT ![s] = [Idle EXCEPT !.kind = "sync", !.circuit = c,
                                        !.vni = vni[c], !.at = "read", !.devices = D]]
    <3>1. Fresh(tx'[s]) /\ \A u \in Sessions \ {s} : tx'[u] = tx[u]
      BY <2>2 DEF Idle, TypeOK
    <3> QED
      BY <1>1, <3>1 DEF StagesInv
  <2> QED
    BY <1>4, <2>1, <2>2 DEF replace_endpoints
<1>5. CASE \E c \in Circuits, D \in SUBSET Devices : edit_endpoints(s, c, D)
  BY <1>5 DEF edit_endpoints, StagesInv
<1>6. CASE \E c \in Circuits, D \in SUBSET Devices, v \in Pool \union {allocate_vni(_used_vnis)} :
               create_circuit(s, c, D, v)
  <2>1. Fresh(tx'[s]) /\ \A u \in Sessions \ {s} : tx'[u] = tx[u]
    BY <1>6 DEF create_circuit, Idle, TypeOK
  <2> QED
    BY <1>1, <2>1 DEF StagesInv
<1> QED
  BY <1>2, <1>3, <1>4, <1>5, <1>6 DEF Begin

LEMMA StagesInvariant == Spec => []StagesInv
<1>1. Init => StagesInv
  BY IdleStaged DEF Init, StagesInv
<1>2. NamesInv /\ StagesInv /\ [Next]_vars => StagesInv'
  <2> SUFFICES ASSUME NamesInv, StagesInv, [Next]_vars PROVE StagesInv'
    OBVIOUS
  <2>1. TypeOK /\ Shape
    BY DEF NamesInv
  <2>2. CASE UNCHANGED vars
    BY <2>2 DEF vars, StagesInv
  <2>3. CASE Next
    BY <2>1, <2>3, StepStaged, BeginStaged DEF Next
  <2> QED
    BY <2>2, <2>3
<1> QED
  BY <1>1, <1>2, NamesInvariant, PTL DEF Spec

LEMMA OneNextSession ==
  ASSUME NEW t, NEW c \in NextSession(t), NEW d \in NextSession(t)
  PROVE  c = d
<1>1. PICK D \in SUBSET Devices : NextSession(t) = {x \in D : \A e \in D : x <= e}
  BY DEF NextSession, Changes, Unlocked
<1>2. c \in Int /\ d \in Int /\ c <= d /\ d <= c
  BY <1>1, OverlayAssumption
<1> QED
  BY <1>2

\* There is no ascending chain of devices without end.
LEMMA HighestDevice ==
  ASSUME NEW P \in SUBSET Devices, P # {}
  PROVE  \E d \in P : \A e \in P : ~(d < e)
<1> DEFINE Above(d) == {e \in Devices : d < e}
           less == StrictSubsetOrdering(Devices)
           T == {Above(d) : d \in P}
<1>1. IsWellFoundedOn(less, FiniteSubsetsOf(Devices))
  BY OverlayAssumption, FS_StrictSubsetOrderingWellFounded
<1>2. T \subseteq FiniteSubsetsOf(Devices) /\ T # {}
  <2>1. \A d \in P : Above(d) \subseteq Devices /\ IsFiniteSet(Above(d))
    BY OverlayAssumption, FS_Subset
  <2> HIDE DEF Above
  <2> QED
    BY <2>1 DEF FiniteSubsetsOf
<1>3. PICK x \in T : \A y \in T : <<y, x>> \notin less
  <2> HIDE DEF T, less
  <2> QED
    BY <1>1, <1>2, WFMin
<1>4. PICK d \in P : x = Above(d)
  OBVIOUS
<1>5. ASSUME NEW e \in P, d < e PROVE FALSE
  <2>0. d \in Int /\ e \in Int /\ e \in Devices /\ \A f \in Devices : f \in Int
    BY OverlayAssumption
  <2>1. Above(e) \subseteq Above(d) /\ e \in Above(d) /\ e \notin Above(e)
    <3>1. \A f \in Devices : e < f => d < f
      BY <1>5, <2>0
    <3>2. ~(e < e)
      BY <2>0
    <3> QED
      BY <1>5, <2>0, <3>1, <3>2
  <2>2. <<Above(e), Above(d)>> \in less
    <3>1. Above(e) \in SUBSET Devices /\ Above(d) \in SUBSET Devices
      OBVIOUS
    <3>2. Above(e) # Above(d)
      BY <2>1
    <3>3. \A A, B \in SUBSET Devices :
            A \subseteq B /\ A # B => <<A, B>> \in StrictSubsetOrdering(Devices)
      BY DEF StrictSubsetOrdering
    <3> HIDE DEF Above
    <3> QED
      BY <2>1, <3>1, <3>2, <3>3
  <2>3. Above(e) \in T
    OBVIOUS
  <2> HIDE DEF T, less, Above
  <2> QED
    BY <1>3, <1>4, <2>2, <2>3
<1> QED
  BY <1>5

\* Members of a circle that share neither circuit nor order and have flushed no
\* row ahead would each have to be before the row they wait for.
LEMMA CirclesMix ==
  ASSUME NamesInv, StagesInv
  PROVE  CirclesMixOrders
<1> SUFFICES ASSUME NEW S \in SUBSET Sessions, S # {}, Circle(S),
                    \A s \in S : ~FlushedAhead(tx[s]),
                    \A s, u \in S : s # u =>
                      /\ LockOrders(tx[s].kind) = LockOrders(tx[u].kind)
                      /\ tx[s].circuit # tx[u].circuit
                      /\ ~(tx[s].kind = "purge" /\ tx[u].kind = "purge")
             PROVE  FALSE
  BY DEF CirclesMixOrders
<1> DEFINE Wants(s, u) ==
             /\ s # u /\ tx[s].at = "write" /\ tx[s].todo # <<>>
             /\ Takes(s) \intersect tx[u].locks # {}
<1>1. ASSUME NEW s \in S, NEW u \in S, Waits(s, u) PROVE Wants(s, u)
  <2>1. s # u /\ tx[s].circuit # tx[u].circuit
    BY <1>1 DEF Waits
  <2>2. tx[u].del \intersect RowsOf(tx[s].circuit) = {}
    BY <2>1 DEF StagesInv, Staged, RowsOf
  <2> QED
    BY <1>1, <2>1, <2>2 DEF Waits
<1>2. \A s \in S : \E u \in S : Wants(s, u)
  BY <1>1 DEF Circle
<1>3. \A s \in S : /\ tx[s].at = "write" /\ tx[s].todo # <<>> /\ Staged(tx[s])
                   /\ tx[s] \in Transaction
                   /\ tx[s].kind \in {"install", "sync", "withdraw", "purge"}
  BY <1>2 DEF NamesInv, TypeOK, Shape, Open, StagesInv, Staged, Transaction, Kinds
<1>4. \A s \in S : tx[s].kind # "purge" /\ InOrder(tx[s])
  <2> SUFFICES ASSUME NEW s \in S PROVE tx[s].kind # "purge"
    BY <1>3 DEF Staged
  <2>1. PICK u \in S : s # u
    BY <1>2
  <2> QED
    BY <1>3, <2>1, SameOrder
<1>5. \A s, u \in S : Second(tx[s].kind) = Second(tx[u].kind)
                      /\ Third(tx[s].kind) = Third(tx[u].kind)
  BY <1>3, SameOrder
<1>6. ASSUME NEW s \in S
      PROVE  \E u \in S : \E x \in Takes(s) : x \in tx[u].locks /\ x[1] = Head(tx[s].todo)
  <2>1. PICK u \in S : Wants(s, u)
    BY <1>2
  <2>2. Head(tx[s].todo) \in {"vtep", "bgp", "nodes"}
    BY <1>3 DEF Transaction
  <2>3. \A x \in Takes(s) : x[1] = Head(tx[s].todo)
    BY <2>2 DEF Takes
  <2> QED
    BY <2>1, <2>3
<1>7. ASSUME NEW s \in S, Head(tx[s].todo) = "bgp",
             \A u \in S : (\E x \in tx[u].locks : x[1] = "bgp") => Head(tx[u].todo) = "bgp"
      PROVE  FALSE
  <2> DEFINE P == {d \in Devices : \E u \in S : Head(tx[u].todo) = "bgp" /\ d \in NextSession(tx[u])}
  <2>1. ASSUME NEW v \in S, Head(tx[v].todo) = "bgp"
        PROVE  \E u \in S, d \in NextSession(tx[v]) :
                 Head(tx[u].todo) = "bgp" /\ d \in Devices /\ <<"bgp", d>> \in tx[u].locks
    <3>1. PICK u \in S, x \in Takes(v) : x \in tx[u].locks /\ x[1] = "bgp"
      BY <1>6, <2>1
    <3>2. PICK d \in NextSession(tx[v]) : x = <<"bgp", d>>
      BY <2>1, <3>1 DEF Takes
    <3>3. d \in Devices
      BY <3>2 DEF NextSession, Changes, Unlocked
    <3> QED
      BY <1>7, <3>1, <3>2, <3>3
  <2>2. P # {}
    BY <1>7, <2>1
  <2>3. PICK d \in P : \A e \in P : ~(d < e)
    BY <2>2, HighestDevice
  <2>4. PICK v \in S : Head(tx[v].todo) = "bgp" /\ d \in NextSession(tx[v])
    OBVIOUS
  <2>5. PICK u \in S, c \in NextSession(tx[v]) :
          Head(tx[u].todo) = "bgp" /\ c \in Devices /\ <<"bgp", c>> \in tx[u].locks
    BY <2>1, <2>4
  <2>6. c = d
    BY <2>4, <2>5, OneNextSession
  <2>7. PICK e \in NextSession(tx[u]) : e \in Devices
    BY <2>1, <2>5
  <2>8. e \in Unlocked(tx[u])
    BY <2>7 DEF NextSession, Changes
  <2>9. d < e
    <3>1. ~(e < d) /\ e # d
      BY <2>5, <2>6, <2>8 DEF FlushedAhead, Unlocked
    <3> QED
      BY <2>5, <2>6, <2>7, <3>1, OverlayAssumption
  <2> QED
    BY <2>3, <2>5, <2>7, <2>9
<1>8. \A s \in S : /\ Second(tx[s].kind) \in {"bgp", "nodes"} /\ Third(tx[s].kind) \in {"bgp", "nodes"}
                   /\ Second(tx[s].kind) # Third(tx[s].kind)
                   /\ Head(tx[s].todo) \in {"vtep", Second(tx[s].kind), Third(tx[s].kind)}
  BY <1>4 DEF InOrder, Second, Third
<1>9. CASE \E s \in S : Second(tx[s].kind) = "bgp"
  <2>1. \A s \in S : Second(tx[s].kind) = "bgp" /\ Third(tx[s].kind) = "nodes"
    BY <1>5, <1>9 DEF Second, Third
  <2>2. \A s \in S : \A x \in tx[s].locks : x[1] # "nodes"
    BY <1>4, <2>1 DEF InOrder
  <2>3. \A s \in S : Head(tx[s].todo) # "nodes"
    BY <1>6, <2>2
  <2>4. \A s \in S : (\E x \in tx[s].locks : x[1] = "bgp") => Head(tx[s].todo) = "bgp"
    BY <1>4, <2>1, <2>3 DEF InOrder
  <2>5. \A s \in S : Head(tx[s].todo) # "bgp"
    BY <1>7, <2>4
  <2>6. \A s \in S : tx[s].locks = {}
    BY <1>4, <2>1, <2>3, <2>5 DEF InOrder
  <2> QED
    BY <1>6, <2>6
<1>10. CASE \A s \in S : Second(tx[s].kind) = "nodes"
  <2>1. \A s \in S : Third(tx[s].kind) = "bgp"
    BY <1>8, <1>10
  <2>2. \A s \in S : (\E x \in tx[s].locks : x[1] = "bgp") => Head(tx[s].todo) = "bgp"
    BY <1>4, <1>10, <2>1 DEF InOrder
  <2>3. \A s \in S : Head(tx[s].todo) # "bgp"
    BY <1>7, <2>2
  <2>4. \A s \in S : \A x \in tx[s].locks : x[1] = "vtep"
    BY <1>4, <1>10, <2>1, <2>3 DEF InOrder
  <2>5. \A s \in S : Head(tx[s].todo) # "nodes"
    BY <1>6, <2>4
  <2>6. \A s \in S : tx[s].locks = {}
    BY <1>4, <1>10, <2>1, <2>3, <2>5 DEF InOrder
  <2> QED
    BY <1>6, <2>6
<1> QED
  BY <1>8, <1>9, <1>10

\* engine.py, bgp_peering.py: orders of different circuits wait for each other
\* in a circle only if they stamp the shared rows in different orders, as an
\* installation and a withdrawal do, if two of them are deletions, or if one
\* holds the session row of an edited device and waits for a row before it:
\* however many installations run at once, while no device is edited none blocks
\* the others.
THEOREM CirclesAreMixed == Spec => []CirclesMixOrders
<1>1. NamesInv /\ StagesInv => CirclesMixOrders
  BY CirclesMix
<1> QED
  BY <1>1, NamesInvariant, StagesInvariant, PTL
=============================================================================
