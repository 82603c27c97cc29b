---------------------------- MODULE RecordProofs ----------------------------
(***************************************************************************)
(* Theorems about Provisioning, continued: what the platform has on record *)
(* of circuits beside every operation of the workflow, cancellations and   *)
(* deletions included, for any number of requests.                         *)
(***************************************************************************)
EXTENDS ProvisioningProofs, FiniteSetTheorems

USE DEF Threads, history

ByWorkflow == {"submit", "approve", "reject"}
Early == {"draft", "rejected", "submitted"}
Done == {"completed", "failed", "cancelled", "deleted"}
Ended == {"completed", "failed"}

\* A handler of the workflow has yet to decide about an order.
Considers(r, w) ==
  thread[r].pc = "loaded" /\ thread[r].op \in ByWorkflow /\ thread[r].order = w
Unconsidered(w) == \A r \in Requests : ~Considers(r, w)

Executes(t, w) == Executing(t) /\ thread[t].order = w
Unexecuted(w) == \A t \in Workers : ~Executes(t, w)

\* Orders of the workflow wait for an execute that never comes; the worker has
\* its own.  A handler that decides late decides about the former.
WorkflowApart ==
  \A w \in Orders : ~Unconsidered(w) =>
    /\ woStatus[w] \in Early \union {"approved", "cancelled", "deleted"}
    /\ ~jobs[w] /\ Unexecuted(w)

\* What can have happened to an order beside its execution.
RunRow ==
  \A t \in Workers : Executing(t) =>
    /\ woStatus[thread[t].order] \in {"running", "cancelled", "deleted"}
    /\ thread[t].pc \in {"claimed", "ready"} => thread[t].seen = "running"
    /\ thread[t].pc \in {"started", "pushing"} => thread[t].seen \in {"running", "cancelled"}

JobsDone == \A w \in Orders : jobs[w] => woStatus[w] \in Done

\* A thread works for the circuit of its order, unless that is gone.
KnowsCircuit ==
  \A t \in Workers : Executing(t) =>
    LET c == thread[t].circuit IN
    c \in {NoCircuit, woCircuit[thread[t].order]} \/ circuitStatus[c] = "deleted"

\* Devices are configured for circuits, and for those of the platform.
ConfiguresOwn ==
  \A t \in Workers : thread[t].pc \in {"started", "pushing"} => thread[t].circuit \in Circuits \ Adopted

\* A new order keeps its circuit from being deleted.
ProvisionHolds ==
  \A r \in Requests : thread[r].pc = "loaded" /\ thread[r].op = "provision" =>
    LET c == thread[r].circuit IN
    c \in Circuits /\ c = woCircuit[thread[r].order] /\ circuitStatus[c] # "deleted"

LoadedOperation == \A r \in Requests : thread[r].pc = "loaded" => thread[r].op \in Operations

PlacedInv ==
  /\ ExecInv
  /\ WorkflowApart
  /\ RunRow
  /\ JobsDone
  /\ KnowsCircuit
  /\ ConfiguresOwn
  /\ ProvisionHolds
  /\ LoadedOperation

-----------------------------------------------------------------------------
(* What a step may do to a request, a worker, to orders and to circuits. *)

\* A handler goes on as it was, is done, or has loaded its order just now.
RequestMoves(r) ==
  \/ thread'[r] = thread[r]
  \/ /\ thread'[r].pc # "loaded"
     /\ thread[r].pc = "loaded" => Commit(r) \/ \E n \in Nodes : Crash(n) /\ NodeOf[r] = n
  \/ /\ thread[r].pc = "idle" /\ thread'[r].op \in Operations
     /\ \/ thread'[r].op \notin {"submit", "approve", "reject"}
        \/ /\ thread'[r].seen = woStatus[thread'[r].order] /\ thread'[r].seen \in Early
           /\ woStatus' = woStatus

LEMMA RequestNext ==
  ASSUME WorkerOnly, ExecInv, Next, NEW r \in Requests
  PROVE  RequestMoves(r)
<1> USE DEF RequestMoves
<1>1. r \notin Workers /\ r \in Threads /\ thread \in [Threads -> Session] /\ Idle.pc = "idle"
  BY ThreadAssumption DEF ExecInv, TypeInv, TypeOK, Idle
<1>2. ASSUME NEW q \in Requests, Request(q)
      PROVE  RequestMoves(r)
  <2>1. CASE q # r
    BY <1>1, <1>2, <2>1
    DEF Request, CreateWorkOrder, LoadForProvision, LoadForSubmit, LoadForApprove, LoadForReject,
        LoadForCancel, LoadForDelete, LoadOrder, LoadForExecute, LoadForDeleteCircuit, RequestFails
  <2>2. ASSUME NEW w \in Orders, NEW op, NEW refused, LoadOrder(r, op, w, refused),
               OrderStatus \ refused \subseteq Early \/ op \in {"cancel", "delete"}
        PROVE  RequestMoves(r)
    <3>1. /\ thread'[r].seen = woStatus[w] /\ thread'[r].order = w /\ thread'[r].op = op
          /\ thread[r].pc = "idle" /\ op \in Operations
          /\ woStatus[w] \in OrderStatus \ refused /\ woStatus' = woStatus
      BY <1>1, <2>2 DEF LoadOrder, CanServe, Visible, Idle, rows
    <3>. QED  BY <2>2, <3>1
  <2>3. CASE \E w \in Orders, c \in Circuits, type \in OrderType : CreateWorkOrder(r, w, c, type) \/ LoadForProvision(r, w, c, type)
    <3>1. ASSUME NEW w \in Orders, NEW c \in Circuits, NEW type \in OrderType, LoadForProvision(r, w, c, type)
          PROVE  thread[r].pc = "idle" /\ thread'[r].op = "provision" /\ "provision" \in Operations
      BY <1>1, <3>1 DEF LoadForProvision, CanServe, Idle
    <3>. QED  BY <2>3, <3>1 DEF CreateWorkOrder
  <2>4. CASE \E c \in Circuits : LoadForDeleteCircuit(r, c)
    BY <1>1, <2>4 DEF LoadForDeleteCircuit, CanServe, Idle
  <2>5. CASE RequestFails(r)
    BY <1>1, <2>5 DEF RequestFails, ExecInv, RequestsOnlyCommit, InExecute
  <2>6. CASE \E w \in Orders : LoadForExecute(r, w)
    BY <2>6 DEF LoadForExecute, CanServe, WorkerOnly
  <2>7. CASE \E w \in Orders : LoadForSubmit(r, w) \/ LoadForApprove(r, w) \/ LoadForReject(r, w)
    BY <2>2, <2>7 DEF LoadForSubmit, LoadForApprove, LoadForReject, Early
  <2>8. CASE \E w \in Orders : LoadForCancel(r, w) \/ LoadForDelete(r, w)
    BY <2>2, <2>8 DEF LoadForCancel, LoadForDelete
  <2>. QED  BY <1>2, <2>1, <2>3, <2>4, <2>5, <2>6, <2>7, <2>8 DEF Request
<1>3. ASSUME NEW q \in Requests, Commit(q)
      PROVE  RequestMoves(r)
  BY <1>1, <1>3
  DEF Commit, CommitSubmit, CommitApprove, CommitReject, CommitCancel, CommitStatus, CommitDelete,
      CommitProvision, CommitDeleteCircuit
<1>4. ASSUME NEW t \in Workers, WorkerStep(t)
      PROVE  RequestMoves(r)
  BY <1>1, <1>4 DEF WorkerStep, Dispatch, Claim, ClaimLost, AcquireLocks, WorkerCatches, Finish
<1>7. ASSUME NEW t \in Workers, SessionLost(t)
      PROVE  RequestMoves(r)
  BY <1>1, <1>7 DEF SessionLost
<1>5. ASSUME NEW t \in Threads, Execute(t)
      PROVE  RequestMoves(r)
  <2>1. thread[r].pc \in {"idle", "loaded"}  BY DEF ExecInv, RequestsOnlyCommit
  <2>2. t # r
    BY <1>5, <2>1
    DEF Execute, ExecuteWithoutCircuit, ExecuteAdopted, PreflightFails, StartExecution, StartAborted,
        StartFindsNoCircuit, BeginPush, BeginPushAborted, PushSucceeds, PushFails, Pushing
  <2>3. CASE BeginPush(t)
    BY <1>1, <2>1, <2>2, <2>3 DEF BeginPush, SharingCircuit, Pushing
  <2>. QED
    BY <1>1, <1>5, <2>2, <2>3
    DEF Execute, ExecuteWithoutCircuit, ExecuteAdopted, PreflightFails, StartExecution, StartAborted,
        StartFindsNoCircuit, BeginPushAborted, PushSucceeds, PushFails, Finish
<1>6. ASSUME NEW n \in Nodes, Crash(n) \/ Restart(n)
      PROVE  RequestMoves(r)
  BY <1>1, <1>6 DEF Crash, Restart
<1>. QED  BY <1>2, <1>3, <1>4, <1>5, <1>6, <1>7 DEF Next


SameRun(u) ==
  /\ thread'[u].order = thread[u].order /\ thread'[u].circuit = thread[u].circuit
  /\ thread'[u].seen = thread[u].seen /\ thread'[u].seenCircuit = thread[u].seenCircuit

WorkerKeeps(u) ==
  \/ ~Executing(u)'
  \/ Claim(u) \/ StartExecution(u)
  \/ Executing(u) /\ SameRun(u) /\ (thread'[u].pc = thread[u].pc \/ AcquireLocks(u) \/ BeginPush(u))

\* A run ends: what it has to write is lost, or written.
Lost(t) == UNCHANGED <<woStatus, circuitStatus, jobs, unrecorded>>

Delivers(t, value) ==
  value # "failed" /\ thread[t].circuit \notin Adopted =>
    /\ Pushing(t)
    /\ ~thread[t].mixed =>
         net'[thread[t].circuit] = IF value = "active" THEN "applied" ELSE "clean"

Written(t) ==
  /\ InExecute(t)
  /\ woStatus'[thread[t].order] \in Ended
  /\ \/ /\ circuitStatus' = circuitStatus
        /\ thread[t].circuit = NoCircuit \/ circuitStatus[thread[t].circuit] = "deleted"
     \/ /\ thread[t].circuit \in Circuits
        /\ \E value \in {"active", "decommissioned", "failed"} :
             /\ circuitStatus'[thread[t].circuit] =
                  Flushed(circuitStatus[thread[t].circuit], thread[t].seenCircuit, value)
             /\ circuitStatus'[thread[t].circuit] = "deleted"
                  => circuitStatus[thread[t].circuit] = "deleted"
             /\ circuitStatus[thread[t].circuit] = "deleted"
                  => circuitStatus'[thread[t].circuit] = "deleted"
             /\ Delivers(t, value)
  /\ \A w \in unrecorded : w \notin unrecorded' =>
       Pushing(t) /\ woCircuit[w] = thread[t].circuit

Ends(t) ==
  /\ Executing(t) /\ thread[t].order \in Orders
  /\ thread' = [thread EXCEPT ![t] = Idle] /\ woCircuit' = woCircuit
  /\ \A v \in Orders : v # thread[t].order => woStatus'[v] = woStatus[v] /\ jobs'[v] = jobs[v]
  /\ \A c \in Circuits : c # thread[t].circuit =>
       circuitStatus'[c] = circuitStatus[c] /\ net'[c] = net[c]
  /\ ~Pushing(t) => net' = net
  /\ Lost(t) \/ Written(t)

\* A client asks for a new order.
Placed(w) ==
  \E r \in Requests, c \in Circuits, type \in OrderType :
    CreateWorkOrder(r, w, c, type) \/ LoadForProvision(r, w, c, type)

RowSteps ==
  \A v \in Orders : woStatus'[v] # woStatus[v] =>
    \/ woStatus[v] = "absent" /\ woStatus'[v] \in {"draft", "uncommitted"} /\ Placed(v)
    \/ woStatus[v] = "uncommitted" /\ woStatus'[v] \in {"absent", "scheduled"}
    \/ woStatus'[v] = "running" /\ \E t \in Workers : Claim(t) /\ thread[t].order = v
    \/ /\ woStatus'[v] \in {"cancelled", "deleted"}
       /\ Operations \intersect {"cancel", "delete"} # {}
       /\ woStatus'[v] = "cancelled" => "cancel" \in Operations
       /\ woStatus'[v] = "deleted" => ~\E t \in Workers : Pushing(t) /\ thread[t].order = v
    \/ woStatus'[v] \in {"submitted", "approved", "rejected"} /\ ~Unconsidered(v)
    \/ woStatus'[v] \in Ended /\ \E t \in Workers : Ends(t) /\ thread[t].order = v
    \/ /\ woStatus[v] = "running" /\ woStatus'[v] \in {"failed", "scheduled"}
       /\ \E n \in Nodes : Restart(n)

JobSteps ==
  \A v \in Orders : jobs'[v] # jobs[v] =>
    woStatus'[v] \in Ended /\ \E t \in Workers : Ends(t) /\ thread[t].order = v

\* Orders lose their circuit when it is deleted; a deletion is for good.
OwnerSteps ==
  /\ \A w \in Orders : woCircuit'[w] # woCircuit[w] =>
       \/ woStatus[w] = "absent"
       \/ /\ woCircuit[w] \in Circuits /\ circuitStatus'[woCircuit[w]] = "deleted"
          /\ woStatus[w] # "uncommitted" /\ woCircuit'[w] = NoCircuit
  /\ \A c \in Circuits : circuitStatus[c] = "deleted" => circuitStatus'[c] = "deleted"
  /\ \A c \in Circuits : circuitStatus'[c] = "deleted" =>
       \/ circuitStatus[c] = "deleted"
       \/ \A w \in Orders : woStatus[w] = "uncommitted" => woCircuit[w] # c

CircuitSteps ==
  \A c \in Circuits : circuitStatus'[c] # circuitStatus[c] =>
    \/ circuitStatus'[c] = "deleted"
    \/ circuitStatus'[c] = "failed" /\ \E n \in Nodes : Restart(n)
    \/ circuitStatus'[c] = "provisioning" /\ \E r \in Requests : CommitProvision(r) /\ thread[r].circuit = c
    \/ circuitStatus'[c] = "provisioning" /\ \E t \in Workers : StartExecution(t) /\ thread[t].circuit = c
    \/ \E t \in Workers : Ends(t) /\ InExecute(t) /\ thread[t].circuit = c

Effects == RowSteps /\ JobSteps /\ OwnerSteps /\ CircuitSteps

LEMMA WorkerKeepsNext ==
  ASSUME ExecInv, Next, NEW u \in Workers
  PROVE  WorkerKeeps(u)
<1> USE DEF WorkerKeeps
<1>1. u \notin Requests /\ u \in Threads /\ thread \in [Threads -> Session] /\ Idle.pc = "idle"
  BY ThreadAssumption DEF ExecInv, TypeInv, TypeOK, Idle
<1>2. CASE thread'[u] = thread[u]
  BY <1>2 DEF SameRun, Executing, InExecute
<1>3. CASE thread'[u].pc \in {"idle", "dispatched"}
  BY <1>3 DEF Executing, InExecute
<1>4. ASSUME NEW r \in Requests, Request(r) \/ Commit(r)
      PROVE  WorkerKeeps(u)
  <2>1. thread'[u] = thread[u]
    BY <1>1, <1>4
    DEF Request, Commit, CreateWorkOrder, LoadForProvision, LoadForSubmit, LoadForApprove, LoadForReject,
        LoadForCancel, LoadForDelete, LoadOrder, LoadForExecute, LoadForDeleteCircuit, RequestFails,
        CommitSubmit, CommitApprove, CommitReject, CommitCancel, CommitStatus, CommitDelete,
        CommitProvision, CommitDeleteCircuit
  <2>. QED  BY <1>2, <2>1
<1>5. ASSUME NEW t \in Workers, WorkerStep(t)
      PROVE  WorkerKeeps(u)
  <2>1. CASE t # u
    BY <1>1, <1>2, <1>5, <2>1
    DEF WorkerStep, Dispatch, Claim, ClaimLost, AcquireLocks, WorkerCatches, Finish
  <2>2. CASE t = u
    <3>1. CASE \E w \in Orders : Dispatch(u, w)
      BY <1>1, <1>3, <3>1 DEF Dispatch, Idle
    <3>2. CASE AcquireLocks(u)
      BY <1>1, <3>2 DEF AcquireLocks, Executing, InExecute, Session, SameRun
    <3>3. CASE ClaimLost(u) \/ WorkerCatches(u)
      BY <1>1, <1>3, <3>3 DEF ClaimLost, WorkerCatches, Finish
    <3>. QED  BY <1>5, <2>2, <3>1, <3>2, <3>3 DEF WorkerStep
  <2>. QED  BY <2>1, <2>2
<1>8. ASSUME NEW t \in Workers, SessionLost(t)
      PROVE  WorkerKeeps(u)
  BY <1>1, <1>2, <1>3, <1>8 DEF SessionLost
<1>6. ASSUME NEW t \in Threads, Execute(t)
      PROVE  WorkerKeeps(u)
  <2>1. CASE StartExecution(t)
    BY <1>1, <1>2, <2>1 DEF StartExecution
  <2>2. CASE BeginPush(t)
    <3>1. SameRun(u)
      BY <1>1, <2>2 DEF BeginPush, Session, SameRun
    <3>2. IF u = t THEN thread[u].pc = "started" ELSE thread'[u].pc = thread[u].pc
      BY <1>1, <2>2 DEF BeginPush, Session
    <3>. QED  BY <2>2, <3>1, <3>2 DEF Executing, InExecute
  <2>3. CASE ~StartExecution(t) /\ ~BeginPush(t)
    <3>1. thread' = [thread EXCEPT ![t] = Idle]
      BY <1>6, <2>3 DEF Execute, ExecuteWithoutCircuit, ExecuteAdopted, PreflightFails, StartAborted,
         StartFindsNoCircuit, BeginPushAborted, PushSucceeds, PushFails, Finish
    <3>. QED  BY <1>1, <1>2, <1>3, <3>1
  <2>. QED  BY <2>1, <2>2, <2>3
<1>7. ASSUME NEW n \in Nodes, Crash(n) \/ Restart(n)
      PROVE  WorkerKeeps(u)
  <2>1. thread'[u] = Idle \/ thread'[u] = thread[u]  BY <1>1, <1>7 DEF Crash, Restart
  <2>. QED  BY <1>1, <1>2, <1>3, <2>1
<1>. QED  BY <1>4, <1>5, <1>6, <1>7, <1>8 DEF Next

\* Claiming and starting, spelled out.
LEMMA ClaimEffect ==
  ASSUME TypeInv, NEW t \in Workers, Claim(t)
  PROVE  LET w == thread[t].order IN
         /\ w \in Orders /\ thread[t].pc = "dispatched" /\ woStatus[w] = "scheduled"
         /\ woStatus'[w] = "running" /\ \A v \in Orders \ {w} : woStatus'[v] = woStatus[v]
         /\ thread'[t].pc = "claimed" /\ thread'[t].order = w /\ thread'[t].circuit = woCircuit[w]
         /\ thread'[t].seen = "running"
         /\ woCircuit[w] \in Circuits => thread'[t].seenCircuit = circuitStatus[woCircuit[w]]
         /\ \A u \in Threads \ {t} : thread'[u] = thread[u]
         /\ UNCHANGED <<woCircuit, jobs, circuitStatus, net, up, crashes>>
<1>1. thread[t].order \in Orders  BY DEF Claim, TypeInv, HasOrder
<1>. QED  BY <1>1, NullAssumption DEF Claim, TypeInv, TypeOK, Session

LEMMA StartEffect ==
  ASSUME PlacedInv, NEW t \in Workers, StartExecution(t)
  PROVE  LET c == thread[t].circuit IN
         /\ c \in Circuits \ Adopted /\ thread[t].order \in Orders /\ thread[t].pc = "ready"
         /\ woStatus' = woStatus /\ woStatus[thread[t].order] # "deleted"
         /\ circuitStatus[c] # "deleted" /\ circuitStatus'[c] \in {circuitStatus[c], "provisioning"}
         /\ \A d \in Circuits \ {c} : circuitStatus'[d] = circuitStatus[d]
         /\ thread'[t].pc = "started" /\ thread'[t].order = thread[t].order /\ thread'[t].circuit = c
         /\ thread'[t].seen = woStatus[thread[t].order] /\ thread'[t].seenCircuit = circuitStatus'[c]
         /\ \A u \in Threads \ {t} : thread'[u] = thread[u]
         /\ UNCHANGED <<woCircuit, jobs, net, up, crashes>>
<1> DEFINE s == thread[t]
           marked == MarkedProvisioning(woType[s.order], s.seenCircuit)
<1>1. /\ s \in Session /\ s.order \in Orders /\ s.pc = "ready" /\ s.seen = "running"
      /\ s.circuit \in Circuits \ Adopted /\ TypeOK
  BY DEF StartExecution, PlacedInv, ExecInv, TypeInv, TypeOK, HasOrder, RunRow, Executing, InExecute
<1>2. woStatus' = woStatus
  BY <1>1 DEF StartExecution, Flushed, TypeOK
<1>3. circuitStatus'[s.circuit] = Flushed(circuitStatus[s.circuit], s.seenCircuit, marked)
      /\ \A d \in Circuits \ {s.circuit} : circuitStatus'[d] = circuitStatus[d]
  BY <1>1 DEF StartExecution, TypeOK
<1>4. circuitStatus'[s.circuit] \in {circuitStatus[s.circuit], "provisioning"}
  BY <1>3 DEF Flushed, MarkedProvisioning
<1>5. thread'[t] = [s EXCEPT !.pc = "started", !.seen = woStatus'[s.order],
                             !.seenCircuit = circuitStatus'[s.circuit]]
      /\ \A u \in Threads \ {t} : thread'[u] = thread[u]
  BY <1>1 DEF StartExecution, TypeOK
<1>6. woStatus[s.order] # "deleted" /\ circuitStatus[s.circuit] # "deleted"
      /\ UNCHANGED <<woCircuit, jobs, net, up, crashes>>
  BY DEF StartExecution, CommitFails
<1>. HIDE DEF marked
<1>. QED  BY <1>1, <1>2, <1>3, <1>4, <1>5, <1>6 DEF Session

-----------------------------------------------------------------------------
(* Every step is one of these kinds. *)

LEMMA FinishEnds ==
  ASSUME PlacedInv, NEW t \in Workers, InExecute(t), thread[t].circuit \in Circuits,
         NEW orderValue \in Ended, NEW value \in {"active", "decommissioned", "failed"},
         Finish(t, orderValue, value), Delivers(t, value),
         net' = net \/ (Pushing(t) /\ \E state : Leaves(t, state))
  PROVE  Ends(t)
<1> DEFINE s == thread[t]
<1>1. /\ TypeOK /\ t \in Threads /\ s.order \in Orders
      /\ woStatus[s.order] \in {"running", "cancelled", "deleted"} /\ s.seen \in {"running", "cancelled"}
  BY DEF PlacedInv, ExecInv, TypeInv, HasOrder, RunRow, Executing, InExecute
<1>2. /\ thread' = [thread EXCEPT ![t] = Idle] /\ woCircuit' = woCircuit
      /\ \A v \in Orders : v # s.order => woStatus'[v] = woStatus[v] /\ jobs'[v] = jobs[v]
      /\ \A c \in Circuits : c # s.circuit => circuitStatus'[c] = circuitStatus[c] /\ net'[c] = net[c]
  BY <1>1 DEF Finish, Leaves, TypeOK
<1>3. CASE CommitFails(t, value)
  BY <1>1, <1>2, <1>3 DEF Finish, Ends, Lost, Executing
<1>4. CASE ~CommitFails(t, value)
  <2>1. woStatus'[s.order] = orderValue
    BY <1>1, <1>4 DEF Finish, CommitFails, Flushed, Ended, TypeOK
  <2>2. circuitStatus'[s.circuit] = Flushed(circuitStatus[s.circuit], s.seenCircuit, value)
    BY <1>1, <1>4 DEF Finish, TypeOK
  <2>3. circuitStatus[s.circuit] = "deleted" => value = s.seenCircuit
    BY <1>4 DEF CommitFails
  <2>4. \A w \in unrecorded : w \notin unrecorded' => Pushing(t) /\ woCircuit[w] = s.circuit
    BY <1>4 DEF Finish
  <2>5. Written(t)
    BY <2>1, <2>2, <2>3, <2>4 DEF Written, Flushed
  <2>. QED  BY <1>1, <1>2, <2>5 DEF Ends, Executing
<1>. QED  BY <1>3, <1>4

LEMMA RunEnds ==
  ASSUME PlacedInv, NEW t \in Workers, WorkerCatches(t) \/ Execute(t),
         ~StartExecution(t), ~BeginPush(t)
  PROVE  Ends(t)
<1> DEFINE s == thread[t]
<1>1. /\ InExecute(t) /\ TypeOK /\ t \in Threads /\ s.order \in Orders
      /\ woStatus[s.order] \in {"running", "cancelled", "deleted"} /\ s.seen \in {"running", "cancelled"}
      /\ s.circuit \in Circuits \union {NoCircuit} /\ NoCircuit \notin Circuits
  <2>1. InExecute(t)
    BY DEF WorkerCatches, Execute, ExecuteWithoutCircuit, ExecuteAdopted, PreflightFails, StartAborted,
       StartFindsNoCircuit, BeginPushAborted, PushSucceeds, PushFails, Pushing, InExecute
  <2>2. thread[t] \in Session  BY DEF PlacedInv, ExecInv, TypeInv, TypeOK
  <2>. QED
    BY <2>1, <2>2, NullAssumption DEF PlacedInv, ExecInv, TypeInv, HasOrder, RunRow, Executing, InExecute, Session
<1>2. CASE WorkerCatches(t)
  BY <1>1, <1>2, FinishEnds DEF WorkerCatches, Ended, Delivers
<1>3. CASE ExecuteAdopted(t)
  <2>1. s.circuit \in Circuits /\ Delivers(t, SuccessStatus(t))
    BY <1>3, CircuitAssumption DEF ExecuteAdopted, Delivers
  <2>. QED  BY <1>1, <1>3, <2>1, FinishEnds DEF ExecuteAdopted, Ended, SuccessStatus
<1>4. CASE PreflightFails(t)
  BY <1>1, <1>4, FinishEnds DEF PreflightFails, Ended, Delivers
<1>5. ASSUME Pushing(t)
      PROVE  PushSucceeds(t) \/ PushFails(t) => Ends(t)
  <2>1. CASE s.circuit = NoCircuit
    BY <1>1, <1>5, <2>1 DEF PlacedInv, ConfiguresOwn, Pushing
  <2>2. CASE PushSucceeds(t) /\ s.circuit \in Circuits
    <3>1. ~s.mixed => Leaves(t, IF Decommission(t) THEN "clean" ELSE "applied")
      BY <2>2 DEF PushSucceeds
    <3>2. ~s.mixed => net'[s.circuit] = IF SuccessStatus(t) = "active" THEN "applied" ELSE "clean"
      BY <1>1, <2>2, <3>1 DEF Leaves, SuccessStatus, TypeOK
    <3>3. Delivers(t, SuccessStatus(t))  BY <1>5, <3>2 DEF Delivers
    <3>4. \E state : Leaves(t, state)  BY <2>2 DEF PushSucceeds
    <3>. QED  BY <1>1, <1>5, <2>2, <3>3, <3>4, FinishEnds DEF PushSucceeds, Ended, SuccessStatus
  <2>3. CASE PushFails(t) /\ s.circuit \in Circuits
    BY <1>1, <1>5, <2>3, FinishEnds DEF PushFails, Ended, Delivers
  <2>. QED  BY <1>1, <2>1, <2>2, <2>3
<1>6. CASE ExecuteWithoutCircuit(t)
  <2>1. woStatus[s.order] # "deleted" => woStatus'[s.order] = "failed"
    BY <1>1, <1>6 DEF ExecuteWithoutCircuit, Flushed, TypeOK
  <2>. QED
    BY <1>1, <1>6, <2>1 DEF ExecuteWithoutCircuit, Ends, Lost, Written, Ended, Pushing, Executing, TypeOK
<1>7. CASE StartFindsNoCircuit(t)
  BY <1>1, <1>7 DEF StartFindsNoCircuit, CommitFails, Ends, Written, Ended, Pushing, Executing, TypeOK
<1>8. CASE StartAborted(t) \/ BeginPushAborted(t)
  BY <1>1, <1>8 DEF StartAborted, BeginPushAborted, Ends, Lost, Pushing, Executing, rows, TypeOK
<1>. QED
  BY <1>2, <1>3, <1>4, <1>5, <1>6, <1>7, <1>8 DEF Execute, PushSucceeds, PushFails

LEMMA LostEnds ==
  ASSUME PlacedInv, NEW t \in Workers, SessionLost(t)
  PROVE  Ends(t)
BY DEF SessionLost, Ends, Lost, Pushing, Executing, InExecute, PlacedInv, ExecInv, TypeInv, HasOrder, rows

LEMMA NextKinds ==
  ASSUME PlacedInv, Next
  PROVE  \/ \E r \in Requests : Request(r) \/ Commit(r)
         \/ \E t \in Workers : \/ \E w \in Orders : Dispatch(t, w)
                              \/ ClaimLost(t) \/ AcquireLocks(t) \/ BeginPush(t)
                              \/ Claim(t) \/ StartExecution(t) \/ Ends(t)
         \/ \E n \in Nodes : Crash(n) \/ Restart(n)
<1>1. \A t \in Requests : ~Execute(t)
  BY DEF PlacedInv, ExecInv, RequestsOnlyCommit, Execute, ExecuteWithoutCircuit, ExecuteAdopted, PreflightFails,
     StartExecution, StartAborted, StartFindsNoCircuit, BeginPush, BeginPushAborted, PushSucceeds, PushFails, Pushing
<1>2. ASSUME NEW t \in Workers, WorkerStep(t) \/ SessionLost(t) \/ Execute(t)
      PROVE  \/ \E w \in Orders : Dispatch(t, w)
             \/ ClaimLost(t) \/ AcquireLocks(t) \/ BeginPush(t)
             \/ Claim(t) \/ StartExecution(t) \/ Ends(t)
  BY <1>2, RunEnds, LostEnds DEF WorkerStep
<1>. QED  BY <1>1, <1>2 DEF Next

-----------------------------------------------------------------------------
(* The effects of each kind of step. *)

LEMMA StillEffects ==
  ASSUME UNCHANGED <<woStatus, woCircuit, jobs, circuitStatus>>
  PROVE  Effects
BY DEF Effects, RowSteps, JobSteps, OwnerSteps, CircuitSteps

LEMMA RequestEffects ==
  ASSUME PlacedInv, NEW r \in Requests, Request(r)
  PROVE  Effects
<1>1. TypeOK /\ RequestsOnlyCommit  BY DEF PlacedInv, ExecInv, TypeInv
<1>2. ASSUME NEW w \in Orders, NEW c \in Circuits, NEW type \in OrderType,
             CreateWorkOrder(r, w, c, type) \/ LoadForProvision(r, w, c, type)
      PROVE  Effects
  <2>1. /\ woStatus[w] = "absent" /\ woStatus'[w] \in {"draft", "uncommitted"} /\ UNCHANGED <<jobs, circuitStatus>>
        /\ \A v \in Orders \ {w} : woStatus'[v] = woStatus[v] /\ woCircuit'[v] = woCircuit[v]
    BY <1>1, <1>2 DEF CreateWorkOrder, LoadForProvision, NextId, TypeOK
  <2>2. Placed(w)  BY <1>2 DEF Placed
  <2>. QED  BY <2>1, <2>2 DEF Effects, RowSteps, JobSteps, OwnerSteps, CircuitSteps, NotThere, Done
<1>3. CASE \A w \in Orders, c \in Circuits, type \in OrderType :
             ~CreateWorkOrder(r, w, c, type) /\ ~LoadForProvision(r, w, c, type)
  <2>1. UNCHANGED <<woStatus, woCircuit, jobs, circuitStatus>>
    BY <1>1, <1>3
    DEF Request, LoadForSubmit, LoadForApprove, LoadForReject, LoadForCancel, LoadForDelete, LoadOrder,
        LoadForExecute, LoadForDeleteCircuit, RequestFails, RequestsOnlyCommit, InExecute, rows
  <2>. QED  BY <2>1, StillEffects
<1>. QED  BY <1>2, <1>3

LEMMA CommitEffects ==
  ASSUME PlacedInv, NEW r \in Requests, Commit(r)
  PROVE  Effects
<1> DEFINE w == thread[r].order
           c == thread[r].circuit
<1>1. TypeOK /\ thread[r].pc = "loaded" /\ thread[r].op \in Operations
  BY DEF PlacedInv, ExecInv, TypeInv, LoadedOperation, Commit, CommitSubmit, CommitApprove, CommitReject, CommitCancel,
     CommitStatus, CommitDelete, CommitProvision, CommitDeleteCircuit
<1>2. CASE CommitSubmit(r) \/ CommitApprove(r) \/ CommitReject(r)
  <2>1. /\ \A v \in Orders : woStatus'[v] # woStatus[v] =>
             v = w /\ woStatus'[v] \in {"submitted", "approved", "rejected"}
        /\ UNCHANGED <<jobs, woCircuit, circuitStatus>> /\ thread[r].op \in ByWorkflow
    BY <1>1, <1>2 DEF CommitSubmit, CommitApprove, CommitReject, CommitStatus, Flushed, TypeOK, ByWorkflow
  <2>2. w \in Orders => ~Unconsidered(w)  BY <1>1, <2>1 DEF Unconsidered, Considers
  <2>. QED  BY <2>1, <2>2 DEF Effects, RowSteps, JobSteps, OwnerSteps, CircuitSteps
<1>3. CASE CommitCancel(r)
  <2>1. /\ \A v \in Orders : woStatus'[v] # woStatus[v] => woStatus'[v] = "cancelled"
        /\ UNCHANGED <<jobs, woCircuit, circuitStatus>> /\ "cancel" \in Operations
    BY <1>1, <1>3 DEF CommitCancel, CommitStatus, Flushed, TypeOK
  <2>. QED  BY <2>1 DEF Effects, RowSteps, JobSteps, OwnerSteps, CircuitSteps
<1>4. CASE CommitDelete(r)
  <2>1. /\ \A v \in Orders : woStatus'[v] # woStatus[v] =>
             /\ woStatus'[v] = "deleted"
             /\ ~\E t \in Threads : Pushing(t) /\ thread[t].order = v
        /\ UNCHANGED <<jobs, woCircuit, circuitStatus>> /\ "delete" \in Operations
    BY <1>1, <1>4 DEF CommitDelete, TypeOK
  <2>. QED  BY <2>1 DEF Effects, RowSteps, JobSteps, OwnerSteps, CircuitSteps
<1>5. CASE CommitProvision(r)
  <2>1. w \in Orders /\ woStatus[w] = "uncommitted" /\ c \in Circuits /\ circuitStatus[c] # "deleted"
    BY <1>1, <1>5 DEF CommitProvision, PlacedInv, ExecInv, TypeInv, HasOrder, OwnUncommitted, ProvisionHolds
  <2>2. /\ \A v \in Orders : woStatus'[v] # woStatus[v] => v = w /\ woStatus'[v] = "scheduled"
        /\ \A d \in Circuits : circuitStatus'[d] # circuitStatus[d] => d = c
        /\ UNCHANGED <<jobs, woCircuit>>
    BY <1>1, <1>5 DEF CommitProvision, TypeOK
  <2>3. circuitStatus'[c] \in {circuitStatus[c], "provisioning"}
    BY <1>1, <1>5, <2>1 DEF CommitProvision, Flushed, MarkedProvisioning, TypeOK
  <2>. HIDE DEF w, c
  <2>4. RowSteps /\ JobSteps  BY <2>1, <2>2 DEF RowSteps, JobSteps, NotThere, Done
  <2>5. OwnerSteps  BY <2>1, <2>2, <2>3 DEF OwnerSteps
  <2>6. CircuitSteps  BY <1>5, <2>2, <2>3 DEF CircuitSteps, c
  <2>. QED  BY <2>4, <2>5, <2>6 DEF Effects
<1>6. CASE CommitDeleteCircuit(r)
  <2>1. /\ UNCHANGED <<woStatus, jobs>>
        /\ \A d \in Circuits : circuitStatus'[d] = IF d = c THEN "deleted" ELSE circuitStatus[d]
        /\ \A v \in Orders : woCircuit'[v] = IF woCircuit[v] = c THEN NoCircuit ELSE woCircuit[v]
        /\ \A v \in Orders : woStatus[v] = "uncommitted" => woCircuit[v] # c
        /\ \A v \in Orders : woCircuit[v] \in Circuits \union {NoCircuit}
    BY <1>1, <1>6 DEF CommitDeleteCircuit, TypeOK
  <2>2. RowSteps /\ JobSteps  BY <2>1 DEF RowSteps, JobSteps
  <2>3. OwnerSteps  BY <2>1 DEF OwnerSteps
  <2>4. CircuitSteps  BY <2>1 DEF CircuitSteps
  <2>. QED  BY <2>2, <2>3, <2>4 DEF Effects
<1>. QED  BY <1>2, <1>3, <1>4, <1>5, <1>6 DEF Commit

LEMMA WorkerEffects ==
  ASSUME PlacedInv, NEW t \in Workers, Claim(t) \/ StartExecution(t) \/ Ends(t)
  PROVE  Effects
<1> DEFINE w == thread[t].order
           c == thread[t].circuit
<1>1. CASE Claim(t)
  <2>1. /\ UNCHANGED <<woCircuit, jobs, circuitStatus>>
        /\ \A v \in Orders : woStatus'[v] # woStatus[v] => v = w /\ woStatus'[v] = "running"
    BY <1>1, ClaimEffect DEF PlacedInv, ExecInv
  <2>. QED  BY <1>1, <2>1 DEF Effects, RowSteps, JobSteps, OwnerSteps, CircuitSteps
<1>2. CASE StartExecution(t)
  <2>1. /\ UNCHANGED <<woStatus, woCircuit, jobs>>
        /\ \A d \in Circuits : circuitStatus'[d] # circuitStatus[d] => d = c /\ circuitStatus'[d] = "provisioning"
        /\ circuitStatus[c] # "deleted"
    BY <1>2, StartEffect
  <2>2. RowSteps /\ JobSteps  BY <2>1 DEF RowSteps, JobSteps
  <2>3. OwnerSteps  BY <2>1 DEF OwnerSteps
  <2>4. CircuitSteps  BY <1>2, <2>1 DEF CircuitSteps
  <2>. QED  BY <2>2, <2>3, <2>4 DEF Effects
<1>3. CASE Ends(t)
  <2>1. RowSteps  BY <1>3 DEF RowSteps, Ends, Lost, Written
  <2>2. JobSteps  BY <1>3 DEF JobSteps, Ends, Lost, Written
  <2>3. CircuitSteps  BY <1>3 DEF CircuitSteps, Ends, Lost, Written
  <2>4. OwnerSteps  BY <1>3 DEF OwnerSteps, Ends, Lost, Written
  <2>. QED  BY <2>1, <2>2, <2>3, <2>4 DEF Effects
<1>. QED  BY <1>1, <1>2, <1>3

LEMMA NodeEffects ==
  ASSUME PlacedInv, NEW n \in Nodes, Crash(n) \/ Restart(n)
  PROVE  Effects
<1>1. CASE Crash(n)
  <2>1. /\ \A v \in Orders : woStatus'[v] # woStatus[v] => woStatus[v] = "uncommitted" /\ woStatus'[v] = "absent"
        /\ UNCHANGED <<woCircuit, jobs, circuitStatus>>
    BY <1>1 DEF Crash
  <2>. QED  BY <2>1 DEF Effects, RowSteps, JobSteps, OwnerSteps, CircuitSteps
<1>2. CASE Restart(n)
  <2>1. /\ \A v \in Orders : woStatus'[v] # woStatus[v] =>
             woStatus[v] = "running" /\ woStatus'[v] \in {"failed", "scheduled"}
        /\ \A c \in Circuits : circuitStatus'[c] # circuitStatus[c] =>
             circuitStatus[c] = "provisioning" /\ circuitStatus'[c] = "failed"
        /\ UNCHANGED <<woCircuit, jobs>>
    BY <1>2 DEF Restart, RecoveredStatus
  <2>2. RowSteps /\ JobSteps  BY <1>2, <2>1 DEF RowSteps, JobSteps
  <2>3. OwnerSteps /\ CircuitSteps  BY <1>2, <2>1 DEF OwnerSteps, CircuitSteps
  <2>. QED  BY <2>2, <2>3 DEF Effects
<1>. QED  BY <1>1, <1>2

LEMMA NextEffects ==
  ASSUME PlacedInv, Next
  PROVE  Effects
<1>1. ASSUME NEW t \in Workers, \/ \E w \in Orders : Dispatch(t, w)
                              \/ ClaimLost(t) \/ AcquireLocks(t) \/ BeginPush(t)
      PROVE  Effects
  BY <1>1, StillEffects DEF Dispatch, ClaimLost, AcquireLocks, BeginPush, rows
<1>. QED  BY <1>1, NextKinds, RequestEffects, CommitEffects, WorkerEffects, NodeEffects

-----------------------------------------------------------------------------
(* The invariant. *)

\* A restart finds no thread at work.
LEMMA RestartIdle ==
  ASSUME RestartsAlone, ExecInv, NEW n \in Nodes, Restart(n)
  PROVE  \A t \in Threads : thread[t].pc = "idle" /\ thread'[t] = thread[t]
<1>1. ~up[n] /\ crashes # 0  BY DEF Restart, ExecInv, DownIdle
<1>2. \A m \in Nodes : m = n
  BY <1>1, SettingsAssumption DEF RestartsAlone, ExecInv, TypeInv, TypeOK
<1>. QED  BY <1>1, <1>2, ThreadAssumption DEF Restart, ExecInv, DownIdle

\* A run that goes on is not one that ends.
LEMMA EndsIdle ==
  ASSUME TypeInv, NEW t \in Workers, Ends(t)
  PROVE  ~Executing(t)' /\ Executes(t, thread[t].order) /\ thread'[t] = Idle
         /\ \A u \in Threads \ {t} : thread'[u] = thread[u]
BY DEF Ends, TypeInv, TypeOK, Executes, Executing, InExecute, Idle

\* Only provision_circuit inserts an order in an open transaction.
LEMMA FreshProvision ==
  ASSUME WorkerOnly, ExecInv, Next, NEW r \in Requests, thread[r].pc # "loaded",
         thread'[r].pc = "loaded", thread'[r].op = "provision"
  PROVE  \E w \in Orders, c \in Circuits, type \in OrderType : LoadForProvision(r, w, c, type)
<1>1. r \notin Workers /\ r \in Threads /\ thread \in [Threads -> Session] /\ Idle.pc = "idle"
  BY ThreadAssumption DEF ExecInv, TypeInv, TypeOK, Idle
<1>2. ASSUME NEW q \in Requests, Request(q)
      PROVE  \E w \in Orders, c \in Circuits, type \in OrderType : LoadForProvision(r, w, c, type)
  <2>1. CASE q # r
    BY <1>1, <1>2, <2>1
    DEF Request, CreateWorkOrder, LoadForProvision, LoadForSubmit, LoadForApprove, LoadForReject,
        LoadForCancel, LoadForDelete, LoadOrder, LoadForExecute, LoadForDeleteCircuit, RequestFails
  <2>2. CASE q = r
    <3>1. ASSUME NEW w \in Orders, NEW op, NEW refused, LoadOrder(r, op, w, refused)
          PROVE  op = "provision"
      BY <1>1, <3>1 DEF LoadOrder, Idle
    <3>2. \A c \in Circuits : ~LoadForDeleteCircuit(r, c)
      BY <1>1 DEF LoadForDeleteCircuit, Idle
    <3>3. \A w \in Orders : ~LoadForExecute(r, w)
      BY DEF LoadForExecute, CanServe, WorkerOnly
    <3>4. \A w \in Orders, c \in Circuits, type \in OrderType : ~CreateWorkOrder(r, w, c, type)
      BY DEF CreateWorkOrder
    <3>. QED
      BY <1>1, <1>2, <2>2, <3>1, <3>2, <3>3, <3>4
      DEF Request, LoadForSubmit, LoadForApprove, LoadForReject, LoadForCancel, LoadForDelete, RequestFails
  <2>. QED  BY <2>1, <2>2
<1>3. \A q \in Requests : ~Commit(q)
  BY <1>1
  DEF Commit, CommitSubmit, CommitApprove, CommitReject, CommitCancel, CommitStatus, CommitDelete,
      CommitProvision, CommitDeleteCircuit
<1>4. \A t \in Workers : ~WorkerStep(t)
  BY <1>1 DEF WorkerStep, Dispatch, Claim, ClaimLost, AcquireLocks, WorkerCatches, Finish
<1>7. \A t \in Workers : ~SessionLost(t)
  BY <1>1 DEF SessionLost
<1>5. ASSUME NEW t \in Threads, Execute(t)
      PROVE  FALSE
  <2>1. CASE BeginPush(t)
    BY <1>1, <2>1 DEF BeginPush, Session
  <2>2. CASE StartExecution(t)
    BY <1>1, <2>2 DEF StartExecution, Session
  <2>. QED
    BY <1>1, <1>5, <2>1, <2>2
    DEF Execute, ExecuteWithoutCircuit, ExecuteAdopted, PreflightFails, StartAborted, StartFindsNoCircuit,
        BeginPushAborted, PushSucceeds, PushFails, Finish
<1>6. \A n \in Nodes : ~Crash(n) /\ ~Restart(n)
  BY <1>1 DEF Crash, Restart
<1>. QED  BY <1>2, <1>3, <1>4, <1>5, <1>6, <1>7 DEF Next

\* A run that goes on keeps its order, and nobody claims an order twice.
LEMMA GoesOn ==
  ASSUME ExecInv, Next, NEW t \in Workers, Executing(t)', ~Claim(t)
  PROVE  /\ Executing(t) /\ thread[t].order \in Orders
         /\ thread'[t].order = thread[t].order /\ thread'[t].circuit = thread[t].circuit
         /\ StartExecution(t) \/ SameRun(t)
<1>1. CASE StartExecution(t)
  BY <1>1 DEF StartExecution, Executing, InExecute, ExecInv, TypeInv, TypeOK, HasOrder, Session
<1>2. CASE ~StartExecution(t)
  BY <1>2, WorkerKeepsNext DEF WorkerKeeps, SameRun, Executing, InExecute, ExecInv, TypeInv, HasOrder
<1>. QED  BY <1>1, <1>2

LEMMA WorkflowApartStep ==
  ASSUME WorkerOnly, RestartsAlone, PlacedInv, Next
  PROVE  WorkflowApart'
<1>. SUFFICES ASSUME NEW w \in Orders, NEW r \in Requests, Considers(r, w)'
     PROVE  /\ woStatus'[w] \in Early \union {"approved", "cancelled", "deleted"}
            /\ ~jobs'[w] /\ Unexecuted(w)'
  BY DEF WorkflowApart, Unconsidered
<1>1. ExecInv /\ TypeInv /\ Effects  BY NextEffects DEF PlacedInv, ExecInv
<1>2. /\ woStatus[w] \in Early \union {"approved", "cancelled", "deleted"}
      /\ ~jobs[w] /\ Unexecuted(w)
      /\ thread'[r] = thread[r] \/ (woStatus' = woStatus /\ woStatus[w] \in Early)
  <2>1. CASE thread'[r] = thread[r]
    BY <2>1 DEF PlacedInv, WorkflowApart, Considers, Unconsidered
  <2>2. CASE thread'[r] # thread[r]
    <3>1. woStatus[w] \in Early /\ woStatus' = woStatus
      BY <1>1, <2>2, RequestNext DEF RequestMoves, Considers, ByWorkflow
    <3>2. ~jobs[w] /\ Unexecuted(w)
      BY <3>1 DEF PlacedInv, JobsDone, RunRow, Unexecuted, Executes, Early, Done
    <3>. QED  BY <3>1, <3>2
  <2>. QED  BY <2>1, <2>2
<1>3. woStatus[w] \notin {"absent", "uncommitted", "scheduled", "running"}
  BY <1>2 DEF Early
<1>4. \A t \in Workers : thread[t].order = w => ~Ends(t) /\ ~Claim(t)
  BY <1>1, <1>2, <1>3, EndsIdle, ClaimEffect DEF Unexecuted
<1>5. woStatus'[w] \in Early \union {"approved", "cancelled", "deleted"}
  BY <1>1, <1>2, <1>3, <1>4 DEF Effects, RowSteps, NotThere, Early
<1>6. ~jobs'[w]
  BY <1>1, <1>2, <1>4 DEF Effects, JobSteps
<1>7. ASSUME NEW t \in Workers, Executes(t, w)'
      PROVE  FALSE
  <2>1. CASE Claim(t)
    <3>1. thread'[t].order = thread[t].order  BY <1>1, <2>1, ClaimEffect
    <3>. QED  BY <1>4, <1>7, <2>1, <3>1 DEF Executes
  <2>2. CASE ~Claim(t)
    <3>1. Executing(t) /\ thread'[t].order = thread[t].order  BY <1>1, <1>7, <2>2, GoesOn DEF Executes
    <3>. QED  BY <1>2, <1>7, <3>1 DEF Unexecuted, Executes
  <2>. QED  BY <2>1, <2>2
<1>. QED  BY <1>5, <1>6, <1>7 DEF Unexecuted

\* The row of an order in execution.
LEMMA RunRowStep ==
  ASSUME RestartsAlone, PlacedInv, Next, NEW t \in Workers, Executing(t), Executing(t)'
  PROVE  woStatus'[thread[t].order] \in {"running", "cancelled", "deleted"}
<1> DEFINE w == thread[t].order
<1>1. /\ ExecInv /\ TypeInv /\ Effects /\ w \in Orders
      /\ woStatus[w] \in {"running", "cancelled", "deleted"}
  BY NextEffects DEF PlacedInv, ExecInv, RunRow, TypeInv, HasOrder, Executing, InExecute
<1>2. \A u \in Workers : thread[u].order = w => ~Ends(u) /\ ~Claim(u)
  <2>1. ASSUME NEW u \in Workers, thread[u].order = w, Ends(u)
        PROVE  FALSE
    <3>1. Executing(u) /\ ~Executing(u)'  BY <1>1, <2>1, EndsIdle DEF Executes
    <3>2. u # t  BY <3>1
    <3>. QED  BY <1>1, <2>1, <3>1, <3>2 DEF ExecInv, AtMostOneExecution
  <2>. QED  BY <1>1, <2>1, ClaimEffect
<1>3. Unconsidered(w)
  BY <1>1 DEF PlacedInv, WorkflowApart, Unexecuted, Executes
<1>4. \A n \in Nodes : ~Restart(n)
  BY <1>1, RestartIdle DEF Executing, InExecute
<1>. QED
  BY <1>1, <1>2, <1>3, <1>4 DEF Effects, RowSteps, NotThere

LEMMA PlacedStep ==
  ASSUME WorkerOnly, RestartsAlone, PlacedInv, ExecInv', Next
  PROVE  PlacedInv'
<1>1. ExecInv /\ TypeInv /\ Effects  BY NextEffects DEF PlacedInv, ExecInv
<1>2. LoadedOperation'
  BY <1>1, RequestNext DEF PlacedInv, RequestMoves, LoadedOperation
<1>3. ASSUME NEW t \in Workers, Executing(t)'
      PROVE  /\ woStatus'[thread'[t].order] \in {"running", "cancelled", "deleted"}
             /\ thread'[t].pc \in {"claimed", "ready"} => thread'[t].seen = "running"
             /\ thread'[t].pc \in {"started", "pushing"} => thread'[t].seen \in {"running", "cancelled"}
             /\ thread'[t].pc \in {"started", "pushing"} => thread'[t].circuit \in Circuits \ Adopted
  <2>1. CASE Claim(t)
    BY <1>1, <2>1, ClaimEffect
  <2>2. CASE StartExecution(t)
    <3>1. Executing(t)  BY <2>2 DEF StartExecution, Executing, InExecute
    <3>. QED  BY <1>1, <1>3, <2>2, <3>1, StartEffect, RunRowStep
  <2>3. CASE ~Claim(t) /\ ~StartExecution(t)
    <3>1. Executing(t) /\ SameRun(t) /\ (thread'[t].pc = thread[t].pc \/ AcquireLocks(t) \/ BeginPush(t))
      BY <1>1, <1>3, <2>3, WorkerKeepsNext DEF WorkerKeeps
    <3>2. AcquireLocks(t) => thread[t].pc = "claimed" /\ thread'[t].pc = "ready"
      BY <1>1 DEF AcquireLocks, TypeInv, TypeOK, Session
    <3>3. BeginPush(t) => thread[t].pc = "started" /\ thread'[t].pc = "pushing"
      <4>1. thread[t] \in Session /\ t \in Threads  BY <1>1 DEF TypeInv, TypeOK
      <4>. QED  BY <4>1 DEF BeginPush, Session
    <3>. QED  BY <1>1, <1>3, <3>1, <3>2, <3>3, RunRowStep DEF PlacedInv, RunRow, ConfiguresOwn, SameRun
  <2>. QED  BY <2>1, <2>2, <2>3
<1>4. RunRow' /\ ConfiguresOwn'
  BY <1>3 DEF RunRow, ConfiguresOwn, Executing, InExecute
<1>5. ASSUME NEW w \in Orders, jobs'[w]
      PROVE  woStatus'[w] \in Done
  <2>1. CASE jobs'[w] = jobs[w]
    <3>1. woStatus[w] \in Done /\ Unconsidered(w)
      BY <1>5, <2>1 DEF PlacedInv, JobsDone, WorkflowApart
    <3>2. \A t \in Workers : Claim(t) => thread[t].order # w
      BY <1>1, <3>1, ClaimEffect DEF Done
    <3>. QED  BY <1>1, <3>1, <3>2 DEF Effects, RowSteps, NotThere, Done, Ended
  <2>2. CASE jobs'[w] # jobs[w]
    BY <1>1, <2>2 DEF Effects, JobSteps, Done, Ended
  <2>. QED  BY <2>1, <2>2
<1>6. ASSUME NEW t \in Workers, Executing(t)'
      PROVE  LET c == thread'[t].circuit IN
             c \in {NoCircuit, woCircuit'[thread'[t].order]} \/ circuitStatus'[c] = "deleted"
  <2>1. CASE Claim(t)
    BY <1>1, <2>1, ClaimEffect
  <2>2. CASE ~Claim(t)
    <3> DEFINE c == thread[t].circuit
               w == thread[t].order
    <3>1. /\ Executing(t) /\ w \in Orders /\ thread'[t].order = w /\ thread'[t].circuit = c
      BY <1>1, <1>6, <2>2, GoesOn
    <3>2. thread[t] \in Session  BY <1>1 DEF TypeInv, TypeOK
    <3>3. c \in Circuits \union {NoCircuit}  BY <3>2 DEF Session
    <3>4. c \in {NoCircuit, woCircuit[w]} \/ (c \in Circuits /\ circuitStatus[c] = "deleted")
      BY <3>1, <3>3 DEF PlacedInv, KnowsCircuit
    <3>5. woStatus[w] # "absent"
      BY <3>1 DEF PlacedInv, RunRow
    <3>. HIDE DEF c, w
    <3>. QED  BY <1>1, <3>1, <3>4, <3>5 DEF Effects, OwnerSteps
  <2>. QED  BY <2>1, <2>2
<1>7. ASSUME NEW r \in Requests, thread'[r].pc = "loaded", thread'[r].op = "provision"
      PROVE  LET c == thread'[r].circuit IN
             c \in Circuits /\ c = woCircuit'[thread'[r].order] /\ circuitStatus'[c] # "deleted"
  <2>1. CASE thread'[r] = thread[r]
    <3> DEFINE c == thread[r].circuit
               w == thread[r].order
    <3>1. /\ c \in Circuits /\ c = woCircuit[w] /\ circuitStatus[c] # "deleted"
          /\ w \in Orders /\ woStatus[w] = "uncommitted"
      BY <1>1, <1>7, <2>1 DEF PlacedInv, ProvisionHolds, ExecInv, OwnUncommitted, TypeInv, HasOrder
    <3>2. circuitStatus'[c] # "deleted" /\ woCircuit'[w] = c
      BY <1>1, <3>1 DEF Effects, OwnerSteps
    <3>. QED  BY <2>1, <3>1, <3>2
  <2>2. CASE thread'[r] # thread[r]
    <3>1. thread[r].pc # "loaded"
      BY <1>1, <1>7, <2>2, RequestNext DEF RequestMoves
    <3>2. PICK w \in Orders, c \in Circuits, type \in OrderType : LoadForProvision(r, w, c, type)
      BY <1>1, <1>7, <3>1, FreshProvision
    <3>3. /\ woCircuit'[w] = c /\ circuitStatus[c] # "deleted" /\ circuitStatus' = circuitStatus
          /\ thread'[r].order = w /\ thread'[r].circuit = c
      BY <1>1, <3>2 DEF LoadForProvision, Idle, TypeInv, TypeOK
    <3>. QED  BY <3>3
  <2>. QED  BY <2>1, <2>2
<1>. QED
  BY <1>2, <1>4, <1>5, <1>6, <1>7, WorkflowApartStep DEF PlacedInv, JobsDone, KnowsCircuit, ProvisionHolds

LEMMA PlacedInvariant ==
  ASSUME WorkerOnly, RestartsAlone
  PROVE  Spec => []PlacedInv
<1>1. Init /\ ExecInv => PlacedInv
  BY DEF Init, PlacedInv, WorkflowApart, Unconsidered, Considers, RunRow, JobsDone, KnowsCircuit, ConfiguresOwn,
     ProvisionHolds, LoadedOperation, Executing, InExecute, Idle
<1>2. PlacedInv /\ ExecInv' /\ [Next]_vars => PlacedInv'
  <2> SUFFICES ASSUME PlacedInv, ExecInv', [Next]_vars PROVE PlacedInv'
    OBVIOUS
  <2>1. CASE UNCHANGED vars
    BY <2>1 DEF vars, PlacedInv, WorkflowApart, Unconsidered, Considers, Unexecuted, Executes, RunRow, JobsDone,
       KnowsCircuit, ConfiguresOwn, ProvisionHolds, LoadedOperation, Executing, InExecute
  <2>. QED  BY <2>1, PlacedStep
<1>. QED  BY <1>1, <1>2, ExecInvariant, PTL DEF Spec

-----------------------------------------------------------------------------
(***************************************************************************)
(* Circuits that are being provisioned.                                    *)
(***************************************************************************)
\* A run ends by itself or with its process.
LEMMA LeavesRun ==
  ASSUME PlacedInv, Next, NEW u \in Workers, Executing(u), ~Executing(u)'
  PROVE  Ends(u) \/ \E n \in Nodes : Crash(n)
<1>1. u \notin Requests /\ u \in Threads /\ thread \in [Threads -> Session]
  BY ThreadAssumption DEF PlacedInv, ExecInv, TypeInv, TypeOK
<1>2. thread'[u] # thread[u]  BY DEF Executing, InExecute
<1>3. ASSUME NEW r \in Requests, Request(r) \/ Commit(r)
      PROVE  thread'[u] = thread[u]
  BY <1>1, <1>3
  DEF Request, Commit, CreateWorkOrder, LoadForProvision, LoadForSubmit, LoadForApprove, LoadForReject,
      LoadForCancel, LoadForDelete, LoadOrder, LoadForExecute, LoadForDeleteCircuit, RequestFails,
      CommitSubmit, CommitApprove, CommitReject, CommitCancel, CommitStatus, CommitDelete,
      CommitProvision, CommitDeleteCircuit
<1>4. ASSUME NEW t \in Workers, \/ \E w \in Orders : Dispatch(t, w)
                                \/ ClaimLost(t) \/ AcquireLocks(t) \/ BeginPush(t)
                                \/ Claim(t) \/ StartExecution(t)
      PROVE  Executing(u)'
  <2>1. CASE t # u /\ ~BeginPush(t)
    BY <1>1, <1>2, <1>4, <2>1 DEF Dispatch, ClaimLost, AcquireLocks, Claim, StartExecution
  <2>2. CASE t = u /\ ~BeginPush(t)
    <3>1. ~ClaimLost(u) /\ ~\E w \in Orders : Dispatch(u, w)
      BY DEF ClaimLost, Dispatch, Executing, InExecute
    <3>. QED
      BY <1>1, <1>4, <2>2, <3>1 DEF AcquireLocks, Claim, StartExecution, Session, Executing, InExecute
  <2>3. CASE BeginPush(t)
    <3>1. IF u = t THEN thread'[u].pc = "pushing" ELSE thread'[u].pc = thread[u].pc
      BY <1>1, <2>3 DEF BeginPush, Session
    <3>. QED  BY <3>1 DEF Executing, InExecute
  <2>. QED  BY <2>1, <2>2, <2>3
<1>5. ASSUME NEW t \in Workers, Ends(t), t # u
      PROVE  thread'[u] = thread[u]
  BY <1>1, <1>5 DEF Ends
<1>6. ASSUME NEW n \in Nodes, Restart(n)
      PROVE  thread'[u] = thread[u]
  BY <1>6 DEF Restart
<1>. QED  BY <1>2, <1>3, <1>4, <1>5, <1>6, NextKinds

\* An order that nobody considers or executes, once it is past the workflow, ...
LEMMA StaysUnconsidered ==
  ASSUME WorkerOnly, PlacedInv, Next, NEW w \in Orders, Unconsidered(w), woStatus[w] \notin Early
  PROVE  Unconsidered(w)'
<1>. SUFFICES ASSUME NEW r \in Requests, Considers(r, w)' PROVE FALSE
  BY DEF Unconsidered
<1>1. thread'[r] # thread[r]  BY DEF Unconsidered, Considers
<1>. QED  BY <1>1, RequestNext DEF RequestMoves, Considers, ByWorkflow, PlacedInv

\* ... unless a worker claims it.
LEMMA StaysUnexecuted ==
  ASSUME PlacedInv, Next, NEW w \in Orders,
         \A t \in Workers : Executes(t, w) => ~Executing(t)',
         \A t \in Workers : thread[t].order = w => ~Claim(t)
  PROVE  Unexecuted(w)'
<1>. SUFFICES ASSUME NEW t \in Workers, Executes(t, w)' PROVE FALSE
  BY DEF Unexecuted
<1>1. ExecInv /\ TypeInv  BY DEF PlacedInv, ExecInv
<1>2. Executing(t)' /\ thread'[t].order = w  BY DEF Executes
<1>3. CASE Claim(t)
  <2>1. thread'[t].order = thread[t].order  BY <1>1, <1>3, ClaimEffect
  <2>. QED  BY <1>2, <1>3, <2>1
<1>4. CASE ~Claim(t)
  BY <1>1, <1>2, <1>4, GoesOn DEF Executes
<1>. QED  BY <1>3, <1>4

\* What keeps a circuit provisioning: an order in the queue, a run that will
\* write the circuit, or an order that is left without one, to be recovered
\* after a restart or cancelled for good.
Awaited(w) ==
  \/ woStatus[w] = "scheduled"
  \/ \E t \in Workers :
       /\ Executes(t, w) /\ thread[t].circuit = woCircuit[w]
       /\ thread[t].seenCircuit = "provisioning"
  \/ woStatus[w] \in {"running", "cancelled", "deleted"} /\ Unexecuted(w) /\ Unconsidered(w)

ProvisioningAwaits ==
  \A c \in Circuits : circuitStatus[c] = "provisioning" =>
    \E w \in Orders : woCircuit[w] = c /\ Awaited(w)

\* The order that a circuit becomes provisioning for.
LEMMA BecomesAwaited ==
  ASSUME PlacedInv, Next, NEW c \in Circuits, circuitStatus[c] # "provisioning", circuitStatus'[c] = "provisioning"
  PROVE  \E w \in Orders : woCircuit'[w] = c /\ Awaited(w)'
<1>1. /\ TypeOK /\ TypeInv
      /\ \/ \E r \in Requests : CommitProvision(r) /\ thread[r].circuit = c
         \/ \E t \in Workers : StartExecution(t) /\ thread[t].circuit = c
         \/ \E t \in Workers : Ends(t) /\ thread[t].circuit = c
  BY NextEffects DEF Effects, CircuitSteps, PlacedInv, ExecInv, TypeInv
<1>2. ASSUME NEW r \in Requests, CommitProvision(r), thread[r].circuit = c
      PROVE  \E w \in Orders : woCircuit'[w] = c /\ Awaited(w)'
  <2>1. PICK w \in Orders : w = thread[r].order /\ woCircuit[w] = c
    BY <1>1, <1>2 DEF CommitProvision, PlacedInv, ProvisionHolds, TypeInv, HasOrder
  <2>2. woCircuit'[w] = c /\ woStatus'[w] = "scheduled"
    BY <1>1, <1>2, <2>1 DEF CommitProvision, TypeOK
  <2>. QED  BY <2>1, <2>2 DEF Awaited
<1>3. ASSUME NEW t \in Workers, StartExecution(t), thread[t].circuit = c
      PROVE  \E w \in Orders : woCircuit'[w] = c /\ Awaited(w)'
  <2> PICK w \in Orders : w = thread[t].order
    BY <1>3, StartEffect
  <2>1. Executing(t)  BY <1>3 DEF StartExecution, Executing, InExecute
  <2>2. /\ circuitStatus[c] # "deleted" /\ woCircuit' = woCircuit
        /\ thread'[t].pc = "started" /\ thread'[t].order = w /\ thread'[t].circuit = c
        /\ thread'[t].seenCircuit = circuitStatus'[c]
    BY <1>3, StartEffect
  <2>3. woCircuit[w] = c
    BY <1>3, <2>1, <2>2, NullAssumption DEF PlacedInv, KnowsCircuit
  <2>4. Executes(t, w)'  BY <2>2 DEF Executes, Executing, InExecute
  <2>. QED  BY <2>2, <2>3, <2>4 DEF Awaited
<1>4. ASSUME NEW t \in Workers, Ends(t), thread[t].circuit = c
      PROVE  FALSE
  BY <1>4 DEF Ends, Lost, Written, Flushed
<1>. QED  BY <1>1, <1>2, <1>3, <1>4

\* An order that a circuit waits for goes on being waited for.
LEMMA StaysAwaited ==
  ASSUME WorkerOnly, RestartsAlone, PlacedInv, Next, NEW c \in Circuits, NEW w \in Orders,
         circuitStatus[c] = "provisioning", circuitStatus'[c] = "provisioning", woCircuit[w] = c, Awaited(w)
  PROVE  woCircuit'[w] = c /\ Awaited(w)'
<1>1. ExecInv /\ TypeInv /\ TypeOK /\ Effects  BY NextEffects DEF PlacedInv, ExecInv, TypeInv
<1>2. woStatus[w] \notin Early \union {"approved", "absent", "uncommitted"}
  BY DEF Awaited, Early, PlacedInv, RunRow, Executes
<1>3. woCircuit'[w] = c
  BY <1>1, <1>2 DEF Effects, OwnerSteps
<1>4. CASE woStatus[w] = "scheduled"
  <2>1. Unexecuted(w) /\ Unconsidered(w)
    BY <1>2, <1>4 DEF PlacedInv, RunRow, WorkflowApart, Unexecuted, Executes
  <2>2. Unconsidered(w)'  BY <1>2, <2>1, StaysUnconsidered
  <2>3. CASE woStatus'[w] = "scheduled"
    BY <1>3, <2>3 DEF Awaited
  <2>4. ASSUME NEW t \in Workers, Claim(t), thread[t].order = w
        PROVE  Awaited(w)'
    <3>1. /\ thread'[t].pc = "claimed" /\ thread'[t].order = w /\ thread'[t].circuit = c
          /\ thread'[t].seenCircuit = "provisioning"
      BY <1>1, <2>4, ClaimEffect
    <3>2. Executes(t, w)'  BY <3>1 DEF Executes, Executing, InExecute
    <3>. QED  BY <1>3, <3>1, <3>2 DEF Awaited
  <2>5. CASE woStatus'[w] # "scheduled" /\ \A t \in Workers : thread[t].order = w => ~Claim(t)
    <3>1. \A t \in Workers : thread[t].order = w => ~Ends(t)
      BY <1>1, <2>1, EndsIdle DEF Unexecuted
    <3>2. woStatus'[w] \in {"cancelled", "deleted"}
      BY <1>1, <1>2, <1>4, <2>1, <2>5, <3>1 DEF Effects, RowSteps, NotThere
    <3>3. Unexecuted(w)'  BY <2>1, <2>5, StaysUnexecuted DEF Unexecuted
    <3>. QED  BY <1>3, <2>2, <3>2, <3>3 DEF Awaited
  <2>. QED  BY <1>3, <2>3, <2>4, <2>5
<1>5. ASSUME NEW t \in Workers, Executes(t, w), thread[t].circuit = c, thread[t].seenCircuit = "provisioning"
      PROVE  Awaited(w)'
  <2>1. Executing(t) /\ thread[t].order = w /\ woStatus[w] \in {"running", "cancelled", "deleted"}
    BY <1>5 DEF Executes, PlacedInv, RunRow
  <2>2. ~Claim(t)  BY <2>1 DEF Claim, Executing, InExecute
  <2>3. CASE Executing(t)'
    <3>1. thread'[t].order = w /\ thread'[t].circuit = c /\ (StartExecution(t) \/ SameRun(t))
      BY <1>1, <1>5, <2>1, <2>2, <2>3, GoesOn
    <3>2. thread'[t].seenCircuit = "provisioning"
      BY <1>5, <3>1, StartEffect DEF SameRun
    <3>3. Executes(t, w)'  BY <2>3, <3>1 DEF Executes
    <3>. QED  BY <1>3, <3>1, <3>2, <3>3 DEF Awaited
  <2>4. CASE ~Executing(t)'
    <3>1. woStatus'[w] \in {"running", "cancelled", "deleted"}
      <4>1. CASE Ends(t)
        BY <1>5, <2>1, <4>1, NullAssumption DEF Ends, Lost, Written, Flushed
      <4>2. ASSUME NEW n \in Nodes, Crash(n)
            PROVE  woStatus'[w] = woStatus[w]
        BY <2>1, <4>2 DEF Crash
      <4>. QED  BY <2>1, <2>4, <4>1, <4>2, LeavesRun
    <3>2. \A u \in Workers : Executes(u, w) => u = t
      BY <1>1, <2>1 DEF Executes, ExecInv, AtMostOneExecution
    <3>3. \A u \in Workers : thread[u].order = w => ~Claim(u)
      BY <1>1, <2>1, ClaimEffect
    <3>4. Unexecuted(w)'  BY <2>4, <3>2, <3>3, StaysUnexecuted
    <3>5. Unconsidered(w)
      BY <1>5 DEF PlacedInv, WorkflowApart, Unexecuted
    <3>6. Unconsidered(w)'  BY <1>2, <3>5, StaysUnconsidered
    <3>. QED  BY <3>1, <3>4, <3>6 DEF Awaited
  <2>. QED  BY <2>3, <2>4
<1>6. CASE woStatus[w] \in {"running", "cancelled", "deleted"} /\ Unexecuted(w) /\ Unconsidered(w)
  <2>1. \A t \in Workers : thread[t].order = w => ~Claim(t) /\ ~Ends(t)
    BY <1>1, <1>6, ClaimEffect, EndsIdle DEF Unexecuted
  <2>2. Unexecuted(w)'  BY <1>6, <2>1, StaysUnexecuted DEF Unexecuted
  <2>3. Unconsidered(w)'  BY <1>2, <1>6, StaysUnconsidered
  <2>4. ASSUME NEW n \in Nodes, Restart(n)
        PROVE  woStatus'[w] \in {"running", "cancelled", "deleted", "scheduled"}
    <3>1. woStatus[w] = "running" => ~jobs[w]  BY DEF PlacedInv, JobsDone, Done
    <3>. QED  BY <1>6, <2>4, <3>1 DEF Restart, RecoveredStatus
  <2>5. woStatus'[w] \in {"running", "cancelled", "deleted", "scheduled"}
    BY <1>1, <1>2, <1>6, <2>1, <2>4 DEF Effects, RowSteps, NotThere
  <2>. QED  BY <1>3, <2>2, <2>3, <2>5 DEF Awaited
<1>. QED  BY <1>3, <1>4, <1>5, <1>6 DEF Awaited

LEMMA AwaitsInvariant ==
  ASSUME WorkerOnly, RestartsAlone
  PROVE  Spec => []ProvisioningAwaits
<1>1. Init => ProvisioningAwaits
  BY DEF Init, Settled, ProvisioningAwaits
<1>2. PlacedInv /\ ProvisioningAwaits /\ [Next]_vars => ProvisioningAwaits'
  <2> SUFFICES ASSUME PlacedInv, ProvisioningAwaits, [Next]_vars PROVE ProvisioningAwaits'
    OBVIOUS
  <2>1. CASE UNCHANGED vars
    BY <2>1 DEF vars, ProvisioningAwaits, Awaited, Unexecuted, Executes, Executing, InExecute, Unconsidered, Considers
  <2>2. CASE Next
    <3>. SUFFICES ASSUME NEW c \in Circuits, circuitStatus'[c] = "provisioning"
         PROVE  \E w \in Orders : woCircuit'[w] = c /\ Awaited(w)'
      BY DEF ProvisioningAwaits
    <3>1. CASE circuitStatus[c] # "provisioning"
      BY <2>2, <3>1, BecomesAwaited
    <3>2. CASE circuitStatus[c] = "provisioning"
      <4>1. PICK w \in Orders : woCircuit[w] = c /\ Awaited(w)
        BY <3>2 DEF ProvisioningAwaits
      <4>. QED  BY <2>2, <3>2, <4>1, StaysAwaited
    <3>. QED  BY <3>1, <3>2
  <2>. QED  BY <2>1, <2>2
<1>. QED  BY <1>1, <1>2, PlacedInvariant, PTL DEF Spec

LEMMA AwaitedStatus ==
  ASSUME PlacedInv, NEW w \in Orders, Awaited(w)
  PROVE  woStatus[w] \in {"scheduled", "running", "cancelled", "deleted"}
BY DEF Awaited, PlacedInv, RunRow, Executes

\* workorders.py:233-237: whatever fails, is deleted or crashes, and however many
\* clients race, a circuit that refuses new orders because it is being
\* provisioned has an order in flight, or one that was cancelled or deleted.
THEOREM StrandedOnlyByCancel ==
  ASSUME WorkerOnly, RestartsAlone
  PROVE  Spec => []StrandedByCancelOnly
<1>1. PlacedInv /\ ProvisioningAwaits => StrandedByCancelOnly
  <2>. SUFFICES ASSUME PlacedInv, NEW c \in Circuits, find_inflight_work_order(c) = {},
                       NEW w \in Orders, woCircuit[w] = c, Awaited(w)
       PROVE  woStatus[w] \in {"cancelled", "deleted"}
    BY DEF ProvisioningAwaits, StrandedByCancelOnly
  <2>1. woStatus[w] \in {"scheduled", "running", "cancelled", "deleted"}
    BY AwaitedStatus
  <2>. QED  BY <2>1 DEF find_inflight_work_order, INFLIGHT_WO_STATUSES
<1>. QED  BY <1>1, AwaitsInvariant, PlacedInvariant, PTL

\* Orders are neither cancelled nor deleted.
KeepsOrders == Operations \intersect {"cancel", "delete"} = {}
NothingDropped == \A w \in Orders : woStatus[w] \notin {"cancelled", "deleted"}

\* orchestrator.py:185-191, worker.py:243-268: where no order is cancelled or
\* deleted, a circuit that is being provisioned has an order in flight, for any
\* number of clients that race and whatever fails or crashes: the refusal of
\* further orders ends with that order.
THEOREM ProvisioningAwaited ==
  ASSUME WorkerOnly, RestartsAlone, KeepsOrders
  PROVE  Spec => []ProvisioningHasOrder
<1>1. Init => NothingDropped
  BY DEF Init, NothingDropped
<1>2. PlacedInv /\ NothingDropped /\ [Next]_vars => NothingDropped'
  <2> SUFFICES ASSUME PlacedInv, NothingDropped, [Next]_vars,
                      NEW w \in Orders, woStatus'[w] \in {"cancelled", "deleted"}
               PROVE  FALSE
    BY DEF NothingDropped
  <2>1. woStatus'[w] # woStatus[w]
    BY DEF NothingDropped
  <2>2. CASE UNCHANGED vars  BY <2>1, <2>2 DEF vars
  <2>. QED  BY <2>1, <2>2, NextEffects DEF Effects, RowSteps, KeepsOrders, Ended
<1>3. PlacedInv /\ NothingDropped /\ ProvisioningAwaits => ProvisioningHasOrder
  <2>. SUFFICES ASSUME PlacedInv, NothingDropped, NEW c \in Circuits,
                       NEW w \in Orders, woCircuit[w] = c, Awaited(w)
       PROVE  w \in find_inflight_work_order(c)
    BY DEF ProvisioningAwaits, ProvisioningHasOrder
  <2>1. woStatus[w] \in {"scheduled", "running"}
    BY AwaitedStatus DEF NothingDropped
  <2>. QED  BY <2>1 DEF find_inflight_work_order, INFLIGHT_WO_STATUSES
<1>. QED  BY <1>1, <1>2, <1>3, AwaitsInvariant, PlacedInvariant, PTL DEF Spec

-----------------------------------------------------------------------------
(***************************************************************************)
(* One order in flight per circuit.  provision_circuit looks before it     *)
(* inserts and nothing holds the circuit in between, so two handlers can   *)
(* both pass; the workflow's own submissions check nothing.                *)
(***************************************************************************)
NoWorkflow == Operations \intersect ({"create"} \union ByWorkflow) = {}

\* No two handlers have passed the check for the same circuit and not committed.
NoRace ==
  \A v, w \in Orders :
    woStatus[v] = "uncommitted" /\ woStatus[w] = "uncommitted" /\ woCircuit[v] = woCircuit[w] => v = w

\* An order that is or is going to be in flight.
Occupies(w) == woStatus[w] \in INFLIGHT_WO_STATUSES \union {"uncommitted"}

OneOccupies ==
  \A v, w \in Orders :
    Occupies(v) /\ Occupies(w) /\ woCircuit[v] = woCircuit[w] /\ woCircuit[v] \in Circuits => v = w

\* An order comes into flight by passing the check, and keeps its circuit.
LEMMA ComesIntoFlight ==
  ASSUME NoWorkflow, PlacedInv, Next, NEW v \in Orders, Occupies(v)', woCircuit'[v] \in Circuits
  PROVE  \/ Occupies(v) /\ woCircuit[v] = woCircuit'[v]
         \/ /\ woStatus'[v] = "uncommitted" /\ find_inflight_work_order(woCircuit'[v]) = {}
            /\ \A w \in Orders \ {v} : woStatus'[w] = woStatus[w] /\ woCircuit'[w] = woCircuit[w]
<1>1. Effects /\ TypeInv /\ TypeOK
  BY NextEffects DEF PlacedInv, ExecInv, TypeInv
<1>2. CASE woStatus[v] = "absent"
  <2>1. Placed(v)
    <3>1. Unconsidered(v)
      BY DEF Unconsidered, Considers, NoWorkflow, PlacedInv, LoadedOperation
    <3>2. \A t \in Workers : Claim(t) => thread[t].order # v
      BY <1>1, <1>2, ClaimEffect
    <3>3. woStatus'[v] # woStatus[v]
      BY <1>2 DEF Occupies, INFLIGHT_WO_STATUSES
    <3>. QED  BY <1>1, <1>2, <3>1, <3>2, <3>3 DEF Effects, RowSteps, Occupies, INFLIGHT_WO_STATUSES, Ended
  <2>2. PICK r \in Requests, c \in Circuits, type \in OrderType :
          CreateWorkOrder(r, v, c, type) \/ LoadForProvision(r, v, c, type)
    BY <2>1 DEF Placed
  <2>3. LoadForProvision(r, v, c, type)
    BY <2>2 DEF CreateWorkOrder, CanServe, NoWorkflow
  <2>. QED  BY <1>1, <2>3 DEF LoadForProvision, TypeOK
<1>3. CASE woStatus[v] # "absent"
  <2>1. woCircuit'[v] = woCircuit[v]
    BY <1>1, <1>3, NullAssumption DEF Effects, OwnerSteps
  <2>2. CASE woStatus'[v] = woStatus[v]
    BY <2>1, <2>2 DEF Occupies
  <2>3. CASE woStatus'[v] # woStatus[v]
    <3>1. Unconsidered(v)
      BY DEF Unconsidered, Considers, NoWorkflow, PlacedInv, LoadedOperation
    <3>2. \A t \in Workers : Claim(t) /\ thread[t].order = v => woStatus[v] = "scheduled"
      BY <1>1, ClaimEffect
    <3>3. woStatus[v] \in {"uncommitted", "scheduled", "running"}
      BY <1>1, <1>3, <2>3, <3>1, <3>2 DEF Effects, RowSteps, Occupies, INFLIGHT_WO_STATUSES, Ended
    <3>. QED  BY <2>1, <3>3 DEF Occupies, INFLIGHT_WO_STATUSES
  <2>. QED  BY <2>2, <2>3
<1>. QED  BY <1>2, <1>3

LEMMA OneOccupiesStep ==
  ASSUME NoWorkflow, PlacedInv, OneOccupies, NoRace', Next
  PROVE  OneOccupies'
<1>. SUFFICES ASSUME NEW v \in Orders, NEW w \in Orders, v # w, Occupies(v)', Occupies(w)',
                     woCircuit'[v] = woCircuit'[w], woCircuit'[v] \in Circuits
     PROVE  FALSE
  BY DEF OneOccupies
<1>1. ASSUME NEW x \in Orders, NEW y \in Orders, x # y, Occupies(y)', woCircuit'[x] = woCircuit'[y],
             woStatus'[x] = "uncommitted", find_inflight_work_order(woCircuit'[x]) = {},
             \A u \in Orders \ {x} : woStatus'[u] = woStatus[u] /\ woCircuit'[u] = woCircuit[u]
      PROVE  FALSE
  <2>1. woStatus[y] \notin INFLIGHT_WO_STATUSES
    BY <1>1 DEF find_inflight_work_order
  <2>. QED  BY <1>1, <2>1 DEF Occupies, NoRace
<1>2. Occupies(v) /\ woCircuit[v] = woCircuit'[v]
  BY <1>1, ComesIntoFlight
<1>3. Occupies(w) /\ woCircuit[w] = woCircuit'[w]
  BY <1>1, ComesIntoFlight
<1>. QED  BY <1>2, <1>3 DEF OneOccupies

\* orchestrator.py:185-191: any number of clients of provision_circuit, with
\* cancellations, deletions, crashes and workers beside them, get a second order
\* in flight for a circuit in one way only: two handlers both pass the check
\* before one of them commits.
THEOREM OneInFlight ==
  ASSUME WorkerOnly, RestartsAlone, NoWorkflow
  PROVE  Spec => ([]NoRace => []OneInflightOrder)
<1>1. Init => OneOccupies
  BY DEF Init, OneOccupies, Occupies, INFLIGHT_WO_STATUSES
<1>2. PlacedInv /\ OneOccupies /\ NoRace' /\ [Next]_vars => OneOccupies'
  <2> SUFFICES ASSUME PlacedInv, OneOccupies, NoRace', [Next]_vars PROVE OneOccupies'
    OBVIOUS
  <2>1. CASE UNCHANGED vars
    BY <2>1 DEF vars, OneOccupies, Occupies
  <2>. QED  BY <2>1, OneOccupiesStep
<1>3. OneOccupies => OneInflightOrder
  <2> SUFFICES ASSUME OneOccupies, NEW c \in Circuits
               PROVE  Cardinality(find_inflight_work_order(c)) <= 1
    BY DEF OneInflightOrder
  <2>1. \A v, w \in find_inflight_work_order(c) : v = w
    BY DEF OneOccupies, Occupies, find_inflight_work_order
  <2>2. CASE find_inflight_work_order(c) = {}
    BY <2>2, FS_EmptySet
  <2>3. CASE \E w \in Orders : find_inflight_work_order(c) = {w}
    BY <2>3, FS_Singleton
  <2>. QED  BY <2>1, <2>2, <2>3 DEF find_inflight_work_order
<1>. QED  BY <1>1, <1>2, <1>3, PlacedInvariant, PTL DEF Spec

-----------------------------------------------------------------------------
(* Settled orders where requests race. *)

\* Cancellations do not meet handlers of the workflow, which write what they
\* have decided about a status loaded earlier.
NoRevival == "cancel" \notin Operations \/ Operations \intersect ByWorkflow = {}

NothingCancelled == "cancel" \notin Operations => \A w \in Orders : woStatus[w] # "cancelled"

LEMMA CancelStep ==
  ASSUME PlacedInv, NothingCancelled, [Next]_vars
  PROVE  NothingCancelled'
<1>1. CASE UNCHANGED vars
  BY <1>1 DEF vars, NothingCancelled
<1>2. CASE Next
  <2>. SUFFICES ASSUME "cancel" \notin Operations, NEW w \in Orders, woStatus'[w] = "cancelled" PROVE FALSE
    BY DEF NothingCancelled
  <2>1. woStatus'[w] # woStatus[w]
    BY DEF NothingCancelled
  <2>. QED  BY <1>2, <2>1, NextEffects DEF Effects, RowSteps, Done, Ended
<1>. QED  BY <1>1, <1>2

\* orchestrator.py:433-438, workorders.py:135: an order that was executed is never put back to
\* work, however many clients race; one that was cancelled is not either, unless
\* cancellations and decisions of the approval workflow meet.
THEOREM SettledInRaces ==
  ASSUME WorkerOnly, RestartsAlone, NoRevival
  PROVE  Spec => SettledStaysSettled
<1>1. Init => NothingCancelled
  BY DEF Init, NothingCancelled
<1>2. ASSUME PlacedInv, NothingCancelled, Next, NEW w \in Orders,
             woStatus[w] \in {"completed", "failed", "cancelled"}
      PROVE  woStatus'[w] \notin INFLIGHT_WO_STATUSES
  <2>1. Unconsidered(w)
    <3>1. CASE "cancel" \notin Operations
      BY <1>2, <3>1 DEF PlacedInv, WorkflowApart, NothingCancelled, Early
    <3>2. CASE Operations \intersect ByWorkflow = {}
      BY <3>2, <1>2 DEF PlacedInv, LoadedOperation, Unconsidered, Considers
    <3>. QED  BY <3>1, <3>2 DEF NoRevival
  <2>2. ~\E t \in Workers : Claim(t) /\ thread[t].order = w
    BY <1>2 DEF Claim
  <2>. QED  BY <1>2, <2>1, <2>2, NextEffects DEF Effects, RowSteps, NotThere, Ended, INFLIGHT_WO_STATUSES
<1>3. PlacedInv /\ NothingCancelled /\ [Next]_vars =>
        [\A w \in Orders : woStatus[w] \in {"completed", "failed", "cancelled"} =>
           woStatus'[w] \notin INFLIGHT_WO_STATUSES]_vars
  BY <1>2
<1>. QED  BY <1>1, <1>3, CancelStep, PlacedInvariant, PTL DEF Spec, SettledStaysSettled

-----------------------------------------------------------------------------
(***************************************************************************)
(* The record beside the whole workflow.  One process configures devices,  *)
(* so that the device locks cover every run, and circuits have endpoints,  *)
(* so that the locks cover something.                                      *)
(***************************************************************************)
HaveEndpoints == \A c \in Circuits : EndpointDevices[c] # {}

Matches(c) ==
  /\ circuitStatus[c] = "active" => net[c] = "applied"
  /\ circuitStatus[c] = "decommissioned" => net[c] = "clean"

InService(c) == circuitStatus[c] \in {"active", "decommissioned"}

\* A run that has begun knows whether its circuit is in service.
SeesService ==
  \A t \in Workers, c \in Circuits :
    thread[t].pc \in {"started", "pushing"} /\ thread[t].circuit = c /\ InService(c) =>
      thread[t].seenCircuit = circuitStatus[c]

\* It pushes alone, and its order stays on record meanwhile.
PushRow ==
  \A t \in Workers : Pushing(t) =>
    /\ ~thread[t].mixed /\ woStatus[thread[t].order] # "deleted"
    /\ thread[t].order \in unrecorded \/ circuitStatus[thread[t].circuit] = "deleted"

PushedOn(c) == \E t \in Workers : Pushing(t) /\ thread[t].circuit = c

\* A run was cut off on the circuit's devices: the next run of its order, if it
\* has not been cancelled or deleted, is going to write the circuit's status.
Owed(c) ==
  \E w \in unrecorded :
    /\ w \in Orders /\ woCircuit[w] = c /\ Unconsidered(w)
    /\ woStatus[w] \in {"scheduled", "running", "cancelled", "deleted"}
    /\ \A t \in Workers : Executes(t, w) =>
         thread[t].circuit = c /\ thread[t].seenCircuit = circuitStatus[c]

AgreesOn(c) == Matches(c) \/ PushedOn(c) \/ Owed(c)

BooksInv ==
  /\ PlacedInv
  /\ LocksApart
  /\ SeesService
  /\ PushRow
  /\ \A c \in Circuits \ Adopted : AgreesOn(c)

\* The locks leave a circuit to one run.
LEMMA LockedAlone ==
  ASSUME HaveEndpoints, LocksApart, NEW s \in Workers, NEW t \in Workers, InExecute(s), InExecute(t),
         thread[s].circuit = thread[t].circuit, thread[s].circuit \in Circuits
  PROVE  s = t
BY NullAssumption DEF LocksApart, DevicesOf, HaveEndpoints

LEMMA PushesOn ==
  ASSUME PlacedInv, Next, NEW u \in Workers, Pushing(u)'
  PROVE  \/ BeginPush(u) /\ thread'[u].mixed = (SharingCircuit(u) # {})
         \/ /\ Pushing(u)
            /\ thread'[u].mixed = thread[u].mixed \/ \E t \in Workers : BeginPush(t) /\ u \in SharingCircuit(t)
<1>1. u \notin Requests /\ u \in Threads /\ thread \in [Threads -> Session] /\ Idle.pc = "idle"
  BY ThreadAssumption DEF PlacedInv, ExecInv, TypeInv, TypeOK, Idle
<1>2. CASE thread'[u] = thread[u]
  BY <1>2 DEF Pushing
<1>3. ASSUME NEW r \in Requests, Request(r) \/ Commit(r)
      PROVE  thread'[u] = thread[u]
  BY <1>1, <1>3
  DEF Request, Commit, CreateWorkOrder, LoadForProvision, LoadForSubmit, LoadForApprove, LoadForReject,
      LoadForCancel, LoadForDelete, LoadOrder, LoadForExecute, LoadForDeleteCircuit, RequestFails,
      CommitSubmit, CommitApprove, CommitReject, CommitCancel, CommitStatus, CommitDelete,
      CommitProvision, CommitDeleteCircuit
<1>4. ASSUME NEW t \in Workers, \/ \E w \in Orders : Dispatch(t, w)
                                \/ ClaimLost(t) \/ AcquireLocks(t)
                                \/ Claim(t) \/ StartExecution(t) \/ Ends(t)
      PROVE  thread'[u] = thread[u]
  <2>1. CASE t # u
    BY <1>1, <1>4, <2>1 DEF Dispatch, ClaimLost, AcquireLocks, Claim, StartExecution, Ends
  <2>2. CASE t = u
    <3>1. CASE Claim(u) \/ StartExecution(u)
      BY <3>1, ClaimEffect, StartEffect DEF Pushing, PlacedInv, ExecInv
    <3>2. CASE AcquireLocks(u)
      <4>1. thread[u] \in Session  BY <1>1
      <4>2. thread'[u].pc = "ready"  BY <1>1, <3>2, <4>1 DEF AcquireLocks, Session
      <4>. QED  BY <4>2 DEF Pushing
    <3>3. CASE ClaimLost(u) \/ Ends(u)
      BY <1>1, <3>3 DEF ClaimLost, Ends, Pushing
    <3>4. CASE \E w \in Orders : Dispatch(u, w)
      <4>1. thread'[u].pc = "dispatched"  BY <1>1, <3>4 DEF Dispatch, Idle
      <4>. QED  BY <4>1 DEF Pushing
    <3>. QED  BY <1>4, <2>2, <3>1, <3>2, <3>3, <3>4
  <2>. QED  BY <2>1, <2>2
<1>5. ASSUME NEW t \in Workers, BeginPush(t)
      PROVE  \/ BeginPush(u) /\ thread'[u].mixed = (SharingCircuit(u) # {})
             \/ /\ Pushing(u)
                /\ thread'[u].mixed = thread[u].mixed \/ \E v \in Workers : BeginPush(v) /\ u \in SharingCircuit(v)
  <2>1. CASE t = u
    BY <1>1, <1>5, <2>1 DEF BeginPush, Session
  <2>2. CASE t # u /\ u \in SharingCircuit(t)
    BY <1>5, <2>2 DEF SharingCircuit
  <2>3. CASE t # u /\ u \notin SharingCircuit(t)
    <3>1. thread'[u] = thread[u]  BY <1>1, <1>5, <2>3 DEF BeginPush
    <3>. QED  BY <3>1 DEF Pushing
  <2>. QED  BY <2>1, <2>2, <2>3
<1>6. ASSUME NEW n \in Nodes, Crash(n) \/ Restart(n)
      PROVE  thread'[u] = thread[u]
  BY <1>1, <1>6 DEF Crash, Restart, Pushing
<1>. QED  BY <1>2, <1>3, <1>4, <1>5, <1>6, NextKinds

\* Devices are written by pushes.
NetSteps ==
  \A c \in Circuits : net'[c] # net[c] =>
    \E t \in Workers : thread[t].circuit = c /\ (BeginPush(t) \/ (Ends(t) /\ Pushing(t)))

LEMMA NextNet ==
  ASSUME PlacedInv, Next
  PROVE  NetSteps
<1>1. TypeOK  BY DEF PlacedInv, ExecInv, TypeInv
<1>2. CASE net' = net
  BY <1>2 DEF NetSteps
<1>3. ASSUME NEW r \in Requests, Request(r) \/ Commit(r)
      PROVE  net' = net
  BY <1>3
  DEF Request, Commit, CreateWorkOrder, LoadForProvision, LoadForSubmit, LoadForApprove, LoadForReject,
      LoadForCancel, LoadForDelete, LoadOrder, LoadForExecute, LoadForDeleteCircuit, RequestFails,
      CommitSubmit, CommitApprove, CommitReject, CommitCancel, CommitStatus, CommitDelete,
      CommitProvision, CommitDeleteCircuit
<1>4. ASSUME NEW t \in Workers, \/ \E w \in Orders : Dispatch(t, w)
                                \/ ClaimLost(t) \/ AcquireLocks(t) \/ Claim(t) \/ StartExecution(t)
      PROVE  net' = net
  BY <1>4 DEF Dispatch, ClaimLost, AcquireLocks, Claim, StartExecution
<1>5. ASSUME NEW t \in Workers, BeginPush(t)
      PROVE  NetSteps
  BY <1>1, <1>5 DEF BeginPush, NetSteps, TypeOK
<1>6. ASSUME NEW t \in Workers, Ends(t)
      PROVE  NetSteps
  BY <1>6 DEF Ends, NetSteps
<1>7. ASSUME NEW n \in Nodes, Crash(n) \/ Restart(n)
      PROVE  net' = net
  BY <1>7 DEF Crash, Restart
<1>. QED  BY <1>2, <1>3, <1>4, <1>5, <1>6, <1>7, NextKinds

\* What a run leaves unrecorded stays so until a run records the circuit.
HistorySteps ==
  \A w \in unrecorded : w \notin unrecorded' =>
    \E t \in Workers : Ends(t) /\ Pushing(t) /\ Written(t) /\ woCircuit[w] = thread[t].circuit

LEMMA NextHistory ==
  ASSUME PlacedInv, Next
  PROVE  HistorySteps
<1>1. CASE unrecorded' = unrecorded
  BY <1>1 DEF HistorySteps
<1>2. ASSUME NEW r \in Requests, Request(r) \/ Commit(r)
      PROVE  unrecorded' = unrecorded
  BY <1>2
  DEF Request, Commit, CreateWorkOrder, LoadForProvision, LoadForSubmit, LoadForApprove, LoadForReject,
      LoadForCancel, LoadForDelete, LoadOrder, LoadForExecute, LoadForDeleteCircuit, RequestFails,
      CommitSubmit, CommitApprove, CommitReject, CommitCancel, CommitStatus, CommitDelete,
      CommitProvision, CommitDeleteCircuit
<1>3. ASSUME NEW t \in Workers, \/ \E w \in Orders : Dispatch(t, w)
                                \/ ClaimLost(t) \/ AcquireLocks(t) \/ Claim(t) \/ StartExecution(t)
      PROVE  unrecorded' = unrecorded
  BY <1>3 DEF Dispatch, ClaimLost, AcquireLocks, Claim, StartExecution
<1>4. ASSUME NEW t \in Workers, BeginPush(t)
      PROVE  HistorySteps
  BY <1>4 DEF BeginPush, HistorySteps
<1>5. ASSUME NEW t \in Workers, Ends(t)
      PROVE  HistorySteps
  BY <1>5 DEF Ends, Lost, Written, HistorySteps
<1>6. ASSUME NEW n \in Nodes, Crash(n) \/ Restart(n)
      PROVE  unrecorded' = unrecorded
  BY <1>6 DEF Crash, Restart
<1>. QED  BY <1>1, <1>2, <1>3, <1>4, <1>5, <1>6, NextKinds

LEMMA SeesServiceStep ==
  ASSUME HaveEndpoints, BooksInv, Next
  PROVE  SeesService'
<1>. SUFFICES ASSUME NEW t \in Workers, NEW c \in Circuits, thread'[t].pc \in {"started", "pushing"},
                     thread'[t].circuit = c, InService(c)'
     PROVE  thread'[t].seenCircuit = circuitStatus'[c]
  BY DEF SeesService
<1>1. PlacedInv /\ ExecInv /\ TypeInv /\ Effects  BY NextEffects DEF BooksInv, PlacedInv, ExecInv
<1>2. CASE StartExecution(t)
  <2>1. thread'[t].circuit = thread[t].circuit /\ thread'[t].seenCircuit = circuitStatus'[thread[t].circuit]
    BY <1>1, <1>2, StartEffect
  <2>. QED  BY <2>1
<1>3. CASE ~StartExecution(t)
  <2>1. Executing(t)' /\ ~Claim(t)
    BY <1>1, ClaimEffect DEF Executing, InExecute
  <2>2. Executing(t) /\ SameRun(t) /\ (thread'[t].pc = thread[t].pc \/ AcquireLocks(t) \/ BeginPush(t))
    BY <1>1, <1>3, <2>1, WorkerKeepsNext DEF WorkerKeeps
  <2>3. thread[t].pc \in {"started", "pushing"}
    <3>1. thread[t] \in Session /\ t \in Threads  BY <1>1 DEF TypeInv, TypeOK
    <3>2. AcquireLocks(t) => thread'[t].pc = "ready"
      BY <1>1, <3>1 DEF AcquireLocks, TypeInv, TypeOK, Session
    <3>3. BeginPush(t) => thread[t].pc = "started"
      BY DEF BeginPush
    <3>. QED  BY <2>2, <3>2, <3>3
  <2>4. ASSUME NEW u \in Workers, Ends(u), InExecute(u), thread[u].circuit = c
        PROVE  FALSE
    <3>1. u = t
      BY <1>1, <2>2, <2>3, <2>4, LockedAlone DEF BooksInv, InExecute, SameRun
    <3>. QED  BY <1>1, <2>1, <2>4, <3>1, EndsIdle
  <2>5. circuitStatus'[c] = circuitStatus[c]
    BY <1>1, <2>4 DEF Effects, CircuitSteps, InService
  <2>. QED  BY <2>2, <2>3, <2>5 DEF BooksInv, SeesService, InService, SameRun
<1>. QED  BY <1>2, <1>3

LEMMA PushRowStep ==
  ASSUME RestartsAlone, HaveEndpoints, BooksInv, Next
  PROVE  PushRow'
<1>. SUFFICES ASSUME NEW t \in Workers, Pushing(t)'
     PROVE  /\ ~thread'[t].mixed /\ woStatus'[thread'[t].order] # "deleted"
            /\ thread'[t].order \in unrecorded' \/ circuitStatus'[thread'[t].circuit] = "deleted"
  BY DEF PushRow
<1>1. PlacedInv /\ ExecInv /\ TypeInv /\ Effects /\ HistorySteps
  BY NextEffects, NextHistory DEF BooksInv, PlacedInv, ExecInv
<1>2. ASSUME NEW u \in Workers, BeginPush(u)
      PROVE  SharingCircuit(u) = {}
  <2>. SUFFICES ASSUME NEW v \in SharingCircuit(u) PROVE FALSE
    OBVIOUS
  <2>1. v \in Workers /\ v # u /\ InExecute(v) /\ InExecute(u) /\ thread[u].circuit \in Circuits
        /\ thread[v].circuit = thread[u].circuit
    BY <1>1, <1>2 DEF SharingCircuit, BeginPush, Pushing, InExecute, ExecInv, RequestsOnlyCommit, PlacedInv, ConfiguresOwn
  <2>. QED  BY <2>1, LockedAlone DEF BooksInv
<1>3. CASE BeginPush(t) /\ thread'[t].mixed = (SharingCircuit(t) # {})
  <2>1. thread[t] \in Session /\ t \in Threads  BY <1>1 DEF TypeInv, TypeOK
  <2>2. thread'[t].order = thread[t].order  BY <1>3, <2>1 DEF BeginPush, Session
  <2>3. thread[t].order \in unrecorded'  BY <1>3 DEF BeginPush
  <2>. QED  BY <1>2, <1>3, <2>2, <2>3 DEF BeginPush, rows
<1>4. CASE /\ Pushing(t)
           /\ thread'[t].mixed = thread[t].mixed \/ \E u \in Workers : BeginPush(u) /\ t \in SharingCircuit(u)
  <2> DEFINE w == thread[t].order
             c == thread[t].circuit
  <2>1. Executing(t) /\ Executing(t)' /\ ~Claim(t)
    BY <1>4 DEF Pushing, Executing, InExecute, Claim
  <2>2. thread'[t].order = w /\ w \in Orders /\ thread'[t].circuit = c /\ c \in Circuits
    BY <1>1, <1>4, <2>1, GoesOn DEF PlacedInv, ConfiguresOwn, Pushing
  <2>3. ~thread'[t].mixed
    BY <1>2, <1>4 DEF BooksInv, PushRow
  <2>4. woStatus[w] \in {"running", "cancelled"}
    BY <1>4, <2>1 DEF BooksInv, PlacedInv, RunRow, PushRow
  <2>5. woStatus'[w] # "deleted"
    BY <1>1, <1>4, <2>2, <2>4 DEF Effects, RowSteps, NotThere, Ended
  <2>6. CASE circuitStatus[c] = "deleted"
    BY <1>1, <2>2, <2>3, <2>5, <2>6 DEF Effects, OwnerSteps
  <2>7. CASE circuitStatus[c] # "deleted"
    <3>1. w \in unrecorded /\ woCircuit[w] = c
      BY <1>1, <1>4, <2>1, <2>2, <2>7, NullAssumption DEF BooksInv, PushRow, PlacedInv, KnowsCircuit
    <3>2. ASSUME NEW u \in Workers, Ends(u), Pushing(u), thread[u].circuit = c
          PROVE  FALSE
      <4>1. u = t  BY <1>4, <2>2, <3>2, LockedAlone DEF BooksInv, InExecute, Pushing
      <4>. QED  BY <1>1, <2>1, <3>2, <4>1, EndsIdle
    <3>3. w \in unrecorded'  BY <1>1, <3>1, <3>2 DEF HistorySteps
    <3>. QED  BY <2>2, <2>3, <2>5, <3>3
  <2>. QED  BY <2>6, <2>7
<1>. QED  BY <1>1, <1>3, <1>4, PushesOn

\* A run that is cut off while it pushes leaves its order to owe the circuit.
LEMMA CutOff ==
  ASSUME WorkerOnly, BooksInv, Next, NEW t \in Workers, Pushing(t), ~Executing(t)',
         UNCHANGED <<circuitStatus, unrecorded>>,
         woStatus'[thread[t].order] = woStatus[thread[t].order],
         NEW c \in Circuits, c = thread[t].circuit, circuitStatus[c] # "deleted"
  PROVE  Owed(c)'
<1>1. /\ PlacedInv /\ ExecInv /\ TypeInv /\ Effects /\ Executing(t)
      /\ thread[t].order \in Orders /\ thread[t].order \in unrecorded
  BY NextEffects DEF BooksInv, PlacedInv, ExecInv, TypeInv, HasOrder, PushRow, Pushing, Executing, InExecute
<1>2. PICK w \in Orders : w = thread[t].order
  BY <1>1
<1>3. /\ woStatus[w] \in {"running", "cancelled", "deleted"} /\ woCircuit[w] = c
      /\ woStatus'[w] = woStatus[w] /\ w \in unrecorded'
  BY <1>1, <1>2, NullAssumption DEF PlacedInv, RunRow, KnowsCircuit
<1>4. woCircuit'[w] = c
  BY <1>1, <1>3 DEF Effects, OwnerSteps
<1>5. Unconsidered(w)'
  <2>1. Unconsidered(w)
    BY <1>1, <1>2 DEF PlacedInv, WorkflowApart, Unexecuted, Executes
  <2>2. woStatus[w] \notin Early
    BY <1>3 DEF Early
  <2>. QED  BY <1>1, <2>1, <2>2, StaysUnconsidered
<1>6. Unexecuted(w)'
  <2>1. \A u \in Workers : Executes(u, w) => u = t
    BY <1>1, <1>2 DEF Executes, ExecInv, AtMostOneExecution
  <2>2. \A u \in Workers : thread[u].order = w => ~Claim(u)
    BY <1>1, <1>3, ClaimEffect
  <2>3. \A u \in Workers : Executes(u, w) => ~Executing(u)'
    BY <2>1
  <2>. QED  BY <1>1, <2>2, <2>3, StaysUnexecuted
<1>. QED  BY <1>3, <1>4, <1>5, <1>6 DEF Owed, Unexecuted

\* A run that ends leaves the circuit it has pushed as it records it, or owes it, ...
LEMMA PushLeaves ==
  ASSUME WorkerOnly, BooksInv, Next, NEW t \in Workers, Pushing(t), Ends(t), NEW c, c = thread[t].circuit
  PROVE  Matches(c)' \/ Owed(c)'
<1>1. /\ c \in Circuits \ Adopted /\ woStatus[thread[t].order] # "deleted" /\ ~thread[t].mixed
      /\ InService(c) => thread[t].seenCircuit = circuitStatus[c]
  BY DEF BooksInv, PlacedInv, ConfiguresOwn, PushRow, SeesService, Pushing
<1>2. CASE circuitStatus'[c] = "deleted"
  BY <1>2 DEF Matches
<1>3. CASE circuitStatus'[c] # "deleted" /\ Written(t)
  <2>1. circuitStatus[c] # "deleted" /\ c # NoCircuit
    BY <1>1, <1>3, NullAssumption DEF Written
  <2>2. PICK value \in {"active", "decommissioned", "failed"} :
          /\ circuitStatus'[c] = Flushed(circuitStatus[c], thread[t].seenCircuit, value)
          /\ Delivers(t, value)
    BY <1>3, <2>1 DEF Written
  <2>3. circuitStatus'[c] = value \/ circuitStatus'[c] \notin {"active", "decommissioned"}
    BY <1>1, <2>2 DEF Flushed, InService
  <2>4. value # "failed" => net'[c] = IF value = "active" THEN "applied" ELSE "clean"
    BY <1>1, <2>2 DEF Delivers
  <2>. QED  BY <2>2, <2>3, <2>4 DEF Matches
<1>4. CASE circuitStatus'[c] # "deleted" /\ ~Written(t)
  <2>1. UNCHANGED <<woStatus, circuitStatus, unrecorded>>
    BY <1>4 DEF Ends, Lost
  <2>2. ~Executing(t)'
    BY EndsIdle DEF BooksInv, PlacedInv, ExecInv
  <2>. QED  BY <1>1, <1>4, <2>1, <2>2, CutOff
<1>. QED  BY <1>2, <1>3, <1>4

\* ... and one that has pushed nothing puts no circuit in service.
LEMMA NothingPushed ==
  ASSUME PlacedInv, NEW t \in Workers, ~Pushing(t), Ends(t), NEW c \in Circuits \ Adopted,
         thread[t].circuit = c, circuitStatus'[c] # circuitStatus[c]
  PROVE  circuitStatus'[c] = "failed"
<1>1. Written(t) /\ c # NoCircuit /\ circuitStatus' # circuitStatus
  BY NullAssumption DEF Ends, Lost
<1>2. PICK value \in {"active", "decommissioned", "failed"} :
        /\ circuitStatus'[c] = Flushed(circuitStatus[c], thread[t].seenCircuit, value)
        /\ Delivers(t, value)
  BY <1>1 DEF Written
<1>. QED  BY <1>2 DEF Flushed, Delivers

\* A circuit that a run is configuring.
LEMMA PushedAgrees ==
  ASSUME WorkerOnly, BooksInv, Next, NEW c \in Circuits \ Adopted,
         NEW t \in Workers, Pushing(t), thread[t].circuit = c
  PROVE  AgreesOn(c)'
<1>1. /\ PlacedInv /\ ExecInv /\ TypeInv /\ TypeOK /\ Executing(t)
      /\ thread[t].order \in Orders /\ woStatus[thread[t].order] \in {"running", "cancelled", "deleted"}
  <2>1. Executing(t)  BY DEF Pushing, Executing, InExecute
  <2>. QED
    BY <2>1 DEF BooksInv, PlacedInv, ExecInv, TypeInv, HasOrder, RunRow, Executing, InExecute
<1>2. CASE Pushing(t)'
  <2>1. ~Claim(t)  BY DEF Claim, Pushing
  <2>2. thread'[t].circuit = c
    BY <1>1, <1>2, <2>1, GoesOn DEF Pushing, Executing, InExecute
  <2>. QED  BY <1>2, <2>2 DEF AgreesOn, PushedOn
<1>3. CASE Ends(t)
  BY <1>3, PushLeaves DEF AgreesOn
<1>4. ASSUME ~Pushing(t)', ~Ends(t)
      PROVE  ~Executing(t)' /\ \E n \in Nodes : Crash(n)
  <2>1. CASE ~Executing(t)'
    BY <1>1, <1>4, <2>1, LeavesRun
  <2>2. CASE Executing(t)'
    <3>1. ~Claim(t) /\ ~StartExecution(t) /\ ~AcquireLocks(t) /\ ~BeginPush(t)
      BY DEF Claim, StartExecution, AcquireLocks, BeginPush, Pushing
    <3>2. thread'[t].pc = thread[t].pc
      BY <1>1, <2>2, <3>1, WorkerKeepsNext DEF WorkerKeeps
    <3>. QED  BY <1>4, <3>2 DEF Pushing
  <2>. QED  BY <2>1, <2>2
<1>5. ASSUME NEW n \in Nodes, Crash(n), ~Executing(t)'
      PROVE  AgreesOn(c)'
  <2>1. woStatus'[thread[t].order] = woStatus[thread[t].order] /\ UNCHANGED <<circuitStatus, unrecorded>>
    BY <1>1, <1>5 DEF Crash
  <2>2. CASE circuitStatus[c] = "deleted"
    BY <2>1, <2>2 DEF AgreesOn, Matches
  <2>3. CASE circuitStatus[c] # "deleted"
    BY <1>5, <2>1, <2>3, CutOff DEF AgreesOn
  <2>. QED  BY <2>2, <2>3
<1>. QED  BY <1>2, <1>3, <1>4, <1>5

\* A circuit that an order owes its status.
LEMMA OwedAgrees ==
  ASSUME WorkerOnly, BooksInv, Next, NEW c \in Circuits \ Adopted, Owed(c), ~PushedOn(c),
         circuitStatus'[c] = circuitStatus[c]
  PROVE  AgreesOn(c)'
<1>1. PlacedInv /\ ExecInv /\ TypeInv /\ Effects /\ HistorySteps
  BY NextEffects, NextHistory DEF BooksInv, PlacedInv, ExecInv
<1>2. PICK w \in unrecorded :
        /\ w \in Orders /\ woCircuit[w] = c /\ Unconsidered(w)
        /\ woStatus[w] \in {"scheduled", "running", "cancelled", "deleted"}
        /\ \A t \in Workers : Executes(t, w) =>
             thread[t].circuit = c /\ thread[t].seenCircuit = circuitStatus[c]
  BY DEF Owed
<1>3. CASE ~InService(c)
  BY <1>3 DEF AgreesOn, Matches, InService
<1>4. CASE InService(c)
  <2>1. woCircuit'[w] = c
    BY <1>1, <1>2, <1>4 DEF Effects, OwnerSteps, InService
  <2>2. ASSUME NEW t \in Workers, Ends(t), thread[t].order = w
        PROVE  woStatus'[w] = woStatus[w]
    <3>1. thread[t].circuit = c /\ thread[t].seenCircuit = circuitStatus[c] /\ ~Pushing(t) /\ c # NoCircuit
      BY <1>1, <1>2, <2>2, EndsIdle, NullAssumption DEF PushedOn
    <3>2. CASE Written(t)
      <4>1. PICK value \in {"active", "decommissioned", "failed"} :
              /\ circuitStatus'[c] = Flushed(circuitStatus[c], circuitStatus[c], value)
              /\ Delivers(t, value)
        BY <1>4, <3>1, <3>2 DEF Written, InService
      <4>. QED  BY <1>4, <3>1, <4>1 DEF Flushed, Delivers, InService
    <3>. QED  BY <2>2, <3>2 DEF Ends, Lost
  <2>3. Unconsidered(w)'
    BY <1>1, <1>2, StaysUnconsidered DEF Early
  <2>4. woStatus[w] = "running" => ~jobs[w]
    BY <1>1, <1>2 DEF PlacedInv, JobsDone, Done
  <2>5. ASSUME NEW n \in Nodes, Restart(n)
        PROVE  woStatus'[w] \in {"scheduled", "running", "cancelled", "deleted"}
    BY <1>2, <2>4, <2>5 DEF Restart, RecoveredStatus
  <2>6. woStatus'[w] \in {"scheduled", "running", "cancelled", "deleted"}
    BY <1>1, <1>2, <2>2, <2>5 DEF Effects, RowSteps
  <2>7. ASSUME NEW t \in Workers, Executes(t, w)'
        PROVE  thread'[t].circuit = c /\ thread'[t].seenCircuit = circuitStatus'[c]
    <3>1. Executing(t)' /\ thread'[t].order = w  BY <2>7 DEF Executes
    <3>2. CASE Claim(t)
      <4>1. thread[t].order = w  BY <1>1, <3>1, <3>2, ClaimEffect
      <4>. QED  BY <1>1, <1>2, <3>2, <4>1, ClaimEffect
    <3>3. CASE ~Claim(t)
      <4>1. /\ Executing(t) /\ thread[t].order = w /\ thread'[t].circuit = thread[t].circuit
            /\ StartExecution(t) \/ SameRun(t)
        BY <1>1, <3>1, <3>3, GoesOn
      <4>2. thread[t].circuit = c /\ thread[t].seenCircuit = circuitStatus[c]
        BY <1>2, <4>1 DEF Executes
      <4>3. StartExecution(t) => thread'[t].seenCircuit = circuitStatus'[c]
        BY <1>1, <4>2, StartEffect
      <4>. QED  BY <4>1, <4>2, <4>3 DEF SameRun
    <3>. QED  BY <3>2, <3>3
  <2>8. w \in unrecorded'
    BY <1>1, <1>2 DEF HistorySteps, PushedOn
  <2>9. Owed(c)'
    BY <1>2, <2>1, <2>3, <2>6, <2>7, <2>8 DEF Owed
  <2>. QED  BY <2>9 DEF AgreesOn
<1>. QED  BY <1>3, <1>4

LEMMA AgreesStep ==
  ASSUME WorkerOnly, BooksInv, Next, NEW c \in Circuits \ Adopted
  PROVE  AgreesOn(c)'
<1>1. PlacedInv /\ TypeInv /\ Effects /\ NetSteps  BY NextEffects, NextNet DEF BooksInv, PlacedInv, ExecInv
<1>2. CASE PushedOn(c)
  BY <1>2, PushedAgrees DEF PushedOn
<1>3. ASSUME NEW t \in Workers, BeginPush(t), thread[t].circuit = c
      PROVE  AgreesOn(c)'
  <2>1. thread[t] \in Session /\ t \in Threads  BY <1>1 DEF TypeInv, TypeOK
  <2>2. thread'[t].pc = "pushing" /\ thread'[t].circuit = c  BY <1>3, <2>1 DEF BeginPush, Session
  <2>. QED  BY <2>2 DEF AgreesOn, PushedOn, Pushing
<1>4. CASE ~PushedOn(c) /\ \A t \in Workers : thread[t].circuit = c => ~BeginPush(t)
  <2>1. net'[c] = net[c]
    BY <1>1, <1>4 DEF NetSteps, PushedOn
  <2>2. CASE circuitStatus'[c] # circuitStatus[c]
    <3>1. circuitStatus'[c] \in {"deleted", "failed", "provisioning"}
      BY <1>1, <1>4, <2>2, NothingPushed DEF Effects, CircuitSteps, PushedOn
    <3>. QED  BY <3>1 DEF AgreesOn, Matches
  <2>3. CASE circuitStatus'[c] = circuitStatus[c]
    <3>1. CASE Matches(c)
      BY <2>1, <2>3, <3>1 DEF AgreesOn, Matches
    <3>2. CASE ~Matches(c)
      BY <1>4, <2>3, <3>2, OwedAgrees DEF BooksInv, AgreesOn
    <3>. QED  BY <3>1, <3>2
  <2>. QED  BY <2>2, <2>3
<1>. QED  BY <1>2, <1>3, <1>4

LEMMA BooksInvariant ==
  ASSUME WorkerOnly, OneProcess, HaveEndpoints
  PROVE  Spec => []BooksInv
<1>1. RestartsAlone  BY DEF RestartsAlone, OneProcess
<1>2. Init /\ PlacedInv => BooksInv
  BY ThreadAssumption
  DEF Init, Settled, BooksInv, LocksApart, SeesService, PushRow, Pushing, InExecute, Idle, AgreesOn, Matches
<1>3. BooksInv /\ PlacedInv' /\ [Next]_vars => BooksInv'
  <2> SUFFICES ASSUME BooksInv, PlacedInv', [Next]_vars PROVE BooksInv'
    OBVIOUS
  <2>1. CASE UNCHANGED vars
    BY <2>1 DEF vars, BooksInv, LocksApart, SeesService, InService, PushRow, Pushing, InExecute,
       AgreesOn, Matches, PushedOn, Owed, Executes, Executing, Unconsidered, Considers
  <2>2. CASE Next
    <3>1. LocksApart'
      BY LocksStep DEF BooksInv, PlacedInv
    <3>2. SeesService' /\ PushRow'
      BY <1>1, <2>2, SeesServiceStep, PushRowStep
    <3>3. \A c \in Circuits \ Adopted : AgreesOn(c)'
      BY <2>2, AgreesStep
    <3>. QED  BY <3>1, <3>2, <3>3 DEF BooksInv
  <2>. QED  BY <2>1, <2>2
<1>. QED  BY <1>1, <1>2, <1>3, PlacedInvariant, PTL DEF Spec

\* orchestrator.py:614-654: in one process, and for any number of clients that
\* create, approve, provision, modify, decommission, cancel and delete, an active
\* circuit is on all its devices and a decommissioned one on none once nothing is
\* queued or running for it, through failures, crashes and lost sessions: all but
\* a circuit whose half-done order was cancelled or deleted.
THEOREM RecordsTrueBesideWorkflow ==
  ASSUME WorkerOnly, OneProcess, HaveEndpoints
  PROVE  Spec => []RecordMatchesDevices
<1>1. BooksInv => RecordMatchesDevices
  <2>. SUFFICES ASSUME BooksInv, NEW c \in Circuits \ Adopted, Quiet(c), ~Dropped(c) PROVE Matches(c)
    BY DEF RecordMatchesDevices, Matches
  <2>1. ~PushedOn(c)
    BY DEF PushedOn, Quiet, Pushing, InExecute
  <2>2. ~Owed(c)
    BY DEF Owed, Quiet, OpenOrders, Dropped
  <2>. QED  BY <2>1, <2>2 DEF BooksInv, AgreesOn
<1>. QED  BY <1>1, BooksInvariant, PTL
=============================================================================
