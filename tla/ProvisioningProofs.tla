------------------------- MODULE ProvisioningProofs -------------------------
(***************************************************************************)
(* Theorems about Provisioning, for every set of orders, circuits, threads *)
(* and processes.                                                          *)
(***************************************************************************)
EXTENDS Provisioning, TLAPS

USE DEF Threads, history

-----------------------------------------------------------------------------
(* Type correctness. *)

LEMMA InitType == Init => TypeOK
  BY ThreadAssumption, SettingsAssumption, CircuitAssumption
  DEF Init, TypeOK, Settled, Idle, Session, PC, OperationName, OrderRow,
      OrderStatus, OrderType, CircuitRow, NetState

LEMMA IdleType == Idle \in Session
  BY DEF Idle, Session, PC, OperationName, OrderRow, CircuitRow

\* A flush leaves the row as it is or writes the assigned value.
LEMMA FlushedValue ==
  ASSUME NEW row, NEW loaded, NEW value
  PROVE  Flushed(row, loaded, value) \in {row, value}
  BY DEF Flushed

LEMMA MarkedType ==
  ASSUME NEW type, NEW seen \in CircuitRow
  PROVE  MarkedProvisioning(type, seen) \in CircuitRow
  BY DEF MarkedProvisioning, CircuitRow

\* A thread at work is at work on an order.
HasOrder ==
  \A t \in Threads :
    \/ thread[t].pc = "idle"
    \/ thread[t].pc = "loaded" /\ thread[t].op = "delete_circuit"
    \/ thread[t].order \in Orders

LEMMA RequestType ==
  ASSUME TypeOK, HasOrder, NEW r \in Requests, Request(r)
  PROVE  TypeOK'
<1> USE DEF TypeOK
<1>1. ASSUME NEW w \in Orders, NEW c \in Circuits, NEW type \in OrderType,
             CreateWorkOrder(r, w, c, type)
      PROVE  TypeOK'
  BY <1>1 DEF CreateWorkOrder, OrderRow, OrderStatus
<1>2. ASSUME NEW w \in Orders, NEW c \in Circuits, NEW type \in OrderType,
             LoadForProvision(r, w, c, type)
      PROVE  TypeOK'
  <2>1. thread'[r] \in Session
    <3>1. circuitStatus[c] \in CircuitRow
      OBVIOUS
    <3>2. "approved" \in OrderRow
      BY DEF OrderRow, OrderStatus
    <3> QED
      BY <1>2, <3>1, <3>2, IdleType DEF LoadForProvision, Session, PC, OperationName
  <2>2. thread' \in [Threads -> Session]
    BY <1>2, <2>1 DEF LoadForProvision
  <2> QED
    BY <1>2, <2>2 DEF LoadForProvision, OrderRow
<1>3. ASSUME NEW w \in Orders, NEW op \in OperationName, NEW refused,
             LoadOrder(r, op, w, refused)
      PROVE  TypeOK'
  BY <1>3, IdleType DEF LoadOrder, Session, PC, rows
<1>4. ASSUME NEW w \in Orders, LoadForExecute(r, w)
      PROVE  TypeOK'
  <2>1. (IF woCircuit[w] = NoCircuit THEN "deleted" ELSE circuitStatus[woCircuit[w]])
           \in CircuitRow
    BY DEF CircuitRow
  <2> QED
    BY <1>4, <2>1, IdleType DEF LoadForExecute, Session, PC, OperationName, rows
<1>5. ASSUME NEW c \in Circuits, LoadForDeleteCircuit(r, c)
      PROVE  TypeOK'
  BY <1>5, IdleType DEF LoadForDeleteCircuit, Session, PC, OperationName, rows
<1>6. ASSUME RequestFails(r)
      PROVE  TypeOK'
  <2>1. thread[r].order \in Orders
    BY <1>6 DEF RequestFails, InExecute, HasOrder
  <2> QED
    BY <1>6, <2>1, IdleType DEF RequestFails, OrderRow, Loses
<1> QED
  BY <1>1, <1>2, <1>3, <1>4, <1>5, <1>6
  DEF Request, LoadForSubmit, LoadForApprove, LoadForReject, LoadForCancel,
      LoadForDelete, OperationName

LEMMA CommitType ==
  ASSUME TypeOK, NEW r \in Requests, Commit(r)
  PROVE  TypeOK'
<1> USE DEF TypeOK
<1>1. ASSUME NEW op, NEW value \in OrderStatus, CommitStatus(r, op, value)
      PROVE  TypeOK'
  <2>1. \A row \in OrderRow : Flushed(row, thread[r].seen, value) \in OrderRow
    BY FlushedValue DEF OrderRow
  <2> QED
    BY <1>1, <2>1, IdleType DEF CommitStatus
<1>2. ASSUME CommitDelete(r)
      PROVE  TypeOK'
  BY <1>2, IdleType DEF CommitDelete, OrderRow
<1>3. ASSUME CommitProvision(r)
      PROVE  TypeOK'
  <2>1. thread[r] \in Session
    OBVIOUS
  <2>2. MarkedProvisioning(woType[thread[r].order], thread[r].seenCircuit) \in CircuitRow
    BY <2>1, MarkedType DEF Session
  <2>3. \A row \in CircuitRow :
          Flushed(row, thread[r].seenCircuit,
                  MarkedProvisioning(woType[thread[r].order], thread[r].seenCircuit))
            \in CircuitRow
    BY <2>2, FlushedValue
  <2> QED
    BY <1>3, <2>3, IdleType DEF CommitProvision, OrderRow, OrderStatus
<1>4. ASSUME CommitDeleteCircuit(r)
      PROVE  TypeOK'
  BY <1>4, IdleType DEF CommitDeleteCircuit, CircuitRow
<1> QED
  BY <1>1, <1>2, <1>3, <1>4
  DEF Commit, CommitSubmit, CommitApprove, CommitReject, CommitCancel, OrderStatus

\* The state function of the last commit: whatever it writes has its type.
LEMMA FinishType ==
  ASSUME TypeOK, NEW t \in Threads,
         NEW orderValue \in OrderStatus, NEW circuitValue \in CircuitRow,
         Finish(t, orderValue, circuitValue), net' \in [Circuits -> NetState],
         thread[t].order \in Orders
  PROVE  TypeOK'
<1>1. \A row \in OrderRow : Flushed(row, thread[t].seen, orderValue) \in OrderRow
  BY FlushedValue DEF OrderRow
<1>2. \A row \in CircuitRow :
        Flushed(row, thread[t].seenCircuit, circuitValue) \in CircuitRow
  BY FlushedValue
<1>3. woStatus' \in [Orders -> OrderRow] /\ circuitStatus' \in [Circuits -> CircuitRow]
  BY <1>1, <1>2 DEF TypeOK, Finish
<1>4. jobs' \in [Orders -> BOOLEAN]
  BY DEF TypeOK, Finish, Pushing
<1>5. unrecorded' \subseteq Orders /\ lost' \subseteq Orders
  BY DEF TypeOK, Finish, Loses
<1> QED
  BY <1>3, <1>4, <1>5, IdleType DEF TypeOK, Finish

LEMMA WorkerType ==
  ASSUME TypeOK, HasOrder, NEW t \in Workers, WorkerStep(t)
  PROVE  TypeOK'
<1>1. ASSUME NEW w \in Orders, Dispatch(t, w)
      PROVE  TypeOK'
  BY <1>1, IdleType DEF TypeOK, Dispatch, Session, PC, rows
<1>2. ASSUME Claim(t)
      PROVE  TypeOK'
  <2> DEFINE w == thread[t].order
             c == IF woCircuit[w] = NoCircuit THEN "deleted"
                  ELSE circuitStatus[woCircuit[w]]
  <2>1. w \in Orders
    BY <1>2 DEF Claim, HasOrder
  <2>2. c \in CircuitRow
    BY <2>1 DEF TypeOK, CircuitRow
  <2>3. woCircuit[w] \in Circuits \union {NoCircuit}
    BY <2>1 DEF TypeOK
  <2>4. thread[t] \in Session
    BY DEF TypeOK
  <2>5. [thread[t] EXCEPT !.pc = "claimed", !.circuit = woCircuit[w],
                          !.seen = "running", !.seenCircuit = c] \in Session
    BY <2>2, <2>3, <2>4 DEF Session, PC, OrderRow, OrderStatus
  <2>6. thread' \in [Threads -> Session]
    BY <1>2, <2>5 DEF TypeOK, Claim
  <2> QED
    BY <1>2, <2>6 DEF TypeOK, Claim, OrderRow, OrderStatus
<1>3. ASSUME ClaimLost(t)
      PROVE  TypeOK'
  BY <1>3, IdleType DEF TypeOK, ClaimLost, rows
<1>4. ASSUME AcquireLocks(t)
      PROVE  TypeOK'
  BY <1>4 DEF TypeOK, AcquireLocks, Session, PC, rows
<1>5. ASSUME WorkerCatches(t)
      PROVE  TypeOK'
  <2>1. thread[t].order \in Orders
    BY <1>5 DEF WorkerCatches, InExecute, HasOrder
  <2> QED
    BY <1>5, <2>1, FinishType DEF TypeOK, WorkerCatches, OrderStatus, CircuitRow
<1> QED
  BY <1>1, <1>2, <1>3, <1>4, <1>5 DEF WorkerStep

LEMMA LostType ==
  ASSUME TypeOK, HasOrder, NEW t \in Workers, SessionLost(t)
  PROVE  TypeOK'
<1>1. thread[t].order \in Orders
  BY DEF SessionLost, Executing, InExecute, HasOrder
<1> QED
  BY <1>1, IdleType DEF TypeOK, SessionLost, Loses, rows

LEMMA ExecuteType ==
  ASSUME TypeOK, HasOrder, NEW t \in Threads, Execute(t)
  PROVE  TypeOK'
<1>0. thread[t].order \in Orders
  BY DEF Execute, ExecuteWithoutCircuit, ExecuteAdopted, PreflightFails, StartExecution, StartAborted,
     StartFindsNoCircuit, BeginPush, BeginPushAborted, PushSucceeds, PushFails, Pushing, HasOrder
<1>1. ASSUME ExecuteWithoutCircuit(t)
      PROVE  TypeOK'
  <2>1. \A row \in OrderRow : Flushed(row, thread[t].seen, "failed") \in OrderRow
    BY FlushedValue DEF OrderRow, OrderStatus
  <2> QED
    BY <1>1, <2>1, IdleType DEF TypeOK, ExecuteWithoutCircuit
<1>2. CASE ExecuteAdopted(t)
  BY <1>0, <1>2, FinishType
  DEF TypeOK, ExecuteAdopted, SuccessStatus, OrderStatus, CircuitRow
<1>3. CASE PreflightFails(t)
  BY <1>0, <1>3, FinishType DEF TypeOK, PreflightFails, OrderStatus, CircuitRow
<1>4. ASSUME StartExecution(t)
      PROVE  TypeOK'
  <2> DEFINE s == thread[t]
             marked == MarkedProvisioning(woType[s.order], s.seenCircuit)
  <2>1. s \in Session /\ s.circuit \in Circuits /\ s.order \in Orders
    BY <1>4 DEF TypeOK, StartExecution, HasOrder
  <2>2. \A row \in OrderRow : Flushed(row, s.seen, "running") \in OrderRow
    BY FlushedValue DEF OrderRow, OrderStatus
  <2>3. marked \in CircuitRow
    BY <2>1, MarkedType DEF Session
  <2>4. \A row \in CircuitRow : Flushed(row, s.seenCircuit, marked) \in CircuitRow
    BY <2>3, FlushedValue
  <2>5. woStatus' \in [Orders -> OrderRow] /\ circuitStatus' \in [Circuits -> CircuitRow]
    BY <1>4, <2>2, <2>4 DEF TypeOK, StartExecution
  <2> HIDE DEF marked
  <2>6. thread' \in [Threads -> Session]
    <3>1. [s EXCEPT !.pc = "started", !.seen = woStatus'[s.order],
                    !.seenCircuit = circuitStatus'[s.circuit]] \in Session
      BY <2>1, <2>5 DEF Session, PC
    <3> QED
      BY <1>4, <3>1 DEF TypeOK, StartExecution
  <2> QED
    BY <1>4, <2>5, <2>6 DEF TypeOK, StartExecution
<1>5. CASE StartAborted(t)
  BY <1>0, <1>5, IdleType DEF TypeOK, StartAborted, Loses, rows
<1>6. ASSUME StartFindsNoCircuit(t)
      PROVE  TypeOK'
  <2>1. \A row \in OrderRow : Flushed(row, thread[t].seen, "running") \in OrderRow
    BY FlushedValue DEF OrderRow, OrderStatus
  <2> QED
    BY <1>0, <1>6, <2>1, IdleType DEF TypeOK, StartFindsNoCircuit, Loses, OrderRow, OrderStatus
<1>7. CASE BeginPush(t)
  <2>1. \A u \in Threads : thread'[u] \in Session
    <3>1. ASSUME NEW s \in Session, NEW b \in BOOLEAN
          PROVE  /\ [s EXCEPT !.pc = "pushing", !.mixed = b] \in Session
                 /\ [s EXCEPT !.mixed = TRUE] \in Session
      BY DEF Session, PC
    <3> QED
      BY <1>7, <3>1 DEF TypeOK, BeginPush
  <2>2. thread' \in [Threads -> Session]
    BY <1>7, <2>1 DEF BeginPush
  <2> QED
    BY <1>0, <1>7, <2>2 DEF TypeOK, BeginPush, NetState, rows
<1>8. CASE BeginPushAborted(t)
  BY <1>0, <1>8, IdleType DEF TypeOK, BeginPushAborted, Loses, rows
<1>9. ASSUME PushSucceeds(t)
      PROVE  TypeOK'
  <2>1. net' \in [Circuits -> NetState]
    BY <1>9 DEF TypeOK, PushSucceeds, Leaves, NetState
  <2> QED
    BY <1>0, <1>9, <2>1, FinishType DEF PushSucceeds, SuccessStatus, OrderStatus, CircuitRow
<1>10. ASSUME PushFails(t)
       PROVE  TypeOK'
  <2>1. net' \in [Circuits -> NetState]
    BY <1>10 DEF TypeOK, PushFails, Leaves
  <2> QED
    BY <1>0, <1>10, <2>1, FinishType DEF PushFails, OrderStatus, CircuitRow
<1> QED
  BY <1>1, <1>2, <1>3, <1>4, <1>5, <1>6, <1>7, <1>8, <1>9, <1>10 DEF Execute

LEMMA CrashType ==
  ASSUME TypeOK, NEW n \in Nodes, Crash(n) \/ Restart(n)
  PROVE  TypeOK'
<1>1. CASE Crash(n)
  BY <1>1, IdleType, SettingsAssumption DEF TypeOK, Crash, OrderRow
<1>2. CASE Restart(n)
  <2>1. woStatus' \in [Orders -> OrderRow]
    BY <1>2 DEF TypeOK, Restart, RecoveredStatus, OrderRow, OrderStatus
  <2>2. circuitStatus' \in [Circuits -> CircuitRow]
    BY <1>2 DEF TypeOK, Restart, CircuitRow
  <2> QED
    BY <1>2, <2>1, <2>2 DEF TypeOK, Restart
<1> QED
  BY <1>1, <1>2

LEMMA HasOrderStep ==
  ASSUME TypeOK, HasOrder, Next
  PROVE  HasOrder'
<1>1. ASSUME NEW t \in Threads, NEW s, thread' = [thread EXCEPT ![t] = s],
             \/ s.pc = "idle"
             \/ s.pc = "loaded" /\ s.op = "delete_circuit"
             \/ s.order \in Orders
      PROVE  HasOrder'
  BY <1>1 DEF HasOrder, TypeOK
<1>2. ASSUME NEW t \in Threads, thread' = [thread EXCEPT ![t] = Idle]
      PROVE  HasOrder'
  BY <1>1, <1>2 DEF Idle
<1>3. ASSUME NEW r \in Requests, Request(r)
      PROVE  HasOrder'
  <2>1. ASSUME NEW w \in Orders, NEW c \in Circuits, NEW type \in OrderType,
               CreateWorkOrder(r, w, c, type)
        PROVE  HasOrder'
    BY <2>1 DEF CreateWorkOrder, HasOrder
  <2>2. ASSUME NEW w \in Orders, NEW c \in Circuits, NEW type \in OrderType,
               LoadForProvision(r, w, c, type)
        PROVE  HasOrder'
    <3>1. thread'[r].order = w
      BY <2>2 DEF LoadForProvision, Idle, TypeOK
    <3>2. \A u \in Threads \ {r} : thread'[u] = thread[u]
      BY <2>2 DEF LoadForProvision, TypeOK
    <3> QED
      BY <3>1, <3>2 DEF HasOrder
  <2>3. ASSUME NEW w \in Orders, NEW op, NEW refused, LoadOrder(r, op, w, refused)
        PROVE  HasOrder'
    BY <1>1, <2>3 DEF LoadOrder, Idle
  <2>4. ASSUME NEW w \in Orders, LoadForExecute(r, w)
        PROVE  HasOrder'
    <3>1. thread'[r].order = w
      BY <2>4 DEF LoadForExecute, Idle, TypeOK
    <3>2. \A u \in Threads \ {r} : thread'[u] = thread[u]
      BY <2>4 DEF LoadForExecute, TypeOK
    <3> QED
      BY <3>1, <3>2 DEF HasOrder
  <2>5. ASSUME NEW c \in Circuits, LoadForDeleteCircuit(r, c)
        PROVE  HasOrder'
    BY <1>1, <2>5 DEF LoadForDeleteCircuit, Idle
  <2>6. CASE RequestFails(r)
    BY <1>2, <2>6 DEF RequestFails
  <2> QED
    BY <1>3, <2>1, <2>2, <2>3, <2>4, <2>5, <2>6
    DEF Request, LoadForSubmit, LoadForApprove, LoadForReject, LoadForCancel,
        LoadForDelete
<1>4. ASSUME NEW r \in Requests, Commit(r)
      PROVE  HasOrder'
  BY <1>2, <1>4
  DEF Commit, CommitSubmit, CommitApprove, CommitReject, CommitCancel,
      CommitStatus, CommitDelete, CommitProvision, CommitDeleteCircuit
<1>5. ASSUME NEW t \in Workers, WorkerStep(t)
      PROVE  HasOrder'
  <2>1. ASSUME NEW w \in Orders, Dispatch(t, w)
        PROVE  HasOrder'
    BY <1>1, <2>1 DEF Dispatch, Idle
  <2>2. CASE Claim(t)
    <3>1. thread[t].order \in Orders
      BY <2>2 DEF Claim, HasOrder
    <3>2. thread[t] \in Session
      BY DEF TypeOK
    <3>3. [thread[t] EXCEPT !.pc = "claimed", !.circuit = woCircuit[thread[t].order],
             !.seen = "running",
             !.seenCircuit = IF woCircuit[thread[t].order] = NoCircuit THEN "deleted"
                             ELSE circuitStatus[woCircuit[thread[t].order]]].order
            \in Orders
      BY <3>1, <3>2 DEF Session
    <3> QED
      BY <1>1, <2>2, <3>3 DEF Claim
  <2>3. CASE AcquireLocks(t)
    BY <2>3 DEF AcquireLocks, HasOrder, TypeOK, Session
  <2> QED
    BY <1>2, <1>5, <2>1, <2>2, <2>3
    DEF WorkerStep, ClaimLost, WorkerCatches, Finish
<1>8. ASSUME NEW t \in Workers, SessionLost(t)
       PROVE  HasOrder'
  BY <1>2, <1>8 DEF SessionLost
<1>6. ASSUME NEW t \in Threads, Execute(t)
      PROVE  HasOrder'
  <2>1. CASE StartExecution(t)
    <3>1. thread[t].order \in Orders
      BY <2>1 DEF StartExecution, HasOrder
    <3>2. thread[t] \in Session
      BY DEF TypeOK
    <3>3. [thread[t] EXCEPT !.pc = "started", !.seen = woStatus'[thread[t].order],
             !.seenCircuit = circuitStatus'[thread[t].circuit]].order \in Orders
      BY <3>1, <3>2 DEF Session
    <3> QED
      BY <1>1, <2>1, <3>3 DEF StartExecution
  <2>2. CASE BeginPush(t)
    <3>1. \A u \in Threads : thread[u] \in Session
      BY DEF TypeOK
    <3>2. \A u \in Threads : thread'[u].order = thread[u].order
      BY <2>2, <3>1 DEF BeginPush, Session
    <3>3. \A u \in Threads \ {t} : /\ thread'[u].pc = thread[u].pc
                                  /\ thread'[u].op = thread[u].op
      BY <2>2, <3>1 DEF BeginPush, Session
    <3>4. thread[t].order \in Orders
      BY <2>2 DEF BeginPush, HasOrder
    <3> QED
      BY <3>2, <3>3, <3>4 DEF HasOrder
  <2> QED
    BY <1>2, <1>6, <2>1, <2>2
    DEF Execute, ExecuteWithoutCircuit, ExecuteAdopted, PreflightFails,
        StartAborted, StartFindsNoCircuit, BeginPushAborted, PushSucceeds,
        PushFails, Finish
<1>7. ASSUME NEW n \in Nodes, Crash(n) \/ Restart(n)
      PROVE  HasOrder'
  BY <1>7 DEF Crash, Restart, HasOrder, Idle, TypeOK
<1> QED
  BY <1>3, <1>4, <1>5, <1>8, <1>6, <1>7 DEF Next

\* What the type of a session rests on: the order it works on exists.
TypeInv == TypeOK /\ HasOrder

LEMMA TypeInvariant == Spec => []TypeInv
<1>1. Init => TypeInv
  BY InitType DEF Init, TypeInv, HasOrder, Idle
<1>2. TypeInv /\ [Next]_vars => TypeInv'
  <2> SUFFICES ASSUME TypeInv, [Next]_vars PROVE TypeInv'
    OBVIOUS
  <2>1. CASE UNCHANGED vars
    BY <2>1 DEF TypeInv, TypeOK, HasOrder, vars
  <2>2. CASE Next
    BY <2>2, HasOrderStep, RequestType, CommitType, WorkerType, LostType, ExecuteType, CrashType
    DEF Next, TypeInv
  <2> QED
    BY <2>1, <2>2
<1> QED
  BY <1>1, <1>2, PTL DEF Spec

\* Every variable keeps its type: no handler, execution or recovery writes a
\* status of the wrong kind, whatever interleaving it is part of.
THEOREM TypeCorrect == Spec => []TypeOK
  BY TypeInvariant, PTL DEF TypeInv

-----------------------------------------------------------------------------
(***************************************************************************)
(* An order is never in the hands of two executions.  The statement is     *)
(* about deployments that execute orders in workers only, and in which no  *)
(* process restarts beside a running one: both restrictions are needed,    *)
(* MCProvisioning has the behaviours that violate it without them.         *)
(***************************************************************************)
WorkerOnly == AsyncProvisioning = TRUE /\ "execute" \notin Operations
RestartsAlone == MaxCrashes = 0 \/ \A n, m \in Nodes : n = m

NotThere == {"absent", "uncommitted"}
ByStatus == {"submit", "approve", "reject", "cancel", "delete"}

\* Request threads never get into orchestrator.execute.
RequestsOnlyCommit == \A r \in Requests : thread[r].pc \in {"idle", "loaded"}

\* What the claim achieves: an order in execution is not on offer.
ExecutedIsTaken ==
  \A t \in Workers : Executing(t) =>
    woStatus[thread[t].order] \notin NotThere \union {"scheduled"}

\* A handler writes the status of a committed row, ...
LoadedExists ==
  \A r \in Requests : thread[r].pc = "loaded" /\ thread[r].op \in ByStatus =>
    woStatus[thread[r].order] \notin NotThere

\* ... and only its own session queues a new order.
OwnUncommitted ==
  \A r \in Requests : thread[r].pc = "loaded" /\ thread[r].op = "provision" =>
    /\ woStatus[thread[r].order] = "uncommitted"
    /\ \A q \in Requests : /\ thread[q].pc = "loaded" /\ thread[q].op = "provision"
                           /\ thread[q].order = thread[r].order
                           => q = r

\* A restart finds no thread of its process at work.
DownIdle ==
  /\ crashes = 0 => \A n \in Nodes : up[n]
  /\ \A t \in Threads : ~up[NodeOf[t]] => thread[t].pc = "idle"

ExecInv ==
  /\ TypeInv
  /\ RequestsOnlyCommit
  /\ ExecutedIsTaken
  /\ LoadedExists
  /\ OwnUncommitted
  /\ DownIdle
  /\ AtMostOneExecution

\* The changes to work_orders that every run and every handler may make.
OrdersAdvance ==
  \A v \in Orders : woStatus'[v] # woStatus[v] =>
    /\ woStatus[v] \notin NotThere
    /\ woStatus'[v] \notin NotThere \union {"scheduled"}

\* A thread is done with its order.
LEMMA ReturnStep ==
  ASSUME ExecInv, TypeInv', NEW t \in Threads,
         thread' = [thread EXCEPT ![t] = Idle],
         OrdersAdvance, UNCHANGED <<up, crashes>>
  PROVE  ExecInv'
<1>1. thread'[t].pc = "idle" /\ \A u \in Threads \ {t} : thread'[u] = thread[u]
  BY DEF ExecInv, TypeInv, TypeOK, Idle
<1>2. RequestsOnlyCommit'
  BY <1>1 DEF ExecInv, RequestsOnlyCommit
<1>3. \A u \in Threads : Executing(u)' => u # t /\ Executing(u)
  BY <1>1 DEF Executing, InExecute
<1>4. \A u \in Threads : Executing(u) => thread[u].order \in Orders
  BY DEF Executing, InExecute, ExecInv, TypeInv, HasOrder
<1>5. ExecutedIsTaken'
  BY <1>1, <1>3, <1>4 DEF ExecInv, ExecutedIsTaken, OrdersAdvance
<1>6. AtMostOneExecution'
  BY <1>1, <1>3 DEF ExecInv, AtMostOneExecution
<1>7. \A r \in Requests : thread'[r].pc = "loaded" =>
        thread'[r] = thread[r] /\ (thread[r].op # "delete_circuit" => thread[r].order \in Orders)
  BY <1>1 DEF ExecInv, TypeInv, HasOrder
<1>8. LoadedExists'
  BY <1>7 DEF ExecInv, LoadedExists, ByStatus, OrdersAdvance
<1>9. OwnUncommitted'
  BY <1>7 DEF ExecInv, OwnUncommitted, OrdersAdvance, NotThere
<1>10. DownIdle'
  BY <1>1 DEF ExecInv, DownIdle
<1> QED
  BY <1>2, <1>5, <1>6, <1>8, <1>9, <1>10 DEF ExecInv

\* An execution goes on with the order it has.
LEMMA ProceedStep ==
  ASSUME ExecInv, TypeInv',
         \A u \in Threads :
           /\ thread'[u].order = thread[u].order
           /\ thread'[u].op = thread[u].op
           /\ \/ thread'[u].pc = thread[u].pc
              \/ Executing(u) /\ Executing(u)' /\ up[NodeOf[u]],
         OrdersAdvance, UNCHANGED <<up, crashes>>
  PROVE  ExecInv'
<1>1. \A u \in Threads : Executing(u)' <=> Executing(u)
  BY DEF Executing, InExecute
<1>2. \A u \in Threads : Executing(u) => u \in Workers /\ thread[u].order \in Orders
  BY DEF Executing, InExecute, ExecInv, TypeInv, HasOrder, RequestsOnlyCommit
<1>3. \A r \in Requests : thread'[r].pc = thread[r].pc
  BY <1>2, ThreadAssumption
<1>4. RequestsOnlyCommit'
  BY <1>3 DEF ExecInv, RequestsOnlyCommit
<1>5. ExecutedIsTaken'
  BY <1>1, <1>2 DEF ExecInv, ExecutedIsTaken, OrdersAdvance
<1>6. AtMostOneExecution'
  BY <1>1 DEF ExecInv, AtMostOneExecution
<1>7. \A r \in Requests : thread[r].pc = "loaded" /\ thread[r].op # "delete_circuit" =>
        thread[r].order \in Orders
  BY DEF ExecInv, TypeInv, HasOrder
<1>8. LoadedExists'
  BY <1>3, <1>7 DEF ExecInv, LoadedExists, ByStatus, OrdersAdvance
<1>9. OwnUncommitted'
  BY <1>3, <1>7 DEF ExecInv, OwnUncommitted, OrdersAdvance, NotThere
<1>10. DownIdle'
  BY DEF ExecInv, DownIdle
<1> QED
  BY <1>4, <1>5, <1>6, <1>8, <1>9, <1>10 DEF ExecInv
\* A thread takes up an order that exists, or a circuit.
LEMMA LoadStep ==
  ASSUME ExecInv, TypeInv', NEW t \in Threads, up[NodeOf[t]],
         \A u \in Threads \ {t} : thread'[u] = thread[u],
         \/ t \in Requests /\ thread'[t].pc = "loaded" /\ thread'[t].op # "provision"
         \/ t \in Workers /\ thread'[t].pc = "dispatched",
         thread'[t].op \in ByStatus => woStatus[thread'[t].order] \notin NotThere,
         UNCHANGED <<woStatus, up, crashes>>
  PROVE  ExecInv'
<1>1. \A u \in Threads : Executing(u)' => u # t /\ Executing(u)
  BY DEF Executing, InExecute
<1>2. RequestsOnlyCommit'
  BY ThreadAssumption DEF ExecInv, RequestsOnlyCommit
<1>3. ExecutedIsTaken' /\ AtMostOneExecution'
  BY <1>1 DEF ExecInv, ExecutedIsTaken, AtMostOneExecution
<1>4. LoadedExists'
  BY ThreadAssumption DEF ExecInv, LoadedExists
<1>5. OwnUncommitted'
  BY ThreadAssumption DEF ExecInv, OwnUncommitted
<1>6. DownIdle'
  BY DEF ExecInv, DownIdle
<1> QED
  BY <1>2, <1>3, <1>4, <1>5, <1>6 DEF ExecInv

LEMMA RequestExec ==
  ASSUME WorkerOnly, ExecInv, TypeInv', NEW r \in Requests, Request(r)
  PROVE  ExecInv'
<1> USE DEF ExecInv
<1>1. \A u \in Threads : Executing(u) => thread[u].order \in Orders
  BY DEF Executing, InExecute, TypeInv, HasOrder
<1>2. ASSUME NEW w \in Orders, NEW c \in Circuits, NEW type \in OrderType,
             CreateWorkOrder(r, w, c, type)
      PROVE  ExecInv'
  <2>1. /\ woStatus[w] \in NotThere /\ woStatus[w] # "uncommitted"
        /\ woStatus'[w] = "draft"
        /\ \A v \in Orders \ {w} : woStatus'[v] = woStatus[v]
        /\ UNCHANGED <<thread, up, crashes>>
    BY <1>2 DEF CreateWorkOrder, NextId, NotThere, TypeInv, TypeOK
  <2>2. \A q \in Requests : thread[q].pc = "loaded" /\ thread[q].op # "delete_circuit" =>
          thread[q].order \in Orders
    BY DEF TypeInv, HasOrder
  <2>3. ExecutedIsTaken' /\ AtMostOneExecution'
    BY <1>1, <2>1 DEF ExecutedIsTaken, AtMostOneExecution, Executing, InExecute
  <2>4. LoadedExists' /\ OwnUncommitted'
    BY <2>1, <2>2 DEF LoadedExists, OwnUncommitted, ByStatus, NotThere
  <2> QED
    BY <2>1, <2>3, <2>4 DEF RequestsOnlyCommit, DownIdle
<1>3. ASSUME NEW w \in Orders, NEW c \in Circuits, NEW type \in OrderType,
             LoadForProvision(r, w, c, type)
      PROVE  ExecInv'
  <2>1. /\ woStatus[w] = "absent" /\ woStatus'[w] = "uncommitted"
        /\ \A v \in Orders \ {w} : woStatus'[v] = woStatus[v]
        /\ UNCHANGED <<up, crashes>> /\ up[NodeOf[r]]
    BY <1>3 DEF LoadForProvision, NextId, CanServe, TypeInv, TypeOK
  <2>2. /\ thread'[r].pc = "loaded" /\ thread'[r].op = "provision"
        /\ thread'[r].order = w
        /\ \A u \in Threads \ {r} : thread'[u] = thread[u]
    BY <1>3 DEF LoadForProvision, TypeInv, TypeOK, Idle, WorkerOnly
  <2>3. \A q \in Requests : thread[q].pc = "loaded" /\ thread[q].op # "delete_circuit" =>
          thread[q].order \in Orders
    BY DEF TypeInv, HasOrder
  <2>4. \A u \in Threads : Executing(u)' => u # r /\ Executing(u)
    BY <2>2 DEF Executing, InExecute
  <2>5. ExecutedIsTaken' /\ AtMostOneExecution'
    BY <1>1, <2>1, <2>2, <2>4 DEF ExecutedIsTaken, AtMostOneExecution, NotThere
  <2>6. LoadedExists' /\ OwnUncommitted'
    BY <2>1, <2>2, <2>3 DEF LoadedExists, OwnUncommitted, ByStatus, NotThere
  <2> QED
    BY <2>1, <2>2, <2>5, <2>6 DEF RequestsOnlyCommit, DownIdle
<1>4. ASSUME NEW w \in Orders, NEW op \in ByStatus, NEW refused,
             LoadOrder(r, op, w, refused)
      PROVE  ExecInv'
  <2>1. /\ thread'[r].pc = "loaded" /\ thread'[r].op = op /\ thread'[r].order = w
        /\ \A u \in Threads \ {r} : thread'[u] = thread[u]
        /\ UNCHANGED <<woStatus, up, crashes>> /\ up[NodeOf[r]]
    BY <1>4 DEF LoadOrder, CanServe, Idle, TypeInv, TypeOK, rows
  <2>2. woStatus[w] \notin NotThere
    BY <1>4 DEF LoadOrder, Visible, NotThere, OrderStatus
  <2> QED
    BY <2>1, <2>2, LoadStep DEF ByStatus
<1>5. ASSUME NEW c \in Circuits, LoadForDeleteCircuit(r, c)
      PROVE  ExecInv'
  <2>1. /\ thread'[r].pc = "loaded" /\ thread'[r].op = "delete_circuit"
        /\ \A u \in Threads \ {r} : thread'[u] = thread[u]
        /\ UNCHANGED <<woStatus, up, crashes>> /\ up[NodeOf[r]]
    BY <1>5 DEF LoadForDeleteCircuit, CanServe, Idle, TypeInv, TypeOK, rows
  <2> QED
    BY <2>1, LoadStep DEF ByStatus
<1>6. ~RequestFails(r)
  BY DEF RequestFails, RequestsOnlyCommit, InExecute
<1>7. ASSUME NEW w \in Orders PROVE ~LoadForExecute(r, w)
  BY DEF LoadForExecute, CanServe, WorkerOnly
<1> QED
  BY <1>2, <1>3, <1>4, <1>5, <1>6, <1>7
  DEF Request, LoadForSubmit, LoadForApprove, LoadForReject, LoadForCancel,
      LoadForDelete, ByStatus

LEMMA CommitExec ==
  ASSUME ExecInv, TypeInv', NEW r \in Requests, Commit(r)
  PROVE  ExecInv'
<1> USE DEF ExecInv
<1>1. ASSUME NEW op \in ByStatus, NEW value,
             value \notin NotThere \union {"scheduled"}, CommitStatus(r, op, value)
      PROVE  ExecInv'
  <2>1. woStatus[thread[r].order] \notin NotThere
    BY <1>1 DEF CommitStatus, LoadedExists
  <2>2. OrdersAdvance
    BY <1>1, <2>1 DEF CommitStatus, OrdersAdvance, Flushed, TypeInv, TypeOK
  <2> QED
    BY <1>1, <2>2, ReturnStep DEF CommitStatus
<1>2. ASSUME CommitDelete(r)
      PROVE  ExecInv'
  <2>1. woStatus[thread[r].order] \notin NotThere
    BY <1>2 DEF CommitDelete, LoadedExists, ByStatus
  <2>2. OrdersAdvance
    BY <1>2, <2>1 DEF CommitDelete, OrdersAdvance, NotThere, TypeInv, TypeOK
  <2> QED
    BY <1>2, <2>2, ReturnStep DEF CommitDelete
<1>3. ASSUME CommitDeleteCircuit(r)
      PROVE  ExecInv'
  BY <1>3, ReturnStep DEF CommitDeleteCircuit, OrdersAdvance
<1>4. ASSUME CommitProvision(r)
      PROVE  ExecInv'
  <2> DEFINE w == thread[r].order
  <2>1. /\ thread[r].pc = "loaded" /\ thread[r].op = "provision"
        /\ w \in Orders /\ woStatus[w] = "uncommitted"
        /\ woStatus'[w] = "scheduled"
        /\ \A v \in Orders \ {w} : woStatus'[v] = woStatus[v]
        /\ UNCHANGED <<up, crashes>>
    BY <1>4 DEF CommitProvision, OwnUncommitted, TypeInv, TypeOK, HasOrder
  <2>2. /\ thread'[r].pc = "idle"
        /\ \A u \in Threads \ {r} : thread'[u] = thread[u]
    BY <1>4 DEF CommitProvision, TypeInv, TypeOK, Idle
  <2>3. \A u \in Threads : Executing(u)' =>
          u # r /\ Executing(u) /\ thread[u].order \in Orders
    BY <2>2 DEF Executing, InExecute, TypeInv, HasOrder
  <2>4. \A u \in Threads : Executing(u)' => thread[u].order # w
    BY <2>1, <2>3 DEF ExecutedIsTaken, NotThere, RequestsOnlyCommit, Executing, InExecute
  <2>5. ExecutedIsTaken' /\ AtMostOneExecution'
    BY <2>1, <2>2, <2>3, <2>4 DEF ExecutedIsTaken, AtMostOneExecution
  <2>6. \A q \in Requests : thread'[q].pc = "loaded" /\ thread'[q].op # "delete_circuit" =>
          q # r /\ thread[q].order \in Orders
    BY <2>2 DEF TypeInv, HasOrder
  <2>7. LoadedExists'
    BY <2>1, <2>2, <2>6 DEF LoadedExists, ByStatus, NotThere
  <2>8. OwnUncommitted'
    BY <2>1, <2>2, <2>6 DEF OwnUncommitted
  <2> QED
    BY <2>1, <2>2, <2>5, <2>7, <2>8 DEF RequestsOnlyCommit, DownIdle
<1> QED
  BY <1>1, <1>2, <1>3, <1>4
  DEF Commit, CommitSubmit, CommitApprove, CommitReject, CommitCancel, ByStatus,
      NotThere
\* The last commit of an execution.
LEMMA FinishExec ==
  ASSUME ExecInv, TypeInv', NEW t \in Threads, Executing(t),
         NEW orderValue \in {"completed", "failed"}, NEW circuitValue,
         Finish(t, orderValue, circuitValue)
  PROVE  ExecInv'
<1>1. t \in Workers /\ thread[t].order \in Orders
  BY DEF ExecInv, Executing, InExecute, TypeInv, HasOrder, RequestsOnlyCommit
<1>2. woStatus[thread[t].order] \notin NotThere
  BY <1>1 DEF ExecInv, ExecutedIsTaken
<1>3. OrdersAdvance
  BY <1>1, <1>2
  DEF Finish, OrdersAdvance, Flushed, NotThere, ExecInv, TypeInv, TypeOK
<1> QED
  BY <1>3, ReturnStep DEF Finish

LEMMA WorkerExec ==
  ASSUME ExecInv, TypeInv', NEW t \in Workers, WorkerStep(t)
  PROVE  ExecInv'
<1> USE DEF ExecInv
<1>1. ASSUME NEW w \in Orders, Dispatch(t, w)
      PROVE  ExecInv'
  <2>1. /\ thread'[t].pc = "dispatched" /\ thread'[t].op = "worker"
        /\ \A u \in Threads \ {t} : thread'[u] = thread[u]
        /\ UNCHANGED <<woStatus, up, crashes>> /\ up[NodeOf[t]]
    BY <1>1 DEF Dispatch, Idle, TypeInv, TypeOK, rows
  <2> QED
    BY <2>1, LoadStep DEF ByStatus
<1>2. ASSUME Claim(t)
      PROVE  ExecInv'
  <2> DEFINE w == thread[t].order
  <2>1. /\ thread[t].pc = "dispatched" /\ w \in Orders
        /\ woStatus[w] = "scheduled" /\ woStatus'[w] = "running"
        /\ \A v \in Orders \ {w} : woStatus'[v] = woStatus[v]
        /\ UNCHANGED <<up, crashes>>
    BY <1>2 DEF Claim, TypeInv, TypeOK, HasOrder
  <2>2. /\ thread'[t].pc = "claimed" /\ thread'[t].order = w
        /\ \A u \in Threads \ {t} : thread'[u] = thread[u]
    BY <1>2 DEF Claim, TypeInv, TypeOK, Session
  <2>3. \A u \in Threads \ {t} : Executing(u)' =>
          /\ Executing(u) /\ thread'[u].order = thread[u].order
          /\ thread[u].order \in Orders \ {w}
    BY <2>1, <2>2 DEF Executing, InExecute, TypeInv, HasOrder, ExecutedIsTaken,
       RequestsOnlyCommit
  <2>4. ExecutedIsTaken'
    BY <2>1, <2>2, <2>3 DEF ExecutedIsTaken, NotThere
  <2>5. AtMostOneExecution'
    BY <2>2, <2>3 DEF AtMostOneExecution
  <2>6. \A r \in Requests : thread'[r] = thread[r]
    BY <2>2, ThreadAssumption
  <2>7. \A q \in Requests : thread[q].pc = "loaded" /\ thread[q].op # "delete_circuit" =>
          thread[q].order \in Orders
    BY DEF TypeInv, HasOrder
  <2>8. LoadedExists' /\ OwnUncommitted'
    BY <2>1, <2>6, <2>7 DEF LoadedExists, OwnUncommitted, ByStatus, NotThere
  <2>9. DownIdle'
    BY <2>1, <2>2 DEF DownIdle
  <2> QED
    BY <2>4, <2>5, <2>6, <2>8, <2>9 DEF RequestsOnlyCommit
<1>3. CASE ClaimLost(t)
  BY <1>3, ReturnStep DEF ClaimLost, OrdersAdvance, rows
<1>4. ASSUME AcquireLocks(t)
      PROVE  ExecInv'
  <2>1. Executing(t) /\ Executing(t)' /\ up[NodeOf[t]]
    BY <1>4 DEF AcquireLocks, Executing, InExecute, TypeInv, TypeOK, Session, DownIdle
  <2>2. \A u \in Threads : /\ thread'[u].order = thread[u].order
                           /\ thread'[u].op = thread[u].op
                           /\ u # t => thread'[u].pc = thread[u].pc
    BY <1>4 DEF AcquireLocks, TypeInv, TypeOK, Session
  <2> QED
    BY <1>4, <2>1, <2>2, ProceedStep DEF AcquireLocks, OrdersAdvance, rows
<1>5. CASE WorkerCatches(t)
  BY <1>5, FinishExec DEF WorkerCatches, Executing
<1> QED
  BY <1>1, <1>2, <1>3, <1>4, <1>5 DEF WorkerStep

LEMMA LostExec ==
  ASSUME ExecInv, TypeInv', NEW t \in Workers, SessionLost(t)
  PROVE  ExecInv'
BY ReturnStep DEF SessionLost, OrdersAdvance, rows

LEMMA ExecuteExec ==
  ASSUME ExecInv, TypeInv', NEW t \in Threads, Execute(t)
  PROVE  ExecInv'
<1> USE DEF ExecInv
<1>1. Executing(t)
  BY DEF Execute, ExecuteWithoutCircuit, ExecuteAdopted, PreflightFails,
     StartExecution, StartAborted, StartFindsNoCircuit, BeginPush,
     BeginPushAborted, PushSucceeds, PushFails, Pushing, Executing, InExecute
<1>2. /\ t \in Workers /\ thread[t].order \in Orders /\ up[NodeOf[t]]
      /\ woStatus[thread[t].order] \notin NotThere
  BY <1>1 DEF Executing, InExecute, TypeInv, TypeOK, HasOrder, RequestsOnlyCommit,
     ExecutedIsTaken, DownIdle
<1>3. CASE ExecuteWithoutCircuit(t)
  <2>1. OrdersAdvance
    BY <1>2, <1>3 DEF ExecuteWithoutCircuit, OrdersAdvance, Flushed, NotThere,
       TypeInv, TypeOK
  <2> QED
    BY <1>3, <2>1, ReturnStep DEF ExecuteWithoutCircuit
<1>4. CASE ExecuteAdopted(t)
  BY <1>1, <1>4, FinishExec DEF ExecuteAdopted
<1>5. CASE PreflightFails(t)
  BY <1>1, <1>5, FinishExec DEF PreflightFails
<1>6. CASE StartExecution(t)
  <2>1. OrdersAdvance
    BY <1>2, <1>6 DEF StartExecution, OrdersAdvance, Flushed, NotThere, TypeInv, TypeOK
  <2>2. /\ thread'[t].pc = "started"
        /\ \A u \in Threads : /\ thread'[u].order = thread[u].order
                              /\ thread'[u].op = thread[u].op
                              /\ u # t => thread'[u].pc = thread[u].pc
    BY <1>6 DEF StartExecution, TypeInv, TypeOK, Session
  <2> QED
    BY <1>1, <1>2, <1>6, <2>1, <2>2, ProceedStep
    DEF StartExecution, Executing, InExecute
<1>7. CASE StartAborted(t)
  BY <1>7, ReturnStep DEF StartAborted, OrdersAdvance, rows
<1>8. CASE StartFindsNoCircuit(t)
  <2>1. OrdersAdvance
    BY <1>2, <1>8 DEF StartFindsNoCircuit, OrdersAdvance, Flushed, NotThere,
       TypeInv, TypeOK
  <2> QED
    BY <1>8, <2>1, ReturnStep DEF StartFindsNoCircuit
<1>9. CASE BeginPush(t)
  <2>1. /\ thread'[t].pc = "pushing"
        /\ \A u \in Threads : /\ thread'[u].order = thread[u].order
                              /\ thread'[u].op = thread[u].op
                              /\ u # t => thread'[u].pc = thread[u].pc
    <3>1. \A u \in Threads : thread[u] \in Session
      BY DEF TypeInv, TypeOK
    <3>2. \A u \in Threads : thread'[u].order = thread[u].order
      BY <1>9, <3>1 DEF BeginPush, Session
    <3>3. \A u \in Threads : thread'[u].op = thread[u].op
      BY <1>9, <3>1 DEF BeginPush, Session
    <3>4. \A u \in Threads \ {t} : thread'[u].pc = thread[u].pc
      BY <1>9, <3>1 DEF BeginPush, Session
    <3>5. thread'[t].pc = "pushing"
      BY <1>9, <3>1 DEF BeginPush, Session
    <3> QED
      BY <3>2, <3>3, <3>4, <3>5
  <2> QED
    BY <1>1, <1>2, <1>9, <2>1, ProceedStep
    DEF BeginPush, Executing, InExecute, OrdersAdvance, rows
<1>10. CASE BeginPushAborted(t)
  BY <1>10, ReturnStep DEF BeginPushAborted, OrdersAdvance, rows
<1>11. CASE PushSucceeds(t)
  BY <1>1, <1>11, FinishExec DEF PushSucceeds
<1>12. CASE PushFails(t)
  BY <1>1, <1>12, FinishExec DEF PushFails
<1> QED
  BY <1>3, <1>4, <1>5, <1>6, <1>7, <1>8, <1>9, <1>10, <1>11, <1>12 DEF Execute

LEMMA CrashExec ==
  ASSUME ExecInv, TypeInv', NEW n \in Nodes, Crash(n)
  PROVE  ExecInv'
<1> USE DEF ExecInv
<1>1. \A t \in Threads : IF NodeOf[t] = n THEN thread'[t].pc = "idle"
                         ELSE thread'[t] = thread[t]
  BY DEF Crash, Idle
<1>2. \A w \in Orders :
        \/ woStatus'[w] = woStatus[w]
        \/ /\ woStatus[w] = "uncommitted" /\ woStatus'[w] = "absent"
           /\ \E r \in Requests : NodeOf[r] = n /\ Inserting(r, w)
  BY DEF Crash, TypeInv, TypeOK
<1>3. crashes' # 0 /\ \A m \in Nodes \ {n} : up'[m] = up[m]
  <2>1. crashes' # 0
    BY SettingsAssumption DEF Crash, TypeInv, TypeOK
  <2>2. up' = [up EXCEPT ![n] = FALSE]
    BY DEF Crash
  <2> QED
    BY <2>1, <2>2 DEF TypeInv, TypeOK
<1>4. \A t \in Threads : Executing(t)' =>
        /\ Executing(t) /\ thread'[t] = thread[t]
        /\ thread[t].order \in Orders /\ t \in Workers
  BY <1>1 DEF Executing, InExecute, TypeInv, HasOrder, RequestsOnlyCommit
<1>5. RequestsOnlyCommit'
  BY <1>1 DEF RequestsOnlyCommit
<1>6. ExecutedIsTaken' /\ AtMostOneExecution'
  BY <1>2, <1>4 DEF ExecutedIsTaken, AtMostOneExecution, NotThere
<1>7. \A q \in Requests : thread'[q].pc = "loaded" =>
        /\ thread'[q] = thread[q] /\ NodeOf[q] # n
        /\ thread[q].op # "delete_circuit" => thread[q].order \in Orders
  BY <1>1 DEF TypeInv, HasOrder
<1>8. LoadedExists'
  BY <1>2, <1>7 DEF LoadedExists, ByStatus, NotThere
<1>9. OwnUncommitted'
  <2> SUFFICES ASSUME NEW q \in Requests,
                      thread'[q].pc = "loaded", thread'[q].op = "provision"
               PROVE  /\ woStatus'[thread'[q].order] = "uncommitted"
                      /\ \A p \in Requests :
                           /\ thread'[p].pc = "loaded" /\ thread'[p].op = "provision"
                           /\ thread'[p].order = thread'[q].order
                           => p = q
    BY DEF OwnUncommitted
  <2> QED
    <3>1. /\ q \in Threads /\ thread[q].pc = "loaded" /\ thread[q].op = "provision"
          /\ thread'[q] = thread[q] /\ NodeOf[q] # n /\ thread[q].order \in Orders
      BY <1>7
    <3>2. woStatus[thread[q].order] = "uncommitted"
      BY <3>1 DEF OwnUncommitted
    <3>3. ASSUME NEW r \in Requests, Inserting(r, thread[q].order)
          PROVE  r = q
      BY <3>1, <3>3 DEF OwnUncommitted, Inserting, RequestsOnlyCommit
    <3>4. woStatus'[thread[q].order] = "uncommitted"
      BY <1>2, <3>1, <3>2, <3>3
    <3>5. ASSUME NEW p \in Requests,
                 thread'[p].pc = "loaded", thread'[p].op = "provision",
                 thread'[p].order = thread'[q].order
          PROVE  p = q
      BY <1>7, <3>1, <3>5 DEF OwnUncommitted
    <3>6. woStatus'[thread'[q].order] = "uncommitted"
      BY <3>1, <3>4
    <3> QED
      BY <3>5, <3>6
<1>10. DownIdle'
  BY <1>1, <1>3, ThreadAssumption DEF DownIdle
<1> QED
  BY <1>5, <1>6, <1>8, <1>9, <1>10

\* Recovery queues running orders again: with no thread at work, none of them
\* is in execution.
LEMMA RestartExec ==
  ASSUME RestartsAlone, ExecInv, TypeInv', NEW n \in Nodes, Restart(n)
  PROVE  ExecInv'
<1> USE DEF ExecInv
<1>1. ~up[n] /\ crashes # 0
  BY DEF Restart, DownIdle
<1>2. \A m \in Nodes : m = n
  BY <1>1, SettingsAssumption DEF RestartsAlone, TypeInv, TypeOK
<1>3. \A t \in Threads : thread[t].pc = "idle"
  BY <1>1, <1>2, ThreadAssumption DEF DownIdle
<1>4. UNCHANGED <<thread, crashes>>
  BY DEF Restart
<1>5. \A t \in Threads : ~Executing(t)'
  BY <1>3, <1>4 DEF Executing, InExecute
<1> QED
  BY <1>1, <1>3, <1>4, <1>5
  DEF RequestsOnlyCommit, ExecutedIsTaken, LoadedExists, OwnUncommitted, DownIdle,
      AtMostOneExecution

LEMMA ExecInvariant ==
  ASSUME WorkerOnly, RestartsAlone
  PROVE  Spec => []ExecInv
<1>1. Init /\ TypeInv => ExecInv
  BY DEF Init, ExecInv, RequestsOnlyCommit, ExecutedIsTaken, LoadedExists,
     OwnUncommitted, DownIdle, AtMostOneExecution, Executing, InExecute, Idle
<1>2. ExecInv /\ TypeInv' /\ [Next]_vars => ExecInv'
  <2> SUFFICES ASSUME ExecInv, TypeInv', [Next]_vars PROVE ExecInv'
    OBVIOUS
  <2>1. CASE UNCHANGED vars
    BY <2>1 DEF vars, ExecInv, RequestsOnlyCommit, ExecutedIsTaken, LoadedExists,
       OwnUncommitted, DownIdle, AtMostOneExecution, Executing, InExecute
  <2>2. CASE Next
    BY <2>2, RequestExec, CommitExec, WorkerExec, LostExec, ExecuteExec, CrashExec, RestartExec
    DEF Next
  <2> QED
    BY <2>1, <2>2
<1> QED
  BY <1>1, <1>2, TypeInvariant, PTL DEF Spec

\* worker.py:11: an order is never in the hands of two executions, whatever is
\* cancelled, deleted or approved beside it, as long as orders are executed by
\* workers and no process restarts beside another one.
THEOREM ExecutedOnce ==
  ASSUME WorkerOnly, RestartsAlone
  PROVE  Spec => []AtMostOneExecution
<1>1. ExecInv => AtMostOneExecution
  BY DEF ExecInv
<1> QED
  BY <1>1, ExecInvariant, PTL

-----------------------------------------------------------------------------
(***************************************************************************)
(* The queue after a restart.  Here orders may be executed in any thread.  *)
(***************************************************************************)
\* A new order of an open transaction.
Inserts(t) == t \in Requests /\ thread[t].op = "provision" /\ thread[t].pc \in {"loaded", "ready"}

\* What a thread that works on an order knows of its row.
Fits(t) ==
  LET s == thread[t]
      row == woStatus[s.order]
  IN \/ s.pc = "idle" \/ (s.pc = "loaded" /\ s.op = "delete_circuit")
     \/ Inserts(t) /\ row = "uncommitted" /\ s.seen # "running"
     \/ /\ ~Inserts(t) /\ row \notin NotThere
        /\ s.pc \in {"started", "pushing"} \/ s.seen = "running" => row # "scheduled"

InsertsApart ==
  \A s, t \in Threads : Inserts(s) /\ Inserts(t) /\ s # t => thread[s].order # thread[t].order

QueueInv ==
  /\ TypeInv
  /\ \A w \in Orders : jobs[w] => woStatus[w] \notin NotThere \union {"scheduled"}
  /\ \A t \in Threads : Fits(t)
  /\ InsertsApart
  /\ DownIdle

\* The changes to work_orders that a step of t may make.
OrdersAdvanceBy(t) ==
  \A v \in Orders : woStatus'[v] # woStatus[v] =>
    /\ woStatus'[v] \notin NotThere \union {"scheduled"}
    /\ woStatus[v] \notin NotThere \/ (Inserts(t) /\ thread[t].order = v)

\* Threads that go on as they were.
Unaffected(u) ==
  /\ thread'[u].pc = thread[u].pc /\ thread'[u].op = thread[u].op
  /\ thread'[u].order = thread[u].order /\ thread'[u].seen = thread[u].seen

LEMMA FitsStep ==
  ASSUME QueueInv, NEW u \in Threads, Unaffected(u),
         \/ woStatus'[thread[u].order] = woStatus[thread[u].order]
         \/ ~Inserts(u) /\ woStatus'[thread[u].order] \notin NotThere \union {"scheduled"}
  PROVE  Fits(u)'
<1>1. Fits(u)  BY DEF QueueInv
<1>2. Inserts(u)' <=> Inserts(u)  BY DEF Inserts, Unaffected
<1>3. CASE thread[u].pc = "idle" \/ (thread[u].pc = "loaded" /\ thread[u].op = "delete_circuit")
  BY <1>3 DEF Fits, Unaffected
<1>4. CASE ~(thread[u].pc = "idle" \/ (thread[u].pc = "loaded" /\ thread[u].op = "delete_circuit"))
  BY <1>1, <1>2, <1>4 DEF Fits, Unaffected
<1>. QED  BY <1>3, <1>4

LEMMA QueueStep ==
  ASSUME QueueInv, TypeInv', NEW t \in Threads, \A u \in Threads \ {t} : Unaffected(u),
         OrdersAdvanceBy(t), UNCHANGED crashes, up' = up, up[NodeOf[t]],
         Fits(t)', Inserts(t)' => Inserts(t) /\ thread'[t].order = thread[t].order,
         \A w \in Orders : jobs'[w] => jobs[w] \/ (Pushing(t) /\ thread[t].order = w)
  PROVE  QueueInv'
<1>1. \A u \in Threads \ {t} : Inserts(u)' <=> Inserts(u)  BY DEF Inserts, Unaffected
<1>2. InsertsApart'  BY <1>1 DEF QueueInv, InsertsApart, Unaffected
<1>3. ASSUME NEW u \in Threads \ {t}
      PROVE  Fits(u)'
  <2>1. CASE thread[u].pc = "idle" \/ (thread[u].pc = "loaded" /\ thread[u].op = "delete_circuit")
    BY <2>1 DEF Fits, Unaffected
  <2>2. CASE ~(thread[u].pc = "idle" \/ (thread[u].pc = "loaded" /\ thread[u].op = "delete_circuit"))
    <3> DEFINE w == thread[u].order
    <3>1. w \in Orders  BY <2>2 DEF QueueInv, TypeInv, HasOrder
    <3>2. CASE woStatus'[w] = woStatus[w]  BY <3>2, FitsStep
    <3>3. CASE woStatus'[w] # woStatus[w]
      <4>1. woStatus'[w] \notin NotThere \union {"scheduled"}  BY <3>1, <3>3 DEF OrdersAdvanceBy
      <4>2. ~Inserts(u)
        <5>1. SUFFICES ASSUME Inserts(u) PROVE FALSE
          OBVIOUS
        <5>2. woStatus[w] = "uncommitted"  BY <2>2, <5>1 DEF QueueInv, Fits
        <5>3. Inserts(t) /\ thread[t].order = w  BY <3>1, <3>3, <5>2 DEF OrdersAdvanceBy, NotThere
        <5>. QED  BY <5>1, <5>3 DEF QueueInv, InsertsApart
      <4>. QED  BY <4>1, <4>2, FitsStep
    <3>. QED  BY <3>2, <3>3
  <2>. QED  BY <2>1, <2>2
<1>4. ASSUME NEW w \in Orders, jobs'[w]
      PROVE  woStatus'[w] \notin NotThere \union {"scheduled"}
  <2>1. woStatus[w] \notin NotThere \union {"scheduled"}
    <3>1. CASE jobs[w]  BY <3>1 DEF QueueInv
    <3>2. CASE Pushing(t) /\ thread[t].order = w
      BY <3>2 DEF QueueInv, Fits, Pushing, Inserts
    <3>. QED  BY <1>4, <3>1, <3>2
  <2>. QED  BY <2>1 DEF OrdersAdvanceBy
<1>5. DownIdle'
  BY DEF QueueInv, DownIdle, Unaffected
<1>. QED  BY <1>2, <1>3, <1>4, <1>5 DEF QueueInv

\* A thread at work belongs to a process that runs.
LEMMA UpAtWork ==
  ASSUME QueueInv, NEW t \in Threads, thread[t].pc # "idle"
  PROVE  up[NodeOf[t]]
BY DEF QueueInv, DownIdle

\* A thread is done with its order.
LEMMA QueueReturn ==
  ASSUME QueueInv, TypeInv', NEW t \in Threads, thread[t].pc # "idle", thread' = [thread EXCEPT ![t] = Idle],
         OrdersAdvanceBy(t), UNCHANGED <<up, crashes>>,
         \A w \in Orders : jobs'[w] => jobs[w] \/ (Pushing(t) /\ thread[t].order = w)
  PROVE  QueueInv'
<1>1. thread'[t] = Idle /\ \A u \in Threads \ {t} : thread'[u] = thread[u]
  BY DEF QueueInv, TypeInv, TypeOK
<1>2. Fits(t)' /\ ~Inserts(t)'  BY <1>1 DEF Fits, Inserts, Idle
<1>3. \A u \in Threads \ {t} : Unaffected(u)  BY <1>1 DEF Unaffected
<1>. QED  BY <1>2, <1>3, UpAtWork, QueueStep

\* A thread takes up an order it can see.
LEMMA QueueLoad ==
  ASSUME QueueInv, TypeInv', NEW t \in Threads, up[NodeOf[t]], \A u \in Threads \ {t} : thread'[u] = thread[u],
         UNCHANGED <<woStatus, jobs, up, crashes>>,
         thread'[t].op # "provision",
         \/ thread'[t].pc = "loaded" /\ thread'[t].op = "delete_circuit"
         \/ /\ woStatus[thread'[t].order] \notin NotThere
            /\ thread'[t].pc \notin {"started", "pushing"}
            /\ thread'[t].seen = "running" => woStatus[thread'[t].order] # "scheduled"
  PROVE  QueueInv'
<1>1. ~Inserts(t)'  BY DEF Inserts
<1>2. Fits(t)'  BY <1>1 DEF Fits
<1>3. \A u \in Threads \ {t} : Unaffected(u)  BY DEF Unaffected
<1>4. OrdersAdvanceBy(t)  BY DEF OrdersAdvanceBy
<1>. QED  BY <1>1, <1>2, <1>3, <1>4, QueueStep

\* A thread writes the row of the order it works on.
LEMMA OwnRow ==
  ASSUME QueueInv, NEW t \in Threads, thread[t].pc # "idle",
         ~(thread[t].pc = "loaded" /\ thread[t].op = "delete_circuit"),
         NEW value, value \notin NotThere \union {"scheduled"},
         \A v \in Orders : woStatus'[v] # woStatus[v] => v = thread[t].order /\ woStatus'[v] = value
  PROVE  OrdersAdvanceBy(t)
<1>1. Inserts(t) \/ woStatus[thread[t].order] \notin NotThere  BY DEF QueueInv, Fits
<1>. QED  BY <1>1 DEF OrdersAdvanceBy

LEMMA CommitQueue ==
  ASSUME QueueInv, TypeInv', NEW r \in Requests, Commit(r), ~CommitProvision(r)
  PROVE  QueueInv'
<1>1. ASSUME NEW op \in ByStatus, NEW value, value \notin NotThere \union {"scheduled"}, CommitStatus(r, op, value)
      PROVE  QueueInv'
  <2>1. \A v \in Orders : woStatus'[v] # woStatus[v] => v = thread[r].order /\ woStatus'[v] = value
    BY <1>1 DEF CommitStatus, Flushed, QueueInv, TypeInv, TypeOK
  <2>2. OrdersAdvanceBy(r)  BY <1>1, <2>1, OwnRow DEF CommitStatus, ByStatus
  <2>. QED  BY <1>1, <2>2, QueueReturn DEF CommitStatus
<1>2. CASE CommitDelete(r)
  <2>1. \A v \in Orders : woStatus'[v] # woStatus[v] => v = thread[r].order /\ woStatus'[v] = "deleted"
    BY <1>2 DEF CommitDelete, QueueInv, TypeInv, TypeOK
  <2>2. OrdersAdvanceBy(r)  BY <1>2, <2>1, OwnRow DEF CommitDelete, NotThere
  <2>. QED  BY <1>2, <2>2, QueueReturn DEF CommitDelete
<1>3. CASE CommitDeleteCircuit(r)
  BY <1>3, QueueReturn DEF CommitDeleteCircuit, OrdersAdvanceBy
<1>. QED
  BY <1>1, <1>2, <1>3
  DEF Commit, CommitSubmit, CommitApprove, CommitReject, CommitCancel, ByStatus, NotThere

\* Only the session that inserted an order queues it, and it has no jobs yet.
LEMMA CommitProvisionQueue ==
  ASSUME QueueInv, TypeInv', NEW r \in Requests, CommitProvision(r)
  PROVE  QueueInv'
<1> DEFINE w == thread[r].order
<1>1. Inserts(r) /\ w \in Orders /\ woStatus[w] = "uncommitted"
  BY DEF CommitProvision, Inserts, QueueInv, Fits, TypeInv, HasOrder
<1>2. /\ woStatus'[w] = "scheduled" /\ \A v \in Orders \ {w} : woStatus'[v] = woStatus[v]
      /\ UNCHANGED <<jobs, up, crashes>>
  BY <1>1 DEF CommitProvision, QueueInv, TypeInv, TypeOK
<1>3. thread'[r] = Idle /\ \A u \in Threads \ {r} : thread'[u] = thread[u]
  BY DEF CommitProvision, QueueInv, TypeInv, TypeOK
<1>4. Fits(r)' /\ ~Inserts(r)'  BY <1>3 DEF Fits, Inserts, Idle
<1>5. ASSUME NEW u \in Threads \ {r}
      PROVE  Fits(u)'
  <2>1. CASE thread[u].pc = "idle" \/ (thread[u].pc = "loaded" /\ thread[u].op = "delete_circuit")
    BY <1>3, <2>1 DEF Fits
  <2>2. CASE ~(thread[u].pc = "idle" \/ (thread[u].pc = "loaded" /\ thread[u].op = "delete_circuit"))
    <3>1. thread[u].order \in Orders  BY <2>2 DEF QueueInv, TypeInv, HasOrder
    <3>2. thread[u].order # w
      BY <1>1, <2>2 DEF QueueInv, Fits, InsertsApart, NotThere
    <3>3. woStatus'[thread[u].order] = woStatus[thread[u].order]  BY <1>2, <3>1, <3>2
    <3>. QED  BY <1>3, <3>3, FitsStep DEF Unaffected
  <2>. QED  BY <2>1, <2>2
<1>6. InsertsApart'
  BY <1>3, <1>4 DEF QueueInv, InsertsApart, Inserts
<1>7. \A v \in Orders : jobs'[v] => woStatus'[v] \notin NotThere \union {"scheduled"}
  BY <1>1, <1>2 DEF QueueInv, NotThere
<1>8. DownIdle'
  BY <1>2, <1>3 DEF QueueInv, DownIdle, Idle
<1>. QED  BY <1>4, <1>5, <1>6, <1>7, <1>8 DEF QueueInv

\* The last commit of an execution.
LEMMA FinishQueue ==
  ASSUME QueueInv, TypeInv', NEW t \in Threads, InExecute(t),
         NEW orderValue \in {"completed", "failed"}, NEW circuitValue, Finish(t, orderValue, circuitValue)
  PROVE  QueueInv'
<1>1. \A v \in Orders : woStatus'[v] # woStatus[v] => v = thread[t].order /\ woStatus'[v] = orderValue
  BY DEF Finish, Flushed, QueueInv, TypeInv, TypeOK
<1>2. OrdersAdvanceBy(t)  BY <1>1, OwnRow DEF InExecute, NotThere
<1>3. \A w \in Orders : jobs'[w] => jobs[w] \/ (Pushing(t) /\ thread[t].order = w)
  BY DEF Finish, QueueInv, TypeInv, TypeOK
<1>. QED  BY <1>2, <1>3, QueueReturn DEF Finish, InExecute

\* A thread goes on with its order, without changing what others see.
LEMMA QueueProceed ==
  ASSUME QueueInv, TypeInv', NEW t \in Threads, thread[t].pc # "idle",
         \A u \in Threads \ {t} : Unaffected(u),
         OrdersAdvanceBy(t), UNCHANGED <<jobs, up, crashes>>,
         thread'[t].order = thread[t].order, ~Inserts(t)',
         woStatus'[thread[t].order] \notin NotThere \union {"scheduled"}
  PROVE  QueueInv'
<1>1. Fits(t)'  BY DEF Fits
<1>. QED  BY <1>1, UpAtWork, QueueStep

LEMMA WorkerQueue ==
  ASSUME QueueInv, TypeInv', NEW t \in Workers, WorkerStep(t)
  PROVE  QueueInv'
<1> USE DEF QueueInv
<1>1. ASSUME NEW w \in Orders, Dispatch(t, w)
      PROVE  QueueInv'
  <2>1. /\ thread'[t].pc = "dispatched" /\ thread'[t].op = "worker" /\ thread'[t].order = w
        /\ thread'[t].seen = "absent"
        /\ \A u \in Threads \ {t} : thread'[u] = thread[u]
        /\ UNCHANGED <<woStatus, jobs, up, crashes>> /\ up[NodeOf[t]]
    BY <1>1 DEF Dispatch, Idle, TypeInv, TypeOK, rows
  <2>2. woStatus[w] \notin NotThere  BY <1>1 DEF Dispatch, ScheduledIds, NotThere
  <2>. QED  BY <2>1, <2>2, QueueLoad
<1>2. CASE Claim(t)
  <2> DEFINE w == thread[t].order
  <2>1. /\ thread[t].pc = "dispatched" /\ w \in Orders /\ woStatus'[w] = "running"
        /\ \A v \in Orders : woStatus'[v] # woStatus[v] => v = w /\ woStatus'[v] = "running"
        /\ UNCHANGED <<jobs, up, crashes>>
    BY <1>2 DEF Claim, TypeInv, TypeOK, HasOrder
  <2>2. /\ thread'[t].pc = "claimed" /\ thread'[t].order = w
        /\ \A u \in Threads \ {t} : thread'[u] = thread[u]
    BY <1>2 DEF Claim, TypeInv, TypeOK, Session
  <2>3. OrdersAdvanceBy(t)  BY <2>1, OwnRow DEF NotThere
  <2>. QED  BY <2>1, <2>2, <2>3, QueueProceed DEF Unaffected, Inserts, NotThere
<1>3. CASE ClaimLost(t)
  BY <1>3, QueueReturn DEF ClaimLost, OrdersAdvanceBy, rows
<1>4. CASE AcquireLocks(t)
  <2>1. /\ thread'[t] = [thread[t] EXCEPT !.pc = "ready"]
        /\ \A u \in Threads \ {t} : thread'[u] = thread[u]
        /\ thread[t].pc = "claimed" /\ thread[t].order \in Orders
        /\ UNCHANGED <<woStatus, jobs, up, crashes>>
    BY <1>4 DEF AcquireLocks, TypeInv, TypeOK, HasOrder, rows
  <2>2. /\ thread'[t].pc = "ready" /\ thread'[t].op = thread[t].op
        /\ thread'[t].order = thread[t].order /\ thread'[t].seen = thread[t].seen
    BY <2>1 DEF TypeInv, TypeOK, Session
  <2>3. ~Inserts(t) /\ ~Inserts(t)'  BY ThreadAssumption DEF Inserts
  <2>4. Fits(t)'  BY <2>1, <2>2, <2>3 DEF Fits
  <2>. QED  BY <2>1, <2>2, <2>3, <2>4, UpAtWork, QueueStep DEF Unaffected, OrdersAdvanceBy
<1>5. CASE WorkerCatches(t)
  BY <1>5, FinishQueue DEF WorkerCatches
<1>. QED  BY <1>1, <1>2, <1>3, <1>4, <1>5 DEF WorkerStep

LEMMA LostQueue ==
  ASSUME QueueInv, TypeInv', NEW t \in Workers, SessionLost(t)
  PROVE  QueueInv'
BY QueueReturn DEF SessionLost, OrdersAdvanceBy, Executing, InExecute, rows

LEMMA ExecuteQueue ==
  ASSUME QueueInv, TypeInv', NEW t \in Threads, Execute(t)
  PROVE  QueueInv'
<1> USE DEF QueueInv
<1>1. InExecute(t)
  BY DEF Execute, ExecuteWithoutCircuit, ExecuteAdopted, PreflightFails, StartExecution, StartAborted,
     StartFindsNoCircuit, BeginPush, BeginPushAborted, PushSucceeds, PushFails, Pushing, InExecute
<1>2. thread[t].order \in Orders  BY <1>1 DEF InExecute, TypeInv, HasOrder
<1>3. CASE ExecuteWithoutCircuit(t)
  <2>1. \A v \in Orders : woStatus'[v] # woStatus[v] => v = thread[t].order /\ woStatus'[v] = "failed"
    BY <1>3 DEF ExecuteWithoutCircuit, Flushed, TypeInv, TypeOK
  <2>2. OrdersAdvanceBy(t)  BY <1>1, <2>1, OwnRow DEF InExecute, NotThere
  <2>. QED  BY <1>3, <2>2, QueueReturn DEF ExecuteWithoutCircuit
<1>4. CASE ExecuteAdopted(t)
  BY <1>1, <1>4, FinishQueue DEF ExecuteAdopted
<1>5. CASE PreflightFails(t)
  BY <1>1, <1>5, FinishQueue DEF PreflightFails
<1>6. CASE StartExecution(t)
  <2>1. \A v \in Orders : woStatus'[v] # woStatus[v] => v = thread[t].order /\ woStatus'[v] = "running"
    BY <1>6 DEF StartExecution, Flushed, TypeInv, TypeOK
  <2>2. OrdersAdvanceBy(t)  BY <1>1, <2>1, OwnRow DEF InExecute, NotThere
  <2>3. /\ thread'[t].pc = "started" /\ thread'[t].order = thread[t].order
        /\ \A u \in Threads \ {t} : thread'[u] = thread[u]
        /\ UNCHANGED <<jobs, up, crashes>>
    BY <1>6 DEF StartExecution, TypeInv, TypeOK, Session
  <2>4. woStatus'[thread[t].order] = Flushed(woStatus[thread[t].order], thread[t].seen, "running")
    BY <1>2, <1>6 DEF StartExecution, TypeInv, TypeOK
  <2>5. woStatus'[thread[t].order] \notin NotThere \union {"scheduled"}
    <3>1. CASE thread[t].seen = "running"
      <4>1. ~Inserts(t) /\ woStatus[thread[t].order] \notin NotThere \union {"scheduled"}
        BY <1>1, <3>1 DEF Fits, InExecute
      <4>. QED  BY <2>4, <3>1, <4>1 DEF Flushed
    <3>2. CASE thread[t].seen # "running"
      BY <2>4, <3>2 DEF Flushed, NotThere
    <3>. QED  BY <3>1, <3>2
  <2>. QED  BY <1>1, <2>2, <2>3, <2>5, QueueProceed DEF Unaffected, Inserts, InExecute
<1>7. CASE StartAborted(t)
  BY <1>7, QueueReturn DEF StartAborted, OrdersAdvanceBy, rows
<1>8. CASE StartFindsNoCircuit(t)
  <2> DEFINE value == IF t \in Workers THEN "failed" ELSE "running"
  <2>1. \A v \in Orders : woStatus'[v] # woStatus[v] => v = thread[t].order /\ woStatus'[v] = value
    BY <1>8 DEF StartFindsNoCircuit, Flushed, TypeInv, TypeOK
  <2>2. value \notin NotThere \union {"scheduled"}  BY DEF NotThere
  <2>. HIDE DEF value
  <2>3. OrdersAdvanceBy(t)  BY <1>1, <2>1, <2>2, OwnRow DEF InExecute
  <2>. QED  BY <1>8, <2>3, QueueReturn DEF StartFindsNoCircuit
<1>9. CASE BeginPush(t)
  <2>1. \A u \in Threads : thread[u] \in Session
    BY DEF TypeInv, TypeOK
  <2>2. thread'[t].pc = "pushing" /\ thread'[t].order = thread[t].order
    BY <1>9, <2>1 DEF BeginPush, Session
  <2>3. \A u \in Threads \ {t} : thread'[u].pc = thread[u].pc /\ thread'[u].op = thread[u].op
    BY <1>9, <2>1 DEF BeginPush, Session
  <2>4. \A u \in Threads \ {t} : thread'[u].order = thread[u].order /\ thread'[u].seen = thread[u].seen
    BY <1>9, <2>1 DEF BeginPush, Session
  <2>5. UNCHANGED <<woStatus, jobs, up, crashes>> /\ thread[t].pc = "started"
    BY <1>9 DEF BeginPush, rows
  <2>6. woStatus[thread[t].order] \notin NotThere \union {"scheduled"}
    BY <2>5 DEF Fits, Inserts
  <2>. QED  BY <2>2, <2>3, <2>4, <2>5, <2>6, QueueProceed DEF Unaffected, Inserts, OrdersAdvanceBy
<1>10. CASE BeginPushAborted(t)
  BY <1>10, QueueReturn DEF BeginPushAborted, OrdersAdvanceBy, rows
<1>11. CASE PushSucceeds(t)
  BY <1>1, <1>11, FinishQueue DEF PushSucceeds
<1>12. CASE PushFails(t)
  BY <1>1, <1>12, FinishQueue DEF PushFails
<1>. QED
  BY <1>3, <1>4, <1>5, <1>6, <1>7, <1>8, <1>9, <1>10, <1>11, <1>12 DEF Execute

\* An order that nobody has committed appears or goes away.
LEMMA DraftStep ==
  ASSUME QueueInv, TypeInv', NEW T, NEW gone,
         \A u \in Threads \ T : thread'[u] = thread[u],
         \A u \in Threads \intersect T : Fits(u)',
         InsertsApart', DownIdle', jobs' = jobs,
         \A v \in gone : v \in Orders /\ woStatus[v] \in NotThere,
         \A v \in Orders \ gone : woStatus'[v] = woStatus[v],
         \A u \in Threads \ T : Inserts(u) => thread[u].order \notin gone,
         \A v \in gone : woStatus'[v] # "scheduled"
  PROVE  QueueInv'
<1> USE DEF QueueInv
<1>1. ASSUME NEW u \in Threads \ T
      PROVE  Fits(u)'
  <2>1. CASE thread[u].pc = "idle" \/ (thread[u].pc = "loaded" /\ thread[u].op = "delete_circuit")
    BY <2>1 DEF Fits
  <2>2. CASE ~(thread[u].pc = "idle" \/ (thread[u].pc = "loaded" /\ thread[u].op = "delete_circuit"))
    <3>1. thread[u].order \in Orders \ gone  BY <2>2 DEF TypeInv, HasOrder, Fits
    <3>. QED  BY <3>1, FitsStep DEF Unaffected
  <2>. QED  BY <2>1, <2>2
<1>2. \A v \in Orders : jobs'[v] => woStatus'[v] \notin NotThere \union {"scheduled"}
  OBVIOUS
<1>. QED  BY <1>1, <1>2

LEMMA DraftRow ==
  ASSUME QueueInv, TypeInv', NEW r \in Threads, NEW w \in Orders,
         \A u \in Threads \ {r} : thread'[u] = thread[u],
         Fits(r)', InsertsApart', DownIdle', jobs' = jobs,
         woStatus[w] \in NotThere, woStatus'[w] # "scheduled",
         \A v \in Orders \ {w} : woStatus'[v] = woStatus[v],
         \A u \in Threads \ {r} : Inserts(u) => thread[u].order # w
  PROVE  QueueInv'
<1> DEFINE T == {r}
           gone == {w}
<1>1. /\ \A u \in Threads \ T : thread'[u] = thread[u]
      /\ \A u \in Threads \intersect T : Fits(u)'
      /\ \A v \in gone : v \in Orders /\ woStatus[v] \in NotThere /\ woStatus'[v] # "scheduled"
      /\ \A v \in Orders \ gone : woStatus'[v] = woStatus[v]
      /\ \A u \in Threads \ T : Inserts(u) => thread[u].order \notin gone
  OBVIOUS
<1>. HIDE DEF T, gone
<1>. QED  BY <1>1, DraftStep

LEMMA RequestQueue ==
  ASSUME QueueInv, TypeInv', NEW r \in Requests, Request(r)
  PROVE  QueueInv'
<1> USE DEF QueueInv
<1>1. ASSUME NEW w \in Orders, woStatus[w] = "absent", NEW u \in Threads, Inserts(u)
      PROVE  thread[u].order # w
  BY <1>1 DEF Inserts, Fits, NotThere
<1>2. ASSUME NEW w \in Orders, NEW c \in Circuits, NEW type \in OrderType, CreateWorkOrder(r, w, c, type)
      PROVE  QueueInv'
  <2>1. /\ woStatus[w] = "absent" /\ woStatus'[w] = "draft"
        /\ \A v \in Orders \ {w} : woStatus'[v] = woStatus[v]
        /\ UNCHANGED <<thread, jobs, up, crashes>>
    BY <1>2 DEF CreateWorkOrder, NextId, TypeInv, TypeOK
  <2>2. InsertsApart' /\ DownIdle'  BY <2>1 DEF InsertsApart, Inserts, DownIdle
  <2>3. Fits(r)'  BY <1>2, <2>1 DEF CreateWorkOrder, CanServe, Fits
  <2>4. \A u \in Threads \ {r} : thread'[u] = thread[u]  BY <2>1
  <2>. QED  BY <1>1, <2>1, <2>2, <2>3, <2>4, DraftRow DEF NotThere
<1>3. ASSUME NEW w \in Orders, NEW c \in Circuits, NEW type \in OrderType, LoadForProvision(r, w, c, type)
      PROVE  QueueInv'
  <2>1. /\ woStatus[w] = "absent" /\ woStatus'[w] = "uncommitted"
        /\ \A v \in Orders \ {w} : woStatus'[v] = woStatus[v]
        /\ UNCHANGED <<jobs, up, crashes>> /\ up[NodeOf[r]]
    BY <1>3 DEF LoadForProvision, NextId, CanServe, TypeInv, TypeOK
  <2>2. /\ thread'[r].pc \in {"loaded", "ready"} /\ thread'[r].op = "provision"
        /\ thread'[r].order = w /\ thread'[r].seen = "approved"
        /\ \A u \in Threads \ {r} : thread'[u] = thread[u]
    BY <1>3 DEF LoadForProvision, TypeInv, TypeOK, Idle
  <2>3. Inserts(r)' /\ \A u \in Threads \ {r} : Inserts(u)' <=> Inserts(u)
    BY <2>2 DEF Inserts
  <2>4. Fits(r)'  BY <2>1, <2>2, <2>3 DEF Fits
  <2>5. InsertsApart'  BY <1>1, <2>1, <2>2, <2>3 DEF InsertsApart
  <2>6. DownIdle'  BY <2>1, <2>2 DEF DownIdle
  <2>. QED  BY <1>1, <2>1, <2>2, <2>4, <2>5, <2>6, DraftRow DEF NotThere
<1>4. ASSUME NEW w \in Orders, NEW op \in ByStatus, NEW refused, LoadOrder(r, op, w, refused)
      PROVE  QueueInv'
  <2>1. /\ thread'[r].pc = "loaded" /\ thread'[r].op = op /\ thread'[r].order = w
        /\ thread'[r].seen = woStatus[w]
        /\ \A u \in Threads \ {r} : thread'[u] = thread[u]
        /\ UNCHANGED <<woStatus, jobs, up, crashes>> /\ up[NodeOf[r]]
    BY <1>4 DEF LoadOrder, CanServe, Idle, TypeInv, TypeOK, rows
  <2>2. woStatus[w] \notin NotThere
    BY <1>4 DEF LoadOrder, Visible, NotThere, OrderStatus
  <2>. QED  BY <2>1, <2>2, QueueLoad DEF ByStatus
<1>5. ASSUME NEW w \in Orders, LoadForExecute(r, w)
      PROVE  QueueInv'
  <2>1. /\ thread'[r].pc = "ready" /\ thread'[r].op = "execute" /\ thread'[r].order = w
        /\ thread'[r].seen = woStatus[w]
        /\ \A u \in Threads \ {r} : thread'[u] = thread[u]
        /\ UNCHANGED <<woStatus, jobs, up, crashes>> /\ up[NodeOf[r]]
    BY <1>5 DEF LoadForExecute, CanServe, Idle, TypeInv, TypeOK, rows
  <2>2. woStatus[w] \notin NotThere  BY <1>5 DEF LoadForExecute, NotThere
  <2>. QED  BY <2>1, <2>2, QueueLoad
<1>6. ASSUME NEW c \in Circuits, LoadForDeleteCircuit(r, c)
      PROVE  QueueInv'
  <2>1. /\ thread'[r].pc = "loaded" /\ thread'[r].op = "delete_circuit"
        /\ \A u \in Threads \ {r} : thread'[u] = thread[u]
        /\ UNCHANGED <<woStatus, jobs, up, crashes>> /\ up[NodeOf[r]]
    BY <1>6 DEF LoadForDeleteCircuit, CanServe, Idle, TypeInv, TypeOK, rows
  <2>. QED  BY <2>1, QueueLoad
<1>7. CASE RequestFails(r)
  <2> DEFINE w == thread[r].order
  <2>1. w \in Orders /\ InExecute(r)
    BY <1>7 DEF RequestFails, InExecute, TypeInv, HasOrder
  <2>2. thread'[r] = Idle /\ \A u \in Threads \ {r} : thread'[u] = thread[u]
    BY <1>7 DEF RequestFails, TypeInv, TypeOK
  <2>3. /\ \A v \in Orders : woStatus'[v] # woStatus[v] => v = w
        /\ UNCHANGED <<jobs, up, crashes>>
    BY <1>7 DEF RequestFails, TypeInv, TypeOK
  <2>4. CASE woStatus[w] = "uncommitted"
    <3>1. Inserts(r)  BY <2>1, <2>4 DEF Fits, InExecute, NotThere
    <3>2. \A u \in Threads \ {r} : Inserts(u) => thread[u].order # w
      BY <3>1 DEF InsertsApart
    <3>3. woStatus'[w] = "absent"  BY <1>7, <2>1, <2>4 DEF RequestFails, TypeInv, TypeOK
    <3>4. InsertsApart' /\ DownIdle'
      BY <2>2, <2>3 DEF InsertsApart, Inserts, DownIdle, Idle
    <3>5. Fits(r)'  BY <2>2 DEF Fits, Idle
    <3>6. \A v \in Orders \ {w} : woStatus'[v] = woStatus[v]  BY <2>3
    <3>7. woStatus[w] \in NotThere /\ woStatus'[w] # "scheduled" /\ jobs' = jobs  BY <2>3, <2>4, <3>3 DEF NotThere
    <3>. HIDE DEF w
    <3>. QED  BY <2>1, <2>2, <3>2, <3>4, <3>5, <3>6, <3>7, DraftRow
  <2>5. CASE woStatus[w] # "uncommitted"
    <3>1. \A v \in Orders : woStatus'[v] = woStatus[v]
      BY <1>7, <2>1, <2>3, <2>5 DEF RequestFails, TypeInv, TypeOK
    <3>2. OrdersAdvanceBy(r)  BY <3>1 DEF OrdersAdvanceBy
    <3>. QED  BY <1>7, <2>1, <3>2, QueueReturn DEF RequestFails, InExecute
  <2>. QED  BY <2>4, <2>5
<1>. QED
  BY <1>2, <1>3, <1>4, <1>5, <1>6, <1>7
  DEF Request, LoadForSubmit, LoadForApprove, LoadForReject, LoadForCancel, LoadForDelete, ByStatus

LEMMA CrashQueue ==
  ASSUME QueueInv, TypeInv', NEW n \in Nodes, Crash(n)
  PROVE  QueueInv'
<1> USE DEF QueueInv
<1> DEFINE T == {t \in Threads : NodeOf[t] = n}
           gone == {w \in Orders : woStatus[w] = "uncommitted" /\ \E r \in Requests : NodeOf[r] = n /\ Inserting(r, w)}
<1>1. /\ \A t \in T : thread'[t] = Idle
      /\ \A t \in Threads \ T : thread'[t] = thread[t]
      /\ jobs' = jobs
  BY DEF Crash
<1>2. /\ \A w \in gone : woStatus'[w] = "absent"
      /\ \A w \in Orders \ gone : woStatus'[w] = woStatus[w]
  BY DEF Crash, TypeInv, TypeOK
<1>3. \A t \in T : Fits(t)' /\ ~Inserts(t)'  BY <1>1 DEF Fits, Inserts, Idle
<1>4. \A t \in Threads \ T : Inserts(t)' <=> Inserts(t)  BY <1>1 DEF Inserts
<1>5. InsertsApart'  BY <1>1, <1>3, <1>4 DEF InsertsApart
<1>6. ASSUME NEW u \in Threads \ T, Inserts(u), NEW w \in gone
      PROVE  thread[u].order # w
  <2>1. PICK r \in Requests : NodeOf[r] = n /\ Inserting(r, w)  OBVIOUS
  <2>2. Inserts(r) /\ thread[r].order = w
    BY <2>1 DEF Inserting, Inserts, Fits, NotThere
  <2>. QED  BY <1>6, <2>1, <2>2 DEF InsertsApart
<1>7. DownIdle'
  <2>1. crashes' # 0  BY SettingsAssumption DEF Crash, TypeInv, TypeOK
  <2>2. \A m \in Nodes \ {n} : up'[m] = up[m]  BY DEF Crash, TypeInv, TypeOK
  <2>3. \A t \in T : thread'[t].pc = "idle"  BY <1>1 DEF Idle
  <2>. QED  BY <1>1, <2>1, <2>2, <2>3, ThreadAssumption DEF DownIdle
<1>8. \A u \in Threads \intersect T : Fits(u)'  BY <1>3
<1>9. \A v \in gone : v \in Orders /\ woStatus[v] \in NotThere /\ woStatus'[v] # "scheduled"
  BY <1>2 DEF NotThere
<1>. HIDE DEF T, gone
<1>. QED  BY <1>1, <1>2, <1>5, <1>6, <1>7, <1>8, <1>9, DraftStep

\* Recovery queues no order that has jobs on record, and finds nobody at work.
LEMMA RestartQueue ==
  ASSUME RestartsAlone, QueueInv, TypeInv', NEW n \in Nodes, Restart(n)
  PROVE  QueueInv'
<1> USE DEF QueueInv
<1>1. ~up[n] /\ crashes # 0  BY DEF Restart, DownIdle
<1>2. \A m \in Nodes : m = n
  BY <1>1, SettingsAssumption DEF RestartsAlone, TypeInv, TypeOK
<1>3. \A t \in Threads : thread[t].pc = "idle"  BY <1>1, <1>2, ThreadAssumption DEF DownIdle
<1>4. UNCHANGED <<thread, crashes, jobs>>  BY DEF Restart
<1>5. \A t \in Threads : Fits(t)' /\ ~Inserts(t)'  BY <1>3, <1>4 DEF Fits, Inserts
<1>6. ASSUME NEW w \in Orders, jobs[w]
      PROVE  woStatus'[w] \notin NotThere \union {"scheduled"}
  BY <1>6 DEF Restart, RecoveredStatus, NotThere
<1>. QED  BY <1>1, <1>3, <1>4, <1>5, <1>6 DEF InsertsApart, DownIdle

\* worker.py:243-268: an order whose jobs are on record is not queued again,
\* by whatever crash and recovery, in whatever thread it was executed, as long
\* as no process restarts beside another one.
THEOREM RecordedKept ==
  ASSUME RestartsAlone
  PROVE  Spec => []RecordedWorkNotRequeued
<1>1. Init /\ TypeInv => QueueInv
  BY DEF Init, QueueInv, Fits, Inserts, InsertsApart, DownIdle, Idle
<1>2. QueueInv /\ TypeInv' /\ [Next]_vars => QueueInv'
  <2> SUFFICES ASSUME QueueInv, TypeInv', [Next]_vars PROVE QueueInv'
    OBVIOUS
  <2>1. CASE UNCHANGED vars
    BY <2>1 DEF vars, QueueInv, Fits, Inserts, InsertsApart, DownIdle
  <2>2. CASE Next
    BY <2>2, RequestQueue, CommitQueue, CommitProvisionQueue, WorkerQueue, LostQueue, ExecuteQueue, CrashQueue,
       RestartQueue
    DEF Next
  <2> QED
    BY <2>1, <2>2
<1>3. QueueInv => RecordedWorkNotRequeued
  BY DEF QueueInv, RecordedWorkNotRequeued
<1> QED
  BY <1>1, <1>2, <1>3, TypeInvariant, PTL DEF Spec

-----------------------------------------------------------------------------
(***************************************************************************)
(* What the device locks achieve, from the order in which they are taken:  *)
(* a thread keeps its circuit, and with it the devices it has locked, from *)
(* the acquisition to the end of its execution.                            *)
(***************************************************************************)
OneProcess == \A n, m \in Nodes : n = m

LocksApart ==
  \A s, t \in Workers : InExecute(s) /\ InExecute(t) /\ s # t =>
    DevicesOf(thread[s].circuit) \intersect DevicesOf(thread[t].circuit) = {}

\* What a step may do to a worker thread.
WorkerMoves(u) ==
  \/ ~Executing(u)'
  \/ /\ Claim(u) /\ thread'[u].order = thread[u].order
     /\ thread'[u].pc = "claimed" /\ thread'[u].seen = "running"
  \/ /\ Executing(u)
     /\ thread'[u].order = thread[u].order /\ thread'[u].circuit = thread[u].circuit
     /\ InExecute(u) \/ AcquireLocks(u) \/ thread'[u].pc = "claimed"
     /\ thread'[u].pc \in {"claimed", "ready"} =>
          thread[u].pc \in {"claimed", "ready"} /\ thread'[u].seen = thread[u].seen

LEMMA WorkerNext ==
  ASSUME ExecInv, Next, NEW u \in Workers
  PROVE  WorkerMoves(u)
<1> USE DEF WorkerMoves
<1>1. u \notin Requests /\ u \in Threads /\ thread \in [Threads -> Session] /\ Idle.pc = "idle"
  BY ThreadAssumption DEF ExecInv, TypeInv, TypeOK, Idle
<1>2. CASE /\ thread'[u].pc = thread[u].pc /\ thread'[u].order = thread[u].order
            /\ thread'[u].circuit = thread[u].circuit /\ thread'[u].seen = thread[u].seen
  BY <1>2 DEF Executing, InExecute
<1>3. ASSUME NEW r \in Requests, Request(r) \/ Commit(r)
      PROVE  WorkerMoves(u)
  <2>1. thread'[u] = thread[u]
    BY <1>1, <1>3
    DEF Request, Commit, CreateWorkOrder, LoadForProvision, LoadForSubmit, LoadForApprove, LoadForReject,
        LoadForCancel, LoadForDelete, LoadOrder, LoadForExecute, LoadForDeleteCircuit, RequestFails,
        CommitSubmit, CommitApprove, CommitReject, CommitCancel, CommitStatus, CommitDelete,
        CommitProvision, CommitDeleteCircuit
  <2>. QED  BY <1>2, <2>1
<1>4. ASSUME NEW t \in Workers, WorkerStep(t)
      PROVE  WorkerMoves(u)
  <2>1. CASE t # u
    BY <1>1, <1>2, <1>4, <2>1
    DEF WorkerStep, Dispatch, Claim, ClaimLost, AcquireLocks, WorkerCatches, Finish
  <2>2. CASE t = u
    <3>1. CASE \E w \in Orders : Dispatch(u, w)
      BY <1>1, <3>1 DEF Dispatch, Idle, Executing, InExecute
    <3>2. CASE AcquireLocks(u)
      BY <1>1, <3>2 DEF AcquireLocks, Executing, InExecute, Session
    <3>3. CASE ClaimLost(u) \/ WorkerCatches(u)
      BY <1>1, <3>3 DEF ClaimLost, WorkerCatches, Finish, Executing, InExecute
    <3>4. CASE Claim(u)
      BY <1>1, <3>4 DEF Claim, Session
    <3>. QED  BY <1>4, <2>2, <3>1, <3>2, <3>3, <3>4 DEF WorkerStep
  <2>. QED  BY <2>1, <2>2
<1>7. ASSUME NEW t \in Workers, SessionLost(t)
       PROVE  WorkerMoves(u)
  BY <1>1, <1>2, <1>7 DEF SessionLost, Executing, InExecute
<1>5. ASSUME NEW t \in Threads, Execute(t)
      PROVE  WorkerMoves(u)
  <2>1. CASE StartExecution(t)
    <3>1. CASE t # u
      BY <1>1, <1>2, <2>1, <3>1 DEF StartExecution
    <3>2. CASE t = u
      BY <1>1, <2>1, <3>2 DEF StartExecution, Executing, InExecute, Session
    <3>. QED  BY <3>1, <3>2
  <2>2. CASE BeginPush(t)
    <3>1. thread'[u].circuit = thread[u].circuit /\ thread'[u].order = thread[u].order
      BY <1>1, <2>2 DEF BeginPush, Session
    <3>2. IF u = t THEN thread[u].pc = "started" /\ thread'[u].pc = "pushing"
          ELSE thread'[u].pc = thread[u].pc /\ thread'[u].seen = thread[u].seen
      BY <1>1, <2>2 DEF BeginPush, Session
    <3>. QED  BY <1>2, <3>1, <3>2 DEF Executing, InExecute
  <2>3. CASE ~StartExecution(t) /\ ~BeginPush(t)
    <3>1. thread' = [thread EXCEPT ![t] = Idle]
      BY <1>5, <2>3 DEF Execute, ExecuteWithoutCircuit, ExecuteAdopted, PreflightFails, StartAborted,
         StartFindsNoCircuit, BeginPushAborted, PushSucceeds, PushFails, Finish
    <3>. QED  BY <1>1, <1>2, <3>1 DEF Executing, InExecute
  <2>. QED  BY <2>1, <2>2, <2>3
<1>6. ASSUME NEW n \in Nodes, Crash(n) \/ Restart(n)
      PROVE  WorkerMoves(u)
  <2>1. thread'[u] = Idle \/ thread'[u] = thread[u]  BY <1>1, <1>6 DEF Crash, Restart
  <2>. QED  BY <1>1, <1>2, <2>1 DEF Executing, InExecute
<1>. QED  BY <1>3, <1>4, <1>7, <1>5, <1>6 DEF Next

LEMMA LocksStep ==
  ASSUME OneProcess, ExecInv, LocksApart, [Next]_vars
  PROVE  LocksApart'
<1>1. CASE UNCHANGED vars
  BY <1>1 DEF vars, LocksApart, InExecute
<1>2. CASE Next /\ \A t \in Workers : ~AcquireLocks(t)
  <2>1. \A u \in Workers : InExecute(u)' => InExecute(u) /\ thread'[u].circuit = thread[u].circuit
    BY <1>2, WorkerNext DEF WorkerMoves, Executing, InExecute
  <2>. QED  BY <2>1 DEF LocksApart
<1>3. ASSUME NEW t \in Workers, AcquireLocks(t)
      PROVE  LocksApart'
  <2>1. /\ thread'[t].circuit = thread[t].circuit
        /\ \A u \in Workers \ {t} : thread'[u] = thread[u]
    BY <1>3, ThreadAssumption DEF AcquireLocks, ExecInv, TypeInv, TypeOK, Session
  <2>2. \A u \in Workers \ {t} : InExecute(u) =>
          DevicesOf(thread[u].circuit) \intersect DevicesOf(thread[t].circuit) = {}
    BY <1>3, ThreadAssumption DEF AcquireLocks, OneProcess
  <2>. QED  BY <2>1, <2>2 DEF LocksApart, InExecute
<1>. QED  BY <1>1, <1>2, <1>3

\* worker.py:74: in one process no two executions push to a common device,
\* whatever orders are claimed, fail or are deleted meanwhile, as long as
\* orders are executed by workers.
THEOREM DevicesExclusive ==
  ASSUME WorkerOnly, OneProcess
  PROVE  Spec => []DeviceExclusive
<1>1. RestartsAlone  BY DEF RestartsAlone, OneProcess
<1>2. Init => LocksApart
  BY ThreadAssumption DEF Init, LocksApart, InExecute, Idle
<1>3. ExecInv /\ LocksApart /\ [Next]_vars => LocksApart'
  BY LocksStep
<1>4. ExecInv /\ LocksApart => DeviceExclusive
  BY DEF ExecInv, RequestsOnlyCommit, LocksApart, DeviceExclusive, InExecute, Pushing
<1>. QED  BY <1>1, <1>2, <1>3, <1>4, ExecInvariant, PTL DEF Spec

-----------------------------------------------------------------------------
(***************************************************************************)
(* The refinement: what the workers do with devices is a behaviour of      *)
(* DeviceExclusion, whoever else executes orders and however many          *)
(* processes crash and restart.                                            *)
(***************************************************************************)
\* A step that leaves a worker where it is and with its circuit.
Stays(u) == thread'[u].pc = thread[u].pc /\ thread'[u].circuit = thread[u].circuit
GoesOnInExecute(u) == InExecute(u) /\ InExecute(u)' /\ thread'[u].circuit = thread[u].circuit

LEMMA StaysPhase ==
  ASSUME NEW u \in Workers,
         \/ Stays(u)
         \/ thread[u].pc \in {"idle", "dispatched"} /\ ~Executing(u)'
         \/ GoesOnInExecute(u)
  PROVE  Phase'[u] = Phase[u] /\ Want'[u] = Want[u]
BY DEF Stays, GoesOnInExecute, Phase, Want, Executing, InExecute

LEMMA AllStay ==
  ASSUME \A u \in Workers : Phase'[u] = Phase[u] /\ Want'[u] = Want[u]
  PROVE  UNCHANGED Exclusion!vars
<1>1. Phase' = Phase
  BY DEF Phase
<1>2. Want' = Want
  BY DEF Want
<1>. QED  BY <1>1, <1>2 DEF Exclusion!vars

\* The other worker threads take no notice of a step.
Alone(t) == \A u \in Workers \ {t} : Phase'[u] = Phase[u] /\ Want'[u] = Want[u]

LEMMA OneMoves ==
  ASSUME NEW t \in Workers, Alone(t)
  PROVE  /\ Phase' = [Phase EXCEPT ![t] = Phase'[t]]
         /\ Want' = [Want EXCEPT ![t] = Want'[t]]
<1>1. Phase = [u \in Workers |-> Phase[u]] /\ Phase' = [u \in Workers |-> Phase'[u]]
  BY DEF Phase
<1>2. Want = [u \in Workers |-> Want[u]] /\ Want' = [u \in Workers |-> Want'[u]]
  BY DEF Want
<1>. QED  BY <1>1, <1>2 DEF Alone

LEMMA WorkerExcludes ==
  ASSUME TypeInv, NEW t \in Workers, WorkerStep(t)
  PROVE  [Exclusion!Next]_(Exclusion!vars)
<1>1. t \in Threads /\ thread \in [Threads -> Session] /\ Idle.pc = "idle" /\ Workers \subseteq Threads
  BY DEF TypeInv, TypeOK, Idle, Threads
<1>2. Alone(t)
  <2>1. ASSUME NEW u \in Workers, u # t
        PROVE  thread'[u] = thread[u]
    <3>1. u # t /\ u \in Threads
      BY <1>1, <2>1
    <3>2. CASE Claim(t) \/ AcquireLocks(t)
      BY <1>1, <3>1, <3>2 DEF Claim, AcquireLocks, Session
    <3>3. CASE ClaimLost(t) \/ WorkerCatches(t) \/ \E w \in Orders : Dispatch(t, w)
      BY <1>1, <3>1, <3>3 DEF ClaimLost, WorkerCatches, Finish, Dispatch
    <3>. QED  BY <3>2, <3>3 DEF WorkerStep
  <2>. QED  BY <2>1, StaysPhase DEF Alone, Stays
<1>3. CASE ClaimLost(t) \/ \E w \in Orders : Dispatch(t, w)
  <2>1. thread[t].pc \in {"idle", "dispatched"} /\ ~Executing(t)'
    <3>1. CASE ClaimLost(t)
      BY <1>1, <3>1 DEF ClaimLost, Executing, InExecute
    <3>2. CASE \E w \in Orders : Dispatch(t, w)
      BY <1>1, <3>2 DEF Dispatch, Idle, Executing, InExecute
    <3>. QED  BY <1>3, <3>1, <3>2
  <2>. QED  BY <1>2, <2>1, StaysPhase, AllStay DEF Alone
<1>4. CASE Claim(t)
  <2> DEFINE c == woCircuit[thread[t].order]
  <2>1. thread[t].pc = "dispatched" /\ thread'[t].pc = "claimed" /\ thread'[t].circuit = c
    BY <1>1, <1>4 DEF Claim, Session
  <2>2. c \in Circuits \union {NoCircuit}
    BY <1>4 DEF Claim, TypeInv, TypeOK, HasOrder, Threads
  <2>3. DevicesOf(c) \in SUBSET Devices
    BY <2>2, CircuitAssumption DEF DevicesOf
  <2>4. Phase[t] = "out" /\ Phase'[t] = "waiting" /\ Want'[t] = DevicesOf(c)
    BY <2>1 DEF Phase, Want, Executing, InExecute
  <2>5. Exclusion!Ask(t, DevicesOf(c))
    BY <1>2, <2>4, OneMoves DEF Exclusion!Ask
  <2>. QED  BY <2>3, <2>5 DEF Exclusion!Next
<1>5. CASE AcquireLocks(t)
  <2>1. thread[t].pc = "claimed" /\ thread'[t].pc = "ready" /\ thread'[t].circuit = thread[t].circuit
    BY <1>1, <1>5 DEF AcquireLocks, Session
  <2>2. /\ Phase[t] = "waiting" /\ Phase'[t] = "working"
        /\ Want'[t] = Want[t] /\ Want[t] = DevicesOf(thread[t].circuit)
    BY <2>1 DEF Phase, Want, Executing, InExecute
  <2>3. \A u \in Workers : Exclusion!Working(u) /\ Exclusion!Together(t, u) =>
          Want[u] \intersect Want[t] = {}
    <3>. SUFFICES ASSUME NEW u \in Workers, Exclusion!Working(u), NodeOf[u] = NodeOf[t]
                  PROVE  Want[u] \intersect Want[t] = {}
      BY DEF Exclusion!Together
    <3>1. InExecute(u) /\ Want[u] = DevicesOf(thread[u].circuit)
      BY DEF Exclusion!Working, Phase, Want, Executing
    <3>. QED  BY <1>5, <2>2, <3>1 DEF AcquireLocks
  <2>4. Want' = Want
    BY <1>2, <2>2, OneMoves DEF Want
  <2>5. Exclusion!Enter(t)
    BY <1>2, <2>2, <2>3, <2>4, OneMoves DEF Exclusion!Enter
  <2>. QED  BY <2>5 DEF Exclusion!Next
<1>6. CASE WorkerCatches(t)
  <2>1. InExecute(t) /\ thread'[t].pc = "idle"
    BY <1>1, <1>6 DEF WorkerCatches, Finish
  <2>2. Phase[t] = "working" /\ Phase'[t] = "out" /\ Want'[t] = {}
    BY <2>1 DEF Phase, Want, Executing, InExecute
  <2>3. Exclusion!Leave(t)
    BY <1>2, <2>2, OneMoves DEF Exclusion!Leave
  <2>. QED  BY <2>3 DEF Exclusion!Next
<1>. QED  BY <1>3, <1>4, <1>5, <1>6 DEF WorkerStep

LEMMA LostExcludes ==
  ASSUME TypeInv, NEW t \in Workers, SessionLost(t)
  PROVE  [Exclusion!Next]_(Exclusion!vars)
<1>1. /\ thread \in [Threads -> Session] /\ Idle.pc = "idle"
      /\ Executing(t) /\ thread' = [thread EXCEPT ![t] = Idle]
  BY DEF TypeInv, TypeOK, Idle, SessionLost
<1>2. Alone(t)
  BY <1>1, StaysPhase DEF Alone, Stays
<1>3. Phase[t] # "out" /\ Phase'[t] = "out" /\ Want'[t] = {}
  BY <1>1 DEF Phase, Want, Executing, InExecute
<1>4. Exclusion!Leave(t)
  BY <1>2, <1>3, OneMoves DEF Exclusion!Leave
<1>. QED  BY <1>4 DEF Exclusion!Next

LEMMA ExecuteExcludes ==
  ASSUME TypeInv, NEW t \in Threads, Execute(t)
  PROVE  [Exclusion!Next]_(Exclusion!vars)
<1>1. thread \in [Threads -> Session] /\ Idle.pc = "idle" /\ Workers \subseteq Threads
  BY DEF TypeInv, TypeOK, Idle, Threads
<1>2. CASE StartExecution(t)
  <2>1. \A u \in Workers : Stays(u) \/ GoesOnInExecute(u)
    BY <1>1, <1>2 DEF StartExecution, Stays, GoesOnInExecute, InExecute, Session
  <2>. QED  BY <2>1, StaysPhase, AllStay
<1>3. CASE BeginPush(t)
  <2>1. ASSUME NEW u \in Workers
        PROVE  Stays(u) \/ GoesOnInExecute(u)
    <3>1. thread[u] \in Session /\ u \in Threads  BY <1>1
    <3>2. CASE u = t
      BY <1>3, <3>1, <3>2 DEF BeginPush, GoesOnInExecute, InExecute, Session
    <3>3. CASE u # t
      BY <1>3, <3>1, <3>3 DEF BeginPush, Stays, Session
    <3>. QED  BY <3>2, <3>3
  <2>. QED  BY <2>1, StaysPhase, AllStay
<1>4. CASE ~StartExecution(t) /\ ~BeginPush(t)
  <2>1. InExecute(t) /\ thread' = [thread EXCEPT ![t] = Idle]
    BY <1>4 DEF Execute, ExecuteWithoutCircuit, ExecuteAdopted, PreflightFails, StartAborted,
       StartFindsNoCircuit, BeginPushAborted, PushSucceeds, PushFails, Finish, InExecute, Pushing
  <2>2. \A u \in Workers \ {t} : Stays(u)
    BY <1>1, <2>1 DEF Stays
  <2>3. CASE t \in Workers
    <3>1. Alone(t)
      BY <2>2, StaysPhase DEF Alone
    <3>2. thread'[t].pc = "idle"
      BY <1>1, <2>1
    <3>3. Phase[t] = "working" /\ Phase'[t] = "out" /\ Want'[t] = {}
      BY <2>1, <2>3, <3>2 DEF Phase, Want, Executing, InExecute
    <3>4. Exclusion!Leave(t)
      BY <2>3, <3>1, <3>3, OneMoves DEF Exclusion!Leave
    <3>. QED  BY <2>3, <3>4 DEF Exclusion!Next
  <2>4. CASE t \notin Workers
    <3>1. \A u \in Workers : Phase'[u] = Phase[u] /\ Want'[u] = Want[u]
      BY <2>2, <2>4, StaysPhase
    <3>. QED  BY <3>1, AllStay
  <2>. QED  BY <2>3, <2>4
<1>. QED  BY <1>2, <1>3, <1>4

LEMMA CrashExcludes ==
  ASSUME TypeInv, NEW n \in Nodes, Crash(n)
  PROVE  [Exclusion!Next]_(Exclusion!vars)
<1>1. \A u \in Workers : thread'[u] = IF NodeOf[u] = n THEN Idle ELSE thread[u]
  BY DEF Crash, Threads
<1>2. \A u \in Workers : IF NodeOf[u] = n THEN Phase'[u] = "out" /\ Want'[u] = {}
                         ELSE Phase'[u] = Phase[u] /\ Want'[u] = Want[u]
  BY <1>1 DEF Phase, Want, Executing, InExecute, Idle
<1>3. CASE \E t \in Workers : NodeOf[t] = n
  <2>1. PICK t \in Workers : NodeOf[t] = n
    BY <1>3
  <2>2. Phase' = [u \in Workers |-> IF Exclusion!Together(t, u) THEN "out" ELSE Phase[u]]
    BY <1>2, <2>1 DEF Exclusion!Together, Phase
  <2>3. Want' = [u \in Workers |-> IF Exclusion!Together(t, u) THEN {} ELSE Want[u]]
    BY <1>2, <2>1 DEF Exclusion!Together, Want
  <2>4. Exclusion!Stop(t)
    BY <2>2, <2>3 DEF Exclusion!Stop
  <2>. QED  BY <2>4 DEF Exclusion!Next
<1>4. CASE \A t \in Workers : NodeOf[t] # n
  BY <1>2, <1>4, AllStay
<1>. QED  BY <1>3, <1>4

LEMMA StepExcludes ==
  ASSUME TypeInv, [Next]_vars
  PROVE  [Exclusion!Next]_(Exclusion!vars)
<1>1. CASE UNCHANGED thread
  BY <1>1, StaysPhase, AllStay DEF Stays
<1>2. ASSUME NEW r \in Requests, Request(r) \/ Commit(r)
      PROVE  [Exclusion!Next]_(Exclusion!vars)
  <2>1. \A u \in Workers : u # r /\ u \in Threads /\ thread \in [Threads -> Session]
    BY ThreadAssumption DEF TypeInv, TypeOK, Threads
  <2>2. \A u \in Workers : Stays(u)
    BY <1>2, <2>1
    DEF Request, Commit, CreateWorkOrder, LoadForProvision, LoadForSubmit, LoadForApprove, LoadForReject,
        LoadForCancel, LoadForDelete, LoadOrder, LoadForExecute, LoadForDeleteCircuit, RequestFails,
        CommitSubmit, CommitApprove, CommitReject, CommitCancel, CommitStatus, CommitDelete,
        CommitProvision, CommitDeleteCircuit, Stays
  <2>. QED  BY <2>2, StaysPhase, AllStay
<1>3. ASSUME NEW n \in Nodes, Restart(n)
      PROVE  UNCHANGED thread
  BY <1>3 DEF Restart
<1>. QED  BY <1>1, <1>2, <1>3, WorkerExcludes, LostExcludes, ExecuteExcludes, CrashExcludes DEF Next, vars

\* worker.py:123-149: the workers of every process keep to DeviceExclusion,
\* which the device locks implement (DeviceLocksProofs): for any number of
\* processes, threads, orders, circuits and crashes.
THEOREM WorkersRefine == Spec => ImplementsExclusion
<1>1. Init => Exclusion!Init
  BY DEF Init, Exclusion!Init, Phase, Want, Threads, Idle, Executing, InExecute
<1>2. TypeInv /\ [Next]_vars => [Exclusion!Next]_(Exclusion!vars)
  BY StepExcludes
<1>. QED  BY <1>1, <1>2, TypeInvariant, PTL DEF Spec, ImplementsExclusion, Exclusion!Spec
=============================================================================
