------------------------ MODULE JobExecution_proofs ------------------------
(***************************************************************************)
(* Theorems about JobExecution, for any jobs, runs, processes and          *)
(* requests.                                                               *)
(***************************************************************************)
EXTENDS JobExecution, TLAPS

(* Writing one field of a row keeps it a row. *)
LEMMA NewRowType == \A s \in Status : NewRow(s) \in Row
  BY DEF NewRow, Row

LEMMA ClosedType == \A r \in Row, s \in Status : Closed(r, s) \in Row
  BY DEF Closed, Row

LEMMA OverwrittenType == \A r \in Row, s \in Status : Overwritten(r, s) \in Row
  BY DEF Overwritten, Row

LEMMA RequeuedType ==
  \A r \in Row, m \in {"none", "legacy", "tokenized"} : Requeued(r, m) \in Row
  BY DEF Requeued, Row, Status, Active

LEMMA RetriedType ==
  ASSUME NEW r \in Row, NEW loaded, loaded.tokened \in BOOLEAN, loaded.hidden \in BOOLEAN
  PROVE  Retried(r, loaded) \in Row
BY DEF Retried, Row, Status, Active

-----------------------------------------------------------------------------
(* Type correctness.                                                       *)

LEMMA TypeInit == Init => Shapes
<1> SUFFICES ASSUME Init PROVE Shapes
  OBVIOUS
<1>1. NewRow("absent") \in Row /\ NewRow("running") \in Row
  BY NewRowType DEF Status, Active
<1>2. row \in [Job -> Row]
  BY <1>1 DEF Init
<1>3. scan \in [Process -> [phase : {"idle", "recover", "watchdog", "dispatch"},
                            seen : [Job -> Row], todo : SUBSET Job]]
  BY <1>1 DEF Init, NoScan
<1>4. stops \in 0..MaxStops
  BY ConstantsAssumption, SMT DEF Init
<1> QED
  BY <1>2, <1>3, <1>4 DEF Init, Shapes, RunState, ReqType

(* A live task's run is a run. *)
LEMMA AtType ==
  ASSUME Shapes, NEW p \in Process, NEW j \in Job, NEW s, At(p, j, s)
  PROVE  task[p][j] \in Run /\ pc[task[p][j]] = s
BY DEF Shapes, At

LEMMA MoveType ==
  ASSUME Shapes, NEW p \in Process, NEW j \in Job, NEW s \in RunState,
         Move(p, j, s), row' \in [Job -> Row]
  PROVE  Shapes'
BY DEF Shapes, Move

LEMMA RunnerType ==
  ASSUME Shapes, NEW p \in Process, NEW j \in Job, RunnerStep(p, j)
  PROVE  Shapes'
<1> USE NewRowType, ClosedType, RequeuedType, AtType, MoveType
<1>0. /\ row \in [Job -> Row] /\ row[j] \in Row
      /\ {"done", "failed", "partial", "cancelled", "running"} \subseteq Status
      /\ {"claiming", "claimed", "executing", "imported", "teardown", "refused",
          "leaving", "idle"} \subseteq RunState
  BY DEF Shapes, Status, Active, Terminal, RunState
<1>1. CASE Admit(p, j)
  BY <1>0, <1>1 DEF Admit
<1>2. CASE InitFailure(p, j)
  BY <1>0, <1>2 DEF InitFailure
<1>3. CASE Claim(p, j)
  <2>1. task[p][j] \in Run
    BY <1>3 DEF Claim
  <2>2. [row[j] EXCEPT !.status = "running", !.token = task[p][j],
                       !.live = TRUE, !.stale = FALSE] \in Row
    BY <1>0, <2>1 DEF Row
  <2> QED
    BY <1>0, <1>3, <2>2 DEF Claim
<1>4. CASE ClaimMissed(p, j)
  BY <1>0, <1>4 DEF ClaimMissed
<1>5. CASE ClaimLocked(p, j)
  BY <1>0, <1>5 DEF ClaimLocked
<1>6. CASE BeginExecution(p, j)
  <2>1. [row[j] EXCEPT !.status = "running", !.stale = FALSE] \in Row
    BY <1>0 DEF Row
  <2> QED
    BY <1>0, <1>6, <2>1 DEF BeginExecution
<1>7. CASE BeginRefused(p, j)
  BY <1>0, <1>7 DEF BeginRefused
<1>8. CASE ProgressRefused(p, j)
  BY <1>0, <1>8 DEF ProgressRefused
<1>9. CASE Heartbeat(p, j)
  <2>1. row' \in [Job -> Row]
    BY <1>0, <1>9 DEF Heartbeat, Row
  <2> QED
    BY <1>9, <2>1 DEF Heartbeat, Shapes
<1>10. CASE HeartbeatFails(p, j)
  BY <1>0, <1>10 DEF HeartbeatFails
<1>11. CASE CloseUnflushed(p, j)
  <2>1. [Closed(row[j], "cancelled") EXCEPT !.hidden = TRUE] \in Row
    <3>1. Closed(row[j], "cancelled") \in Row
      BY <1>0
    <3> QED
      BY <3>1 DEF Row
  <2>2. Closed(row[j], "done") \in Row /\ Closed(row[j], "failed") \in Row
    BY <1>0
  <2>3. row' \in [Job -> Row]
    BY <1>0, <1>11, <2>1, <2>2, ZenonT(60) DEF CloseUnflushed
  <2>4. Move(p, j, "teardown")
    BY <1>11 DEF CloseUnflushed
  <2> QED
    BY <1>0, <2>3, <2>4
<1>12. CASE CloseFlushed(p, j)
  BY <1>0, <1>12 DEF CloseFlushed
<1>13. CASE ClosingImport(p, j)
  <2>1. \A s \in {"done", "partial"} : Overwritten(row[j], s) \in Row
    BY <1>0, OverwrittenType
  <2>2. row' \in [Job -> Row]
    BY <1>0, <1>13, <2>1 DEF ClosingImport
  <2> QED
    BY <1>0, <1>13, <2>2 DEF ClosingImport
<1>14. CASE ImportedRefused(p, j)
  BY <1>0, <1>14 DEF ImportedRefused
<1>15. CASE ExecutionError(p, j)
  BY <1>0, <1>15 DEF ExecutionError
<1>16. CASE Cancelled(p, j)
  <2>1. Closed(row[j], "cancelled") \in Row /\ task[p][j] \in Run
    BY <1>0, <1>16 DEF Cancelled, Shapes
  <2>2. row' \in [Job -> Row]
    BY <1>0, <1>16, <2>1 DEF Cancelled
  <2>3. pc' \in [Run -> RunState]
    <3>1. pc' = [pc EXCEPT ![task[p][j]] = "teardown"]
          \/ pc' = [pc EXCEPT ![task[p][j]] = "leaving"]
      BY <1>16 DEF Cancelled
    <3> QED
      BY <2>1, <3>1 DEF Shapes, RunState
  <2>4. wish' = wish \ {task[p][j]}
    BY <1>16 DEF Cancelled
  <2>5. UNCHANGED <<task, proc, scan, req, stops>>
    BY <1>16 DEF Cancelled
  <2> QED
    BY <2>2, <2>3, <2>4, <2>5 DEF Shapes
<1>17. CASE EndTask(p, j)
  BY <1>0, <1>17 DEF EndTask, Shapes
<1> QED
  BY <1>1, <1>2, <1>3, <1>4, <1>5, <1>6, <1>7, <1>8, <1>9, <1>10, <1>11, <1>12,
     <1>13, <1>14, <1>15, <1>16, <1>17 DEF RunnerStep

ScanType == [phase : {"idle", "recover", "watchdog", "dispatch"},
             seen : [Job -> Row], todo : SUBSET Job]

LEMMA DispatchType ==
  ASSUME Shapes, NEW p \in Process, NEW j \in Job, Dispatch(p, j)
  PROVE  task' \in [Process -> [Job -> Run \cup {None}]] /\ pc' \in [Run -> RunState]
<1>1. CASE UNCHANGED <<task, pc>>
  BY <1>1 DEF Shapes
<1>2. CASE \E r \in Run : /\ task' = [task EXCEPT ![p][j] = r]
                         /\ pc' = [pc EXCEPT ![r] = "waiting"]
  BY <1>2 DEF Shapes, RunState
<1> QED
  BY <1>1, <1>2 DEF Dispatch

LEMMA ReadType ==
  ASSUME Shapes, NEW p \in Process, NEW J, NEW ph \in {"recover", "watchdog"},
         Read(p, ph, J), proc' \in [Process -> {"down", "starting", "up", "stopping"}]
  PROVE  Shapes'
<1>1. NewRow("absent") \in Row
  BY NewRowType DEF Status
<1>2. [j \in Job |-> IF j \in J THEN row[j] ELSE NewRow("absent")] \in [Job -> Row]
  BY <1>1 DEF Shapes
<1>3. scan' \in [Process -> ScanType]
  BY <1>2 DEF Read, Shapes, ScanType
<1> QED
  BY <1>3 DEF Read, Shapes, ScanType

LEMMA ApplyType ==
  ASSUME Shapes, NEW p \in Process, NEW new \in [Job -> Row], NEW taken,
         NEW todo \in SUBSET Job, Apply(p, new, taken, todo)
  PROVE  Shapes'
<1>1. ASSUME NEW j \in Job PROVE [new[j] EXCEPT !.hidden = row[j].hidden] \in Row
  <2>1. row[j] \in Row /\ new[j] \in Row
    BY <1>1 DEF Shapes
  <2> QED
    BY <2>1 DEF Row
<1>2. row' \in [Job -> Row]
  BY <1>1 DEF Apply, Shapes
<1>3. NoScan \in ScanType
  BY NewRowType DEF NoScan, ScanType, Status
<1>4. [NoScan EXCEPT !.phase = "dispatch", !.todo = todo] \in ScanType
  BY <1>3 DEF ScanType
<1>5. scan' \in [Process -> ScanType]
  BY <1>4 DEF Apply, Shapes, ScanType
<1> QED
  BY <1>2, <1>5 DEF Apply, Shapes, ScanType

LEMMA ScanTypeStep ==
  ASSUME Shapes, NEW p \in Process, ScanStep(p)
  PROVE  Shapes'
<1>0. scan \in [Process -> ScanType] /\ NoScan \in ScanType
  BY NewRowType DEF Shapes, ScanType, NoScan, Status
<1>1. CASE RecoverRead(p)
  BY <1>1, ReadType DEF RecoverRead, Shapes
<1>2. CASE WatchdogRead(p)
  BY <1>2, ReadType DEF WatchdogRead, Shapes
<1>3. CASE RecoverApply(p)
  <2>1. ASSUME NEW j \in Job PROVE RecoverWrites(scan[p].seen[j]) \in Row
    BY <1>0, RequeuedType DEF RecoverWrites, ScanType, Row
  <2>2. [j \in Job |-> RecoverWrites(scan[p].seen[j])] \in [Job -> Row]
    BY <2>1
  <2> QED
    BY <1>3, <2>2, ApplyType DEF RecoverApply
<1>4. CASE WatchdogApply(p)
  <2>1. ASSUME NEW j \in Job PROVE WatchdogWrites(scan[p].seen[j]) \in Row
    BY <1>0, RequeuedType, ClosedType DEF WatchdogWrites, ScanType, Status, Terminal
  <2>2. [j \in Job |-> WatchdogWrites(scan[p].seen[j])] \in [Job -> Row]
    BY <2>1
  <2> QED
    BY <1>4, <2>2, ApplyType DEF WatchdogApply
<1>5. CASE ScanDispatch(p)
  <2>1. task' \in [Process -> [Job -> Run \cup {None}]] /\ pc' \in [Run -> RunState]
    BY <1>0, <1>5, DispatchType DEF ScanDispatch, ScanType, Shapes
  <2>2. ASSUME NEW j PROVE [scan[p] EXCEPT !.todo = @ \ {j}] \in ScanType
    BY <1>0 DEF ScanType
  <2>3. scan' \in [Process -> ScanType]
    BY <1>0, <1>5, <2>2 DEF ScanDispatch
  <2> QED
    BY <1>5, <2>1, <2>3 DEF ScanDispatch, Shapes, ScanType
<1>6. CASE ScanFails(p)
  BY <1>0, <1>6 DEF ScanFails, Shapes, ScanType
<1> QED
  BY <1>1, <1>2, <1>3, <1>4, <1>5, <1>6 DEF ScanStep

BusyRequest == [op : Ops \ {"idle"}, proc : Process, job : Job,
             tokened : BOOLEAN, hidden : BOOLEAN]

LEMMA AwaitType ==
  ASSUME Shapes, NEW q \in Request, NEW p \in Process, NEW j \in Job,
         NEW op \in Ops \ {"idle"}, Await(q, p, j, op)
  PROVE  req' \in [Request -> ReqType]
BY DEF Shapes, Await, ReqType, Row

LEMMA FinishType ==
  ASSUME Shapes, NEW q \in Request, Finish(q)
  PROVE  req' \in [Request -> ReqType]
BY DEF Shapes, Finish, ReqType

(* A request that is not idle names a process and a job. *)
LEMMA BusyType ==
  ASSUME Shapes, NEW q \in Request, req[q].op # "idle"
  PROVE  req[q] \in BusyRequest
BY DEF Shapes, ReqType, Idle, BusyRequest

LEMMA LoadRowType ==
  ASSUME Shapes, NEW q \in Request, NEW p \in Process, NEW j \in Job,
         NEW op, NEW ph \in Ops \ {"idle"}, NEW allowed, LoadRow(q, p, j, op, ph, allowed)
  PROVE  Shapes'
BY AwaitType DEF LoadRow, Shapes

LEMMA RequestType ==
  ASSUME Shapes, NEW q \in Request, RequestStep(q)
  PROVE  Shapes'
<1>0. /\ {"dispatch", "retrying", "hiding", "pruning", "superseding", "cancelling"} \subseteq Ops \ {"idle"}
      /\ {"pending", "cancelled"} \subseteq Status
      /\ \A j \in Job : row[j] \in Row
  BY DEF Ops, Status, Active, Terminal, Shapes
<1>1. ASSUME NEW p \in Process, NEW j \in Job, Submit(q, p, j) PROVE Shapes'
  <2>1. NewRow("pending") \in Row
    BY <1>0, NewRowType
  <2> QED
    BY <1>0, <1>1, <2>1, AwaitType DEF Submit, Shapes
<1>2. ASSUME NEW p \in Process, NEW j \in Job, CancelPersist(q, p, j) PROVE Shapes'
  <2>1. Closed(row[j], "cancelled") \in Row
    BY <1>0, ClosedType
  <2> QED
    BY <1>0, <1>2, <2>1, AwaitType DEF CancelPersist, Shapes
<1>3. ASSUME NEW p \in Process, NEW j \in Job, BatchCancel(q, p, j) PROVE Shapes'
  <2>1. Overwritten(row[j], "cancelled") \in Row
    BY <1>0, OverwrittenType
  <2>2. [Overwritten(row[j], "cancelled") EXCEPT !.hidden = TRUE] \in Row
    BY <2>1 DEF Row
  <2> QED
    BY <1>0, <1>3, <2>2, AwaitType DEF BatchCancel, Shapes
<1>4. ASSUME NEW p \in Process, NEW j \in Job, RetryRead(q, p, j) PROVE Shapes'
  BY <1>0, <1>4, LoadRowType DEF RetryRead
<1>5. ASSUME NEW p \in Process, NEW j \in Job, HideRead(q, p, j) PROVE Shapes'
  BY <1>0, <1>5, LoadRowType DEF HideRead
<1>6. ASSUME NEW p \in Process, NEW j \in Job, SupersedeRead(q, p, j) PROVE Shapes'
  BY <1>0, <1>6, LoadRowType DEF SupersedeRead
<1>7. CASE RequestDispatch(q)
  <2>1. req[q] \in BusyRequest
    BY <1>7, BusyType DEF RequestDispatch
  <2>2. task' \in [Process -> [Job -> Run \cup {None}]] /\ pc' \in [Run -> RunState]
    BY <1>7, <2>1, DispatchType DEF RequestDispatch, BusyRequest
  <2> QED
    BY <1>7, <2>2, FinishType DEF RequestDispatch, Shapes
<1>8. CASE CancelDeliver(q)
  <2>1. req[q] \in BusyRequest
    BY <1>8, BusyType DEF CancelDeliver
  <2>2. task[req[q].proc][req[q].job] \in Run \cup {None}
    BY <2>1 DEF Shapes, BusyRequest
  <2>3. wish' \subseteq Run
    BY <1>8, <2>2 DEF CancelDeliver, CancelTask, Shapes
  <2> QED
    BY <1>8, <2>3, FinishType DEF CancelDeliver, Shapes
<1>9. CASE RetryWrite(q)
  <2>1. req[q] \in BusyRequest
    BY <1>9, BusyType DEF Writes, RetryWrite
  <2>2. Retried(row[req[q].job], req[q]) \in Row
    BY <1>0, <2>1, RetriedType DEF BusyRequest
  <2>4. row' \in [Job -> Row]
    BY <1>0, <1>9, <2>1, <2>2 DEF Writes, RetryWrite, Shapes
  <2>5. [req[q] EXCEPT !.op = "dispatch"] \in ReqType
    BY <1>0, <2>1 DEF BusyRequest, ReqType
  <2>6. req' \in [Request -> ReqType]
    BY <1>9, <2>5 DEF Writes, RetryWrite, Shapes
  <2> QED
    BY <1>9, <2>4, <2>6 DEF Writes, RetryWrite, Shapes
<1>10. CASE HideWrite(q)
  <2>1. req[q].job \in Job
    BY <1>10, BusyType DEF Writes, HideWrite, BusyRequest
  <2>2. [row[req[q].job] EXCEPT !.hidden = TRUE, !.stale = FALSE] \in Row
    BY <1>0, <2>1, ZenonT(60) DEF Row
  <2> QED
    BY <1>10, <2>1, <2>2, FinishType DEF Writes, HideWrite, Shapes
<1>11. CASE SupersedeWrite(q)
  <2>1. req[q].job \in Job
    BY <1>11, BusyType DEF Writes, SupersedeWrite, BusyRequest
  <2>2. Overwritten(row[req[q].job], "cancelled") \in Row
    BY <1>0, <2>1, OverwrittenType
  <2> QED
    BY <1>11, <2>1, <2>2, FinishType DEF Writes, SupersedeWrite, Shapes
<1>12. ASSUME NEW p \in Process, NEW j \in Job, PruneRead(q, p, j) PROVE Shapes'
  BY <1>0, <1>12, LoadRowType DEF PruneRead
<1>13. CASE PruneWrite(q)
  <2>1. req[q].job \in Job
    BY <1>13, BusyType DEF Writes, PruneWrite, BusyRequest
  <2>2. NewRow("absent") \in Row
    BY NewRowType DEF Status
  <2> QED
    BY <1>13, <2>1, <2>2, FinishType DEF PruneWrite, Shapes
<1>14. CASE RowGone(q)
  BY <1>14, FinishType DEF RowGone, Shapes
<1> QED
  BY <1>1, <1>2, <1>3, <1>4, <1>5, <1>6, <1>7, <1>8, <1>9, <1>10, <1>11, <1>12, <1>13, <1>14
     DEF RequestStep, CommitLoaded

LEMMA EnvironmentType == Shapes /\ EnvironmentStep => Shapes'
<1> SUFFICES ASSUME Shapes, EnvironmentStep PROVE Shapes'
  OBVIOUS
<1>1. ASSUME NEW j \in Job, LeaseLapses(j) PROVE Shapes'
  <2>1. row[j] \in Row
    BY DEF Shapes
  <2>2. [row[j] EXCEPT !.live = FALSE] \in Row
    BY <2>1 DEF Row
  <2> QED
    BY <1>1, <2>2 DEF LeaseLapses, Shapes
<1>2. ASSUME NEW j \in Job, GoesStale(j) PROVE Shapes'
  <2>1. row[j] \in Row
    BY DEF Shapes
  <2>2. [row[j] EXCEPT !.stale = TRUE] \in Row
    BY <2>1 DEF Row
  <2> QED
    BY <1>2, <2>2 DEF GoesStale, Shapes
<1>3. ASSUME NEW p \in Process, Start(p) PROVE Shapes'
  BY <1>3 DEF Start, Shapes
<1>4. ASSUME NEW p \in Process, Exit(p) PROVE Shapes'
  BY <1>4 DEF Exit, Shapes
<1>5. NoScan \in ScanType
  BY NewRowType DEF NoScan, ScanType, Status
<1>6. ASSUME NEW p \in Process, stops < MaxStops, stops' = stops + 1
      PROVE  stops' \in 0..MaxStops
  BY <1>6, ConstantsAssumption DEF Shapes
<1>7. ASSUME NEW p \in Process, Crash(p) PROVE Shapes'
  <2>1. task' \in [Process -> [Job -> Run \cup {None}]] /\ pc' \in [Run -> RunState]
    BY <1>7 DEF Crash, Shapes, RunState
  <2>2. scan' \in [Process -> ScanType] /\ req' \in [Request -> ReqType]
    BY <1>5, <1>7 DEF Crash, Shapes, ScanType, ReqType
  <2> QED
    BY <1>6, <1>7, <2>1, <2>2 DEF Crash, Shapes, ScanType
<1>8. ASSUME NEW p \in Process, Shutdown(p) PROVE Shapes'
  <2>1. TasksOf(p) \subseteq Run
    BY DEF TasksOf, Shapes
  <2>2. scan' \in [Process -> ScanType]
    BY <1>5, <1>8 DEF Shutdown, Shapes, ScanType
  <2> QED
    BY <1>6, <1>8, <2>1, <2>2 DEF Shutdown, Shapes, ScanType
<1> QED
  BY <1>1, <1>2, <1>3, <1>4, <1>7, <1>8 DEF EnvironmentStep

LEMMA StutterType == Shapes /\ UNCHANGED vars => Shapes'
  BY DEF Shapes, vars

LEMMA TypeStep == Shapes /\ [Next]_vars => Shapes'
  BY RunnerType, ScanTypeStep, RequestType, EnvironmentType, StutterType DEF Next

-----------------------------------------------------------------------------
(***************************************************************************)
(* A run keeps its slot to itself.  A task slot names a run that is not    *)
(* idle, and an idle run is all that Dispatch may take, so no two slots    *)
(* name the same run.                                                      *)
(***************************************************************************)
LEMMA SlotsDispatch ==
  ASSUME Shapes, Placed, Alone, NEW p \in Process, NEW j \in Job, Dispatch(p, j)
  PROVE  Placed' /\ Alone'
<1>1. CASE UNCHANGED <<task, pc>>
  BY <1>1 DEF Placed, Alone
<1>2. CASE task[p][j] = None /\ ~UNCHANGED <<task, pc>>
  <2>1. PICK r \in Run : /\ pc[r] = "idle"
                         /\ task' = [task EXCEPT ![p][j] = r]
                         /\ pc' = [pc EXCEPT ![r] = "waiting"]
    BY <1>2 DEF Dispatch, Fresh
  <2>2. \A p1 \in Process, j1 \in Job : task[p1][j1] # r
    BY <2>1, ConstantsAssumption DEF Placed
  <2>3. \A p1 \in Process, j1 \in Job :
           task'[p1][j1] = IF p1 = p /\ j1 = j THEN r ELSE task[p1][j1]
    BY <2>1 DEF Shapes
  <2>4. \A p1 \in Process, j1 \in Job : task[p1][j1] # None => task[p1][j1] \in Run
    BY DEF Shapes
  <2>5. \A s \in Run : pc'[s] = IF s = r THEN "waiting" ELSE pc[s]
    BY <2>1 DEF Shapes
  <2>6. Placed'
    BY <2>1, <2>3, <2>4, <2>5 DEF Placed
  <2>7. Alone'
    BY <2>2, <2>3 DEF Alone
  <2> QED
    BY <2>6, <2>7
<1> QED
  BY <1>1, <1>2 DEF Dispatch

LEMMA SlotsMove ==
  ASSUME Shapes, Placed, Alone, NEW p \in Process, NEW j \in Job, NEW s, s # "idle",
         pc' = [pc EXCEPT ![task[p][j]] = s], UNCHANGED task
  PROVE  Placed' /\ Alone'
BY DEF Shapes, Placed, Alone

LEMMA SlotsRunner ==
  ASSUME Shapes, Placed, Alone, NEW p \in Process, NEW j \in Job, RunnerStep(p, j)
  PROVE  Placed' /\ Alone'
<1>1. CASE EndTask(p, j)
  <2>1. task[p][j] \in Run
    BY <1>1 DEF EndTask, Shapes
  <2>2. \A p1 \in Process, j1 \in Job :
           task'[p1][j1] = IF p1 = p /\ j1 = j THEN None ELSE task[p1][j1]
    BY <1>1 DEF EndTask, Shapes
  <2>3. \A s \in Run : s # task[p][j] => pc'[s] = pc[s]
    BY <1>1 DEF EndTask, Shapes
  <2> QED
    BY <2>1, <2>2, <2>3 DEF Placed, Alone, Shapes
<1>2. CASE Heartbeat(p, j)
  BY <1>2 DEF Heartbeat, Placed, Alone
<1>3. ASSUME NEW s, s # "idle", pc' = [pc EXCEPT ![task[p][j]] = s], UNCHANGED task
      PROVE  Placed' /\ Alone'
  BY <1>3, SlotsMove
<1>4. RunnerStep(p, j) => EndTask(p, j) \/ Heartbeat(p, j) \/ Cancelled(p, j)
         \/ \E s \in RunState \ {"idle"} : Move(p, j, s)
  BY DEF RunnerStep, Admit, InitFailure, Claim, ClaimMissed, ClaimLocked, BeginExecution,
         BeginRefused, ProgressRefused, HeartbeatFails, CloseUnflushed, CloseFlushed,
         ClosingImport, ImportedRefused, ExecutionError, RunState
<1>5. CASE Cancelled(p, j)
  <2>1. UNCHANGED task
        /\ \E s \in {"teardown", "leaving"} : pc' = [pc EXCEPT ![task[p][j]] = s]
    BY <1>5 DEF Cancelled
  <2>2. PICK s \in {"teardown", "leaving"} : pc' = [pc EXCEPT ![task[p][j]] = s]
    BY <2>1
  <2>3. s # "idle"
    OBVIOUS
  <2> QED
    BY <2>1, <2>2, <2>3, <1>3
<1>6. CASE \E s \in RunState \ {"idle"} : Move(p, j, s)
  BY <1>3, <1>6 DEF Move
<1> QED
  BY <1>1, <1>2, <1>4, <1>5, <1>6

LEMMA SlotsCrash ==
  ASSUME Shapes, Placed, Alone, NEW p \in Process, Crash(p)
  PROVE  Placed' /\ Alone'
<1>1. \A p1 \in Process, j1 \in Job : task'[p1][j1] = IF p1 = p THEN None ELSE task[p1][j1]
  BY DEF Crash, Shapes
<1>2. \A r \in Run : r \notin TasksOf(p) => pc'[r] = pc[r]
  BY DEF Crash
<1>3. \A p1 \in Process, j1 \in Job :
         p1 # p /\ task[p1][j1] # None => task[p1][j1] \in Run \ TasksOf(p)
  BY DEF TasksOf, Alone, Shapes
<1> QED
  BY <1>1, <1>2, <1>3 DEF Placed, Alone

LEMMA SlotsStep == Shapes /\ Placed /\ Alone /\ [Next]_vars => Placed' /\ Alone'
<1> SUFFICES ASSUME Shapes, Placed, Alone, [Next]_vars PROVE Placed' /\ Alone'
  OBVIOUS
<1>1. CASE UNCHANGED <<task, pc>>
  BY <1>1 DEF Placed, Alone
<1>2. ASSUME NEW p \in Process, NEW j \in Job, RunnerStep(p, j) PROVE Placed' /\ Alone'
  BY <1>2, SlotsRunner
<1>3. ASSUME NEW p \in Process, ScanStep(p) PROVE Placed' /\ Alone'
  <2>1. CASE ScanDispatch(p)
    <3>1. scan[p].todo \subseteq Job
      BY DEF Shapes
    <3> QED
      BY <1>1, <2>1, <3>1, SlotsDispatch DEF ScanDispatch
  <2>2. CASE UNCHANGED <<task, pc>>
    BY <1>1, <2>2
  <2> QED
    BY <1>3, <2>1, <2>2 DEF ScanStep, RecoverRead, WatchdogRead, RecoverApply,
       WatchdogApply, ScanFails, Read, Apply
<1>4. ASSUME NEW q \in Request, RequestStep(q) PROVE Placed' /\ Alone'
  <2>1. CASE RequestDispatch(q)
    BY <2>1, BusyType, SlotsDispatch DEF RequestDispatch, BusyRequest
  <2>2. CASE UNCHANGED <<task, pc>>
    BY <1>1, <2>2
  <2> QED
    BY <1>4, <2>1, <2>2 DEF RequestStep, Submit, CancelPersist, BatchCancel, RetryRead,
       HideRead, PruneRead, SupersedeRead, LoadRow, CancelDeliver, RetryWrite, HideWrite, PruneWrite, SupersedeWrite, RowGone, CommitLoaded
<1>5. ASSUME EnvironmentStep PROVE Placed' /\ Alone'
  BY <1>1, <1>5, SlotsCrash DEF EnvironmentStep, LeaseLapses, GoesStale, Start, Shutdown, Exit
<1> QED
  BY <1>1, <1>2, <1>3, <1>4, <1>5 DEF Next, vars

LEMMA SlotsInit == Init => Placed /\ Alone
  BY DEF Init, Placed, Alone

LEMMA WellFormedStep == TypeOK /\ [Next]_vars => TypeOK'
  BY TypeStep, SlotsStep DEF TypeOK

(* Every reachable state of the job queue is well formed: the variables    *)
(* keep their shape, and a run keeps its slot to itself.                   *)
THEOREM TypeCorrect == Spec => []TypeOK
<1>1. Init => TypeOK
  BY TypeInit, SlotsInit DEF TypeOK
<1> QED
  BY <1>1, WellFormedStep, PTL DEF Spec

-----------------------------------------------------------------------------

(* The actions that write rows leave the run states alone and the other    *)
(* way round, the runner's own actions excepted.                           *)
LEMMA OnlyRunnersDoBoth ==
  ASSUME \/ \E p \in Process : ScanStep(p)
         \/ \E q \in Request : RequestStep(q)
         \/ EnvironmentStep
  PROVE  UNCHANGED row \/ UNCHANGED pc
<1>1. ASSUME NEW p \in Process, ScanStep(p) PROVE UNCHANGED row \/ UNCHANGED pc
  BY <1>1 DEF ScanStep, RecoverRead, WatchdogRead, RecoverApply, WatchdogApply,
              ScanDispatch, ScanFails, Read, Apply
<1>2. ASSUME NEW q \in Request, RequestStep(q) PROVE UNCHANGED row \/ UNCHANGED pc
  BY <1>2 DEF RequestStep, Submit, RequestDispatch, CancelPersist, BatchCancel, RetryRead,
              HideRead, PruneRead, SupersedeRead, LoadRow, CancelDeliver, RetryWrite, HideWrite,
              PruneWrite, SupersedeWrite, RowGone, CommitLoaded
<1>3. ASSUME EnvironmentStep PROVE UNCHANGED row \/ UNCHANGED pc
  BY <1>3 DEF EnvironmentStep, LeaseLapses, GoesStale, Start, Crash, Shutdown, Exit
<1> QED
  BY <1>1, <1>2, <1>3

(* A runner's step moves no run but its own. *)
LEMMA MovesItself ==
  ASSUME Shapes, NEW p \in Process, NEW j \in Job, RunnerStep(p, j),
         NEW r \in Run, r # task[p][j]
  PROVE  pc'[r] = pc[r]
<1>1. CASE EndTask(p, j)
  BY <1>1 DEF EndTask, Shapes
<1>2. CASE Heartbeat(p, j)
  BY <1>2 DEF Heartbeat
<1>3. CASE Cancelled(p, j)
  BY <1>3 DEF Cancelled, Shapes
<1>4. CASE \E s \in RunState : Move(p, j, s)
  BY <1>4 DEF Move, Shapes
<1> QED
  BY <1>1, <1>2, <1>3, <1>4 DEF RunnerStep, Admit, InitFailure, Claim, ClaimMissed,
     ClaimLocked, BeginExecution, BeginRefused, ProgressRefused, HeartbeatFails,
     CloseUnflushed, CloseFlushed, ClosingImport, ImportedRefused, ExecutionError, RunState

(* A run that does not hold the row's token and takes a step writes no row, *)
(* unless it is the step of the closing import.                            *)
LEMMA DisplacedStep ==
  ASSUME Shapes, NEW p \in Process, NEW j \in Job, RunnerStep(p, j), Displaced(p, j)
  PROVE  row' = row \/ ClosingImport(p, j)
<1>1. ~Claim(p, j) /\ ~InitFailure(p, j) /\ ~Admit(p, j)
  BY DEF Claim, InitFailure, Admit, At, Displaced
<1>2. CASE ExecutionError(p, j)
  BY <1>2 DEF ExecutionError, Displaced
<1>3. CASE Cancelled(p, j)
  BY <1>3 DEF Cancelled, Displaced
<1> QED
  BY <1>1, <1>2, <1>3 DEF RunnerStep, ClaimMissed, ClaimLocked, BeginExecution, BeginRefused,
     ProgressRefused, Heartbeat, HeartbeatFails, CloseUnflushed, CloseFlushed,
     ImportedRefused, EndTask, Owns, Displaced

(* Whatever the jobs, the processes, the operations and the interleaving:  *)
(* a run that lost its row ends without writing to it, and the auto-import *)
(* of its closing pass is the only step that does not ask.                 *)
THEOREM DisplacedRunsWriteNothing == Spec => DisplacedRunIsPowerless
<1> DEFINE Harmless(p, j) ==
             Displaced(p, j) /\ Moves(p, j) /\ ~ClosingImport(p, j) => row'[j] = row[j]
<1>1. ASSUME TypeOK, [Next]_vars, NEW p \in Process, NEW j \in Job
      PROVE  Harmless(p, j)
  <2> SUFFICES ASSUME Displaced(p, j), Moves(p, j), ~ClosingImport(p, j)
               PROVE  row'[j] = row[j]
    OBVIOUS
  <2>0. Shapes /\ Alone
    BY <1>1 DEF TypeOK
  <2>1. ASSUME NEW p1 \in Process, NEW j1 \in Job, RunnerStep(p1, j1)
        PROVE  row'[j] = row[j]
    <3>1. CASE p1 = p /\ j1 = j
      BY <2>0, <2>1, <3>1, DisplacedStep
    <3>2. CASE ~(p1 = p /\ j1 = j)
      <4>1. task[p][j] # task[p1][j1] /\ task[p][j] \in Run
        BY <2>0, <3>2 DEF Alone, Shapes, Displaced
      <4>2. pc'[task[p][j]] = pc[task[p][j]]
        BY <2>0, <2>1, <4>1, MovesItself
      <4> QED
        BY <4>2 DEF Moves
    <3> QED
      BY <3>1, <3>2
  <2>2. CASE UNCHANGED row \/ UNCHANGED pc
    BY <2>2 DEF Moves
  <2> QED
    BY <1>1, <2>1, <2>2, OnlyRunnersDoBoth DEF Next, vars
<1>2. ASSUME TypeOK, [Next]_vars
      PROVE  \A p \in Process, j \in Job : Harmless(p, j)
  BY <1>1, <1>2
<1> QED
  BY <1>2, TypeCorrect, PTL DEF Spec, DisplacedRunIsPowerless

-----------------------------------------------------------------------------
(***************************************************************************)
(* What the table keeps when one request is served at a time and the       *)
(* unfenced writers stay out.  None of the properties is inductive alone:  *)
(* a retry writes what it decided on an earlier reading of the row, so it  *)
(* must still be true when it writes; a pass writes rows it read as        *)
(* active; and a run starts executing on its token alone, so a token must  *)
(* mean a running row.                                                     *)
(***************************************************************************)
OneRequest == \A q1, q2 \in Request : q1 = q2
Fenced == {"closing_import", "supersede"} \cap Operations = {}

TokenMeansRunning ==
    \A j \in Job : /\ row[j].token # None => row[j].status = "running"
                   /\ row[j].live => row[j].token # None

PassesReadActiveRows ==
    \A p \in Process, j \in Job : scan[p].seen[j].status \in Active \cup {"absent"}

(* What a handler loaded still holds when it commits. *)
LoadedHolds(q) ==
    /\ req[q].op = "retrying" => /\ row[req[q].job].status \in Retryable
                                 /\ row[req[q].job].hidden = req[q].hidden
    /\ req[q].op \in {"hiding", "pruning"} => row[req[q].job].status \in Terminal
    /\ req[q].op # "superseding"

LoadedRowsHold == \A q \in Request : LoadedHolds(q)

QueueInvariant ==
    /\ Shapes /\ TokenMeansRunning /\ PassesReadActiveRows /\ LoadedRowsHold
    /\ ActiveJobsAreVisible

(***************************************************************************)
(* What one step may make of a row r: n.  Every property of the table      *)
(* follows from this list, and each action is on it once.                  *)
(***************************************************************************)
Begins(r, n) ==
    \/ r.status = "absent" /\ n = NewRow("pending")
    \/ /\ r.status = "pending" /\ r.token = None
       /\ n.status = "running" /\ n.token # None /\ n.hidden = r.hidden
    \/ /\ r.status = "running"
       /\ n.status = "running" /\ n.token = r.token /\ n.hidden = r.hidden
       /\ n.live => n.token # None

Closes(r, n) ==
    /\ r.status \in Active /\ n.status \in Terminal
    /\ n.token = None /\ ~n.live

Requeues(r, n) ==
    /\ r.status \in Active
    /\ r.status = "running" /\ r.token # None => ~r.live
    /\ n.status \in {"pending", "failed"} /\ n.token = None /\ ~n.live /\ n.hidden = r.hidden

Remains(r, n) ==
    /\ n.status = r.status /\ n.token = r.token /\ n.live = r.live
    /\ n.hidden = r.hidden \/ r.status \in Terminal

Reopens(j) ==
    /\ row[j].status \in Retryable
    /\ row'[j].status = "pending" /\ row'[j].token = None /\ ~row'[j].live /\ ~row'[j].hidden
    /\ \E q \in Request : req[q].op = "retrying" /\ req[q].job = j

ByRunnerOrPass(j) ==
    \/ Begins(row[j], row'[j]) \/ Closes(row[j], row'[j])
    \/ Requeues(row[j], row'[j])
    \/ row'[j].hidden = row[j].hidden /\ Remains(row[j], row'[j])

Vanishes(r, n) == r.status \in Terminal /\ n = NewRow("absent")

RowStep(j) ==
    \/ ByRunnerOrPass(j) \/ Remains(row[j], row'[j])
    \/ Vanishes(row[j], row'[j]) \/ Reopens(j)

LEMMA StillIsStep == ASSUME NEW j \in Job, row'[j] = row[j] PROVE ByRunnerOrPass(j)
  BY DEF ByRunnerOrPass, Remains

LEMMA RunnerRows ==
  ASSUME QueueInvariant, Fenced, NEW p \in Process, NEW j \in Job, RunnerStep(p, j),
         NEW k \in Job
  PROVE  ByRunnerOrPass(k)
<1>0. row \in [Job -> Row] /\ row[j] \in Row /\ Shapes
  BY DEF QueueInvariant, Shapes
<1>1. CASE row' = row
  BY <1>1, StillIsStep
<1>2. CASE k # j
  <2>1. \A new : row' = [row EXCEPT ![j] = new] => row'[k] = row[k]
    BY <1>0, <1>2
  <2>2. row' = row \/ \E new : row' = [row EXCEPT ![j] = new]
    BY DEF RunnerStep, Admit, InitFailure, Claim, ClaimMissed, ClaimLocked, BeginExecution,
       BeginRefused, ProgressRefused, Heartbeat, HeartbeatFails, CloseUnflushed, CloseFlushed,
       ClosingImport, ImportedRefused, ExecutionError, Cancelled, EndTask
  <2> QED
    BY <2>1, <2>2, StillIsStep
<1>3. ASSUME NEW s \in Terminal, row' = [row EXCEPT ![j] = Closed(@, s)], row[j].status \in Active
      PROVE  Closes(row[j], row'[j])
  BY <1>0, <1>3 DEF Closes, Closed, Row
<1>4. CASE k = j /\ InitFailure(p, j)
  BY <1>1, <1>3, <1>4 DEF InitFailure, Active, Terminal, ByRunnerOrPass
<1>5. CASE k = j /\ Claim(p, j)
  <2>1. task[p][j] # None
    BY <1>5 DEF Claim, At
  <2> QED
    BY <1>0, <1>5, <2>1 DEF Claim, Begins, Row, ByRunnerOrPass
<1>6. CASE k = j /\ BeginExecution(p, j)
  <2>1. row[j].token # None /\ row[j].status = "running"
    BY <1>6 DEF BeginExecution, At, QueueInvariant, TokenMeansRunning
  <2> QED
    BY <1>0, <1>6, <2>1 DEF BeginExecution, Begins, Row, ByRunnerOrPass
<1>7. CASE k = j /\ Heartbeat(p, j)
  <2>1. row[j].token # None /\ row[j].status = "running"
    BY <1>7 DEF Heartbeat, At, Owns
  <2> QED
    BY <1>0, <1>7, <2>1 DEF Heartbeat, Begins, Row, ByRunnerOrPass
<1>8. CASE k = j /\ CloseUnflushed(p, j)
  <2>1. row[j].status \in Active
    BY <1>8 DEF CloseUnflushed, Owns, Active
  <2>2. CASE row' = [row EXCEPT ![j] = [Closed(@, "cancelled") EXCEPT !.hidden = TRUE]]
    BY <1>0, <1>8, <2>1, <2>2 DEF Closes, Closed, Row, Terminal, ByRunnerOrPass
  <2> QED
    BY <1>3, <1>8, <2>1, <2>2 DEF CloseUnflushed, Terminal, ByRunnerOrPass
<1>9. CASE k = j /\ ExecutionError(p, j)
  BY <1>1, <1>3, <1>9 DEF ExecutionError, Terminal, ByRunnerOrPass
<1>10. CASE k = j /\ Cancelled(p, j)
  BY <1>1, <1>3, <1>10 DEF Cancelled, Terminal, ByRunnerOrPass
<1>11. ~ClosingImport(p, j)
  BY DEF ClosingImport, Fenced
<1> QED
  BY <1>1, <1>2, <1>4, <1>5, <1>6, <1>7, <1>8, <1>9, <1>10, <1>11
     DEF RunnerStep, Admit, ClaimMissed, ClaimLocked, BeginRefused, ProgressRefused,
         HeartbeatFails, CloseFlushed, ImportedRefused, EndTask

LEMMA PassRows ==
  ASSUME QueueInvariant, NEW p \in Process, ScanStep(p), NEW k \in Job
  PROVE  ByRunnerOrPass(k)
<1>0. /\ row[k] \in Row /\ scan[p].seen[k] \in Row
      /\ scan[p].seen[k].status \in Active \cup {"absent"}
  BY DEF QueueInvariant, Shapes, PassesReadActiveRows
<1>1. CASE row' = row
  BY <1>1, StillIsStep
<1>2. ASSUME NEW new, NEW taken, NEW todo, Apply(p, new, taken, todo),
             k \in taken => /\ Unchanged(k, scan[p].seen[k])
                            /\ row[k].status = "running" /\ row[k].token # None => ~row[k].live
                            /\ new[k] \in Row
                            /\ new[k].status \in {"pending", "failed"}
                            /\ new[k].token = None /\ ~new[k].live
      PROVE  ByRunnerOrPass(k)
  <2>1. CASE k \notin taken
    BY <1>2, <2>1, StillIsStep DEF Apply
  <2>2. CASE k \in taken
    <3>1. row'[k] = [new[k] EXCEPT !.hidden = row[k].hidden]
      BY <1>2, <2>2 DEF Apply
    <3>2. row[k].status \in Active
      BY <1>0, <1>2, <2>2 DEF Unchanged
    <3> QED
      BY <1>0, <1>2, <2>2, <3>1, <3>2 DEF Requeues, ByRunnerOrPass, Row
  <2> QED
    BY <2>1, <2>2
<1>3. CASE RecoverApply(p)
  <2>1. RecoverWrites(scan[p].seen[k]) \in Row
        /\ RecoverWrites(scan[p].seen[k]).status \in {"pending", "failed"}
        /\ RecoverWrites(scan[p].seen[k]).token = None /\ ~RecoverWrites(scan[p].seen[k]).live
    BY <1>0, ZenonT(60) DEF RecoverWrites, Requeued, Row, Status, Active
  <2> QED
    BY <1>2, <1>3, <2>1 DEF RecoverApply, RecoverTakes, Unchanged
<1>4. CASE WatchdogApply(p)
  <2>1. WatchdogWrites(scan[p].seen[k]) \in Row
        /\ WatchdogWrites(scan[p].seen[k]).status \in {"pending", "failed"}
        /\ WatchdogWrites(scan[p].seen[k]).token = None /\ ~WatchdogWrites(scan[p].seen[k]).live
    BY <1>0, ZenonT(60) DEF WatchdogWrites, Requeued, Closed, Row, Status, Active, Terminal
  <2> QED
    BY <1>2, <1>4, <2>1 DEF WatchdogApply, WatchdogTakes, Unchanged
<1> QED
  BY <1>1, <1>3, <1>4 DEF ScanStep, RecoverRead, WatchdogRead, ScanDispatch, ScanFails, Read

LEMMA EnvironmentRows ==
  ASSUME QueueInvariant, EnvironmentStep, NEW k \in Job
  PROVE  ByRunnerOrPass(k)
<1>0. row \in [Job -> Row] /\ row[k] \in Row
  BY DEF QueueInvariant, Shapes
<1>1. ASSUME NEW j \in Job, LeaseLapses(j) PROVE ByRunnerOrPass(k)
  BY <1>0, <1>1, StillIsStep DEF LeaseLapses, ByRunnerOrPass, Begins, Row
<1>2. ASSUME NEW j \in Job, GoesStale(j) PROVE ByRunnerOrPass(k)
  BY <1>0, <1>2, StillIsStep DEF GoesStale, ByRunnerOrPass, Remains, Row
<1> QED
  BY <1>1, <1>2, StillIsStep DEF EnvironmentStep, Start, Crash, Shutdown, Exit

LEMMA RequestRows ==
  ASSUME QueueInvariant, Fenced, NEW q \in Request, RequestStep(q), NEW k \in Job
  PROVE  RowStep(k)
<1>0. row \in [Job -> Row] /\ row[k] \in Row /\ LoadedHolds(q) /\ Shapes
  BY DEF QueueInvariant, Shapes, LoadedRowsHold
<1>1. CASE row' = row
  BY <1>1, StillIsStep DEF RowStep
<1>2. ASSUME NEW j \in Job, k # j, NEW new, row' = [row EXCEPT ![j] = new] PROVE RowStep(k)
  BY <1>0, <1>2, StillIsStep DEF RowStep
<1>3. ASSUME NEW p \in Process, NEW j \in Job, Submit(q, p, j) PROVE RowStep(k)
  BY <1>0, <1>2, <1>3 DEF Submit, RowStep, ByRunnerOrPass, Begins
<1>4. ASSUME NEW p \in Process, NEW j \in Job, CancelPersist(q, p, j) PROVE RowStep(k)
  BY <1>0, <1>2, <1>4 DEF CancelPersist, RowStep, ByRunnerOrPass, Closes, Closed, Terminal, Row
<1>5. ASSUME NEW p \in Process, NEW j \in Job, BatchCancel(q, p, j) PROVE RowStep(k)
  <2>1. row[j].token = None /\ ~row[j].live
    BY <1>0, <1>5 DEF BatchCancel, QueueInvariant, TokenMeansRunning, Shapes, Row
  <2> QED
    BY <1>0, <1>2, <1>5, <2>1
       DEF BatchCancel, RowStep, ByRunnerOrPass, Closes, Overwritten, Active, Terminal, Row
<1>6. CASE RetryWrite(q)
  <2>1. req[q] \in BusyRequest
    BY <1>0, <1>6, BusyType DEF Writes, RetryWrite
  <2>2. CASE k # req[q].job
    BY <1>2, <1>6, <2>1, <2>2 DEF Writes, RetryWrite, BusyRequest
  <2>3. CASE k = req[q].job
    <3>1. row'[k] = Retried(row[k], req[q])
      BY <1>0, <1>6, <2>1, <2>3 DEF Writes, RetryWrite
    <3>2. /\ row[k].status \in Retryable /\ row[k].hidden = req[q].hidden
          /\ row[k].token = None /\ ~row[k].live
      BY <1>0, <1>6, <2>1, <2>3
         DEF Writes, RetryWrite, LoadedHolds, QueueInvariant, TokenMeansRunning, Retryable, Row,
             BusyRequest
    <3>3. /\ row'[k].status = "pending" /\ row'[k].token = None /\ ~row'[k].live
          /\ ~row'[k].hidden
      BY <1>0, <2>1, <3>1, <3>2 DEF Retried, Row, BusyRequest
    <3> QED
      BY <1>6, <2>3, <3>2, <3>3 DEF RowStep, Reopens, Writes, RetryWrite
  <2> QED
    BY <2>2, <2>3
<1>7. CASE HideWrite(q)
  <2>1. req[q].job \in Job
    BY <1>0, <1>7, BusyType DEF Writes, HideWrite, BusyRequest
  <2> QED
    BY <1>0, <1>2, <1>7, <2>1 DEF Writes, HideWrite, LoadedHolds, RowStep, Remains, Row
<1>8. ~SupersedeWrite(q)
  BY <1>0 DEF Writes, SupersedeWrite, LoadedHolds
<1>9. CASE PruneWrite(q)
  <2>1. req[q].job \in Job
    BY <1>0, <1>9, BusyType DEF Writes, PruneWrite, BusyRequest
  <2> QED
    BY <1>0, <1>2, <1>9, <2>1 DEF Writes, PruneWrite, LoadedHolds, RowStep, Vanishes
<1> QED
  BY <1>1, <1>3, <1>4, <1>5, <1>6, <1>7, <1>8, <1>9
     DEF RowGone, CommitLoaded, RequestStep, RequestDispatch, RetryRead, HideRead, PruneRead, SupersedeRead, LoadRow, CancelDeliver

LEMMA EveryRow ==
  ASSUME QueueInvariant, Fenced, [Next]_vars, NEW k \in Job
  PROVE  RowStep(k)
BY RunnerRows, PassRows, RequestRows, EnvironmentRows, StillIsStep DEF Next, vars, RowStep

(* A closed row is left alone by everything but the requests. *)
LEMMA ClosedRowStays ==
  ASSUME NEW k \in Job, ByRunnerOrPass(k), row[k].status \in Terminal
  PROVE  row'[k].status = row[k].status /\ row'[k].hidden = row[k].hidden
BY DEF ByRunnerOrPass, Begins, Closes, Requeues, Remains, Terminal, Active

LEMMA TokenStep ==
  ASSUME QueueInvariant, Shapes', Fenced, [Next]_vars
  PROVE  TokenMeansRunning' /\ ActiveJobsAreVisible'
<1> SUFFICES ASSUME NEW j \in Job
             PROVE  /\ row'[j].token # None => row'[j].status = "running"
                    /\ row'[j].live => row'[j].token # None
                    /\ row'[j].status \in Active => ~row'[j].hidden
  BY DEF TokenMeansRunning, ActiveJobsAreVisible
<1>1. /\ row[j].token # None => row[j].status = "running"
      /\ row[j].live => row[j].token # None
      /\ row[j].status \in Active => ~row[j].hidden
  BY DEF QueueInvariant, TokenMeansRunning, ActiveJobsAreVisible
<1>2. row[j] \in Row /\ row'[j] \in Row
  BY DEF QueueInvariant, Shapes
<1>3. RowStep(j)
  BY EveryRow
<1>4. CASE ByRunnerOrPass(j)
  BY <1>1, <1>2, <1>4 DEF ByRunnerOrPass, Begins, Closes, Requeues, Remains, NewRow, Active,
     Terminal, Row
<1>5. CASE Remains(row[j], row'[j]) \/ Reopens(j)
  BY <1>1, <1>2, <1>5 DEF Remains, Reopens, Active, Terminal
<1>6. CASE Vanishes(row[j], row'[j])
  BY <1>6 DEF Vanishes, NewRow, Active
<1> QED
  BY <1>3, <1>4, <1>5, <1>6 DEF RowStep

LEMMA ReadsActive ==
  ASSUME PassesReadActiveRows, Shapes, NEW p \in Process, NEW ph, NEW J, Read(p, ph, J),
         \A j \in J : row[j].status \in Active
  PROVE  PassesReadActiveRows'
<1>1. NewRow("absent").status = "absent"
  BY DEF NewRow
<1>2. \A j \in Job : scan'[p].seen[j] = IF j \in J THEN row[j] ELSE NewRow("absent")
  BY DEF Read, Shapes
<1>3. \A p1 \in Process : p1 # p => scan'[p1] = scan[p1]
  BY DEF Read, Shapes
<1> QED
  BY <1>1, <1>2, <1>3 DEF PassesReadActiveRows

LEMMA PassesStep ==
  ASSUME QueueInvariant, [Next]_vars
  PROVE  PassesReadActiveRows'
<1>0. PassesReadActiveRows /\ Shapes
  BY DEF QueueInvariant
<1>1. CASE scan' = scan
  BY <1>0, <1>1 DEF PassesReadActiveRows
<1>2. \A j \in Job : NoScan.seen[j].status = "absent"
  BY DEF NoScan, NewRow
<1>3. ASSUME NEW p \in Process, NEW s, scan' = [scan EXCEPT ![p] = s],
             \A j \in Job : s.seen[j].status \in Active \cup {"absent"}
      PROVE  PassesReadActiveRows'
  BY <1>0, <1>3 DEF PassesReadActiveRows, Shapes
<1>4. ASSUME NEW p \in Process, ScanStep(p) PROVE PassesReadActiveRows'
  <2>1. CASE RecoverRead(p)
    BY <1>0, <2>1, ReadsActive DEF RecoverRead, RecoverSelects, Active
  <2>2. CASE WatchdogRead(p)
    BY <1>0, <2>2, ReadsActive DEF WatchdogRead, WatchdogSelects, Active
  <2>3. CASE RecoverApply(p) \/ WatchdogApply(p)
    <3>1. PICK todo :
             scan' = [scan EXCEPT ![p] = [NoScan EXCEPT !.phase = "dispatch", !.todo = todo]]
      BY <2>3 DEF RecoverApply, WatchdogApply, Apply
    <3>2. [NoScan EXCEPT !.phase = "dispatch", !.todo = todo].seen = NoScan.seen
      BY DEF NoScan
    <3> QED
      BY <1>2, <1>3, <3>1, <3>2
  <2>4. CASE ScanDispatch(p)
    <3>1. CASE scan' = [scan EXCEPT ![p] = NoScan]
      BY <1>2, <1>3, <3>1
    <3>2. ASSUME NEW j, scan' = [scan EXCEPT ![p].todo = @ \ {j}] PROVE PassesReadActiveRows'
      <4>1. \A p1 \in Process : scan'[p1].seen = scan[p1].seen
        BY <1>0, <3>2 DEF Shapes
      <4> QED
        BY <1>0, <4>1 DEF PassesReadActiveRows
    <3> QED
      BY <2>4, <3>1, <3>2 DEF ScanDispatch
  <2>5. CASE ScanFails(p)
    BY <1>2, <1>3, <2>5 DEF ScanFails
  <2> QED
    BY <1>4, <2>1, <2>2, <2>3, <2>4, <2>5 DEF ScanStep
<1>5. ASSUME EnvironmentStep PROVE PassesReadActiveRows'
  BY <1>1, <1>2, <1>3, <1>5 DEF EnvironmentStep, LeaseLapses, GoesStale, Start, Crash, Shutdown, Exit
<1>6. ASSUME NEW p \in Process, NEW j \in Job, RunnerStep(p, j) PROVE scan' = scan
  BY <1>6 DEF RunnerStep, Admit, InitFailure, Claim, ClaimMissed, ClaimLocked, BeginExecution,
     BeginRefused, ProgressRefused, Heartbeat, HeartbeatFails, CloseUnflushed, CloseFlushed,
     ClosingImport, ImportedRefused, ExecutionError, Cancelled, EndTask, Move
<1>7. ASSUME NEW q \in Request, RequestStep(q) PROVE scan' = scan
  BY <1>7 DEF RequestStep, Submit, RequestDispatch, CancelPersist, BatchCancel, RetryRead,
     HideRead, PruneRead, SupersedeRead, LoadRow, CancelDeliver, RetryWrite, HideWrite, PruneWrite, SupersedeWrite, RowGone, CommitLoaded
<1> QED
  BY <1>1, <1>4, <1>5, <1>6, <1>7 DEF Next, vars

LEMMA LoadedStep ==
  ASSUME QueueInvariant, Fenced, OneRequest, [Next]_vars
  PROVE  LoadedRowsHold'
<1> SUFFICES ASSUME NEW q \in Request PROVE LoadedHolds(q)'
  BY DEF LoadedRowsHold
<1>0. LoadedHolds(q) /\ Shapes
  BY DEF QueueInvariant, LoadedRowsHold
<1>1. CASE req'[q].op \notin {"retrying", "hiding", "pruning", "superseding"}
  BY <1>1 DEF LoadedHolds
<1>2. ASSUME req'[q] = req[q], \A k \in Job : ByRunnerOrPass(k) PROVE LoadedHolds(q)'
  <2>1. CASE req[q].op = "idle"
    BY <1>1, <1>2, <2>1
  <2>2. CASE req[q].op # "idle"
    <3>1. req[q].job \in Job
      BY <1>0, <2>2, BusyType DEF BusyRequest
    <3>2. Retryable \subseteq Terminal
      BY DEF Retryable, Terminal
    <3> QED
      BY <1>0, <1>2, <3>1, <3>2, ClosedRowStays DEF LoadedHolds
  <2> QED
    BY <2>1, <2>2
<1>3. ASSUME NEW p \in Process, NEW j \in Job, RunnerStep(p, j) PROVE LoadedHolds(q)'
  <2>1. req' = req
    BY <1>3 DEF RunnerStep, Admit, InitFailure, Claim, ClaimMissed, ClaimLocked, BeginExecution,
       BeginRefused, ProgressRefused, Heartbeat, HeartbeatFails, CloseUnflushed, CloseFlushed,
       ClosingImport, ImportedRefused, ExecutionError, Cancelled, EndTask, Move
  <2> QED
    BY <1>2, <1>3, <2>1, RunnerRows
<1>4. ASSUME NEW p \in Process, ScanStep(p) PROVE LoadedHolds(q)'
  <2>1. req' = req
    BY <1>4 DEF ScanStep, RecoverRead, WatchdogRead, RecoverApply, WatchdogApply, ScanDispatch,
       ScanFails, Read, Apply
  <2> QED
    BY <1>2, <1>4, <2>1, PassRows
<1>5. ASSUME EnvironmentStep PROVE LoadedHolds(q)'
  <2>1. req'[q] = req[q] \/ req'[q] = Idle
    BY <1>5 DEF EnvironmentStep, LeaseLapses, GoesStale, Start, Crash, Shutdown, Exit
  <2>2. Idle.op = "idle"
    BY DEF Idle
  <2> QED
    BY <1>1, <1>2, <1>5, <2>1, <2>2, EnvironmentRows
<1>6. ASSUME RequestStep(q) PROVE LoadedHolds(q)'
  <2>1. ASSUME NEW p \in Process, NEW j \in Job, NEW op, NEW ph, NEW allowed,
               LoadRow(q, p, j, op, ph, allowed)
        PROVE  /\ req'[q].op = ph /\ req'[q].job = j /\ req'[q].hidden = row[j].hidden
               /\ row' = row /\ row[j].status \in allowed /\ op \in Operations
    BY <1>0, <2>1 DEF LoadRow, Await, Accepts, Shapes
  <2>2. ASSUME NEW p \in Process, NEW j \in Job, RetryRead(q, p, j) PROVE LoadedHolds(q)'
    BY <2>1, <2>2 DEF RetryRead, LoadedHolds
  <2>3. ASSUME NEW p \in Process, NEW j \in Job, HideRead(q, p, j) \/ PruneRead(q, p, j)
        PROVE  LoadedHolds(q)'
    BY <2>1, <2>3 DEF HideRead, PruneRead, LoadedHolds
  <2>4. ASSUME NEW p \in Process, NEW j \in Job PROVE ~SupersedeRead(q, p, j)
    BY DEF SupersedeRead, LoadRow, Accepts, Fenced
  <2>5. ASSUME NEW p \in Process, NEW j \in Job,
               Submit(q, p, j) \/ CancelPersist(q, p, j) \/ BatchCancel(q, p, j)
        PROVE  req'[q].op \in {"dispatch", "cancelling"}
    BY <1>0, <2>5 DEF Submit, CancelPersist, BatchCancel, Await, Shapes
  <2>6. ASSUME \/ RequestDispatch(q) \/ CancelDeliver(q) \/ HideWrite(q) \/ PruneWrite(q)
               \/ SupersedeWrite(q) \/ RowGone(q)
        PROVE  req'[q].op = "idle"
    BY <1>0, <2>6 DEF RequestDispatch, CancelDeliver, HideWrite, PruneWrite, SupersedeWrite,
                      RowGone, Finish, Idle, Shapes
  <2>7. ASSUME RetryWrite(q) PROVE req'[q].op = "dispatch"
    <3>1. req[q] \in BusyRequest
      BY <1>0, <2>7, BusyType DEF Writes, RetryWrite
    <3> QED
      BY <1>0, <2>7, <3>1 DEF Writes, RetryWrite, Shapes, BusyRequest
  <2> QED
    BY <1>1, <1>6, <2>2, <2>3, <2>4, <2>5, <2>6, <2>7 DEF RequestStep, CommitLoaded
<1>7. CASE UNCHANGED vars
  BY <1>2, <1>7, StillIsStep DEF vars
<1> QED
  BY <1>3, <1>4, <1>5, <1>6, <1>7 DEF Next, OneRequest

LEMMA QueueStep ==
  ASSUME Fenced, OneRequest
  PROVE  QueueInvariant /\ [Next]_vars => QueueInvariant'
<1> SUFFICES ASSUME QueueInvariant, [Next]_vars PROVE QueueInvariant'
  OBVIOUS
<1>1. Shapes'
  BY TypeStep DEF QueueInvariant
<1> QED
  BY <1>1, TokenStep, PassesStep, LoadedStep DEF QueueInvariant

LEMMA QueueInit == Init => QueueInvariant
<1> SUFFICES ASSUME Init PROVE QueueInvariant
  OBVIOUS
<1>1. \A j \in Job : row[j] = NewRow("absent") \/ row[j] = NewRow("running")
  BY DEF Init
<1>2. TokenMeansRunning /\ ActiveJobsAreVisible
  BY <1>1 DEF NewRow, TokenMeansRunning, ActiveJobsAreVisible
<1>3. PassesReadActiveRows
  BY DEF Init, NoScan, NewRow, PassesReadActiveRows
<1>4. LoadedRowsHold
  BY DEF Init, Idle, LoadedRowsHold, LoadedHolds
<1> QED
  BY <1>2, <1>3, <1>4, TypeInit DEF QueueInvariant

(* The queue the user sees holds every job that will run or is running.    *)
THEOREM ActiveJobsStayVisible ==
  ASSUME Fenced, OneRequest
  PROVE  Spec => []ActiveJobsAreVisible
<1>1. Init => QueueInvariant
  BY QueueInit
<1>2. QueueInvariant /\ [Next]_vars => QueueInvariant'
  BY QueueStep
<1>3. QueueInvariant => ActiveJobsAreVisible
  BY DEF QueueInvariant
<1> QED
  BY <1>1, <1>2, <1>3, PTL DEF Spec

(* No pass, claim or retry takes a job from an owner whose lease is in the *)
(* future, whatever the number of processes and jobs.                      *)
THEOREM LiveLeasesAreKept ==
  ASSUME Fenced, OneRequest
  PROVE  Spec => LiveLeaseIsRespected
<1> DEFINE Kept(j) ==
             row[j].status = "running" /\ row[j].token # None /\ row[j].live
               => \/ row'[j].token = row[j].token
                  \/ row'[j].token = None /\ row'[j].status \in Terminal
<1>1. ASSUME QueueInvariant, [Next]_vars, NEW j \in Job PROVE Kept(j)
  <2>1. RowStep(j)
    BY <1>1, EveryRow
  <2> QED
    BY <2>1 DEF RowStep, ByRunnerOrPass, Begins, Closes, Requeues, Remains, Vanishes,
       Reopens, Retryable, Terminal
<1>2. QueueInvariant /\ [Next]_vars => \A j \in Job : Kept(j)
  BY <1>1
<1>3. Init => QueueInvariant
  BY QueueInit
<1>4. QueueInvariant /\ [Next]_vars => QueueInvariant'
  BY QueueStep
<1> QED
  BY <1>2, <1>3, <1>4, PTL DEF Spec, LiveLeaseIsRespected

(* A closed job is reopened by the retry of a user and by nothing else.    *)
THEOREM ClosedJobsStayClosed ==
  ASSUME Fenced, OneRequest
  PROVE  Spec => OnlyRetryReopens
<1> DEFINE Stays(j) ==
             row[j].status \in Terminal /\ row'[j].status \notin {row[j].status, "absent"}
               => /\ row[j].status # "done"
                  /\ row'[j].status = "pending"
                  /\ \E q \in Request : req[q].op = "retrying" /\ req[q].job = j
<1>1. ASSUME QueueInvariant, [Next]_vars, NEW j \in Job PROVE Stays(j)
  <2>1. RowStep(j)
    BY <1>1, EveryRow
  <2> QED
    BY <2>1, ClosedRowStays DEF RowStep, Remains, Vanishes, NewRow, Reopens, Retryable
<1>2. QueueInvariant /\ [Next]_vars => \A j \in Job : Stays(j)
  BY <1>1
<1>3. Init => QueueInvariant
  BY QueueInit
<1>4. QueueInvariant /\ [Next]_vars => QueueInvariant'
  BY QueueStep
<1> QED
  BY <1>2, <1>3, <1>4, PTL DEF Spec, OnlyRetryReopens

-----------------------------------------------------------------------------
(***************************************************************************)
(* Refinement: what a step makes of the statuses, the tokens and the       *)
(* leases is a step of JobLifecycle or leaves them as they are.            *)
(***************************************************************************)
Seen == <<[j \in Job |-> row[j].status], [j \in Job |-> row[j].token],
          [j \in Job |-> row[j].live]>>

LifecycleStep == Lifecycle!Next \/ Seen' = Seen

LEMMA SetOne ==
  ASSUME Shapes, NEW j \in Job, NEW n, row' = [row EXCEPT ![j] = n]
  PROVE  Lifecycle!Set(j, n.status, n.token, n.live)
BY DEF Shapes, Lifecycle!Set

LEMMA SameToAll ==
  ASSUME Shapes, Shapes',
         \A j \in Job : /\ row'[j].status = row[j].status /\ row'[j].token = row[j].token
                        /\ row'[j].live = row[j].live
  PROVE  LifecycleStep
BY DEF LifecycleStep, Seen

LEMMA SameOne ==
  ASSUME Shapes, Shapes', NEW j \in Job, NEW n, row' = [row EXCEPT ![j] = n],
         n.status = row[j].status, n.token = row[j].token, n.live = row[j].live
  PROVE  LifecycleStep
BY SameToAll DEF Shapes

LEMMA ClosedParts ==
  ASSUME NEW r \in Row, NEW s
  PROVE  Closed(r, s).status = s /\ Closed(r, s).token = None /\ Closed(r, s).live = FALSE
BY DEF Closed, Row

LEMMA ClosesOne ==
  ASSUME Shapes, NEW j \in Job, NEW s, row' = [row EXCEPT ![j] = Closed(row[j], s)]
  PROVE  Lifecycle!Set(j, s, None, FALSE)
<1> DEFINE n == Closed(row[j], s)
<1>1. n.status = s /\ n.token = None /\ n.live = FALSE /\ row' = [row EXCEPT ![j] = n]
  BY ClosedParts DEF Shapes
<1> HIDE DEF n
<1> QED
  BY <1>1 DEF Shapes, Lifecycle!Set

(* A run that closes the job it owns: Finish. *)
LEMMA OwnerFinishes ==
  ASSUME QueueInvariant, NEW j \in Job, row[j].token # None,
         NEW s \in {"done", "failed", "cancelled"}, Lifecycle!Set(j, s, None, FALSE)
  PROVE  LifecycleStep
<1>1. row[j].status = "running" /\ Shapes
  BY DEF QueueInvariant, TokenMeansRunning
<1> QED
  BY <1>1 DEF Lifecycle!Finish, Lifecycle!Next, LifecycleStep

LEMMA RunnerRefines ==
  ASSUME QueueInvariant, Shapes', Fenced, NEW p \in Process, NEW j \in Job, RunnerStep(p, j)
  PROVE  LifecycleStep
<1>0. row \in [Job -> Row] /\ row[j] \in Row /\ Shapes
  BY DEF QueueInvariant, Shapes
<1>1. CASE row' = row
  BY <1>0, <1>1, SameToAll
<1>2. CASE InitFailure(p, j) /\ row' # row
  <2>1. row[j].status = "pending" /\ row' = [row EXCEPT ![j] = Closed(row[j], "failed")]
    BY <1>2 DEF InitFailure
  <2>2. Lifecycle!Set(j, "failed", None, FALSE)
    BY <1>0, <2>1, ClosesOne
  <2> QED
    BY <2>1, <2>2 DEF Lifecycle!GiveUp, Lifecycle!Next, LifecycleStep
<1>3. CASE Claim(p, j)
  <2> DEFINE n == [row[j] EXCEPT !.status = "running", !.token = task[p][j],
                                 !.live = TRUE, !.stale = FALSE]
  <2>1. row' = [row EXCEPT ![j] = n] /\ row[j].status = "pending" /\ row[j].token = None
        /\ task[p][j] \in Run
    BY <1>0, <1>3, AtType DEF Claim
  <2>2. n.status = "running" /\ n.token = task[p][j] /\ n.live = TRUE
    BY <1>0 DEF Row
  <2> HIDE DEF n
  <2>3. Lifecycle!Set(j, "running", task[p][j], TRUE)
    BY <1>0, <2>1, <2>2, SetOne
  <2> QED
    BY <2>1, <2>3 DEF Lifecycle!Claim, Lifecycle!Next, LifecycleStep
<1>4. CASE BeginExecution(p, j)
  <2> DEFINE n == [row[j] EXCEPT !.status = "running", !.stale = FALSE]
  <2>1. row' = [row EXCEPT ![j] = n] /\ row[j].status = "running"
    BY <1>4 DEF BeginExecution, At, QueueInvariant, TokenMeansRunning
  <2>2. n.status = "running" /\ n.token = row[j].token /\ n.live = row[j].live
    BY <1>0 DEF Row
  <2> HIDE DEF n
  <2> QED
    BY <1>0, <2>1, <2>2, SameOne
<1>5. CASE Heartbeat(p, j)
  <2> DEFINE n == [row[j] EXCEPT !.live = TRUE]
  <2>1. row' = [row EXCEPT ![j] = n] /\ row[j].status = "running" /\ row[j].token # None
    BY <1>5 DEF Heartbeat, At, Owns
  <2>2. n.status = "running" /\ n.token = row[j].token /\ n.live = TRUE
    BY <1>0, <2>1 DEF Row
  <2> HIDE DEF n
  <2>3. Lifecycle!Set(j, "running", row[j].token, TRUE)
    BY <1>0, <2>1, <2>2, SetOne
  <2> QED
    BY <2>1, <2>3 DEF Lifecycle!Renew, Lifecycle!Next, LifecycleStep
<1>6. ASSUME row[j].token = task[p][j], task[p][j] # None,
             NEW s \in {"done", "failed", "cancelled"}, row' = [row EXCEPT ![j] = Closed(row[j], s)]
      PROVE  LifecycleStep
  BY <1>0, <1>6, ClosesOne, OwnerFinishes
<1>7. CASE CloseUnflushed(p, j)
  <2>1. row[j].token = task[p][j] /\ task[p][j] # None
    BY <1>7 DEF CloseUnflushed, At, Owns
  <2> DEFINE n == [Closed(row[j], "cancelled") EXCEPT !.hidden = TRUE]
  <2>2. CASE row' = [row EXCEPT ![j] = n]
    <3>1. n.status = "cancelled" /\ n.token = None /\ n.live = FALSE
      BY <1>0 DEF Closed, Row
    <3> HIDE DEF n
    <3>2. Lifecycle!Set(j, "cancelled", None, FALSE)
      BY <1>0, <2>2, <3>1, SetOne
    <3> QED
      BY <2>1, <3>2, OwnerFinishes
  <2> QED
    BY <1>6, <1>7, <2>1, <2>2 DEF CloseUnflushed
<1>8. CASE ExecutionError(p, j) /\ row' # row
  BY <1>6, <1>8 DEF ExecutionError, At
<1>9. CASE Cancelled(p, j) /\ row' # row
  BY <1>6, <1>9 DEF Cancelled
<1>10. ~ClosingImport(p, j)
  BY DEF ClosingImport, Fenced
<1> QED
  BY <1>1, <1>2, <1>3, <1>4, <1>5, <1>7, <1>8, <1>9, <1>10
     DEF RunnerStep, Admit, ClaimMissed, ClaimLocked, BeginRefused, ProgressRefused,
         HeartbeatFails, CloseFlushed, ImportedRefused, EndTask

LEMMA ApplyRefines ==
  ASSUME QueueInvariant, Shapes', NEW p \in Process, NEW new, NEW taken \in SUBSET Job,
         NEW todo, Apply(p, new, taken, todo),
         \A j \in taken : /\ row[j].status \in Active
                          /\ row[j].status = "running" /\ row[j].token # None => ~row[j].live
                          /\ new[j] \in Row
                          /\ new[j].status \in {"pending", "failed"}
                          /\ new[j].status = "failed" => row[j].token = None
                          /\ new[j].token = None /\ new[j].live = FALSE
  PROVE  LifecycleStep
<1>0. row \in [Job -> Row] /\ row' \in [Job -> Row]
  BY DEF QueueInvariant, Shapes
<1>1. ASSUME NEW j \in taken
      PROVE  /\ row'[j].status = new[j].status /\ row'[j].token = None
             /\ row'[j].live = FALSE
  <2>1. row'[j] = [new[j] EXCEPT !.hidden = row[j].hidden]
    BY <1>1 DEF Apply
  <2> QED
    BY <1>1, <2>1 DEF Row
<1>2. \A j \in Job \ taken : row'[j] = row[j]
  BY DEF Apply
<1> DEFINE t == [j \in taken |-> new[j].status]
<1>3. t \in [taken -> {"pending", "failed"}]
  OBVIOUS
<1>4. \A j \in taken : \/ row[j].status = "running" /\ (row[j].token = None \/ ~row[j].live)
                       \/ row[j].status = "pending"
  BY DEF Active
<1>5. /\ [j \in Job |-> row[j].status]' = [j \in Job |-> IF j \in taken THEN t[j] ELSE row[j].status]
      /\ [j \in Job |-> row[j].token]' = [j \in Job |-> IF j \in taken THEN None ELSE row[j].token]
      /\ [j \in Job |-> row[j].live]' = [j \in Job |-> IF j \in taken THEN FALSE ELSE row[j].live]
  BY <1>1, <1>2
<1>6. \A j \in taken : t[j] = "failed" => row[j].token = None
  OBVIOUS
<1> HIDE DEF t
<1>7. Lifecycle!Sweeps(taken, t)
  BY <1>4, <1>5, <1>6 DEF Lifecycle!Sweeps
<1>8. Lifecycle!Sweep
  BY <1>3, <1>7 DEF Lifecycle!Sweep
<1> QED
  BY <1>8 DEF Lifecycle!Next, LifecycleStep

LEMMA PassRefines ==
  ASSUME QueueInvariant, Shapes', NEW p \in Process, ScanStep(p)
  PROVE  LifecycleStep
<1>0. /\ Shapes
      /\ \A k \in Job : /\ scan[p].seen[k] \in Row
                        /\ scan[p].seen[k].status \in Active \cup {"absent"}
  BY DEF QueueInvariant, Shapes, PassesReadActiveRows
<1>1. CASE row' = row
  BY <1>0, <1>1, SameToAll
<1>2. CASE RecoverApply(p)
  <2> DEFINE new == [j \in Job |-> RecoverWrites(scan[p].seen[j])]
             taken == {j \in Job : RecoverTakes(j, scan[p].seen[j])}
  <2>1. ASSUME NEW k \in Job
        PROVE  /\ RecoverWrites(scan[p].seen[k]) \in Row
               /\ RecoverWrites(scan[p].seen[k]).status = "pending"
               /\ RecoverWrites(scan[p].seen[k]).token = None
               /\ RecoverWrites(scan[p].seen[k]).live = FALSE
    BY <1>0 DEF RecoverWrites, Requeued, Row, Status, Active
  <2>2. \A k \in taken : /\ row[k].status \in Active
                         /\ row[k].status = "running" /\ row[k].token # None => ~row[k].live
    BY <1>0 DEF RecoverTakes, Unchanged
  <2>3. Apply(p, new, taken, taken)
    BY <1>2 DEF RecoverApply
  <2>4. \A k \in taken : new[k] = RecoverWrites(scan[p].seen[k])
    OBVIOUS
  <2> HIDE DEF new
  <2>5. \A k \in taken : /\ row[k].status \in Active
                         /\ row[k].status = "running" /\ row[k].token # None => ~row[k].live
                         /\ new[k] \in Row
                         /\ new[k].status \in {"pending", "failed"}
                         /\ new[k].status = "failed" => row[k].token = None
                         /\ new[k].token = None /\ new[k].live = FALSE
    BY <2>1, <2>2, <2>4
  <2>6. taken \in SUBSET Job
    OBVIOUS
  <2> HIDE DEF taken
  <2> QED
    BY <2>3, <2>5, <2>6, ApplyRefines
<1>3. CASE WatchdogApply(p)
  <2> DEFINE new == [j \in Job |-> WatchdogWrites(scan[p].seen[j])]
             taken == {j \in Job : WatchdogTakes(p, j, scan[p].seen[j])}
  <2>1. ASSUME NEW k \in Job
        PROVE  /\ WatchdogWrites(scan[p].seen[k]) \in Row
               /\ WatchdogWrites(scan[p].seen[k]).status \in {"pending", "failed"}
               /\ WatchdogWrites(scan[p].seen[k]).status = "failed" => scan[p].seen[k].token = None
               /\ WatchdogWrites(scan[p].seen[k]).token = None
               /\ WatchdogWrites(scan[p].seen[k]).live = FALSE
    BY <1>0 DEF WatchdogWrites, Recurrent, Requeued, Closed, Row, Status, Active, Terminal
  <2>2. \A k \in taken : /\ row[k].status \in Active
                         /\ row[k].status = "running" /\ row[k].token # None => ~row[k].live
                         /\ row[k].token = scan[p].seen[k].token
    BY <1>0 DEF WatchdogTakes, Unchanged
  <2>3. PICK todo : Apply(p, new, taken, todo)
    BY <1>3 DEF WatchdogApply
  <2>4. \A k \in taken : new[k] = WatchdogWrites(scan[p].seen[k])
    OBVIOUS
  <2> HIDE DEF new
  <2>5. \A k \in taken : /\ row[k].status \in Active
                         /\ row[k].status = "running" /\ row[k].token # None => ~row[k].live
                         /\ new[k] \in Row
                         /\ new[k].status \in {"pending", "failed"}
                         /\ new[k].status = "failed" => row[k].token = None
                         /\ new[k].token = None /\ new[k].live = FALSE
    BY <2>1, <2>2, <2>4
  <2>6. taken \in SUBSET Job
    OBVIOUS
  <2> HIDE DEF taken
  <2> QED
    BY <2>3, <2>5, <2>6, ApplyRefines
<1> QED
  BY <1>1, <1>2, <1>3 DEF ScanStep, RecoverRead, WatchdogRead, ScanDispatch, ScanFails, Read

LEMMA RequestRefines ==
  ASSUME QueueInvariant, Shapes', Fenced, NEW q \in Request, RequestStep(q)
  PROVE  LifecycleStep
<1>0. row \in [Job -> Row] /\ LoadedHolds(q) /\ Shapes
  BY DEF QueueInvariant, Shapes, LoadedRowsHold
<1>1. CASE row' = row
  BY <1>0, <1>1, SameToAll
<1>2. ASSUME NEW p \in Process, NEW j \in Job, Submit(q, p, j) PROVE LifecycleStep
  <2>1. NewRow("pending").status = "pending" /\ NewRow("pending").token = None
        /\ NewRow("pending").live = FALSE
    BY DEF NewRow
  <2>2. Lifecycle!Set(j, "pending", None, FALSE)
    BY <1>0, <1>2, <2>1, SetOne DEF Submit
  <2> QED
    BY <1>2, <2>2 DEF Submit, Lifecycle!Submit, Lifecycle!Next, LifecycleStep
<1>3. ASSUME NEW p \in Process, NEW j \in Job, CancelPersist(q, p, j) PROVE LifecycleStep
  <2>1. Lifecycle!Set(j, "cancelled", None, FALSE)
    BY <1>0, <1>3, ClosesOne DEF CancelPersist
  <2> QED
    BY <1>3, <2>1 DEF CancelPersist, Active, Lifecycle!Cancel, Lifecycle!Next, LifecycleStep
<1>4. ASSUME NEW p \in Process, NEW j \in Job, BatchCancel(q, p, j) PROVE LifecycleStep
  <2> DEFINE n == [Overwritten(row[j], "cancelled") EXCEPT !.hidden = TRUE]
  <2>1. row[j].token = None /\ row[j].live = FALSE /\ row[j] \in Row
    BY <1>0, <1>4 DEF BatchCancel, QueueInvariant, TokenMeansRunning, Row
  <2>2. n.status = "cancelled" /\ n.token = None /\ n.live = FALSE
    BY <2>1 DEF Overwritten, Row
  <2>3. row' = [row EXCEPT ![j] = n]
    BY <1>4 DEF BatchCancel
  <2> HIDE DEF n
  <2>4. Lifecycle!Set(j, "cancelled", None, FALSE)
    BY <1>0, <2>2, <2>3, SetOne
  <2> QED
    BY <1>4, <2>4 DEF BatchCancel, Lifecycle!Cancel, Lifecycle!Next, LifecycleStep
<1>5. CASE RetryWrite(q)
  <2>1. req[q] \in BusyRequest
    BY <1>0, <1>5, BusyType DEF Writes, RetryWrite
  <2> DEFINE k == req[q].job
             n == Retried(row[k], req[q])
  <2>2. /\ k \in Job /\ row[k].status \in Retryable /\ row[k].token = None /\ row[k].live = FALSE
        /\ row[k] \in Row
    BY <1>0, <1>5, <2>1
       DEF Writes, RetryWrite, LoadedHolds, QueueInvariant, TokenMeansRunning, Retryable, Row, BusyRequest
  <2>3. n.status = "pending" /\ n.token = None /\ n.live = FALSE
    BY <2>1, <2>2 DEF Retried, Row, BusyRequest
  <2>4. row' = [row EXCEPT ![k] = n]
    BY <1>5 DEF Writes, RetryWrite
  <2> HIDE DEF n, k
  <2>5. Lifecycle!Set(k, "pending", None, FALSE)
    BY <1>0, <2>2, <2>3, <2>4, SetOne
  <2> QED
    BY <2>2, <2>5 DEF Retryable, Lifecycle!Retry, Lifecycle!Next, LifecycleStep
<1>6. CASE HideWrite(q)
  <2>1. req[q].job \in Job
    BY <1>0, <1>6, BusyType DEF Writes, HideWrite, BusyRequest
  <2> DEFINE k == req[q].job
             n == [row[k] EXCEPT !.hidden = TRUE, !.stale = FALSE]
  <2>2. n.status = row[k].status /\ n.token = row[k].token /\ n.live = row[k].live
    BY <1>0, <2>1 DEF Row
  <2>3. row' = [row EXCEPT ![k] = n]
    BY <1>6 DEF Writes, HideWrite
  <2> HIDE DEF n, k
  <2> QED
    BY <1>0, <2>1, <2>2, <2>3, SameOne DEF k
<1>7. ~SupersedeWrite(q)
  BY <1>0 DEF Writes, SupersedeWrite, LoadedHolds
<1>8. CASE PruneWrite(q)
  <2> DEFINE k == req[q].job
  <2>1. k \in Job
    BY <1>0, <1>8, BusyType DEF Writes, PruneWrite, BusyRequest
  <2>2. row[k].status \in Terminal
    BY <1>0, <1>8 DEF Writes, PruneWrite, LoadedHolds
  <2>3. NewRow("absent").status = "absent" /\ NewRow("absent").token = None
        /\ NewRow("absent").live = FALSE
    BY DEF NewRow
  <2>4. row' = [row EXCEPT ![k] = NewRow("absent")]
    BY <1>8 DEF PruneWrite
  <2> HIDE DEF k
  <2>5. Lifecycle!Set(k, "absent", None, FALSE)
    BY <1>0, <2>1, <2>3, <2>4, SetOne
  <2> QED
    BY <2>1, <2>2, <2>5 DEF Terminal, Lifecycle!Prune, Lifecycle!Next, LifecycleStep
<1> QED
  BY <1>1, <1>2, <1>3, <1>4, <1>5, <1>6, <1>7, <1>8
     DEF RowGone, CommitLoaded, RequestStep, RequestDispatch, RetryRead, HideRead, PruneRead, SupersedeRead, LoadRow, CancelDeliver

LEMMA EnvironmentRefines ==
  ASSUME QueueInvariant, Shapes', EnvironmentStep
  PROVE  LifecycleStep
<1>0. row \in [Job -> Row] /\ Shapes
  BY DEF QueueInvariant, Shapes
<1>1. CASE row' = row
  BY <1>0, <1>1, SameToAll
<1>2. ASSUME NEW j \in Job, LeaseLapses(j) PROVE LifecycleStep
  <2> DEFINE n == [row[j] EXCEPT !.live = FALSE]
  <2>1. row[j].status = "running" /\ row[j].token # None
    BY <1>2 DEF LeaseLapses, QueueInvariant, TokenMeansRunning
  <2>2. n.status = "running" /\ n.token = row[j].token /\ n.live = FALSE
    BY <1>0, <2>1 DEF Row
  <2>3. row' = [row EXCEPT ![j] = n]
    BY <1>2 DEF LeaseLapses
  <2> HIDE DEF n
  <2>4. Lifecycle!Set(j, "running", row[j].token, FALSE)
    BY <1>0, <2>2, <2>3, SetOne
  <2> QED
    BY <2>1, <2>4 DEF Lifecycle!Lapse, Lifecycle!Next, LifecycleStep
<1>3. ASSUME NEW j \in Job, GoesStale(j) PROVE LifecycleStep
  <2> DEFINE n == [row[j] EXCEPT !.stale = TRUE]
  <2>1. n.status = row[j].status /\ n.token = row[j].token /\ n.live = row[j].live
    BY <1>0 DEF Row
  <2>2. row' = [row EXCEPT ![j] = n]
    BY <1>3 DEF GoesStale
  <2> HIDE DEF n
  <2> QED
    BY <1>0, <2>1, <2>2, SameOne
<1> QED
  BY <1>1, <1>2, <1>3 DEF EnvironmentStep, Start, Crash, Shutdown, Exit

LEMMA InitRefines == Init => Lifecycle!Init
<1> SUFFICES ASSUME Init PROVE Lifecycle!Init
  OBVIOUS
<1>1. \A j \in Job : /\ row[j].status \in {"absent", "running"}
                     /\ row[j].token = None /\ row[j].live = FALSE
  BY DEF Init, NewRow
<1> QED
  BY <1>1 DEF Lifecycle!Init

(* The job queue, whatever its tasks, passes, processes and crashes do,    *)
(* implements JobLifecycle.                                                *)
THEOREM QueueImplementsLifecycle ==
  ASSUME Fenced, OneRequest
  PROVE  Spec => ImplementsLifecycle
<1>1. Init => QueueInvariant
  BY QueueInit
<1>2. QueueInvariant /\ [Next]_vars => QueueInvariant'
  BY QueueStep
<1>3. ASSUME QueueInvariant, [Next]_vars PROVE [Lifecycle!Next]_(Lifecycle!vars)
  <2>1. Shapes' /\ Shapes
    BY <1>3, TypeStep DEF QueueInvariant
  <2>2. CASE UNCHANGED vars
    BY <2>1, <2>2, SameToAll DEF vars, LifecycleStep, Seen, Lifecycle!vars
  <2>3. LifecycleStep
    BY <1>3, <2>1, <2>2, RunnerRefines, PassRefines, RequestRefines, EnvironmentRefines, SameToAll
       DEF Next, vars
  <2> QED
    BY <2>3 DEF LifecycleStep, Seen, Lifecycle!vars
<1>4. QueueInvariant /\ [Next]_vars => [Lifecycle!Next]_(Lifecycle!vars)
  BY <1>3
<1>5. Init => Lifecycle!Init
  BY InitRefines
<1> QED
  BY <1>1, <1>2, <1>4, <1>5, PTL DEF Spec, ImplementsLifecycle, Lifecycle!Spec

=============================================================================
