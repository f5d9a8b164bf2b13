---------------------------- MODULE JobExecution ----------------------------
(***************************************************************************)
(* The acquisition job queue: a table of jobs (app/models/job.py), the     *)
(* dispatcher that keeps at most one asyncio task per job in each process  *)
(* (app/jobs/dispatcher.py), and the runner a task executes                *)
(* (app/jobs/runner.py, run_job).  A run owns a job through an execution   *)
(* token and a lease in the job's row; its heartbeat renews the lease, the *)
(* startup recovery and the watchdog put jobs without a live owner back to *)
(* pending, and the users' requests cancel, retry and hide jobs.           *)
(*                                                                         *)
(* Every database transaction is one step; everything that may happen      *)
(* between two awaits of the code happens between two steps.  The slots    *)
(* and permits a waiting task needs are the subject of AcquisitionPermits. *)
(***************************************************************************)
EXTENDS Naturals, FiniteSets

CONSTANTS
    Job,         \* identifiers of job rows
    Run,         \* executions; a run's identity is also its execution token
    Process,     \* server processes that share the database
    Request,     \* HTTP requests that can be in flight at the same time
    None,        \* "no token", "no task" and "no request"
    Operations,  \* the operations users and the environment perform
    MaxStops     \* how many crashes and shutdowns an execution may contain

AllOperations ==
    {"submit", "cancel", "retry", "hide", "prune", "batch_cancel", "supersede",
     "shutdown", "crash", "closing_import"}

ASSUME ConstantsAssumption ==
    /\ None \notin Run \cup Process \cup Job
    /\ Operations \subseteq AllOperations
    /\ MaxStops \in Nat

VARIABLES
    row,    \* the jobs table
    task,   \* task[p][j]: JobDispatcher._tasks of process p
    pc,     \* where each run is in run_job
    wish,   \* runs whose task.cancel() has been called and not yet taken effect
    proc,   \* whether each process is up
    scan,   \* the recovery or watchdog pass of each process
    req,    \* the requests in flight
    stops   \* crashes and shutdowns so far

vars == <<row, task, pc, wish, proc, scan, req, stops>>

-----------------------------------------------------------------------------
(* Rows.                                                                   *)

Active   == {"pending", "running"}
Terminal == {"done", "failed", "partial", "cancelled"}
Retryable == {"failed", "partial", "cancelled"}
Status   == Active \cup Terminal \cup {"absent"}

(***************************************************************************)
(* live:   execution_lease_expires_at is set and in the future.            *)
(* stale:  updated_at is older than the watchdog threshold (kept only for  *)
(*         the rows the watchdog asks it of).                              *)
(* marker: result_json holds a "watchdog_recovery" note, and its origin.   *)
(***************************************************************************)
Row == [status : Status, token : Run \cup {None}, live : BOOLEAN,
        stale : BOOLEAN, marker : {"none", "legacy", "tokenized"},
        hidden : BOOLEAN]

NewRow(s) == [status |-> s, token |-> None, live |-> FALSE, stale |-> FALSE,
              marker |-> "none", hidden |-> FALSE]

(* A row after a transaction that closes it and clears its lease.          *)
Closed(r, s) == [r EXCEPT !.status = s, !.token = None, !.live = FALSE,
                          !.stale = FALSE, !.marker = "none"]

(* A row closed by a writer that leaves the token and the lease as they are. *)
Overwritten(r, s) == [r EXCEPT !.status = s, !.stale = FALSE, !.marker = "none"]

(* A row put back to pending, with the note the pass leaves in it.         *)
Requeued(r, m) == [r EXCEPT !.status = "pending", !.token = None,
                            !.live = FALSE, !.stale = FALSE, !.marker = m]

-----------------------------------------------------------------------------
(* Runs and processes.                                                     *)

RunState == {"idle", "waiting", "claiming", "claimed", "executing", "imported",
             "teardown", "refused", "leaving"}

Ops == {"idle", "dispatch", "retrying", "hiding", "pruning", "superseding", "cancelling"}

Idle == [op |-> "idle", proc |-> None, job |-> None,
         tokened |-> FALSE, hidden |-> FALSE]

ReqType == {Idle} \cup [op : Ops \ {"idle"}, proc : Process, job : Job,
                        tokened : BOOLEAN, hidden : BOOLEAN]

NoScan == [phase |-> "idle", seen |-> [j \in Job |-> NewRow("absent")], todo |-> {}]

Owns(r, j) == row[j].status = "running" /\ row[j].token = r

(* A token is a uuid4: a run is reused only when nothing remembers it.     *)
Fresh(r) ==
    /\ pc[r] = "idle"
    /\ \A j \in Job : row[j].token # r
    /\ \A p \in Process, j \in Job : scan[p].seen[j].token # r

(* JobDispatcher.dispatch: a live task of this process is returned as it   *)
(* is, otherwise a new one takes the slot.                                 *)
Dispatch(p, j) ==
    \/ task[p][j] # None /\ UNCHANGED <<task, pc>>
    \/ /\ task[p][j] = None
       /\ \E r \in Run :
             /\ Fresh(r)
             /\ task' = [task EXCEPT ![p][j] = r]
             /\ pc' = [pc EXCEPT ![r] = "waiting"]

(* dispatcher.cancel: task.cancel() on the live task of the job, if any.   *)
CancelTask(p, j) == wish' = wish \cup ({task[p][j]} \ {None})

Init ==
    /\ row \in [Job -> {NewRow("absent"), NewRow("running")}]
    /\ task = [p \in Process |-> [j \in Job |-> None]]
    /\ pc = [r \in Run |-> "idle"]
    /\ wish = {}
    /\ proc = [p \in Process |-> "down"]
    /\ scan = [p \in Process |-> NoScan]
    /\ req = [q \in Request |-> Idle]
    /\ stops = 0

-----------------------------------------------------------------------------
(* The runner.  Each action takes the process and the job of a live task.  *)

At(p, j, state) == task[p][j] # None /\ pc[task[p][j]] = state

Move(p, j, state) ==
    /\ pc' = [pc EXCEPT ![task[p][j]] = state]
    /\ UNCHANGED <<task, wish, proc, scan, req, stops>>

(* _run_with_limit: the in-flight slot and the local permit are granted.   *)
Admit(p, j) ==
    /\ At(p, j, "waiting")
    /\ Move(p, j, "claiming")
    /\ UNCHANGED row

\* Mutant: the envelope forgets its expected_statuses.
InitFailureUnguarded(p, j) ==
    /\ At(p, j, "claiming")
    /\ row' = [row EXCEPT ![j] = Closed(@, "failed")]
    /\ Move(p, j, "leaving")

(* _persist_job_envelope without a token: a conditional update of the row. *)
InitFailure(p, j) ==
    /\ At(p, j, "claiming")
    /\ row' = IF row[j].status = "pending"
                 THEN [row EXCEPT ![j] = Closed(@, "failed")] ELSE row
    /\ Move(p, j, "leaving")

(* _claim_execution_lease: pending and tokenless becomes running.          *)
Claim(p, j) ==
    /\ At(p, j, "claiming")
    /\ row[j].status = "pending" /\ row[j].token = None
    /\ row' = [row EXCEPT ![j] = [@ EXCEPT !.status = "running", !.token = task[p][j],
                                           !.live = TRUE, !.stale = FALSE]]
    /\ Move(p, j, "claimed")

ClaimMissed(p, j) ==
    /\ At(p, j, "claiming")
    /\ ~(row[j].status = "pending" /\ row[j].token = None)
    /\ Move(p, j, "leaving")
    /\ UNCHANGED row

(* SQLite stays locked through the retries: admission never committed.     *)
ClaimLocked(p, j) ==
    /\ At(p, j, "claiming")
    /\ Move(p, j, "leaving")
    /\ UNCHANGED row

(***************************************************************************)
(* The first committed transaction of _run_job_in_session.  The row is     *)
(* loaded, set to running and flushed before the fence looks at it, so the *)
(* fence then compares the token alone.                                    *)
(***************************************************************************)
BeginExecution(p, j) ==
    /\ At(p, j, "claimed")
    /\ row[j].token = task[p][j]
    /\ row' = [row EXCEPT ![j] = [@ EXCEPT !.status = "running", !.stale = FALSE]]
    /\ Move(p, j, "executing")

BeginRefused(p, j) ==
    /\ At(p, j, "claimed")
    /\ row[j].token # task[p][j]
    /\ Move(p, j, "refused")
    /\ UNCHANGED row

(* persist_progress with a running status: refused when the row is no      *)
(* longer this run's.  (A granted one changes nothing of the row.)         *)
ProgressRefused(p, j) ==
    /\ At(p, j, "executing")
    /\ ~Owns(task[p][j], j)
    /\ Move(p, j, "refused")
    /\ UNCHANGED row

(* One renewal by _heartbeat_execution_lease.                              *)
Heartbeat(p, j) ==
    /\ At(p, j, "executing") /\ Owns(task[p][j], j)
    /\ row' = [row EXCEPT ![j].live = TRUE]
    /\ UNCHANGED <<task, pc, wish, proc, scan, req, stops>>

(* The heartbeat ends with an error: the row was lost, or the database     *)
(* could not be reached.  run_job cancels the execution and raises.        *)
HeartbeatFails(p, j) ==
    /\ At(p, j, "executing")
    /\ Move(p, j, "leaving")
    /\ UNCHANGED row

(***************************************************************************)
(* _commit_job_progress with a terminal status that is only in the         *)
(* session: the fence sees the committed status.  That is the case of the  *)
(* closes before execution proper (track already owned: done; equivalent   *)
(* acquisition active: cancelled and hidden) and of every close as failed  *)
(* that no query follows.                                                  *)
(***************************************************************************)
CloseUnflushed(p, j) ==
    LET r == task[p][j] IN
    \/ /\ At(p, j, "claimed") /\ Owns(r, j)
       /\ \/ row' = [row EXCEPT ![j] = Closed(@, "done")]
          \/ row' = [row EXCEPT ![j] = [Closed(@, "cancelled") EXCEPT !.hidden = TRUE]]
       /\ Move(p, j, "teardown")
    \/ /\ At(p, j, "executing") /\ Owns(r, j)
       /\ row' = [row EXCEPT ![j] = Closed(@, "failed")]
       /\ Move(p, j, "teardown")

(***************************************************************************)
(* The closes as done or partial: the query for the job's releases flushes *)
(* the new status, the fence of the same transaction then asks for a       *)
(* running row, finds none, rolls back and raises ExecutionLeaseLost.  A   *)
(* manifest that cannot be completed and a track that left its album are   *)
(* flushed and end in the same way (as a close that never commits).        *)
(***************************************************************************)
CloseFlushed(p, j) ==
    /\ At(p, j, "executing")
    /\ Move(p, j, "refused")
    /\ UNCHANGED row

(* The closing auto-import pass commits its plans, and with them the       *)
(* flushed status: no fence, and the token stays in the row.               *)
ClosingImport(p, j) ==
    /\ "closing_import" \in Operations
    /\ At(p, j, "executing") /\ row[j].status # "absent"
    /\ \E s \in {"done", "partial"} :
          row' = [row EXCEPT ![j] = Overwritten(@, s)]
    /\ Move(p, j, "imported")

(* persist_progress after it finds no running row.                         *)
ImportedRefused(p, j) ==
    /\ At(p, j, "imported")
    /\ Move(p, j, "refused")
    /\ UNCHANGED row

\* Mutant: the failed envelope does not ask for the token.
ExecutionErrorUnfenced(p, j) ==
    /\ At(p, j, "claimed") \/ At(p, j, "executing")
    /\ row[j].status \in Active
    /\ row' = [row EXCEPT ![j] = Closed(@, "failed")]
    /\ Move(p, j, "teardown")

(* An exception out of the execution: the failed envelope asks for the     *)
(* token; it may also find the database locked and write nothing.          *)
ExecutionError(p, j) ==
    /\ At(p, j, "claimed") \/ At(p, j, "executing")
    /\ \/ /\ row[j].status \in Active /\ row[j].token = task[p][j]
          /\ row' = [row EXCEPT ![j] = Closed(@, "failed")]
          /\ Move(p, j, "teardown")
       \/ Move(p, j, "leaving") /\ UNCHANGED row

(***************************************************************************)
(* task.cancel() takes effect.  Before the execution task exists the       *)
(* CancelledError leaves run_job as it is; later the cancelled envelope    *)
(* asks for the token, and may fail to be written.                         *)
(***************************************************************************)
Cancelled(p, j) ==
    LET r == task[p][j] IN
    /\ r # None /\ r \in wish
    /\ pc[r] \in {"waiting", "claiming", "claimed", "executing", "imported"}
    /\ wish' = wish \ {r}
    /\ \/ /\ pc[r] \in {"claimed", "executing", "imported"}
          /\ row[j].status \in Active /\ row[j].token = r
          /\ row' = [row EXCEPT ![j] = Closed(@, "cancelled")]
          /\ pc' = [pc EXCEPT ![r] = "teardown"]
       \/ row' = row /\ pc' = [pc EXCEPT ![r] = "leaving"]
    /\ UNCHANGED <<task, proc, scan, req, stops>>

\* Mutant: the done callback does not free the slot.
EndTaskInPlace(p, j) ==
    LET r == task[p][j] IN
    /\ r # None /\ pc[r] \in {"teardown", "refused", "leaving"}
    /\ pc' = [pc EXCEPT ![r] = "idle"]
    /\ wish' = wish \ {r}
    /\ UNCHANGED <<row, task, proc, scan, req, stops>>

(* The task is done and its callback frees the slot.                       *)
EndTask(p, j) ==
    LET r == task[p][j] IN
    /\ r # None /\ pc[r] \in {"teardown", "refused", "leaving"}
    /\ pc' = [pc EXCEPT ![r] = "idle"]
    /\ task' = [task EXCEPT ![p][j] = None]
    /\ wish' = wish \ {r}
    /\ UNCHANGED <<row, proc, scan, req, stops>>

RunnerStep(p, j) ==
    \/ Admit(p, j) \/ InitFailure(p, j) \/ Claim(p, j) \/ ClaimMissed(p, j)
    \/ ClaimLocked(p, j) \/ BeginExecution(p, j) \/ BeginRefused(p, j)
    \/ ProgressRefused(p, j) \/ Heartbeat(p, j) \/ HeartbeatFails(p, j)
    \/ CloseUnflushed(p, j) \/ CloseFlushed(p, j) \/ ClosingImport(p, j)
    \/ ImportedRefused(p, j) \/ ExecutionError(p, j) \/ Cancelled(p, j)
    \/ EndTask(p, j)

-----------------------------------------------------------------------------
(* Recovery and watchdog.  One pass reads the rows, then decides and       *)
(* updates each in one transaction (a lock error repeats the whole pass),  *)
(* then dispatches what it updated.                                        *)

(* dispatcher.recover reads every active job.                              *)
RecoverSelects(j) == row[j].status \in Active

\* Mutant: only tokenless running rows are looked for.
WatchdogSelectsTokenless(j) ==
    row[j].status \in Active /\ row[j].token = None /\ row[j].stale

\* Mutant: only running rows are looked for.
WatchdogSelectsRunning(j) ==
    row[j].status = "running" /\ (row[j].stale \/ (row[j].token # None /\ ~row[j].live))

(* _watchdog_tick reads the jobs nobody seems to be executing.             *)
WatchdogSelects(j) ==
    \/ row[j].status = "pending" /\ row[j].stale
    \/ row[j].status = "running" /\ row[j].token = None /\ row[j].stale
    \/ row[j].status = "running" /\ row[j].token # None /\ ~row[j].live

Read(p, phase, J) ==
    /\ scan[p].phase = "idle"
    /\ scan' = [scan EXCEPT ![p] = [phase |-> phase, todo |-> {},
                    seen |-> [j \in Job |-> IF j \in J THEN row[j] ELSE NewRow("absent")]]]
    /\ UNCHANGED <<row, task, pc, wish, req, stops>>

(* The startup pipeline recovers once; the watchdog is already ticking.    *)
RecoverRead(p) ==
    /\ proc[p] = "starting"
    /\ Read(p, "recover", {j \in Job : RecoverSelects(j)})
    /\ proc' = [proc EXCEPT ![p] = "up"]

WatchdogRead(p) ==
    /\ proc[p] \in {"starting", "up"}
    /\ \E j \in Job : WatchdogSelects(j)
    /\ Read(p, "watchdog", {j \in Job : WatchdogSelects(j)})
    /\ UNCHANGED proc

\* Mutant: the update does not ask for the status that was read.
UnchangedButStatus(j, s) ==
    s.status # "absent" /\ row[j].token = s.token /\ row[j].marker = s.marker

(***************************************************************************)
(* The WHERE clauses.  Both passes compare status, result and token with   *)
(* what they read and never take a row whose lease is in the future; the   *)
(* watchdog also wants updated_at unchanged (here: a row read as stale is  *)
(* still stale) unless the row is running with a token.                    *)
(***************************************************************************)
Unchanged(j, s) ==
    /\ s.status # "absent"
    /\ row[j].status = s.status /\ row[j].token = s.token /\ row[j].marker = s.marker

\* Mutant: startup takes every running row, as if no other owner could live.
RecoverTakesAll(j, s) == Unchanged(j, s)

RecoverTakes(j, s) ==
    /\ Unchanged(j, s)
    /\ s.status = "running" /\ s.token # None => ~s.live /\ ~row[j].live

\* Mutant: the update does not look at the lease again.
WatchdogTakesOnRead(p, j, s) ==
    /\ Unchanged(j, s)
    /\ task[p][j] = None
    /\ (s.status = "running" /\ s.token # None) \/ row[j].stale

(* A job whose task is still in this dispatcher is skipped.                *)
WatchdogTakes(p, j, s) ==
    /\ Unchanged(j, s)
    /\ task[p][j] = None
    /\ IF s.status = "running" /\ s.token # None THEN ~row[j].live ELSE row[j].stale

(* Untokened work the watchdog already requeued once is given up.          *)
Recurrent(s) == s.token = None /\ s.marker = "legacy"

RecoverWrites(s) ==
    IF s.status = "pending" THEN Requeued(s, s.marker)
    ELSE Requeued(s, IF s.token # None THEN "tokenized" ELSE s.marker)

WatchdogWrites(s) ==
    IF Recurrent(s) THEN Closed(s, "failed")
    ELSE Requeued(s, IF s.token # None \/ s.marker = "tokenized"
                     THEN "tokenized" ELSE "legacy")

(* The rows taken get their new values and are dispatched afterwards.      *)
Apply(p, new, taken, todo) ==
    /\ row' = [j \in Job |-> IF j \in taken
                             THEN [new[j] EXCEPT !.hidden = row[j].hidden]
                             ELSE row[j]]
    /\ scan' = [scan EXCEPT ![p] = [NoScan EXCEPT !.phase = "dispatch", !.todo = todo]]
    /\ UNCHANGED <<task, pc, wish, proc, req, stops>>

RecoverApply(p) ==
    LET seen  == scan[p].seen
        taken == {j \in Job : RecoverTakes(j, seen[j])}
    IN  /\ scan[p].phase = "recover"
        /\ Apply(p, [j \in Job |-> RecoverWrites(seen[j])], taken, taken)

WatchdogApply(p) ==
    LET seen  == scan[p].seen
        taken == {j \in Job : WatchdogTakes(p, j, seen[j])}
    IN  /\ scan[p].phase = "watchdog"
        /\ Apply(p, [j \in Job |-> WatchdogWrites(seen[j])], taken,
                 {j \in taken : ~Recurrent(seen[j])})

ScanDispatch(p) ==
    /\ scan[p].phase = "dispatch"
    /\ \/ \E j \in scan[p].todo :
             /\ Dispatch(p, j)
             /\ scan' = [scan EXCEPT ![p].todo = @ \ {j}]
       \/ /\ scan[p].todo = {}
          /\ scan' = [scan EXCEPT ![p] = NoScan]
          /\ UNCHANGED <<task, pc>>
    /\ UNCHANGED <<row, wish, proc, req, stops>>

(* The database stays locked: the pass is logged and given up.             *)
ScanFails(p) ==
    /\ scan[p].phase \in {"recover", "watchdog"}
    /\ scan' = [scan EXCEPT ![p] = NoScan]
    /\ UNCHANGED <<row, task, pc, wish, proc, req, stops>>

ScanStep(p) ==
    RecoverRead(p) \/ WatchdogRead(p) \/ RecoverApply(p) \/ WatchdogApply(p)
    \/ ScanDispatch(p) \/ ScanFails(p)

-----------------------------------------------------------------------------
(* Requests.  Each is handled by one process and may be interleaved with   *)
(* everything else at the point where it waits for the database.           *)

Accepts(q, p, op) ==
    /\ op \in Operations
    /\ req[q].op = "idle" /\ proc[p] \in {"starting", "up"}

Await(q, p, j, op) ==
    req' = [req EXCEPT ![q] = [op |-> op, proc |-> p, job |-> j,
                               tokened |-> row[j].token # None,
                               hidden |-> row[j].hidden]]

Finish(q) == req' = [req EXCEPT ![q] = Idle]

(* POST /jobs and its like: the row is committed, then dispatched.         *)
Submit(q, p, j) ==
    /\ Accepts(q, p, "submit")
    /\ row[j].status = "absent"
    /\ row' = [row EXCEPT ![j] = NewRow("pending")]
    /\ Await(q, p, j, "dispatch")
    /\ UNCHANGED <<task, pc, wish, proc, scan, stops>>

RequestDispatch(q) ==
    /\ req[q].op = "dispatch"
    /\ Dispatch(req[q].proc, req[q].job)
    /\ Finish(q)
    /\ UNCHANGED <<row, wish, proc, scan, stops>>

(* cancel_job: the envelope closes an active row whoever owns it, and only *)
(* then is the task cancelled.                                             *)
CancelPersist(q, p, j) ==
    /\ Accepts(q, p, "cancel")
    /\ row[j].status \in Active
    /\ row' = [row EXCEPT ![j] = Closed(@, "cancelled")]
    /\ Await(q, p, j, "cancelling")
    /\ UNCHANGED <<task, pc, wish, proc, scan, stops>>

(* cancel_discography_batch: created jobs that are pending, one statement; *)
(* the router then cancels their tasks.                                    *)
BatchCancel(q, p, j) ==
    /\ Accepts(q, p, "batch_cancel")
    /\ row[j].status = "pending"
    /\ row' = [row EXCEPT ![j] = [Overwritten(@, "cancelled") EXCEPT !.hidden = TRUE]]
    /\ Await(q, p, j, "cancelling")
    /\ UNCHANGED <<task, pc, wish, proc, scan, stops>>

CancelDeliver(q) ==
    /\ req[q].op = "cancelling"
    /\ CancelTask(req[q].proc, req[q].job)
    /\ Finish(q)
    /\ UNCHANGED <<row, task, pc, proc, scan, stops>>

(***************************************************************************)
(* Handlers that load the row, decide on what they loaded, and commit the  *)
(* columns they changed for the row's id alone: retry; remove, clear and   *)
(* the cleanup that hides finished jobs and deletes those nothing refers   *)
(* to; and the artist monitor that supersedes a pending sibling edition.   *)
(***************************************************************************)
LoadRow(q, p, j, op, phase, allowed) ==
    /\ Accepts(q, p, op)
    /\ row[j].status \in allowed
    /\ Await(q, p, j, phase)
    /\ UNCHANGED <<row, task, pc, wish, proc, scan, stops>>

RetryRead(q, p, j)     == LoadRow(q, p, j, "retry", "retrying", Retryable)
HideRead(q, p, j)      == LoadRow(q, p, j, "hide", "hiding", Terminal)
PruneRead(q, p, j)     == LoadRow(q, p, j, "prune", "pruning", Terminal)
SupersedeRead(q, p, j) == LoadRow(q, p, j, "supersede", "superseding", {"pending"})

Writing == {"retrying", "hiding", "pruning", "superseding"}

Writes(q, op) == req[q].op = op /\ row[req[q].job].status # "absent"

(* The row was deleted in the meantime: the commit raises.                 *)
RowGone(q) ==
    /\ req[q].op \in Writing /\ row[req[q].job].status = "absent"
    /\ Finish(q)
    /\ UNCHANGED <<row, task, pc, wish, proc, scan, stops>>

\* Mutant: the retried job is not brought back into the queue.
RetryWriteHidden(q) ==
    /\ Writes(q, "retrying")
    /\ row' = [row EXCEPT ![req[q].job] = Requeued(@, "none")]
    /\ req' = [req EXCEPT ![q].op = "dispatch"]
    /\ UNCHANGED <<task, pc, wish, proc, scan, stops>>

(* The token, the lease and the hidden flag are written only if the loaded *)
(* value was set: the session writes the columns that changed.             *)
Retried(r, loaded) ==
    [r EXCEPT !.status = "pending", !.stale = FALSE, !.marker = "none",
              !.token = IF loaded.tokened THEN None ELSE @,
              !.live = IF loaded.tokened THEN FALSE ELSE @,
              !.hidden = IF loaded.hidden THEN FALSE ELSE @]

RetryWrite(q) ==
    /\ Writes(q, "retrying")
    /\ row' = [row EXCEPT ![req[q].job] = Retried(@, req[q])]
    /\ req' = [req EXCEPT ![q].op = "dispatch"]
    /\ UNCHANGED <<task, pc, wish, proc, scan, stops>>

HideWrite(q) ==
    /\ Writes(q, "hiding")
    /\ row' = [row EXCEPT ![req[q].job] = [@ EXCEPT !.hidden = TRUE, !.stale = FALSE]]
    /\ Finish(q)
    /\ UNCHANGED <<task, pc, wish, proc, scan, stops>>

(* prune_orphaned_terminal_records; the row's id is free again.            *)
PruneWrite(q) ==
    /\ Writes(q, "pruning")
    /\ row' = [row EXCEPT ![req[q].job] = NewRow("absent")]
    /\ Finish(q)
    /\ UNCHANGED <<task, pc, wish, proc, scan, stops>>

SupersedeWrite(q) ==
    /\ Writes(q, "superseding")
    /\ row' = [row EXCEPT ![req[q].job] = Overwritten(@, "cancelled")]
    /\ Finish(q)
    /\ UNCHANGED <<task, pc, wish, proc, scan, stops>>

(* The session commits what it loaded and changed.                          *)
CommitLoaded(q) ==
    /\ req[q].op \in Writing
    /\ IF row[req[q].job].status = "absent"
       THEN RowGone(q)
       ELSE RetryWrite(q) \/ HideWrite(q) \/ PruneWrite(q) \/ SupersedeWrite(q)

RequestStep(q) ==
    \/ \E p \in Process, j \in Job :
          \/ Submit(q, p, j) \/ CancelPersist(q, p, j) \/ BatchCancel(q, p, j)
          \/ RetryRead(q, p, j) \/ HideRead(q, p, j) \/ PruneRead(q, p, j)
          \/ SupersedeRead(q, p, j)
    \/ RequestDispatch(q) \/ CancelDeliver(q)
    \/ CommitLoaded(q)

-----------------------------------------------------------------------------
(* Time and processes.                                                     *)

LeaseLapses(j) ==
    /\ row[j].status = "running" /\ row[j].live
    /\ row' = [row EXCEPT ![j].live = FALSE]
    /\ UNCHANGED <<task, pc, wish, proc, scan, req, stops>>

GoesStale(j) ==
    /\ ~row[j].stale
    /\ \/ row[j].status = "pending"
       \/ row[j].status = "running" /\ row[j].token = None
    /\ row' = [row EXCEPT ![j].stale = TRUE]
    /\ UNCHANGED <<task, pc, wish, proc, scan, req, stops>>

Start(p) ==
    /\ proc[p] = "down"
    /\ proc' = [proc EXCEPT ![p] = "starting"]
    /\ UNCHANGED <<row, task, pc, wish, scan, req, stops>>

TasksOf(p) == {task[p][j] : j \in Job} \ {None}

Crash(p) ==
    /\ "crash" \in Operations /\ stops < MaxStops
    /\ proc[p] # "down"
    /\ proc' = [proc EXCEPT ![p] = "down"]
    /\ task' = [task EXCEPT ![p] = [j \in Job |-> None]]
    /\ pc' = [r \in Run |-> IF r \in TasksOf(p) THEN "idle" ELSE pc[r]]
    /\ wish' = wish \ TasksOf(p)
    /\ scan' = [scan EXCEPT ![p] = NoScan]
    /\ req' = [q \in Request |-> IF req[q].proc = p THEN Idle ELSE req[q]]
    /\ stops' = stops + 1
    /\ UNCHANGED row

(* The lifespan's exit, once the server has answered its requests: the     *)
(* pipeline and the watchdog are stopped, then every live task cancelled.  *)
Shutdown(p) ==
    /\ "shutdown" \in Operations /\ stops < MaxStops
    /\ proc[p] \in {"starting", "up"}
    /\ \A q \in Request : req[q].op # "idle" => req[q].proc # p
    /\ proc' = [proc EXCEPT ![p] = "stopping"]
    /\ scan' = [scan EXCEPT ![p] = NoScan]
    /\ wish' = wish \cup TasksOf(p)
    /\ stops' = stops + 1
    /\ UNCHANGED <<row, task, pc, req>>

(* shutdown gathers the cancelled tasks; then the process ends.            *)
Exit(p) ==
    /\ proc[p] = "stopping" /\ TasksOf(p) = {}
    /\ proc' = [proc EXCEPT ![p] = "down"]
    /\ UNCHANGED <<row, task, pc, wish, scan, req, stops>>

EnvironmentStep ==
    \/ \E j \in Job : LeaseLapses(j) \/ GoesStale(j)
    \/ \E p \in Process : Start(p) \/ Crash(p) \/ Shutdown(p) \/ Exit(p)

Next ==
    \/ \E p \in Process, j \in Job : RunnerStep(p, j)
    \/ \E p \in Process : ScanStep(p)
    \/ \E q \in Request : RequestStep(q)
    \/ EnvironmentStep

Spec == Init /\ [][Next]_vars

(***************************************************************************)
(* What the code's scheduling gives: the event loop runs every ready task, *)
(* waits for providers are bounded by timeouts, time passes, a dead        *)
(* process is started again.  Locks of the database are transient, so what *)
(* is tried again and again is at some time not refused by them.           *)
(***************************************************************************)
RunnerFairness(p, j) ==
    /\ WF_vars(Admit(p, j)) /\ WF_vars(ClaimMissed(p, j)) /\ SF_vars(Claim(p, j))
    /\ WF_vars(BeginExecution(p, j) \/ BeginRefused(p, j))
    /\ WF_vars(CloseUnflushed(p, j) \/ CloseFlushed(p, j))
    /\ WF_vars(ImportedRefused(p, j))
    /\ WF_vars(Cancelled(p, j)) /\ WF_vars(EndTask(p, j))

ScanFairness(p) ==
    /\ SF_vars(WatchdogRead(p)) /\ SF_vars(WatchdogApply(p))
    /\ WF_vars(RecoverRead(p)) /\ WF_vars(RecoverApply(p)) /\ WF_vars(ScanDispatch(p))

Fairness ==
    /\ \A p \in Process : /\ \A j \in Job : RunnerFairness(p, j)
                          /\ ScanFairness(p) /\ WF_vars(Start(p)) /\ WF_vars(Exit(p))
    /\ \A q \in Request : /\ WF_vars(RequestDispatch(q)) /\ WF_vars(CancelDeliver(q))
                          /\ WF_vars(RetryWrite(q)) /\ WF_vars(HideWrite(q))
                          /\ WF_vars(PruneWrite(q)) /\ WF_vars(SupersedeWrite(q))
                          /\ WF_vars(RowGone(q))
    /\ \A j \in Job : WF_vars(LeaseLapses(j)) /\ WF_vars(GoesStale(j))

FairSpec == Spec /\ Fairness

-----------------------------------------------------------------------------
(* Properties.                                                             *)

Shapes ==
    /\ row \in [Job -> Row]
    /\ task \in [Process -> [Job -> Run \cup {None}]]
    /\ pc \in [Run -> RunState]
    /\ wish \subseteq Run
    /\ proc \in [Process -> {"down", "starting", "up", "stopping"}]
    /\ scan \in [Process -> [phase : {"idle", "recover", "watchdog", "dispatch"},
                             seen : [Job -> Row], todo : SUBSET Job]]
    /\ req \in [Request -> ReqType]
    /\ stops \in 0..MaxStops

Placed ==
    \A p \in Process, j \in Job : task[p][j] # None => pc[task[p][j]] # "idle"

Alone ==
    \A p1, p2 \in Process, j1, j2 \in Job :
       task[p1][j1] # None /\ task[p1][j1] = task[p2][j2] => p1 = p2 /\ j1 = j2

(* Every variable keeps its shape; a task slot names a run that is not     *)
(* idle (the done callback frees the slot with the task's end), and no run *)
(* is in two slots (dispatch starts one task for one job).                 *)
TypeOK == Shapes /\ Placed /\ Alone

(* The run of a slot has the row no more, and takes a step of its own.     *)
Displaced(p, j) ==
    /\ task[p][j] # None
    /\ pc[task[p][j]] \in {"claimed", "executing", "imported"}
    /\ row[j].token # task[p][j]

Moves(p, j) == pc'[task[p][j]] # pc[task[p][j]] /\ task'[p][j] = task[p][j]

(* A lease in the future keeps the job with its owner: no recovery pass,   *)
(* watchdog or rival claim of any process takes the token out of a running *)
(* row before the lease ends; only closing the job does (dispatcher.py,    *)
(* "A token with an unexpired lease may still belong to a healthy worker   *)
(* in another process").  For requests that do not overlap, and without    *)
(* the two unfenced writers, the closing import and supersede.             *)
LiveLeaseIsRespected ==
    [][\A j \in Job :
          row[j].status = "running" /\ row[j].token # None /\ row[j].live
             => \/ row'[j].token = row[j].token
                \/ row'[j].token = None /\ row'[j].status \in Terminal]_vars

(* A run that has lost its row (requeued, claimed again, cancelled) goes   *)
(* on executing for a while; whatever it then does to end, it writes       *)
(* nothing to the row (runner.py, _commit_job_progress and the             *)
(* expected_token of the envelopes), with one exception: the auto-import   *)
(* of the closing pass commits the flushed status without the fence        *)
(* (auto_import.py, try_auto_import_release).                              *)
DisplacedRunIsPowerless ==
    [][\A p \in Process, j \in Job :
          Displaced(p, j) /\ Moves(p, j) /\ ~ClosingImport(p, j) => row'[j] = row[j]]_vars

(* A closed job stays closed until somebody retries it, and a job that is  *)
(* done is done for good: no late run, pass or handler reopens it.  Only   *)
(* the pruning takes closed jobs out of the table.  For requests that do   *)
(* not overlap, and without the unfenced writers: the artist monitor's     *)
(* stale write may turn done into cancelled, a displaced run's closing     *)
(* import cancelled into done, and a retry that overlaps another may       *)
(* reopen a job that is done.                                              *)
OnlyRetryReopens ==
    [][\A j \in Job :
          row[j].status \in Terminal /\ row'[j].status \notin {row[j].status, "absent"}
             => /\ row[j].status # "done"
                /\ row'[j].status = "pending"
                /\ \E q \in Request : req[q].op = "retrying" /\ req[q].job = j]_vars

(* A job that will run or is running is in the queue the user sees: the    *)
(* code refuses to remove an active job, and a retry brings back a hidden  *)
(* one (dispatcher.py, remove and retry).  For requests that do not        *)
(* overlap: a removal that overlaps a retry breaks it.                     *)
ActiveJobsAreVisible == \A j \in Job : row[j].status \in Active => ~row[j].hidden

(* The table, seen without the tasks, passes, requests and processes that  *)
(* act on it, behaves as JobLifecycle says.  Under the same restriction as *)
(* OnlyRetryReopens: requests that do not overlap, no closing import, no   *)
(* supersede.                                                              *)
Lifecycle == INSTANCE JobLifecycle WITH
    status <- [j \in Job |-> row[j].status],
    owner  <- [j \in Job |-> row[j].token],
    fresh  <- [j \in Job |-> row[j].live]

ImplementsLifecycle == Lifecycle!Spec

(* A row without a live owner is found: if the run whose token it carries  *)
(* is gone, the job is eventually requeued, closed or run again.           *)
Orphaned(j) ==
    row[j].status = "running" /\ \A p \in Process : task[p][j] = None \/ task[p][j] # row[j].token

OrphansAreRecovered == \A j \in Job : Orphaned(j) ~> ~Orphaned(j)

(* Every pending job is eventually taken: lost dispatches, crashes between *)
(* commit and dispatch, locked claims and retries that found the old task  *)
(* still in its slot are all made good by the watchdog.                    *)
PendingIsServed == \A j \in Job : row[j].status = "pending" ~> row[j].status # "pending"

-----------------------------------------------------------------------------
(* What the repository says of itself and the code does not do.            *)

(* "Raised when a background runner no longer owns its job execution       *)
(* lease" (runner.py, ExecutionLeaseLost): a run that goes to commit and   *)
(* is refused by the fence has lost the row.                               *)
OnlyDisplacedRunsAreRefused ==
    [][\A p \in Process, j \in Job :
          At(p, j, "executing") /\ pc'[task[p][j]] = "refused"
             => ~Owns(task[p][j], j)]_vars

(* "atomic terminal ownership checks" (CHANGELOG.md): a run that lost its  *)
(* row writes nothing to it, without the exception that                    *)
(* DisplacedRunIsPowerless makes.                                          *)
TerminalWritesAreOwned ==
    [][\A p \in Process, j \in Job :
          Displaced(p, j) /\ Moves(p, j) => row'[j] = row[j]]_vars
=============================================================================
