# TLA+ for AudioHoard

AudioHoard (`src/app`) is a FastAPI server that acquires music: users queue
jobs, a dispatcher runs them as asyncio tasks, a runner searches the providers
(slskd, SABnzbd/Prowlarr, YouTube, TIDAL), waits for the transfer and hands the
file to the library import.  All durable state is in one SQLite database (WAL
mode); the rest is the file system, the providers, and the memory of one
process.  This directory models the parts of it that coordinate through that
database, checks the models with TLC on small instances, and proves the most
important properties with TLAPS for instances of any size.

## 1. Inventory

Two facts about the platform shape every hard behaviour below.

* A `SELECT` takes no lock: SQLite transactions begin with the first write, so
  an ORM handler that loads a row, decides, awaits and commits works on what it
  *loaded*, and writes only the columns it changed, for the row's primary key.
  Only `UPDATE ... WHERE` statements compare and set.
* The session autoflushes: a query in the middle of a transaction writes what
  the session has pending, so a later statement of the same transaction sees
  it, and a commit made by a helper commits all of it.

| Component | State | Operations | Talks to | Hard because | Correct when |
|---|---|---|---|---|---|
| Job queue (`jobs/dispatcher.py`, `jobs/runner.py` `run_job`) | `jobs` rows: status, execution token, lease, result, hidden; one task per job in memory | submit, dispatch, claim, heartbeat, progress, close, cancel, retry, remove/clear/prune, recover, watchdog, shutdown | everything that queues work | crashes, takeovers, stale readings, cancellation between two commits | one owner per job; a displaced run writes nothing (but by its closing import, a finding); no job is stranded |
| Acquisition permits (`AcquisitionPermit`, `_run_with_limit`) | two counters and conditions | acquire, yield, release, set limit | runner's transfer polling | cancellation inside acquire, release and finalizer | counters exact; no work without permit; nobody waits for ever |
| Acquisition pipeline (`_run_job_in_session`, `acquisition_attempts.py`) | `tracks`, `releases`, `acquisition_attempts` | candidate search, fallback, intent before transfer, polling, artifact binding | providers, cleanup, import | provider accepted but the answer was lost; restart between intent and answer | at most one live transfer per candidate; every transfer has an attempt row |
| Continuations and album reconciliation (`_spawn_continuation_jobs`, `_reconcile_catalog_album_jobs`) | parent and child jobs | spawn, adopt, close siblings | claims, queue | crash between closing the parent and creating the child | missing tracks are acquired at most once and not lost |
| Ownership and admission claims (`acquisition_ownership.py`, `release_admission.py`) | `acquisition_dispatch_claims` | claim (CAS upsert), hand over, release | queue, batches | equivalent requests from three directions | one active acquisition per catalogue track |
| Discography batches (`discography_batches.py`, `discography_batch_runner.py`) | batches, items with leases and generations, item-job links | create, hydrate, lease, queue, observe, pause, resume, cancel, retry | claims, queue | controls while items are leased | per generation one created attempt per track; only the batch's pending jobs are cancelled |
| Terminal cleanup (`acquisition_cleanup.py`) | per attempt: provider and file cleanup state, one claim token, version and lease | claim, remove transfer, quarantine and erase file, finish, block, prune | slskd, file system | three kinds of cleanup share one claim; crash between erasing and recording | only the validated content is erased, and only after the provider let go |
| Library import, duplicates, re-tagging (`library_import.py`, `quality_upgrade.py`, `pinned_destination.py`) | import plans, library files, backups | plan, place, commit, take back; choose and delete duplicates; withdraw, publish, rename | file system, removal | files move between transactions and are addressed by name | a file is destroyed for a reason only; a duplicate is not the last copy; a backup goes back to where it was |
| Library removal (`library_removal.py`) | deletion journal, hidden files | journal, stage, decide, erase, restore, recover | file system | a crash, a lost acknowledgement or a failing file between any two steps | what was decided is erased, what was not is back, nothing is hidden unrecorded |
| Library reconciliation (`library_reconciliation.py`) | file states, the sweep's cursor | read, inspect, apply | file system, removal, adoption triggers | writes what a thread saw earlier | rows tell what lies in the folder; no row is passed over for ever |
| Review and its automation (`review_automation.py`, `staging.py`) | reviews, evidence | decide, lock, accept, reject | import, cleanup | the user and the automation decide together | one decision takes effect |
| Library adoption (`library_adoption*.py`) | scans, candidates, adopted claims | request, discover, match, adopt, requeue, recover | import, triggers on `import_plans` | the file is claimed or gone by the time it is adopted; restart in the middle of a scan | an adopted file has one claim and its track no other file |
| Monitoring, upgrades, maintenance (`monitoring.py`, `artist_monitoring.py`, `upgrade_monitoring.py`, `maintenance_*.py`) | schedules | tick, queue wanted, supersede | queue | two ticks, editions of one release | no duplicate request |
| Catalogue, metadata, naming, scoring | projections of provider data | merge, match, select | all | rules, not protocols | deterministic selection |
| Adapters, settings, auth, UI, migrations | — | I/O and rendering | all | — | — |

The hazards of the code, each at its line and with the properties that cover
it, are listed in `PROJECT.json`.

## 2. Plan

Order of the modules, most important behaviour first:

1. **JobExecution** with the abstract **JobLifecycle** — done, with proofs.
2. **AcquisitionPermits** with the abstract **PermitPool** — done, with proofs.
3. **AttemptCleanup** with the abstract **CleanupObligation** — done, with
   proofs; later sources of calls (adoption of terminal intents) with module 6.
4. **AcquisitionClaims**: dispatch claims, ordinary requests, the ownership
   check of a job — done, with proofs (in DiscographyBatch's specification).
5. **DiscographyBatch**: the batches and their runner, admission and
   continuations, composed with AcquisitionClaims — done, with proofs.
6. **AcquisitionAttempt**: intent, transfer, artifact; provider fallback.
7. **LibraryFiles**: imports, duplicates, re-tagging, removals, the sweep and
   the adoption of files, on one album folder — done.
8. **ReviewDecision**: the review queue, its automation, and the import it
   dispatches — done, with proofs.
9. Pure operators for edition selection, retry back-off and workflow
   transitions.

Theorems worth proving: for every module its type invariant and main safety
invariant; for 4 and 5 the uniqueness of the active acquisition and the silence
after a cancellation.  Each new module gets one run for safety and, where the
code promises progress, liveness under the same bounds.

## 3. Modules

### JobExecution — the job queue

| Model | Code |
|---|---|
| `row` | the `jobs` table: `status`, `execution_token` (`token`), `execution_lease_expires_at > now` (`live`), `updated_at` older than the watchdog's threshold (`stale`), the `watchdog_recovery` note in `result_json` (`marker`), `queue_hidden` (`hidden`) |
| `task` | `JobDispatcher._tasks` of each process |
| `pc`, `wish` | where a run is in `run_job`; a `task.cancel()` not yet delivered |
| `scan` | a pass of `recover` or `_watchdog_tick`: what it read, what it still dispatches |
| `req` | HTTP handlers (and the cleanup and monitor handlers that work alike) between their read and their commit |
| `proc`, `stops` | the life of each server process |

Each action is one database transaction, with what the code does up to the
next await.  A run's identity is its execution token (`uuid4`), so a run is
reused only when no row and no pass remembers it.  Time is the two actions
`LeaseLapses` and `GoesStale`, which may happen whenever they are possible, so
no property rests on the ratio of heartbeat and lease.

What an execution does between two commits is left out, except for whether the
commit is fenced and whether the session has already flushed the new status:
`CloseUnflushed` is a terminal commit whose fence sees the committed status,
`CloseFlushed` one whose fence sees the flushed one and refuses, and
`ClosingImport` the commit of the auto-import pass that asks no fence.  A run
that is refused goes through `refused` and leaves; its job stays `running`
until the lease lapses.

Retry, remove, clear, the five-minute cleanup, the pruning of closed jobs and
the artist monitor load a row, decide and write: `RetryRead`/`RetryWrite` and so
on.  Deleting a row frees its id (`sqlite_autoincrement` is not set), which is
why `Submit` may reuse it.

`JobLifecycle` is the promise: per row a status, an owner and a fresh lease;
the owner alone finishes, others take the job when the lease lapsed, a retry
alone reopens it.

### AcquisitionPermits — the two counters

| Model | Code |
|---|---|
| `inflight`, `active`, `limit` | `_inflight_jobs`, `_active_jobs`, `_max_concurrent_jobs` |
| `held` | `AcquisitionPermit._held` |
| `giving` | the release task that `yield_permit` shields: not there, running, done |
| `stage` | where the run is in `_run_with_limit` and `_poll_slskd_transfer` |
| `wish` | a cancellation on its way |

`parked` is a transfer in the provider's queue, `returning` the wait for the
permit after it, `unwinding` the finalizer.  `Interrupted` is a `CancelledError`
out of any await that does not defer it.  `PermitPool` is the promise in sets.

The two modules meet in one action: `JobExecution!Admit` stands for `Join` and
the first `Acquire`, and the fairness that JobExecution gives `Admit` is what
`EveryRunEnds` shows of AcquisitionPermits.

### AttemptCleanup — provider records, staged files and partial files

| Model | Code |
|---|---|
| `row` | `acquisition_attempts`: `provider_cleanup_state` and `file_cleanup_state` (`state`), `cleanup_claim_token`, `cleanup_lease_expires_at > now` (`live`), the two `retry_at` (`later`), eligibility, outcome and `artifact_state` |
| `plan` | whether `import_plans` still records a staging path to clean |
| `cl` | the calls: the sweep of `cleanup_terminal_acquisitions` (one at a time, under its lock) and the tasks of `cleanup_imported_sources` (any number) |
| `slskd` | the transfers slskd lists |
| `disk` | what lies under the staged name and under the quarantine's name, and whether the recorded inode was truncated |

A call of `cleanup_attempt_provider` goes through `p_call` (read the row),
`p_claim` (compare-and-set on the version), `p_snapshot`, `p_remove`,
`p_verify` and `p_finish`; one of `cleanup_attempt_file` through `f_call`,
`f_claim`, the system calls of `_remove_claimed_file` and
`_erase_validated_regular_at` (`f_look` to `f_confirm`) and `f_finish`; one of
`cleanup_attempt_partial` through the `q_` phases.  Version checks are the flag
`fresh`: the version a call read is still the row's.  `prepare` and `mark` are
the transactions that `cleanup_imported_sources` makes before and after them.
A cancellation while the thread works leaves it running (`detached`): a file
claim is given back at once, a partial claim is not given back at all.  `ProviderErrs`
covers lost answers and removals that slskd accepts and does
not carry out.

`CleanupObligation` is the promise: per attempt one holder at a time, provider
before file, and the claim changes hands only when it was given back or its
lease is over.

The rows come from the pipeline (terminal attempts with a staged or a partial
file, `NewRow`) and from the import (`Import`), which a later module refines.

### AcquisitionClaims and DiscographyBatch — who may acquire what, and for which batch

| Model | Code |
|---|---|
| `status`, `row` | `jobs`: status; the album or track a job is for, `parent_job_id`, the number of its partial attempt |
| `rootClaim`, `trackClaim` | `catalog_release_acquisition_claims`, `acquisition_dispatch_claims` |
| `working` | the running jobs that got past the ownership check of `_run_job_in_session` |
| `asks` | what a run that closed partial passes to `_spawn_continuation_jobs`, in a later transaction |
| `owned`, `manifest` | committed library files; complete track lists |
| `batch`, `item`, `links` | `discography_batches`, their items (state, lease, generation, reason) and `discography_batch_item_jobs` |
| `runner` | where `DiscographyBatchRunner` is, and what it has read |
| `request` | a user's pause, resume or retry between its read and its commit |

AcquisitionClaims has the jobs' steps (`Begin`, `Admit`, `Close`, `JobFails`,
`CancelJob`, `Requeue`) and the requests outside of batches; DiscographyBatch
extends it with the batches, `Reserve` (`materialize_batch_release_root_job`)
and `SpawnContinuations` (`_spawn_continuation_jobs`), which looks at both, and
holds the specification.

A transaction that reserves the writer first (`BEGIN IMMEDIATE`, or a first
statement that writes) is one step.  The others are two, a read and a write:
`SelectPending`/`Claim`, `Judge`/`Record`, `Pause`, `Resume` or
`RetryItems`/`WriteRequest`; `Merge` is what the ORM makes of the second, a
write of the columns that differ from what was *read*.  `Project` and `Reserve`
are the evidence that `materialize_batch_release_root_job` takes before its
transaction and compares inside it.

Abstractions: the catalogue's answer (which tracks are missing) is `Targets`,
and the evidence of a library file is the set `owned`.  `bypassed` fixes at the
start on which albums requests that take no claim (direct downloads, the review
queue's continuations, the artist monitor, `JobDispatcher.retry`) are made, so
that a property can say what holds without them.  A job is worked on by one run
at a time (JobExecution is about that).  Left out: previews that are never
confirmed, releases without a catalogue album, the check for an equal open
scope, the pruning of jobs, and quality upgrades (a track with a library file
is no target).

### ReviewDecision — one track in doubt, and the import an approval releases

| Model | Code |
|---|---|
| `item` | `staging_review_items`: `state` (`review`), `automation_state`, attempts, claim token, `evidence_revision`, the decision's path and hash, the dispatch columns |
| `open` | the rows of `staging_review_automation_attempts` in state `claimed` |
| `track`, `plan` | the track's AcoustID verdict, staged path and import flags; whose import plan is ready |
| `disk`, `library` | contents under the staged names, and under the track's name in the library |
| `worker` | a scheduler of the automation in `process_one` or `dispatch_pending_imports`, and what it has seen |
| `approval` | `approve_review_item` between the hashing and its transaction |
| `denial` | `deny_review_item` between its `BEGIN IMMEDIATE`, its commit and the erasure |
| `job` | a job that has downloaded the track and not yet verified it |

Judging is `Claim`, `Pin` (a sealed copy), `Evaluate`, `Recheck`, `Apply`;
dispatching is `ClaimImport`, `CheckSource`, `PlanImport`, `PlaceFile`,
`CommitImport`, `SettleImport`.  Contents change at any time between them, by a
new download, a denial, or from outside (`Replace`).  Keys of deleted items are
used again, and so are keys of plans, so that *any* ready plan serves a
dispatcher.  Tokens are numbered, the smallest free one is taken; only equality
counts.  Audit attempts whose item was deleted leave `open`, as they do
(`ON DELETE SET NULL`) what the property is about.

Left out: items with a reason that automation does not judge, reacquiring and
dismissing, the reconciliation of matching AcoustID reviews, previews, and the
job that a denial submits.  `OtherImport`, which imports whatever is under the
track's staged name, is one step.

### LibraryFiles — the files of an album folder and the rows that claim them

| Model | Code |
|---|---|
| `claim` | `import_plans`: track, `destination_path` (`name`), `status`, `file_state` (`file`), and whether the plan's operation is `adopt_in_place` (`adopted`) |
| `owned` | the tracks whose `import_state` is `imported` |
| `journal` | the groups of `deletion_operations` that are `prepared` or `committed`, with the inode each row found |
| `dir`, `hidden`, `backup` | inodes under the folder's names, under the removals' temporary names, and under the backup names of re-tagging |
| `placed` | what an import has placed and not committed (`execute_release_import` up to its flush) |
| `dedupe` | `reconcile_album_quality_duplicates` between its reading and its writing |
| `retag` | `_retag_catalog_album_files`: the files still to do, the one withdrawn, those published, the backups |
| `removal` | `_remove_plans`: reading, staging, erasing |
| `sweep` | a row that the sweep or the watcher has selected, and what its thread saw |
| `scan` | the row of `library_adoption_scans` that has not ended, and its candidate |
| `recovering` | the groups that `recover_deletion_operations` has still to look at when the server starts; nothing else runs before |

None of these parts asks another for a lock: the removals lock their plans
against each other, the two reconciliation loops share one lock, and the rest
rely on transactions, on inodes looked at again, or on nothing.  What runs
without an `await` is one step; system calls of removals and of re-tagging run
in threads and are steps of their own.  `Refused` is the pair of triggers that
protects an adopted claim; an update it aborts undoes its whole transaction.

`PlanImport` deletes the plans of its track that are not imported, and the rows
of the journal that refer to them go with them (`ON DELETE CASCADE`).
`LoseAcknowledgement` is a commit that succeeds and reports an error, after
which `_operations_prepared` looks at the journal; `FailSync` a rename that
succeeds and a directory that cannot be synced.

Abstractions: one folder, whose tracks are rows of one catalogue track, so that
their files are duplicates of each other; one track per import and no two
imports of a track at once; the sweep takes one row and a scan one candidate at
a time, and any track may match; inodes are not reused while somebody recalls
one; two tracks never get one name (`LibraryAssumption`); `None` is neither a
claim nor a group (`NoneIsNoRow`).  Left out: temporary
files of copies, the summaries kept on releases and albums, previews, empty
folders, and cancellations of a removal other than as a crash or a failure.

## 4. Runs

| Run | Instance | Shows |
|---|---|---|
| `job_execution` | 1 job, 3 runs, 1 process, 1 request at a time, 2 crashes or shutdowns, all fenced operations | the table's properties and `ImplementsLifecycle` |
| `job_execution_liveness` | 1 job, 2 runs, 1 crash, with the unfenced writers | a displaced run changes its row by its closing import only, orphans are recovered, pending jobs served |
| `acquisition_permits` | 3 runs, limits 1 and 2, in-flight factor 2, one yield each | exact counters, no deadlock |
| `attempt_cleanup` | 1 attempt (staged or partial), 2 calls, 2 faults out of crash, cancellation, overrun lease and replaced file | claims are fenced, files erased in their turn, strangers survive, `ImplementsObligation`, and a plan is worked off |
| `discography_batch` | 2 batches that want the same album, with one track; 4 jobs, 2 events, from the beginning or from a batch that is paused or observes the other's job | the claims' and batches' properties, through every control and every other way of asking for the album; an open item of a batch that goes on closes |
| `review_decision` | 2 item keys, 1 scheduler, 2 names, 2 contents, 3 tokens, 2 attempts, 2 events | what is approved is what was judged, what is dispatched is what was approved, decisions stand, and every review comes to rest |
| `library_files` | 2 tracks, 3 plans, 3 names, 3 inodes, 1 removal, 1 user change, 1 crash; any two of the six parts, or duplicates and the sweep with a third | hidden files stay recorded, removals are carried through, files perish for a reason, an adopted file is claimed once |
| `fence_refuses_owner` | smallest | finding: the fence refuses the owner's own close |
| `closing_import_unfenced` | smallest | finding: the import of a run that lost its job commits a terminal status over a cancellation |
| `removal_races_retry` | 2 overlapping requests | finding: an active job can be hidden |
| `partial_claim_sticks` | 1 call, 1 crash | finding: a claimed partial file is never selected again |
| `duplicate_loses_last_copy` | as `library_files`, without changes by users and crashes | finding: a duplicate is deleted after the file it duplicates was removed |

Bounds.  In `attempt_cleanup` one attempt: attempts meet only in the sweep's
lock (the proofs cover any number).  Two calls are an owner and the one that
takes over or comes too early.  `MaxFaults` 2 lets a recovery itself be
interrupted, or a file be replaced under an overrun; everything that is not a
fault (failing requests and system calls, mismatches, takeovers of lapsed
claims, back-offs) is unbounded.  In the other runs, one job: rows of different jobs share nothing but a pass that reads
several (the proofs cover any number).  Three runs: an owner, a displaced one
and a successor; two suffice where another process or request takes part.  Two
stops let a recovery itself be interrupted.  `MaxStops`, `MaxYields`,
`MaxFaults`, `Limits` and those named next are the only bounds.

In `discography_batch` the album has one track: a root job and a track job
compete for it, and a track job's continuation for its parent's claim; two
batches are a creator and an observer of the same job.  `MaxEvents` counts what
users and the world do (requests, controls, cancellations, restarts, library
changes), `MaxJob` the jobs ever created, `MaxGeneration` the retries of an
item; what the runner and the jobs do by themselves is unbounded.  `MaxJob` is so large that no step is refused for want of an identifier, for
that would pass for a deadlock of the code's.  Two events reach a retry after a
failure or a cancellation of what another batch observes; `Paused` and
`Observed` (MCDiscographyBatch) begin where one or two events have led, so that
longer sequences are covered.

In `library_files` two tracks are a duplicate and its better, the third plan is
a new import or an adoption, the third name the one that re-tagging moves a
file to.  With all six parts at once the instance is out of TLC's reach; every
pair, and duplicates and sweep with imports, removals or scans, are checked
from every mix of old and swept rows.  One change by users and one crash, at any moment,
let a removal meet a vanished file and be recovered; an import after that is a
second use of the name.

In `review_decision` there is one scheduler, as `main.py` starts exactly one
(with one name for the staged file, the safety properties also hold with two;
the proofs cover any number).  Two item keys let a key be used again or a
second review follow the first; three tokens are a claim, its successor and one
that a row still remembers; two events are, say, a replaced file and its return
while it is judged.  `MaxAttempts` bounds the retries, as in the code.

Two overlapping requests break properties of JobExecution (the finding
`removal_races_retry`), so the passing runs have one at a time, and there a
request never finds its row gone (`RowGone`); that branch is covered by the
proofs and by the violating run.

The in-flight factor is 2 instead of 5 so that
three runs reach the in-flight limit.  `CHECK_DEADLOCK FALSE` everywhere: a
queue without jobs, a server stopped for good, or an attempt whose cleanup is
settled, really is at rest.

Fairness (`FairSpec`).  Weak fairness for what the event loop runs when ready
and for the passage of time; strong fairness for the claim and for the
watchdog's read and update, which a locked database or a concurrent change may
refuse now and then but which are tried again for ever; weak fairness for the
end of an execution, since every provider wait has a deadline, and for a
stopped server being started again (the container restarts it).  Users,
crashes, cancellations and errors get none.  In AttemptCleanup: weak fairness
for what a call does next, for the periodic tick that takes owed plans and open
transfers, and for leases and back-offs; strong fairness for the requests and
system calls that are repeated for ever succeeding at some time (an slskd that
never answers again, or a directory that is never writable again, clears
nothing).  In DiscographyBatch: weak fairness for the runner, which loops for
ever, for the recovery of expired item leases, for jobs (the watchdog
dispatches every pending one, a run ends in bounded time) and for a request
that has read.  In ReviewDecision: weak fairness for the scheduler, which runs its
cycle for ever, and for the end of a denial, which holds the writer only for
the length of its request.  In AttemptCleanup, overruns are among the faults: a call that
always overran its lease would be taken over for ever.

## 5. Proofs

`JobExecution_proofs`:

* `TypeCorrect` — the type invariant: the shapes of the variables (`Shapes`),
  a task's slot names a run that is not idle (`Placed`), and no run is in two
  slots (`Alone`).
* `DisplacedRunsWriteNothing` — a run that lost its row moves without changing
  it.  The one exception is named in the property: the closing import
  (`ClosingImport`), which commits the run's terminal status without the fence;
  `closing_import_unfenced` shows what it does.  Rests on `TypeOK`, with no
  assumption on operations, processes or requests.
* `ActiveJobsStayVisible`, `LiveLeasesAreKept`, `ClosedJobsStayClosed` and
  `QueueImplementsLifecycle` — under `Fenced` (the closing import and the
  artist monitor, which write without the token, stay out) and `OneRequest`
  (handlers do not overlap each other; they overlap all runs, passes, crashes
  and processes).  Both assumptions are needed: the hazards list how each of
  the excluded writers breaks them, and `removal_races_retry` shows it for
  overlapping requests.

The invariant behind the last four is `QueueInvariant`: the properties are not
inductive, because a handler writes what it decided on an earlier reading
(`LoadedRowsHold`: the reading still holds), a pass writes rows it read as
active (`PassesReadActiveRows`), and a run begins on its token alone
(`TokenMeansRunning`).  `RowStep` lists what one step may make of one row; each
action is shown to be on the list once, and the four theorems read off it.

`AcquisitionPermits_proofs`: `PermitTypeCorrect`, `CountersAreExact`,
`WorkersHoldPermits`, `PermitsImplementPool`, from `PermitInvariant` (what a
run holds is determined by its stage, and the counters count it); assumed is
only that the set of runs is finite and the limits are positive.

`AttemptCleanup_proofs`, for any attempts, any number of calls and faults, with
no assumption but that `None` is neither an attempt nor a call:
`CleanupTypeCorrect`, `FilesAreErasedInTurn`, `FileCallsAreInTurn`,
`SettledFilesStayGone`, `LostClaimsAreFenced`, `NoEntryIsRemoved` and
`CleanupImplementsObligation`.
None of these is inductive, because between its claim and its settlement a call
works on what it has seen, without the row.  The invariant `CleanupInv` is

* `RowInv` — the token, the lease and the state `claimed` are one claim, and
  the file's state moves only after the provider has settled;
* `DiskInv` — the artifact is one inode: truncated in its turn only, and gone
  from its name when it is in the quarantine or its obligation is settled;
* `CallInv` — what each phase of a call may count on although its claim may be
  lost: that the import is committed and the provider settled (neither is ever
  undone, `Lasts`), and what it has seen of the directory (which other calls
  can only change in one direction, `DiskStep`);
* `FlagInv` — which phases carry a read version or a detached thread.

`RowStep` lists what one step may make of a row; the refinement and the fencing
theorem read off it.  `NoEntryIsRemoved` counts the directory entries of a file
that lies in the artifact's place.  What is moved keeps its entry; what is
unlinked by its name does not, and `PartialInv` says whose that is: a partial
file belongs to a failed attempt, a failed attempt has no plan, and whoever
works on a partial file works on a failed attempt.

`DiscographyBatch_proofs`, for any catalogue, any number of batches, items and
jobs, every bound on events and any interleaving: `BatchTypeCorrect`,
`OneJobWorksOnATrack`, `AlbumsAreWorkedOnOnce`, `ChainsEnd`, `JobsAreOwnedOnce`
and `CancelledStayQuiet`.  The invariant is

* `Shape` — what relates rows, claims and links: a claim or a link names a job
  of its own album or track (`ClaimsFit`, `LinksFit`), what a run asks for is
  of its job (`AsksFit`), a parent exists (`ParentsExist`);
* `WorkersOwn` — a job that works on a track is the owner of its claim;
* `ActiveJobsOwn` and `RootsExclude` — away from `bypassed` albums every active
  job is the owner of its claim, and an active root excludes active owners of
  the album's tracks.

`AlbumWorkIsExclusive` is not inductive: a request looks at claims, not at
jobs, so that it needs the invariant that no active job is without one.
`OneBatchOwnsAJob` rests on new jobs having no links, and on a transfer that
takes the mark from the giver in the step that gives it.

`ReviewDecision_proofs`, for any number of items, schedulers, names and
contents: `ReviewTypeCorrect`, `ApprovalsAreJudged`, `DispatchesAreApproved`,
`AttemptsAreClosed`, `ReviewsAreSingle` and `LateStepsChangeNothing`.  The
invariant adds to the four properties three facts about those who hold
evidence: `WorkersKnow` (what a worker holds in each phase is what it judged,
or what its item's decision says, if the item is still claimed by it),
`DenialIsPending` (while a denial holds the writer its item stays pending) and
`PendingIsUndispatched` (only an approved item carries a dispatch).  The lemma
`RowsMove` lists what any step may do to rows; the theorems read off it.

`LibraryFiles_proofs`, for any tracks, plans, removals, names, files and ranks,
any number of changes by users and of crashes and any mix of parts, assuming
`LibraryAssumption` and `NoneIsNoRow`: `LibraryTypeCorrect`, `AdoptedOnce`,
`HiddenFilesRecorded`, `RemovalsCarriedThrough` and `FilesPerishRightly`.  None
of these is inductive alone.  `LibInv` is

* `EachInOnePlace` — a file lies under one name of the folder, or where one
  removal has hidden it, or in one backup: renames and links never meet a
  second copy, whatever runs in between;
* `RetagShape` — what a re-tagging has still to withdraw are files it has seen,
  so that what it puts into a backup is a file;
* `PlacedShape` — the plan of a file that is placed and not committed is still
  that of its track, neither imported nor removed;
* `RemovalShape` — how far a removal has come: nothing is journaled or hidden
  before it stages, while it stages every target it has done is hidden, after
  it has erased without a failure none is;
* `RecoveryShape` — start-up looks at groups that are there, while no removal
  is under way;
* `CondemnedAreGone` — a file of a group that has committed is nowhere but where
  that group has hidden it.

`RemovalShape` is what makes a commit condemn only hidden files, and a group end
only when nothing is hidden any more.  With `CondemnedAreGone`,
`RemovalsCarriedThrough` comes down to what a step may put into the folder: a
new file, one of the user's, or one that comes back from a backup or from a
group that has not committed.  `FilesPerishRightly` needs `OwnHidden` besides: a
removal has hidden files of its own only, so that an erasure destroys what was
decided, and a staging buries nothing that was hidden before.  A file that is
put back comes to a free name (`RestoredKeep`), and for each of the other steps
a lemma says what it can destroy.  `AdoptedOnce` needs types only: each writer
looks at the triggers (`Refused`) in the step that writes, and the
steps without that check activate no claim.

Only model-checked: liveness (`OrphansAreRecovered`, `PendingIsServed`,
`EveryRunEnds`, `ImportedFilesAreSettled`, `OpenItemsClose`, `ReviewsSettle`),
because fairness and `ENABLED` are beyond the prover.

## 6. Not modelled

See the components with status `not_modelled` in `PROJECT.json`.  Of the job
queue itself: the jobs that library adoption inserts already done and hidden,
and the direct (`db=`) mode of `run_job`, which tests use.  Of the cleanup:
the adoption of terminal intents, plans without an attempt (releases imported
before attempts were recorded), the sweep of empty directories, rows that an
older version left without an identity, and quarantine names that collide with
a file that is no claim of ours.

Known limits of the code that the models show but no property states, because
nothing in the repository promises otherwise or the outcome is a matter of
design:

* A dispatch reports success before its last commit
  (`review_automation.py:898`); if that commit fails, the item is marked
  completed though nothing was imported (`CommitImport`, second case).
* A crash between the two halves of a denial leaves the file under its hidden
  name and the item pending without a file; a denial that is rolled back puts
  its file over one that was placed there meanwhile.
* `OtherImport`, at start-up or after a job, imports whatever lies under the
  name of an approved track.
* A crash between the placing of a file in the library and the commit leaves
  a file without a row.
* The last copy of a song can be lost in two ways.  A decision about duplicates
  that spans the removal of the winner is the finding
  `duplicate_loses_last_copy`.  The other takes an import that places a file
  while the sweep has taken the renaming of a re-tagging for a loss: the
  re-tagging then fails and puts its backup over it, and the import is taken
  back by name.  `FilesPerishForAReason` allows both, as steps that go by names.
* An orderly shutdown cancels the live tasks, and `run_job` closes their rows as
  cancelled (`runner.py:959`), which no recovery reads; `src/README.md:104` and
  `docs/plans/2026-07-22-audit-bug-remediation.md:14` speak of jobs that are
  recovered after a restart.  After a crash they are (`OrphansAreRecovered`).
* A retry of an item raises its generation and keeps the link of the job it
  created, which `_batch_job_link_shape_valid` then rejects, so that the batch
  can never be cancelled (`CancelRefused`).  The test
  `test_cancel_fails_closed_on_malformed_created_ownership` asserts the refusal
  for a stale generation, though it takes such a link for malformed, not for the
  history that the plan of 2026-08-26 wants kept.
* The deletion of a loser, and the rollback of a re-tagging, address their file
  by name: a file that a scan has adopted meanwhile goes with it.
* A track that is planned again while its removal is not finalized takes the
  journal's row with it (`PlanImport`); the file stays under its hidden name.
* A staging that fails leaves its journal prepared, so that the sweep passes
  the plans over until the next start, which looks at them again.  If a
  re-tagging has changed the inode in between, the group stays for ever.
* A file whose directory could not be synced is moved and not counted as staged
  (`FailSync`); if its plan is removed again, the next start puts the file back.
* A file that was deleted outside, imported anew and found again by the sweep
  has two present claims; the removal of its album then refuses it as ambiguous.
* The trigger aborts the sweep's batch when a row outside the present claims
  comes to be present under the name of an adopted file.  The cursor is rolled
  back with it, and every later sweep stops there.
* An approval names its item by key; a key that was used again in between gets
  the approval if the path is the same.
