---------------------------- MODULE ReviewDecision ----------------------------
(***************************************************************************)
(* The review of one downloaded track whose identity is in doubt           *)
(* (staging_review_items), and the import that an approval releases.       *)
(*                                                                         *)
(* Automation (app/services/review_automation.py) claims a pending item,   *)
(* judges a private copy of the file and applies its verdict; later it     *)
(* dispatches the imports of the approved items.  The operator approves or *)
(* denies (app/routers/staging.py).  Jobs download and verify the track    *)
(* anew (acoustid_verification.py), and other passes import it             *)
(* (auto_import.py).  Files change by name under all of them.              *)
(*                                                                         *)
(* A transaction that begins with BEGIN IMMEDIATE is one step; so is one   *)
(* that writes first.  The hashing of a file and a provider's judgement    *)
(* are outside of any, hence steps of their own.                           *)
(*                                                                         *)
(* Items with a reason that automation does not judge, and the jobs that   *)
(* a denial submits, are left out.                                         *)
(***************************************************************************)
EXTENDS Naturals, FiniteSets

CONSTANTS
    Item,          \* primary keys
    Worker,        \* schedulers of the automation, of one process or of two
    Token,         \* claim tokens, numbered; they are compared for equality only
    Path,          \* names of staged files
    Version,       \* contents of files
    Good,          \* those that sound like the reference
    None,
    MaxAttempts,   \* max_attempts
    MaxEvents      \* what users, jobs and the world do

ASSUME ReviewAssumption ==
    /\ Item \subseteq Nat \ {0} /\ Token \subseteq Nat
    /\ Good \subseteq Version
    /\ None \notin Item \cup Token \cup Path \cup Version \cup Worker
    /\ MaxAttempts \in Nat \ {0} /\ MaxEvents \in Nat

VARIABLES
    item,      \* the rows of staging_review_items
    open,      \* the attempts of the audit log in state "claimed": whose they are
    track,     \* the columns of the track that count here
    plan,      \* the dispatch whose import plan is ready
    disk,      \* what lies under the staged names
    library,   \* what lies under the track's name in the library, and who put it there
    worker,    \* what the schedulers are doing
    approval,  \* a request to approve that has hashed the file
    denial,    \* a denial that holds the writer's lock, or has still to erase
    job,       \* whether a job has downloaded and not yet verified
    events     \* how many

rows == <<item, open, track, plan>>
vars == <<rows, disk, library, worker, approval, denial, job, events>>

-----------------------------------------------------------------------------
(* State.                                                                  *)

Undecided == {"pending", "claimed", "retry"}
Undispatched == {"pending", "dispatching", "retry"}
Bytes == Version \cup {None}

(* The decision's source_path and source_sha256.                           *)
Source == [path : Path, bytes : Version]

Row == [review : {"pending", "approved"},
        auto : Undecided \cup {"rejected", "failed", "approved", "manual_approved"},
        tries : Nat, token : Token \cup {None}, revision : Nat,
        decision : Source \cup {None},
        dispatch : Undispatched \cup {"none", "completed", "failed"},
        dispatchToken : Token \cup {None}, dispatchTries : Nat]

ASSUME NoneIsNoRow == None \notin Row \cup Source

(* _create_review_item: the defaults of a new row.                         *)
NewRow == [review |-> "pending", auto |-> "pending", tries |-> 0, token |-> None,
           revision |-> 1, decision |-> None, dispatch |-> "none",
           dispatchToken |-> None, dispatchTries |-> 0]

Track == [verdict : {"pending", "flagged", "verified", "approved", "denied"},
          downloaded : BOOLEAN, imported : BOOLEAN, path : Path \cup {None}]

Judging == {"pin", "evaluate", "recheck", "apply"}
Dispatching == {"check", "plan", "place", "commit", "settle"}
Phase == {"idle"} \cup Judging \cup Dispatching

(* The snapshot of a claim, the bytes judged or to be imported, and the    *)
(* verdict or the outcome.                                                 *)
WorkerState == [phase : Phase, item : Item \cup {None}, token : Token \cup {None},
                revision : Nat, path : Path \cup {None}, bytes : Bytes,
                verdict : {"none", "approved", "retry", "rejected", "failed", "succeeded"}]

Idle == [phase |-> "idle", item |-> None, token |-> None, revision |-> 0, path |-> None,
         bytes |-> None, verdict |-> "none"]

TypeOK ==
    /\ item \in [Item -> Row \cup {None}]
    /\ open \in [Token -> Item \cup {None}]
    /\ track \in Track
    /\ plan \in Worker \cup {None}
    /\ disk \in [Path -> Bytes]
    /\ library \in [bytes : Bytes, by : Item \cup {None}]
    /\ worker \in [Worker -> WorkerState]
    /\ \A w \in Worker : worker[w].phase # "idle" => worker[w].item \in Item /\ worker[w].token \in Token
    /\ approval \in [item : Item, path : Path, bytes : Version] \cup {None}
    /\ denial \in [item : Item, path : Path \cup {None}, bytes : Bytes, committed : BOOLEAN] \cup {None}
    /\ job \in BOOLEAN
    /\ events \in Nat

(* A track in the queue: downloaded, flagged, one item.                    *)
Init ==
    \E i \in Item, p \in Path :
        /\ \A k \in Item : i <= k
        /\ item = [k \in Item |-> IF k = i THEN NewRow ELSE None]
        /\ open = [t \in Token |-> None]
        /\ track = [verdict |-> "flagged", downloaded |-> TRUE, imported |-> FALSE, path |-> p]
        /\ plan = None
        /\ disk \in [Path -> Bytes] /\ disk[p] # None
        /\ \A q \in Path : q # p => disk[q] = None
        /\ library = [bytes |-> None, by |-> None]
        /\ worker = [w \in Worker |-> Idle]
        /\ approval = None /\ denial = None
        /\ job = FALSE
        /\ events = 0

Exists(i) == item[i] # None
IsPending(i) == Exists(i) /\ item[i].review = "pending"
IsApproved(i) == Exists(i) /\ item[i].review = "approved"

Event == events < MaxEvents /\ events' = events + 1

(* A denial holds the writer from its first statement to its commit.       *)
WriterFree == denial # None => denial.committed

(* uuid4: a token that nobody uses.                                        *)
InUse == {worker[w].token : w \in Worker}
         \cup {item[i].token : i \in {k \in Item : Exists(k)}}
         \cup {item[i].dispatchToken : i \in {k \in Item : Exists(k)}}
         \cup {t \in Token : open[t] # None}

IsFresh(t) == t \notin InUse /\ \A u \in Token \ InUse : t <= u

Held(t) == \E w \in Worker : worker[w].token = t

(* The open attempts after one was closed, or left by an item's deletion.  *)
ClosedAttempt(t) == [u \in Token |-> IF u = t THEN None ELSE open[u]]
Orphaned(S) == [u \in Token |-> IF open[u] \in S THEN None ELSE open[u]]

-----------------------------------------------------------------------------
(* Automation: judging.                                                    *)

(* claim_next.  Of a claim that is five minutes old nobody knows whether   *)
(* its worker is gone; if it is not, that counts as an event.              *)
Claim(w, i) ==
    /\ worker[w].phase = "idle" /\ WriterFree
    /\ IsPending(i) /\ item[i].auto \in Undecided /\ track.path # None
    /\ IF item[i].auto = "claimed" /\ Held(item[i].token) THEN Event ELSE UNCHANGED events
    /\ \E t \in Token :
           /\ IsFresh(t)
           /\ item' = [item EXCEPT ![i].auto = "claimed", ![i].token = t, ![i].tries = @ + 1]
           /\ open' = [ClosedAttempt(item[i].token) EXCEPT ![t] = i]
           /\ worker' = [worker EXCEPT ![w] =
                  [Idle EXCEPT !.phase = "pin", !.item = i, !.token = t,
                               !.revision = item[i].revision, !.path = track.path]]
    /\ UNCHANGED <<track, plan, disk, library, approval, denial, job>>

WorkerOnly(w, state) ==
    /\ worker' = [worker EXCEPT ![w] = state]
    /\ UNCHANGED <<rows, disk, library, approval, denial, job, events>>

(* _open_pinned_source: a sealed copy of the file.                         *)
Pin(w) ==
    /\ worker[w].phase = "pin"
    /\ LET bytes == disk[worker[w].path]
       IN  WorkerOnly(w, IF bytes = None
                         THEN [worker[w] EXCEPT !.phase = "apply", !.verdict = "rejected"]
                         ELSE [worker[w] EXCEPT !.phase = "evaluate", !.bytes = bytes])

HoldsClaim(w) ==
    LET i == worker[w].item
    IN  /\ Exists(i)
        /\ item[i].auto = "claimed" /\ item[i].token = worker[w].token
        /\ item[i].revision = worker[w].revision

(* What the reference and the alignment may say of these bytes.            *)
Verdicts(bytes) == {"retry", "rejected"} \cup IF bytes \in Good THEN {"approved"} ELSE {}

\* Mutant: what lies under the name by then is judged.
EvaluateNamed(w) ==
    /\ worker[w].phase = "evaluate" /\ WriterFree
    /\ IF HoldsClaim(w)
       THEN \E verdict \in Verdicts(disk[worker[w].path]) :
                WorkerOnly(w, [worker[w] EXCEPT !.verdict = verdict,
                      !.phase = IF verdict = "approved" THEN "recheck" ELSE "apply"])
       ELSE WorkerOnly(w, Idle)

(* _record_claim_source_identity, and evaluate on the copy.                *)
Evaluate(w) ==
    /\ worker[w].phase = "evaluate" /\ WriterFree
    /\ IF HoldsClaim(w)
       THEN \E verdict \in Verdicts(worker[w].bytes) :
                WorkerOnly(w, [worker[w] EXCEPT !.verdict = verdict,
                      !.phase = IF verdict = "approved" THEN "recheck" ELSE "apply"])
       ELSE WorkerOnly(w, Idle)

(* An approval is given up if the file is not the one that was judged.     *)
Recheck(w) ==
    /\ worker[w].phase = "recheck"
    /\ WorkerOnly(w, [worker[w] EXCEPT !.phase = "apply",
             !.verdict = IF disk[worker[w].path] = worker[w].bytes THEN "approved" ELSE "rejected"])

Decided(row, w) ==
    LET verdict == worker[w].verdict
        judged == IF worker[w].bytes = None THEN None
                  ELSE [path |-> worker[w].path, bytes |-> worker[w].bytes]
    IN  [row EXCEPT !.token = None, !.decision = judged,
             !.review = IF verdict = "approved" THEN "approved" ELSE @,
             !.auto = IF verdict = "retry" /\ row.tries >= MaxAttempts THEN "failed" ELSE verdict,
             !.dispatch = IF verdict = "approved" THEN "pending" ELSE @]

\* Mutant: the verdict is applied to any row that has the claimed key.
MayApplyUnasked(w) == Exists(worker[w].item)

(* The fence of apply_result.                                              *)
MayApply(w) ==
    /\ HoldsClaim(w) /\ IsPending(worker[w].item)
    /\ track.path = worker[w].path

Apply(w) ==
    /\ worker[w].phase = "apply" /\ WriterFree
    /\ LET i == worker[w].item
       IN  IF MayApply(w)
           THEN /\ item' = [item EXCEPT ![i] = Decided(@, w)]
                /\ open' = ClosedAttempt(worker[w].token)
                /\ track' = IF worker[w].verdict = "approved"
                            THEN [track EXCEPT !.verdict = "approved"] ELSE track
           ELSE UNCHANGED <<item, open, track>>
    /\ worker' = [worker EXCEPT ![w] = Idle]
    /\ UNCHANGED <<plan, disk, library, approval, denial, job, events>>

-----------------------------------------------------------------------------
(* Automation: dispatching approved imports.                               *)

\* Mutant: the imports that broke off are left alone.
MayDispatchOnce(i) == IsApproved(i) /\ item[i].dispatch \in {"pending", "retry"}

(* A claim is taken over after six hours, when the ten imports of a cycle, *)
(* of half an hour at most, are over.                                      *)
MayDispatch(i) ==
    /\ IsApproved(i)
    /\ \/ item[i].dispatch \in {"pending", "retry"}
       \/ item[i].dispatch = "dispatching" /\ ~Held(item[i].dispatchToken)

ClaimImport(w, i) ==
    /\ worker[w].phase = "idle" /\ WriterFree
    /\ MayDispatch(i)
    /\ LET decision == item[i].decision
           sound == decision # None /\ decision.path = track.path
       IN  \E t \in Token :
           /\ IsFresh(t)
           /\ item' = [item EXCEPT ![i].dispatch = "dispatching", ![i].dispatchToken = t]
           /\ open' = [ClosedAttempt(item[i].dispatchToken) EXCEPT ![t] = i]
           /\ worker' = [worker EXCEPT ![w] =
                  [Idle EXCEPT !.phase = IF sound THEN "check" ELSE "settle",
                               !.item = i, !.token = t,
                               !.path = IF sound THEN decision.path ELSE None,
                               !.bytes = IF sound THEN decision.bytes ELSE None,
                               !.verdict = IF sound THEN "none" ELSE "failed"]]
    /\ UNCHANGED <<track, plan, disk, library, approval, denial, job, events>>

Settling(w, outcome) == [worker[w] EXCEPT !.phase = "settle", !.verdict = outcome]

CheckSource(w) ==
    /\ worker[w].phase = "check"
    /\ WorkerOnly(w, IF disk[worker[w].path] = worker[w].bytes
                     THEN [worker[w] EXCEPT !.phase = "plan"] ELSE Settling(w, "failed"))

(* try_auto_import_release: the tracks that may be imported.               *)
Importable ==
    /\ track.downloaded /\ ~track.imported
    /\ track.verdict \in {"verified", "approved"} /\ track.path # None

(* plan_release_import, given the approved path and hash.  It replaces any *)
(* plan there is, and is ready if the file is still the approved one and   *)
(* its place in the library is free.                                       *)
PlanImport(w) ==
    /\ worker[w].phase = "plan" /\ WriterFree
    /\ LET ready == disk[worker[w].path] = worker[w].bytes /\ library.bytes = None
       IN  /\ plan' = IF ~Importable THEN plan ELSE IF ready THEN w ELSE None
           /\ worker' = [worker EXCEPT ![w] = IF Importable /\ ready THEN [@ EXCEPT !.phase = "place"]
                                             ELSE Settling(w, "retry")]
    /\ UNCHANGED <<item, open, track, disk, library, approval, denial, job, events>>

\* Mutant: the copy is not compared with the hash that was approved.
CopiesAnything(w) == disk[worker[w].path] # None

(* _copy_to_temp compares the copy with the approved hash.                 *)
CopyIsSound(w) == disk[worker[w].path] = worker[w].bytes

(* execute_release_import up to the rename into the library.  Any ready    *)
(* plan will do: a plan that replaced this one may have got its key.       *)
PlaceFile(w) ==
    /\ worker[w].phase = "place"
    /\ \/ /\ plan # None /\ library.bytes = None /\ CopyIsSound(w)
          /\ library' = [bytes |-> disk[worker[w].path], by |-> worker[w].item]
          /\ worker' = [worker EXCEPT ![w].phase = "commit"]
          /\ UNCHANGED plan
       \/ /\ WriterFree
          /\ plan' \in {plan, None}
          /\ worker' = [worker EXCEPT ![w] = Settling(w, "retry")]
          /\ UNCHANGED library
    /\ UNCHANGED <<item, open, track, disk, approval, denial, job, events>>

TakenBack == library' = [bytes |-> None, by |-> None]

(* The rest of it, and the dispatcher's commit.  The importer has returned *)
(* TRUE when the commit fails and its file is taken back.                  *)
CommitImport(w) ==
    /\ worker[w].phase = "commit" /\ WriterFree
    /\ \/ /\ track' = [track EXCEPT !.imported = TRUE]
          /\ plan' = None
          /\ worker' = [worker EXCEPT ![w] = Settling(w, "succeeded")]
          /\ UNCHANGED library
       \/ /\ TakenBack
          /\ worker' = [worker EXCEPT ![w] = Settling(w, "succeeded")]
          /\ UNCHANGED <<track, plan>>
       \/ /\ TakenBack
          /\ plan' = None
          /\ worker' = [worker EXCEPT ![w] = Settling(w, "retry")]
          /\ UNCHANGED track
    /\ UNCHANGED <<item, open, disk, approval, denial, job, events>>

HoldsDispatch(w) ==
    LET i == worker[w].item
    IN  /\ IsApproved(i) /\ item[i].dispatch = "dispatching"
        /\ item[i].dispatchToken = worker[w].token

Dispatched(row, outcome) ==
    [row EXCEPT !.dispatchToken = None, !.dispatchTries = @ + 1,
        !.dispatch = CASE outcome = "succeeded" -> "completed"
                       [] outcome = "failed" \/ row.dispatchTries + 1 >= MaxAttempts -> "failed"
                       [] OTHER -> "retry"]

SettleImport(w) ==
    /\ worker[w].phase = "settle" /\ WriterFree
    /\ LET i == worker[w].item
       IN  IF HoldsDispatch(w)
           THEN /\ item' = [item EXCEPT ![i] = Dispatched(@, worker[w].verdict)]
                /\ open' = ClosedAttempt(worker[w].token)
           ELSE UNCHANGED <<item, open>>
    /\ worker' = [worker EXCEPT ![w] = Idle]
    /\ UNCHANGED <<track, plan, disk, library, approval, denial, job, events>>

(* A cancellation, or an error that ends the cycle: the claim stays.  What *)
(* was placed in the library is taken back.                                *)
BreakOff(w) ==
    /\ worker[w].phase # "idle"
    /\ Event
    /\ worker' = [worker EXCEPT ![w] = Idle]
    /\ IF worker[w].phase = "commit" THEN TakenBack ELSE UNCHANGED library
    /\ UNCHANGED <<rows, disk, approval, denial, job>>

-----------------------------------------------------------------------------
(* The operator.                                                           *)

\* Mutant: a name is taken for a file.
ReadApprovalUnasked(i) ==
    /\ approval = None
    /\ Exists(i) /\ track.path # None
    /\ Event
    /\ approval' = [item |-> i, path |-> track.path, bytes |-> disk[track.path]]
    /\ UNCHANGED <<rows, disk, library, worker, denial, job>>

(* approve_review_item hashes the file ...                                 *)
ReadApproval(i) ==
    /\ approval = None
    /\ Exists(i) /\ track.path # None /\ disk[track.path] # None
    /\ Event
    /\ approval' = [item |-> i, path |-> track.path, bytes |-> disk[track.path]]
    /\ UNCHANGED <<rows, disk, library, worker, denial, job>>

(* ... and persists the decision, if there is still one to be made.        *)
Approve ==
    /\ approval # None /\ WriterFree
    /\ LET i == approval.item
       IN  IF IsPending(i) /\ track.path = approval.path
           THEN /\ item' = [item EXCEPT ![i] = [@ EXCEPT
                       !.review = "approved", !.auto = "manual_approved", !.token = None,
                       !.decision = [path |-> approval.path, bytes |-> approval.bytes],
                       !.dispatch = "pending", !.dispatchToken = None]]
                /\ open' = ClosedAttempt(item[i].token)
                /\ track' = [track EXCEPT !.verdict = "approved"]
           ELSE UNCHANGED <<item, open, track>>
    /\ approval' = None
    /\ UNCHANGED <<plan, disk, library, worker, denial, job, events>>

(* deny_review_item reserves the writer and moves the file aside ...       *)
MoveAside(i) ==
    /\ denial = None
    /\ IsPending(i)
    /\ Event
    /\ LET p == track.path
       IN  /\ denial' = [item |-> i, path |-> p, committed |-> FALSE,
                         bytes |-> IF p = None THEN None ELSE disk[p]]
           /\ disk' = [q \in Path |-> IF q = p THEN None ELSE disk[q]]
    /\ UNCHANGED <<rows, library, worker, approval, job>>

(* ... commits ...                                                         *)
Deny ==
    /\ denial # None /\ ~denial.committed
    /\ item' = [item EXCEPT ![denial.item] = None]
    /\ open' = Orphaned({denial.item})
    /\ track' = [track EXCEPT !.verdict = "denied", !.downloaded = FALSE, !.path = None]
    /\ denial' = [denial EXCEPT !.committed = TRUE]
    /\ UNCHANGED <<plan, disk, library, worker, approval, job, events>>

(* ... and erases it, or puts it back if the commit failed.                *)
FinishDenial ==
    /\ denial # None
    /\ \/ denial.committed /\ UNCHANGED disk
       \/ /\ ~denial.committed
          /\ disk' = [q \in Path |-> IF q = denial.path /\ denial.bytes # None THEN denial.bytes
                                     ELSE disk[q]]
    /\ denial' = None
    /\ UNCHANGED <<rows, library, worker, approval, job, events>>

-----------------------------------------------------------------------------
(* Jobs, other passes and the world.                                       *)

(* _prepare_acquisition: the track is downloaded (again).                  *)
Download(p, v) ==
    /\ ~job /\ WriterFree
    /\ Event
    /\ disk' = [disk EXCEPT ![p] = v]
    /\ track' = [track EXCEPT !.path = p, !.downloaded = TRUE]
    /\ job' = TRUE
    /\ UNCHANGED <<item, open, plan, library, worker, approval, denial>>

\* Mutant: evidence is replaced under the claim.
ReviewUnderClaim(i) ==
    /\ IF IsPending(i)
       THEN item' = [item EXCEPT ![i] = [NewRow EXCEPT !.revision = item[i].revision + 1]]
       ELSE item' = [item EXCEPT ![i] = NewRow]
    /\ UNCHANGED open

(* _create_review_item: the pending item is refreshed, or there is a new   *)
(* one.  Deleted keys are used again.                                      *)
Review(i) ==
    IF IsPending(i)
    THEN /\ item' = [item EXCEPT ![i] = [NewRow EXCEPT !.revision = item[i].revision + 1]]
         /\ open' = ClosedAttempt(item[i].token)
    ELSE /\ item' = [item EXCEPT ![i] = NewRow]
         /\ UNCHANGED open

\* Mutant: every verification that doubts the track makes an item.
ToReviewAnew(i) ==
    /\ \A k \in Item : Exists(k) => k < i
    /\ \A k \in Item : k < i => \E n \in Item : k <= n /\ Exists(n)

ToReview(i) ==
    IF \E k \in Item : IsPending(k) THEN IsPending(i)
    ELSE /\ \A k \in Item : Exists(k) => k < i
         /\ \A k \in Item : k < i => \E n \in Item : k <= n /\ Exists(n)

PendingItems == {i \in Item : IsPending(i)}

DeletePending ==
    /\ item' = [i \in Item |-> IF i \in PendingItems THEN None ELSE item[i]]
    /\ open' = Orphaned(PendingItems)

(* run_acoustid_verification.  A verified track has no review, unless it   *)
(* was verified by its title alone.                                        *)
Verify ==
    /\ job /\ WriterFree
    /\ \/ /\ track' = [track EXCEPT !.verdict = "verified"]
          /\ DeletePending \/ UNCHANGED <<item, open>>
       \/ /\ track' = [track EXCEPT !.verdict = "flagged"]
          /\ \E i \in Item : ToReview(i) /\ Review(i)
    /\ job' = FALSE
    /\ UNCHANGED <<plan, disk, library, worker, approval, denial, events>>

(* try_auto_import_release by a closing job or by the recovery at start-up:*)
(* whatever file is there.                                                 *)
OtherImport ==
    /\ WriterFree
    /\ Importable /\ disk[track.path] # None /\ library.bytes = None
    /\ library' = [bytes |-> disk[track.path], by |-> None]
    /\ track' = [track EXCEPT !.imported = TRUE]
    /\ plan' = None
    /\ UNCHANGED <<item, open, disk, worker, approval, denial, job, events>>

(* A file is replaced under its name, or goes.                             *)
Replace(p, bytes) ==
    /\ disk[p] # bytes
    /\ Event
    /\ disk' = [disk EXCEPT ![p] = bytes]
    /\ UNCHANGED <<rows, library, worker, approval, denial, job>>

(* The process stops, whatever it was doing; what it had moved stays.      *)
Crash ==
    /\ Event
    /\ worker' = [w \in Worker |-> Idle]
    /\ approval' = None /\ denial' = None
    /\ job' = FALSE
    /\ UNCHANGED <<rows, disk, library>>

-----------------------------------------------------------------------------
WorkerStep(w) ==
    \/ Pin(w) \/ Evaluate(w) \/ Recheck(w) \/ Apply(w)
    \/ CheckSource(w) \/ PlanImport(w) \/ PlaceFile(w) \/ CommitImport(w) \/ SettleImport(w)

Cycle(w) == WorkerStep(w) \/ \E i \in Item : Claim(w, i) \/ ClaimImport(w, i)

Operator ==
    \/ \E i \in Item : ReadApproval(i) \/ MoveAside(i)
    \/ Approve \/ Deny \/ FinishDenial

World ==
    \/ \E p \in Path : \E v \in Version : Download(p, v)
    \/ \E p \in Path : \E bytes \in Bytes : Replace(p, bytes)
    \/ Verify \/ OtherImport \/ Crash

Next ==
    \/ \E w \in Worker : Cycle(w) \/ BreakOff(w)
    \/ Operator
    \/ World

Spec == Init /\ [][Next]_vars

(* A scheduler runs its cycle for ever, and a request that holds the writer*)
(* is finished.                                                            *)
FairSpec ==
    /\ Spec
    /\ \A w \in Worker : WF_vars(Cycle(w))
    /\ WF_vars(Deny \/ FinishDenial)

-----------------------------------------------------------------------------
(* Properties.                                                             *)

(* Automation approves only bytes that sound like the reference, whatever  *)
(* happened to the file while it was judged ("fences both pathname         *)
(* replacement and same-inode overwrite/restore ABA races").               *)
ApprovedBytesAreGood ==
    \A i \in Item : Exists(i) /\ item[i].auto = "approved" =>
        item[i].decision # None /\ item[i].decision.bytes \in Good

(* A dispatch puts the bytes into the library that were approved with its  *)
(* item, never others that have taken their place                          *)
(* (review_automation.py, dispatch_pending_imports).                       *)
DispatchedBytesAreApproved ==
    library.by # None => /\ IsApproved(library.by)
                         /\ item[library.by].decision # None
                         /\ library.bytes = item[library.by].decision.bytes

(* An attempt that is open in the audit log belongs to the claim its item  *)
(* has now: every decision closes or abandons it ("stale claims are closed *)
(* as abandoned").                                                         *)
OpenAttemptsAreHeld ==
    \A t \in Token : open[t] # None =>
        Exists(open[t]) /\ t \in {item[open[t]].token, item[open[t]].dispatchToken}

(* There is one review of a track at a time, and none of a track that was  *)
(* denied: a late verdict cannot bring it back.                            *)
OneReviewAtATime ==
    /\ \A i, k \in PendingItems : i = k
    /\ track.verdict = "denied" => PendingItems = {}

(* A decision that was committed stays, be it the operator's or the        *)
(* automation's: what comes late changes neither an approved item nor a    *)
(* track that was denied, until it is verified anew ("a committed operator *)
(* decision cannot be overwritten by stale automation").                   *)
DecisionsStand ==
    [][/\ \A i \in Item : IsApproved(i) =>
             /\ item'[i] # None
             /\ \A f \in {"review", "auto", "decision"} : item'[i][f] = item[i][f]
       /\ track.verdict = "denied" /\ track'.verdict # "denied" => job]_vars

(* What automation owes: a verdict, if there is a file to judge, or the    *)
(* import of what was approved.                                            *)
Owed(i) ==
    \/ IsPending(i) /\ item[i].auto \in Undecided /\ track.path # None
    \/ IsApproved(i) /\ item[i].dispatch \in Undispatched

(* Every review comes to rest: decided, or left to the operator, and if    *)
(* approved its import completed or failed.  Again and again there is none *)
(* that automation still owes something; no claim stays behind.            *)
ReviewsSettle == []<>(\A i \in Item : ~Owed(i))
=============================================================================
