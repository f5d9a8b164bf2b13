------------------------- MODULE AcquisitionPermits -------------------------
(***************************************************************************)
(* The two counters a dispatched run passes (app/jobs/dispatcher.py):      *)
(* _inflight_jobs, which it holds from admission to the end of its task,   *)
(* and _active_jobs, which its AcquisitionPermit holds while it works      *)
(* locally and gives back while a transfer waits in the provider's queue   *)
(* (_poll_slskd_transfer).  A permit is released by a task of its own, so  *)
(* that no cancellation of the run, however often and whenever delivered,  *)
(* can stop a release half way or start it twice.                          *)
(*                                                                         *)
(* JobExecution!Admit is Join and the first Acquire of this module.        *)
(***************************************************************************)
EXTENDS Integers, FiniteSets

CONSTANTS
    Run,             \* dispatched runs
    Limits,          \* values the users give the local limit (1 to 16)
    InflightFactor,  \* derived in-flight limit per local one (5)
    FixedInflight,   \* the explicit in-flight limit, 0 for the derived one
    MaxYields        \* how often one run may find itself queued externally

ASSUME PermitsAssumption ==
    /\ IsFiniteSet(Run)
    /\ Limits \subseteq Nat \ {0} /\ Limits # {}
    /\ InflightFactor \in Nat \ {0} /\ FixedInflight \in Nat /\ MaxYields \in Nat

VARIABLES
    stage,     \* where each run is
    held,      \* its permit's _held
    giving,    \* the task that gives its slot back: none, started or done
    wish,      \* runs whose task.cancel() has not yet taken effect
    yields,    \* how often each run has yielded
    active,    \* _active_jobs
    inflight,  \* _inflight_jobs
    limit      \* _max_concurrent_jobs

vars == <<stage, held, giving, wish, yields, active, inflight, limit>>

Stage == {"idle", "queued", "waiting", "working", "yielding", "parked",
          "returning", "unwinding", "done"}

(* max(local_limit, local_limit * 5) unless a limit was given.             *)
InflightLimit ==
    IF FixedInflight # 0 THEN FixedInflight ELSE limit * InflightFactor

Init ==
    /\ stage = [r \in Run |-> "idle"]
    /\ held = [r \in Run |-> FALSE]
    /\ giving = [r \in Run |-> "none"]
    /\ wish = {}
    /\ yields = [r \in Run |-> 0]
    /\ active = 0 /\ inflight = 0
    /\ limit \in Limits

GoTo(r, s) == stage' = [stage EXCEPT ![r] = s]

Dispatch(r) ==
    /\ stage[r] = "idle"
    /\ GoTo(r, "queued")
    /\ UNCHANGED <<held, giving, wish, yields, active, inflight, limit>>

(* _acquire_inflight, the last step before the try block.                  *)
Join(r) ==
    /\ stage[r] = "queued" /\ inflight < InflightLimit
    /\ inflight' = inflight + 1
    /\ GoTo(r, "waiting")
    /\ UNCHANGED <<held, giving, wish, yields, active, limit>>

\* Mutant: a returning run takes its old slot back without asking.
AcquireReturning(r) ==
    /\ stage[r] = "returning" \/ (stage[r] = "waiting" /\ active < limit)
    /\ active' = active + 1
    /\ held' = [held EXCEPT ![r] = TRUE]
    /\ GoTo(r, "working")
    /\ UNCHANGED <<giving, wish, yields, inflight, limit>>

(* permit.acquire: before the runner starts, or after an external wait.    *)
Acquire(r) ==
    /\ stage[r] \in {"waiting", "returning"} /\ active < limit
    /\ active' = active + 1
    /\ held' = [held EXCEPT ![r] = TRUE]
    /\ GoTo(r, "working")
    /\ UNCHANGED <<giving, wish, yields, inflight, limit>>

(* The poll finds the transfer queued and yields: a release task starts.   *)
Yield(r) ==
    /\ stage[r] = "working" /\ yields[r] < MaxYields
    /\ giving' = [giving EXCEPT ![r] = "started"]
    /\ yields' = [yields EXCEPT ![r] = @ + 1]
    /\ GoTo(r, "yielding")
    /\ UNCHANGED <<held, wish, active, inflight, limit>>

(* _release_slot, in the release task.                                     *)
ReleaseSlot(r) ==
    /\ giving[r] = "started"
    /\ active' = active - 1
    /\ giving' = [giving EXCEPT ![r] = "done"]
    /\ UNCHANGED <<stage, held, wish, yields, inflight, limit>>

\* Mutant: a deferred cancellation skips the reset of _held.
YieldReturnsHeld(r) ==
    /\ stage[r] = "yielding" /\ giving[r] = "done"
    /\ giving' = [giving EXCEPT ![r] = "none"]
    /\ held' = [held EXCEPT ![r] = r \in wish]
    /\ wish' = wish \ {r}
    /\ GoTo(r, IF r \in wish THEN "unwinding" ELSE "parked")
    /\ UNCHANGED <<yields, active, inflight, limit>>

(* yield_permit resumes: _held is reset, a deferred cancellation raised.   *)
YieldReturns(r) ==
    /\ stage[r] = "yielding" /\ giving[r] = "done"
    /\ giving' = [giving EXCEPT ![r] = "none"]
    /\ held' = [held EXCEPT ![r] = FALSE]
    /\ wish' = wish \ {r}
    /\ GoTo(r, IF r \in wish THEN "unwinding" ELSE "parked")
    /\ UNCHANGED <<yields, active, inflight, limit>>

\* Mutant: a failing transfer goes on to its fallback without the permit.
ReturnUnpermitted(r) ==
    /\ stage[r] = "parked"
    /\ GoTo(r, "working")
    /\ UNCHANGED <<held, giving, wish, yields, active, inflight, limit>>

(* The transfer leaves the provider's queue, fails or times out: whatever  *)
(* comes next needs the permit again.                                      *)
Return(r) ==
    /\ stage[r] = "parked"
    /\ GoTo(r, "returning")
    /\ UNCHANGED <<held, giving, wish, yields, active, inflight, limit>>

(* The runner returns or raises.                                           *)
Finish(r) ==
    /\ stage[r] = "working"
    /\ GoTo(r, "unwinding")
    /\ UNCHANGED <<held, giving, wish, yields, active, inflight, limit>>

(* task.cancel(), of a user, a batch, or the shutdown.                     *)
Cancel(r) ==
    /\ stage[r] \notin {"idle", "done"} /\ r \notin wish
    /\ wish' = wish \cup {r}
    /\ UNCHANGED <<stage, held, giving, yields, active, inflight, limit>>

\* Mutant: the finalizer is reached only once the permit was acquired.
InterruptedOutside(r) ==
    /\ r \in wish
    /\ wish' = wish \ {r}
    /\ \/ stage[r] \in {"queued", "waiting"} /\ GoTo(r, "done")
       \/ stage[r] \in {"working", "parked", "returning"} /\ GoTo(r, "unwinding")
    /\ UNCHANGED <<held, giving, yields, active, inflight, limit>>

(* CancelledError out of an await: before the try block nothing is held,   *)
(* after it the finalizer runs.  A release in progress is not interrupted. *)
Interrupted(r) ==
    /\ r \in wish
    /\ wish' = wish \ {r}
    /\ \/ stage[r] = "queued" /\ GoTo(r, "done")
       \/ stage[r] \in {"waiting", "working", "parked", "returning"} /\ GoTo(r, "unwinding")
    /\ UNCHANGED <<held, giving, yields, active, inflight, limit>>

(* release_owned_resources: permit.release, if it is held ...              *)
GiveBack(r) ==
    /\ stage[r] = "unwinding" /\ held[r]
    /\ \/ /\ giving[r] = "none"
          /\ giving' = [giving EXCEPT ![r] = "started"]
          /\ UNCHANGED held
       \/ /\ giving[r] = "done"
          /\ giving' = [giving EXCEPT ![r] = "none"]
          /\ held' = [held EXCEPT ![r] = FALSE]
    /\ UNCHANGED <<stage, wish, yields, active, inflight, limit>>

(* ... then _release_inflight, and the task is done.                       *)
Leave(r) ==
    /\ stage[r] = "unwinding" /\ ~held[r]
    /\ inflight' = inflight - 1
    /\ GoTo(r, "done")
    /\ wish' = wish \ {r}
    /\ UNCHANGED <<held, giving, yields, active, limit>>

\* Mutant: the new limit is not checked against its range.
SetLimitUnchecked ==
    /\ limit' \in Limits \cup {0}
    /\ UNCHANGED <<stage, held, giving, wish, yields, active, inflight>>

(* set_max_concurrent_jobs, from the settings page or at startup.          *)
SetLimit ==
    /\ limit' \in Limits
    /\ UNCHANGED <<stage, held, giving, wish, yields, active, inflight>>

RunStep(r) ==
    \/ Dispatch(r) \/ Join(r) \/ Acquire(r) \/ Yield(r) \/ ReleaseSlot(r)
    \/ YieldReturns(r) \/ Return(r) \/ Finish(r) \/ Cancel(r) \/ Interrupted(r)
    \/ GiveBack(r) \/ Leave(r)

Next == SetLimit \/ \E r \in Run : RunStep(r)

Spec == Init /\ [][Next]_vars

(* The event loop runs what is ready; a transfer leaves the provider's     *)
(* queue or meets its deadline; the work of a runner ends.                 *)
FairSpec ==
    /\ Spec
    /\ \A r \in Run :
          /\ WF_vars(Join(r)) /\ WF_vars(Acquire(r)) /\ WF_vars(ReleaseSlot(r))
          /\ WF_vars(YieldReturns(r)) /\ WF_vars(Return(r)) /\ WF_vars(Finish(r))
          /\ WF_vars(Interrupted(r)) /\ WF_vars(GiveBack(r)) /\ WF_vars(Leave(r))

-----------------------------------------------------------------------------
(* Properties.                                                             *)

(* The shape of the variables. *)
TypeOK ==
    /\ stage \in [Run -> Stage]
    /\ held \in [Run -> BOOLEAN]
    /\ giving \in [Run -> {"none", "started", "done"}]
    /\ wish \subseteq Run
    /\ yields \in [Run -> 0..MaxYields]
    /\ active \in Int /\ inflight \in Int
    /\ limit \in Limits

Members == {r \in Run : stage[r] \notin {"idle", "queued", "done"}}
Holders == {r \in Run : held[r] /\ giving[r] # "done"}

(* The counters are exact, through every yield and every cancellation that *)
(* lands in an acquisition, a release or the finalizer: capacity is        *)
(* neither leaked nor given back twice (test_job_dispatcher.py,            *)
(* "cannot_leak_capacity").                                                *)
CountsAreExact == active = Cardinality(Holders) /\ inflight = Cardinality(Members)

(* A run works locally (search, fallback, import) only while its slot is   *)
(* counted, also after an external wait that failed.                       *)
WorkIsUnderPermit == \A r \in Run : stage[r] = "working" => r \in Holders

(* The counters behave as the sets they count.                             *)
Pool == INSTANCE PermitPool WITH
    members <- Members, holders <- Holders, limit <- limit, room <- InflightLimit

ImplementsPool == Pool!Spec

(* No run waits for ever: neither the runs parked in a provider's queue    *)
(* nor lowered limits nor cancelled neighbours keep one out.               *)
EveryRunEnds == \A r \in Run : stage[r] # "idle" ~> stage[r] = "done"
=============================================================================
