---------------------------- MODULE JobLifecycle ----------------------------
(***************************************************************************)
(* What the job queue promises for one row, whatever the tasks, passes,    *)
(* processes and crashes behind it: a job has at most one owner, the owner *)
(* alone finishes it, others take it only after its lease has lapsed, and  *)
(* a closed job is reopened by a retry and deleted by the pruning alone.   *)
(***************************************************************************)
CONSTANTS Job, Run, None

VARIABLES
    status,  \* the job's JobStatus, "absent" unless it is in the table
    owner,   \* the run whose token the row carries
    fresh    \* whether the owner's lease is in the future

vars == <<status, owner, fresh>>

Init ==
    /\ status \in [Job -> {"absent", "running"}]
    /\ owner = [j \in Job |-> None]
    /\ fresh = [j \in Job |-> FALSE]

Set(j, s, o, f) ==
    /\ status' = [status EXCEPT ![j] = s]
    /\ owner' = [owner EXCEPT ![j] = o]
    /\ fresh' = [fresh EXCEPT ![j] = f]

Submit(j) == status[j] = "absent" /\ Set(j, "pending", None, FALSE)

Claim(j) ==
    /\ status[j] = "pending" /\ owner[j] = None
    /\ \E r \in Run : Set(j, "running", r, TRUE)

Renew(j) == status[j] = "running" /\ owner[j] # None /\ Set(j, "running", owner[j], TRUE)

Lapse(j) == status[j] = "running" /\ owner[j] # None /\ Set(j, "running", owner[j], FALSE)

(* The owner closes its job; its lease may have lapsed in the meantime.    *)
Finish(j) ==
    /\ status[j] = "running" /\ owner[j] # None
    /\ \E s \in {"done", "failed", "cancelled"} : Set(j, s, None, FALSE)

(* The user's cancel, of a pending job or over the owner's head.           *)
Cancel(j) == status[j] \in {"pending", "running"} /\ Set(j, "cancelled", None, FALSE)

(* A job that cannot be started, or was lost once too often.               *)
GiveUp(j) == status[j] = "pending" /\ Set(j, "failed", None, FALSE)

Retry(j) ==
    /\ status[j] \in {"failed", "partial", "cancelled"}
    /\ Set(j, "pending", None, FALSE)

(* Closed jobs that nothing refers to any more are deleted.                *)
Prune(j) ==
    /\ status[j] \in {"done", "failed", "partial", "cancelled"}
    /\ Set(j, "absent", None, FALSE)

(* A pass requeues the jobs nobody holds, or gives up those without an     *)
(* owner; it may take several in one transaction.                          *)
Sweeps(J, t) ==
    /\ \A j \in J :
          /\ \/ status[j] = "running" /\ (owner[j] = None \/ ~fresh[j])
             \/ status[j] = "pending"
          /\ t[j] = "failed" => owner[j] = None
    /\ status' = [j \in Job |-> IF j \in J THEN t[j] ELSE status[j]]
    /\ owner' = [j \in Job |-> IF j \in J THEN None ELSE owner[j]]
    /\ fresh' = [j \in Job |-> IF j \in J THEN FALSE ELSE fresh[j]]

Sweep == \E J \in SUBSET Job : \E t \in [J -> {"pending", "failed"}] : Sweeps(J, t)

Next ==
    \/ \E j \in Job : \/ Submit(j) \/ Claim(j) \/ Renew(j) \/ Lapse(j) \/ Finish(j)
                      \/ Cancel(j) \/ GiveUp(j) \/ Retry(j)
                      \/ Prune(j)
    \/ Sweep

Spec == Init /\ [][Next]_vars
=============================================================================
