--------------------------- MODULE AttemptCleanup ---------------------------
(***************************************************************************)
(* The cleanup of slskd attempts (app/services/acquisition_cleanup.py).    *)
(* An attempt leaves two obligations: the transfer's record in slskd is    *)
(* removed, and then its file, the staged one once its import is committed *)
(* or the partial one of a failed transfer, goes.  The terminal sweep      *)
(* (serialized in the process) and the tasks that clean up after an import *)
(* (any number of them) work them off.  A call claims the attempt's row by *)
(* compare-and-set, under a token and a lease that both obligations share, *)
(* acts outside of any transaction, in a thread for the file, and settles  *)
(* the row only if it still carries the call's token.                      *)
(*                                                                         *)
(* A transaction, a request to slskd and a system call are one step each.  *)
(***************************************************************************)
EXTENDS Naturals, FiniteSets

CONSTANTS
    Attempt,  \* acquisition attempts
    Cleaner,  \* cleanup calls; a call's identity is also its claim token
    None,     \* "no token" and "no attempt"
    Faults,   \* what may go wrong, of AllFaults
    MaxFaults \* how often

AllFaults == {"crash", "cancel", "overrun", "replace"}

ASSUME CleanupAssumption ==
    /\ None \notin Attempt \cup Cleaner
    /\ Faults \subseteq AllFaults
    /\ MaxFaults \in Nat

VARIABLES
    row,    \* the acquisition_attempts table
    plan,   \* whether the import plan still records a staging path to clean
    cl,     \* the calls
    slskd,  \* attempts whose transfer slskd still lists
    disk,   \* the directory entries of each attempt's file
    faults  \* crashes, cancellations, overruns and replacements so far

vars == <<row, plan, cl, slskd, disk, faults>>

-----------------------------------------------------------------------------
(* State.                                                                  *)

Obligation == {"provider", "file"}

(* An attempt in state not_required has nothing to clean and is not one of *)
(* the attempts here.                                                      *)
CleanupState == {"pending", "claimed", "completed", "blocked", "failed"}

(* state:    provider_cleanup_state and file_cleanup_state.                *)
(* live:     cleanup_lease_expires_at is in the future.                    *)
(* later:    which of the two retry_at are in the future.                  *)
(* eligible: file_cleanup_eligible, with a cleanup_eligible disposition.   *)
Row == [state : [Obligation -> CleanupState], token : Cleaner \cup {None},
        live : BOOLEAN, later : SUBSET Obligation, eligible : BOOLEAN,
        outcome : {"downloaded", "failed", "imported"},
        artifact : {"staged", "partial", "imported", "missing"}]

Result == {"none", "removed", "quarantined", "already_absent", "blocked",
           "retryable_failure", "claimed_elsewhere", "not_eligible"}

Gone == {"removed", "quarantined", "already_absent"}

(* Of a file call these run in a thread, which a cancellation cannot stop. *)
ThreadPhases == {"f_look", "f_source", "f_move", "f_validate", "f_restore",
                 "f_open", "f_erase", "f_confirm", "q_stat", "q_unlink"}

(* What a call does between its claim and the end of it.                   *)
ActingPhases == ThreadPhases \cup
    {"p_snapshot", "p_remove", "p_verify", "p_finish", "f_finish", "q_snapshot", "q_finish"}

Phase == ActingPhases \cup
    {"idle", "prepare", "p_call", "p_claim", "f_call", "f_claim", "q_call", "q_claim", "mark"}

(* fresh:    the row's cleanup_claim_version is the one the call read.     *)
(* detached: the call was cancelled while its thread was at work.          *)
Call == [phase : Phase, on : Attempt \cup {None}, lane : {"sweep", "imported"},
         result : Result, fresh : BOOLEAN, detached : BOOLEAN]

IdleCall == [phase |-> "idle", on |-> None, lane |-> "sweep", result |-> "none",
             fresh |-> FALSE, detached |-> FALSE]

(* "artifact" is the inode whose identity the attempt recorded; "other" is *)
(* any other file.  erased: the artifact has been truncated.               *)
Entry == {"none", "artifact", "other"}
Files == [source : Entry, quarantine : Entry, erased : BOOLEAN]

(* Terminal attempts: a transfer that completed, with its file staged, or  *)
(* one that failed and left a partial file.                                *)
NewRow(kind) ==
    [state |-> [w \in Obligation |-> "pending"], token |-> None, live |-> FALSE,
     later |-> {}, eligible |-> kind = "partial",
     outcome |-> IF kind = "partial" THEN "failed" ELSE "downloaded", artifact |-> kind]

Init ==
    /\ row \in [Attempt -> {NewRow("staged"), NewRow("partial")}]
    /\ plan = [a \in Attempt |-> "none"]
    /\ cl = [c \in Cleaner |-> IdleCall]
    /\ slskd \in SUBSET Attempt
    /\ disk = [a \in Attempt |-> [source |-> "artifact", quarantine |-> "none",
                                  erased |-> FALSE]]
    /\ faults = 0

At(c, a, phase) == cl[c].phase = phase /\ cl[c].on = a

(* The artifact as it was recorded lies at this entry.                     *)
Intact(a, entry) == disk[a][entry] = "artifact" /\ ~disk[a].erased

Go(c, phase, result) ==
    cl' = [cl EXCEPT ![c].phase = phase, ![c].result = result]

(* The call is over; all that is left of its result is whether it settled. *)
Close(c, result) == Go(c, "mark", IF result \in Gone THEN "removed" ELSE "none")

End(c) == cl' = [cl EXCEPT ![c] = IdleCall]

-----------------------------------------------------------------------------
(* Claims.                                                                 *)

\* Mutant: a claim whose lease has run out is not taken over.
ClaimableOnce(r, what) == r.state[what] \in {"pending", "failed", "blocked"}

(* The WHERE clause of a claim, apart from the version.                    *)
Claimable(r, what) ==
    \/ r.state[what] \in {"pending", "failed", "blocked"}
    \/ r.state[what] = "claimed" /\ r.token # None /\ ~r.live

(* The early returns of a claim that follow the eligibility.               *)
Deferred(r, what) == what \in r.later
HeldElsewhere(r, what) == r.state[what] = "claimed" /\ r.live

(* The row of an obligation that is claimed.                               *)
Claimed(r, c, what) ==
    [r EXCEPT !.state[what] = "claimed", !.token = c, !.live = TRUE, !.later = @ \ {what}]

ClaimRow(a, c, what) == row' = [row EXCEPT ![a] = Claimed(@, c, what)]

(* A claim goes on from the version the call has read.                     *)
ReadVersion(c, phase) == cl' = [cl EXCEPT ![c].phase = phase, ![c].fresh = TRUE]

(* A claim that was won; whoever has read the old version has lost.        *)
Won(c, a, phase) ==
    cl' = [d \in Cleaner |->
              IF d = c THEN [cl[c] EXCEPT !.phase = phase, !.fresh = FALSE]
              ELSE IF cl[d].on = a THEN [cl[d] EXCEPT !.fresh = FALSE] ELSE cl[d]]

\* Mutant: the result is stored as it is.
SettledVerbatim(result) == IF result \in Gone THEN "completed" ELSE result

SettledState(result) ==
    CASE result \in Gone -> "completed"
      [] result = "blocked" -> "blocked"
      [] result = "not_eligible" -> "pending"
      [] OTHER -> "failed"

\* Mutant: the claim is left on the row.
SettledKeepsClaim(r, what, result) ==
    [r EXCEPT !.state[what] = SettledState(result),
              !.later = IF SettledState(result) = "failed" THEN @ \cup {what} ELSE @]

\* Mutant: a failure opens both obligations again.
SettledReopens(r, what, result) ==
    LET s == SettledState(result) IN
    [r EXCEPT !.state = IF s = "completed" THEN [@ EXCEPT ![what] = s]
                        ELSE [w \in Obligation |-> s],
              !.token = None, !.live = FALSE]

(* The row of an obligation that is settled or given back.                 *)
Settled(r, what, result) ==
    LET s == SettledState(result) IN
    [r EXCEPT !.state[what] = s, !.token = None, !.live = FALSE,
              !.later = IF s = "failed" THEN @ \cup {what}
                        ELSE IF s = "completed" THEN @ \ {what} ELSE @,
              !.artifact = IF what = "file" /\ s = "completed" THEN "missing" ELSE @,
              !.eligible = IF what = "file" /\ s = "completed" THEN FALSE ELSE @]

Holds(c, a, what) == row[a].state[what] = "claimed" /\ row[a].token = c

\* Mutant: the token is not part of the condition.
FinishUnfenced(c, a, what, result) ==
    row' = IF row[a].state[what] = "claimed"
              THEN [row EXCEPT ![a] = Settled(@, what, result)] ELSE row

(* The fenced update that ends a claim.                                    *)
Finish(c, a, what, result) ==
    row' = IF Holds(c, a, what) THEN [row EXCEPT ![a] = Settled(@, what, result)] ELSE row

-----------------------------------------------------------------------------
(* Where calls come from.                                                  *)

(* _TERMINAL_CLEANUP_LOCK: one sweep at a time in the process.             *)
SweepFree == \A d \in Cleaner : cl[d].phase = "idle" \/ cl[d].lane = "imported" \/ cl[d].detached

Start(c, a, lane, phase) ==
    /\ cl[c].phase = "idle"
    /\ cl' = [cl EXCEPT ![c] = [IdleCall EXCEPT !.phase = phase, !.on = a, !.lane = lane]]
    /\ UNCHANGED <<row, plan, slskd, disk, faults>>

(* _provider_cleanup_eligible of a terminal attempt.                       *)
ProviderEligible(r) == r.outcome = "failed" \/ r.artifact \in {"staged", "imported"}

(* cleanup_durable_slskd_transfers: the attempts whose transfer is still   *)
(* to be removed, and the partial files that wait for their turn.  (Staged *)
(* files become eligible with their import, which makes them "imported".)  *)
SweepProvider(c, a) ==
    /\ SweepFree
    /\ ProviderEligible(row[a]) /\ row[a].state["provider"] # "completed"
    /\ Start(c, a, "sweep", "p_call")

SweepPartial(c, a) ==
    /\ SweepFree
    /\ row[a].state["provider"] = "completed" /\ row[a].state["file"] \in {"pending", "failed"}
    /\ row[a].eligible /\ row[a].artifact = "partial"
    /\ Start(c, a, "sweep", "q_call")

(* cleanup_imported_sources takes a plan: right after the import, or from  *)
(* the periodic tick, which lists the plans with a staging path.           *)
TakeImported(c, a) ==
    /\ plan[a] = "owed"
    /\ Start(c, a, "imported", "prepare")

(* _prepare_attempt_cleanup_for_imported_item.                             *)
Prepare(c, a) ==
    /\ At(c, a, "prepare")
    /\ row' = [row EXCEPT ![a].outcome = "imported", ![a].artifact = "imported",
                          ![a].eligible = TRUE]
    /\ Go(c, "p_call", "none")
    /\ UNCHANGED <<plan, slskd, disk, faults>>

(* _mark_attempt_cleanup_scheduling: the plan forgets a path that is gone. *)
Mark(c, a) ==
    /\ At(c, a, "mark")
    /\ plan' = IF cl[c].result \in Gone THEN [plan EXCEPT ![a] = "done"] ELSE plan
    /\ End(c)
    /\ UNCHANGED <<row, slskd, disk, faults>>

-----------------------------------------------------------------------------
(* cleanup_attempt_provider.                                               *)

\* Mutant: the file follows whether or not the transfer is gone.
AfterProviderAnyway(c, result) ==
    IF cl[c].lane = "sweep" THEN End(c) ELSE Go(c, "f_call", "none")

(* A sweep has done with the attempt; after an import the file follows, if *)
(* the transfer is gone.                                                   *)
AfterProvider(c, result) ==
    CASE cl[c].lane = "sweep" -> End(c)
      [] cl[c].lane = "imported" /\ result \in Gone -> Go(c, "f_call", "none")
      [] OTHER -> Close(c, result)

(* _claim_provider_cleanup reads the row, and either returns at once ...   *)
ProviderRead(c, a) ==
    LET r == row[a] IN
    /\ At(c, a, "p_call")
    /\ \/ /\ r.state["provider"] = "completed"
          /\ AfterProvider(c, "already_absent")
       \/ /\ r.state["provider"] # "completed"
          /\ ~ProviderEligible(r) \/ Deferred(r, "provider") \/ HeldElsewhere(r, "provider")
          /\ AfterProvider(c, "not_eligible")
       \/ /\ r.state["provider"] # "completed"
          /\ ProviderEligible(r) /\ ~Deferred(r, "provider") /\ ~HeldElsewhere(r, "provider")
          /\ ReadVersion(c, "p_claim")
    /\ UNCHANGED <<row, plan, slskd, disk, faults>>

(* ... or claims it by compare-and-set.                                    *)
ProviderClaim(c, a) ==
    /\ At(c, a, "p_claim")
    /\ IF cl[c].fresh /\ Claimable(row[a], "provider")
          THEN ClaimRow(a, c, "provider") /\ Won(c, a, "p_snapshot")
          ELSE row' = row /\ AfterProvider(c, "claimed_elsewhere")
    /\ UNCHANGED <<plan, slskd, disk, faults>>

(* A fresh list of transfers: nothing under the uuid, the very transfer,   *)
(* or one under the same uuid for another peer or file.                    *)
ProviderSnapshot(c, a) ==
    /\ At(c, a, "p_snapshot")
    /\ \/ a \notin slskd /\ Go(c, "p_finish", "already_absent")
       \/ a \in slskd /\ Go(c, "p_remove", "none")
    /\ UNCHANGED <<row, plan, slskd, disk, faults>>

ProviderMismatch(c, a) ==
    /\ At(c, a, "p_snapshot") /\ a \in slskd
    /\ Go(c, "p_finish", "blocked")
    /\ UNCHANGED <<row, plan, slskd, disk, faults>>

ProviderRemove(c, a) ==
    /\ At(c, a, "p_remove")
    /\ slskd' = slskd \ {a}
    /\ Go(c, "p_verify", "none")
    /\ UNCHANGED <<row, plan, disk, faults>>

(* Only a second list without the uuid counts as removed.                  *)
ProviderVerify(c, a) ==
    /\ At(c, a, "p_verify")
    /\ Go(c, "p_finish", IF a \in slskd THEN "retryable_failure" ELSE "removed")
    /\ UNCHANGED <<row, plan, slskd, disk, faults>>

(* A request fails or is cancelled, whether slskd carried it out or not;   *)
(* or slskd accepts the removal and does not carry it out.                 *)
ProviderErrs(c, a) ==
    /\ \/ /\ cl[c].phase \in {"p_snapshot", "p_verify"} /\ slskd' = slskd
          /\ Go(c, "p_finish", "retryable_failure")
       \/ /\ cl[c].phase = "p_remove" /\ slskd' \in {slskd, slskd \ {a}}
          /\ Go(c, "p_finish", "retryable_failure")
       \/ /\ cl[c].phase = "p_remove" /\ slskd' = slskd
          /\ Go(c, "p_verify", "none")
    /\ cl[c].on = a
    /\ UNCHANGED <<row, plan, disk, faults>>

(* _finish_provider_claim; an update that matches no row is a claim lost.  *)
ProviderFinish(c, a) ==
    /\ At(c, a, "p_finish")
    /\ Finish(c, a, "provider", cl[c].result)
    /\ AfterProvider(c, IF Holds(c, a, "provider") THEN cl[c].result ELSE "claimed_elsewhere")
    /\ UNCHANGED <<plan, slskd, disk, faults>>

-----------------------------------------------------------------------------
(* cleanup_attempt_file.                                                   *)

(* What a file claim asks for, besides the identity the attempt recorded.  *)
FileReady(r) == r.eligible /\ r.state["provider"] = "completed"

(* _claim_file_cleanup reads the row.  An attempt that is not ready is     *)
(* blocked, whatever claim it carries.                                     *)
FileRead(c, a) ==
    LET r == row[a]
        waits == Deferred(r, "file") \/ HeldElsewhere(r, "file")
    IN
    /\ At(c, a, "f_call")
    /\ \/ /\ r.state["file"] = "completed"
          /\ row' = row /\ Close(c, "already_absent")
       \/ /\ r.state["file"] # "completed" /\ (~FileReady(r) \/ waits)
          /\ row' = IF FileReady(r) THEN row ELSE [row EXCEPT ![a] = Settled(@, "file", "blocked")]
          /\ Close(c, "not_eligible")
       \/ /\ r.state["file"] # "completed" /\ FileReady(r) /\ ~waits
          /\ row' = row
          /\ ReadVersion(c, "f_claim")
    /\ UNCHANGED <<plan, slskd, disk, faults>>

FileClaim(c, a) ==
    /\ At(c, a, "f_claim")
    /\ IF cl[c].fresh /\ Claimable(row[a], "file")
          THEN ClaimRow(a, c, "file") /\ Won(c, a, "f_look")
          ELSE row' = row /\ Close(c, "claimed_elsewhere")
    /\ UNCHANGED <<plan, slskd, disk, faults>>

(* _remove_claimed_file.  The steps that only look leave the disk alone.   *)
Looks(c, a, phase, next, result) ==
    /\ At(c, a, phase)
    /\ Go(c, next, result)
    /\ UNCHANGED <<row, plan, slskd, disk, faults>>

(* The quarantine: the tombstone of an erasure that was not recorded, a    *)
(* file moved there by a call that did not finish, or nothing.             *)
FileLook(c, a) ==
    LET q == disk[a].quarantine IN
    CASE q = "none" -> Looks(c, a, "f_look", "f_source", "none")
      [] q = "artifact" /\ disk[a].erased -> Looks(c, a, "f_look", "f_finish", "quarantined")
      [] OTHER -> Looks(c, a, "f_look", "f_validate", "none")

FileSource(c, a) ==
    CASE disk[a].source = "none" -> Looks(c, a, "f_source", "f_finish", "already_absent")
      [] Intact(a, "source") -> Looks(c, a, "f_source", "f_move", "none")
      [] OTHER -> Looks(c, a, "f_source", "f_finish", "blocked")

(* rename without replacing moves whatever is there by now.                *)
FileMove(c, a) ==
    /\ At(c, a, "f_move")
    /\ \/ /\ disk[a].source # "none" /\ disk[a].quarantine = "none"
          /\ disk' = [disk EXCEPT ![a].source = "none", ![a].quarantine = disk[a].source]
          /\ Go(c, "f_validate", "none")
       \/ /\ disk[a].source = "none" \/ disk[a].quarantine # "none"
          /\ disk' = disk
          /\ Go(c, "f_finish", IF disk[a].quarantine # "none" THEN "blocked"
                               ELSE "retryable_failure")
    /\ UNCHANGED <<row, plan, slskd, faults>>

(* The hash of what was moved, or else the way back.                       *)
FileValidate(c, a) ==
    Looks(c, a, "f_validate", IF Intact(a, "quarantine") THEN "f_open" ELSE "f_restore", "none")

\* Mutant: a file that does not validate is removed rather than put back.
FileRestoreDiscards(c, a) ==
    /\ At(c, a, "f_restore")
    /\ disk' = [disk EXCEPT ![a].quarantine = "none"]
    /\ Go(c, "f_finish", "blocked")
    /\ UNCHANGED <<row, plan, slskd, faults>>

FileRestore(c, a) ==
    /\ At(c, a, "f_restore")
    /\ disk' = IF disk[a].source = "none"
                  THEN [disk EXCEPT ![a].source = disk[a].quarantine, ![a].quarantine = "none"]
                  ELSE disk
    /\ Go(c, "f_finish", "blocked")
    /\ UNCHANGED <<row, plan, slskd, faults>>

(* _erase_validated_regular_at pins the inode and validates it once more,  *)
(* truncates the inode it has pinned, wherever that is by now, and looks   *)
(* for it under the quarantine's name.                                     *)
FileOpen(c, a) ==
    IF Intact(a, "quarantine") THEN Looks(c, a, "f_open", "f_erase", "none")
    ELSE Looks(c, a, "f_open", "f_finish", "blocked")

FileErase(c, a) ==
    /\ At(c, a, "f_erase")
    /\ disk' = [disk EXCEPT ![a].erased = TRUE]
    /\ Go(c, "f_confirm", "none")
    /\ UNCHANGED <<row, plan, slskd, faults>>

FileConfirm(c, a) ==
    Looks(c, a, "f_confirm", "f_finish",
          IF disk[a].quarantine = "artifact" THEN "quarantined" ELSE "blocked")

\* Mutant: an error of the file system is taken for an absent file.
FileErrsAbsent(c, a) ==
    /\ cl[c].phase \in {"f_move", "f_erase"}
    /\ Looks(c, a, cl[c].phase, "f_finish", "already_absent")

(* A system call of the thread fails.                                      *)
FileErrs(c, a) ==
    /\ cl[c].phase \in {"f_move", "f_erase"}
    /\ Looks(c, a, cl[c].phase, "f_finish", "retryable_failure")

(* _finish_file_claim; nobody waits for the thread of a cancelled call.    *)
FileFinish(c, a) ==
    /\ At(c, a, "f_finish")
    /\ IF cl[c].detached THEN row' = row /\ End(c)
       ELSE /\ Finish(c, a, "file", cl[c].result)
            /\ Close(c, IF Holds(c, a, "file") THEN cl[c].result ELSE "claimed_elsewhere")
    /\ UNCHANGED <<plan, slskd, disk, faults>>

-----------------------------------------------------------------------------
(* cleanup_attempt_partial.                                                *)

PartialRead(c, a) ==
    LET r == row[a]
        ready == /\ r.state["file"] # "completed" /\ FileReady(r) /\ r.artifact = "partial"
                 /\ ~Deferred(r, "file") /\ ~HeldElsewhere(r, "file")
    IN
    /\ At(c, a, "q_call")
    /\ IF ready THEN ReadVersion(c, "q_claim") ELSE End(c)
    /\ UNCHANGED <<row, plan, slskd, disk, faults>>

PartialClaim(c, a) ==
    /\ At(c, a, "q_claim")
    /\ IF cl[c].fresh /\ Claimable(row[a], "file")
          THEN ClaimRow(a, c, "file") /\ Won(c, a, "q_snapshot")
          ELSE row' = row /\ End(c)
    /\ UNCHANGED <<plan, slskd, disk, faults>>

(* The list of transfers: nothing writes there, a transfer does, or the    *)
(* request failed.                                                         *)
PartialSnapshot(c, a) ==
    \/ Looks(c, a, "q_snapshot", "q_stat", "none")
    \/ Looks(c, a, "q_snapshot", "q_finish", "not_eligible")
    \/ Looks(c, a, "q_snapshot", "q_finish", "retryable_failure")

(* _remove_owned_partial: the file is still the one recorded, and old      *)
(* enough; then it is unlinked by its name.                                *)
PartialStat(c, a) ==
    CASE disk[a].source = "none" -> Looks(c, a, "q_stat", "q_finish", "already_absent")
      [] disk[a].source = "other" -> Looks(c, a, "q_stat", "q_finish", "blocked")
      [] OTHER -> \/ Looks(c, a, "q_stat", "q_unlink", "none")
                  \/ Looks(c, a, "q_stat", "q_finish", "not_eligible")

PartialUnlink(c, a) ==
    /\ At(c, a, "q_unlink")
    /\ disk' = [disk EXCEPT ![a].source = "none"]
    /\ Go(c, "q_finish", IF disk[a].source = "none" THEN "already_absent" ELSE "removed")
    /\ UNCHANGED <<row, plan, slskd, faults>>

PartialFinish(c, a) ==
    /\ At(c, a, "q_finish")
    /\ IF cl[c].detached THEN row' = row ELSE Finish(c, a, "file", cl[c].result)
    /\ End(c)
    /\ UNCHANGED <<plan, slskd, disk, faults>>

-----------------------------------------------------------------------------
(* The environment.                                                        *)

(* The import of the staged file commits (library_import.py).              *)
Import(a) ==
    /\ row[a].outcome = "downloaded" /\ plan[a] = "none"
    /\ plan' = [plan EXCEPT ![a] = "owed"]
    /\ UNCHANGED <<row, cl, slskd, disk, faults>>

Fault(f) ==
    /\ f \in Faults /\ faults < MaxFaults
    /\ faults' = faults + 1

(* The lease of a call that is gone runs out, or that of one that takes    *)
(* longer than its lease.                                                  *)
LeaseLapses(a) ==
    /\ row[a].live
    /\ IF \E c \in Cleaner : row[a].token = c /\ cl[c].on = a /\ cl[c].phase \in ActingPhases
          THEN Fault("overrun") ELSE faults' = faults
    /\ row' = [row EXCEPT ![a].live = FALSE]
    /\ UNCHANGED <<plan, cl, slskd, disk>>

RetryComesDue(a) ==
    /\ row[a].later # {}
    /\ row' = [row EXCEPT ![a].later = {}]
    /\ UNCHANGED <<plan, cl, slskd, disk, faults>>

(* Somebody else takes the file away, or puts another in its place.        *)
Replace(a) ==
    /\ Fault("replace")
    /\ \E e \in {"none", "other"} : disk' = [disk EXCEPT ![a].source = e]
    /\ UNCHANGED <<row, plan, cl, slskd>>

(* A cancellation while the thread works: a file claim is given back as    *)
(* failed, a partial claim is left as it is.                               *)
CancelThread(c, a) ==
    /\ Fault("cancel")
    /\ cl[c].phase \in ThreadPhases /\ cl[c].on = a /\ ~cl[c].detached
    /\ IF cl[c].phase \in {"q_stat", "q_unlink"} THEN row' = row
       ELSE Finish(c, a, "file", "retryable_failure")
    /\ cl' = [cl EXCEPT ![c].detached = TRUE]
    /\ UNCHANGED <<plan, slskd, disk>>

(* The process ends, and with it all calls and threads.                    *)
Crash ==
    /\ Fault("crash")
    /\ cl' = [c \in Cleaner |-> IdleCall]
    /\ UNCHANGED <<row, plan, slskd, disk>>

CallStep(c, a) ==
    \/ SweepProvider(c, a) \/ SweepPartial(c, a) \/ TakeImported(c, a)
    \/ Prepare(c, a) \/ Mark(c, a)
    \/ ProviderRead(c, a) \/ ProviderClaim(c, a) \/ ProviderSnapshot(c, a)
    \/ ProviderMismatch(c, a) \/ ProviderRemove(c, a) \/ ProviderVerify(c, a)
    \/ ProviderErrs(c, a) \/ ProviderFinish(c, a)
    \/ FileRead(c, a) \/ FileClaim(c, a) \/ FileLook(c, a) \/ FileSource(c, a)
    \/ FileMove(c, a) \/ FileValidate(c, a) \/ FileRestore(c, a) \/ FileOpen(c, a)
    \/ FileErase(c, a) \/ FileConfirm(c, a) \/ FileErrs(c, a) \/ FileFinish(c, a)
    \/ PartialRead(c, a) \/ PartialClaim(c, a) \/ PartialSnapshot(c, a)
    \/ PartialStat(c, a) \/ PartialUnlink(c, a) \/ PartialFinish(c, a)
    \/ CancelThread(c, a)

Next ==
    \/ \E c \in Cleaner, a \in Attempt : CallStep(c, a)
    \/ \E a \in Attempt : Import(a) \/ LeaseLapses(a) \/ RetryComesDue(a) \/ Replace(a)
    \/ Crash

Spec == Init /\ [][Next]_vars

(* What a call does when nothing fails.                                    *)
Proceeds(c, a) ==
    \/ Prepare(c, a) \/ Mark(c, a)
    \/ ProviderRead(c, a) \/ ProviderClaim(c, a) \/ ProviderSnapshot(c, a)
    \/ ProviderRemove(c, a) \/ ProviderVerify(c, a) \/ ProviderFinish(c, a)
    \/ FileRead(c, a) \/ FileClaim(c, a) \/ FileLook(c, a) \/ FileSource(c, a)
    \/ FileMove(c, a) \/ FileValidate(c, a) \/ FileRestore(c, a) \/ FileOpen(c, a)
    \/ FileErase(c, a) \/ FileConfirm(c, a) \/ FileFinish(c, a)
    \/ PartialRead(c, a) \/ PartialClaim(c, a) \/ PartialSnapshot(c, a)
    \/ PartialStat(c, a) \/ PartialUnlink(c, a) \/ PartialFinish(c, a)

(***************************************************************************)
(* The event loop and the threads run what is ready, the periodic tick     *)
(* takes every owed plan and every open transfer again and again, leases   *)
(* and back-offs end, and the requests and system calls that are repeated  *)
(* for ever succeed at some time.                                          *)
(***************************************************************************)
Fairness ==
    /\ \A c \in Cleaner : WF_vars(\E a \in Attempt : Proceeds(c, a))
    /\ \A a \in Attempt :
          /\ WF_vars(\E c \in Cleaner : TakeImported(c, a))
          /\ WF_vars(\E c \in Cleaner : SweepProvider(c, a))
          /\ WF_vars(\E c \in Cleaner : SweepPartial(c, a))
          /\ SF_vars(\E c \in Cleaner : ProviderSnapshot(c, a))
          /\ SF_vars(\E c \in Cleaner : ProviderRemove(c, a))
          /\ SF_vars(\E c \in Cleaner : ProviderVerify(c, a))
          /\ SF_vars(\E c \in Cleaner : FileMove(c, a))
          /\ SF_vars(\E c \in Cleaner : FileErase(c, a))
          /\ WF_vars(LeaseLapses(a)) /\ WF_vars(RetryComesDue(a))

FairSpec == Spec /\ Fairness

-----------------------------------------------------------------------------
(* Properties.                                                             *)

(* The shape of the variables. *)
TypeOK ==
    /\ row \in [Attempt -> Row]
    /\ plan \in [Attempt -> {"none", "owed", "done"}]
    /\ cl \in [Cleaner -> Call]
    /\ slskd \subseteq Attempt
    /\ disk \in [Attempt -> Files]
    /\ faults \in 0..MaxFaults

(* A staged file is emptied only once its import is committed and slskd no *)
(* longer lists its transfer as ours to remove: whatever claims were lost, *)
(* taken over or cancelled before the thread got to the truncation.        *)
ErasedInItsTurn ==
    \A a \in Attempt :
        disk[a].erased => plan[a] # "none" /\ row[a].state["provider"] = "completed"

(* A file call that gets to the row finds the attempt ready or settled.    *)
(* The code blocks an attempt that is not ready by clearing the claim the  *)
(* row carries, anybody's claim on the provider included (_block_cleanup): *)
(* that must not be reached.                                               *)
FileCallsFindTheirTurn ==
    \A c \in Cleaner, a \in Attempt :
        At(c, a, "f_call") => FileReady(row[a]) \/ row[a].state["file"] = "completed"

(* An obligation is settled only if the file the attempt recorded does not *)
(* lie as it was under the name it had, however the calls that worked on   *)
(* it interleaved.                                                         *)
SettledFilesAreGone ==
    \A a \in Attempt : row[a].state["file"] = "completed" => ~Intact(a, "source")

(* A call whose claim was taken over, or given back by a cancellation,     *)
(* settles nothing (the WHERE clauses of the _finish_ functions).          *)
LostClaimsSettleNothing ==
    [][\A c \in Cleaner, a \in Attempt :
          LET finishes == /\ cl[c].on = a /\ cl'[c] # cl[c]
                          /\ cl[c].phase \in {"p_finish", "f_finish", "q_finish"}
          IN  finishes /\ (row[a].token # c \/ cl[c].detached) => row'[a] = row[a]]_vars

Entries(a, kind) == {e \in {"source", "quarantine"} : disk[a][e] = kind}

(* The cleanup of an imported file moves files and empties the one it      *)
(* recorded; it never removes a directory entry, so that a file put in the *)
(* artifact's place survives ("Never unlink the pathname").                *)
StrangersSurvive ==
    [][\A a \in Attempt, kind \in {"artifact", "other"} :
          row[a].outcome # "failed" /\ ~Replace(a)
             => Cardinality(Entries(a, kind)') = Cardinality(Entries(a, kind))]_vars

(* The claims of both obligations are one claim with one holder, settled   *)
(* provider first, and taken over only after the lease.                    *)
Promise == INSTANCE CleanupObligation WITH
    stage <- [a \in Attempt |->
                 IF row[a].state["file"] = "completed" THEN "nothing"
                 ELSE IF row[a].state["provider"] = "completed" THEN "file" ELSE "provider"],
    holder <- [a \in Attempt |-> row[a].token],
    fresh <- [a \in Attempt |-> row[a].live]

ImplementsObligation == Promise!Spec

(* After an import the plan is worked off, through failing requests,       *)
(* crashes, overruns and takeovers, unless what lies under the staged path *)
(* is not the file the attempt recorded.                                   *)
ImportedFilesAreSettled ==
    \A a \in Attempt :
        plan[a] = "owed" ~> plan[a] = "done" \/ (disk[a].source # "none" /\ ~Intact(a, "source"))

-----------------------------------------------------------------------------
(* What the repository says of itself and the code does not do.            *)

(* "Make [...] partial-file cleanup crash-, cancellation-, and replacement-*)
(* safe" (CHANGELOG.md): a claim on a partial file does not last for ever. *)
PartialClaimsEnd ==
    \A a \in Attempt :
        row[a].artifact = "partial" /\ row[a].state["file"] = "claimed"
            ~> row[a].state["file"] # "claimed"
=============================================================================
