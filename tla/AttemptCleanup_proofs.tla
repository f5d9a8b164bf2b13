----------------------- MODULE AttemptCleanup_proofs -----------------------
(***************************************************************************)
(* Theorems about AttemptCleanup, for any attempts, any number of calls    *)
(* and any number of faults.                                               *)
(***************************************************************************)
EXTENDS AttemptCleanup, FiniteSetTheorems, TLAPS

(* What the preparation of an imported attempt makes of its row.           *)
PreparedRow(r) == [r EXCEPT !.outcome = "imported", !.artifact = "imported", !.eligible = TRUE]

(* A result is settled as one of four states, and never stays claimed.     *)
LEMMA SettledStates ==
    ASSUME NEW result \in Result
    PROVE  /\ SettledState(result) \in CleanupState \ {"claimed"}
           /\ SettledState(result) = "completed" <=> result \in Gone
  BY DEF SettledState, CleanupState, Result, Gone

(* The fields of a settled row. *)
LEMMA SettledFields ==
    ASSUME NEW r \in Row, NEW what \in Obligation, NEW result \in Result
    PROVE  LET s == Settled(r, what, result) IN
           /\ s \in Row
           /\ s.state[what] = SettledState(result)
           /\ \A w \in Obligation : w # what => s.state[w] = r.state[w]
           /\ s.token = None /\ ~s.live
           /\ ~(what = "file" /\ result \in Gone) => s.eligible = r.eligible
  <1> DEFINE S == SettledState(result)
  <1>1. S \in CleanupState /\ (S = "completed" <=> result \in Gone)
    BY SettledStates
  <1> DEFINE later == IF S = "failed" THEN r.later \cup {what}
                      ELSE IF S = "completed" THEN r.later \ {what} ELSE r.later
             artifact == IF what = "file" /\ S = "completed" THEN "missing" ELSE r.artifact
             eligible == IF what = "file" /\ S = "completed" THEN FALSE ELSE r.eligible
  <1>2. Settled(r, what, result) =
          [r EXCEPT !.state[what] = S, !.token = None, !.live = FALSE, !.later = later,
                    !.artifact = artifact, !.eligible = eligible]
    BY DEF Settled, Row
  <1>3. /\ later \in SUBSET Obligation
        /\ artifact \in {"staged", "partial", "imported", "missing"}
        /\ eligible \in BOOLEAN
    BY DEF Row
  <1>4. ~(what = "file" /\ result \in Gone) => eligible = r.eligible
    BY <1>1
  <1>5. S = SettledState(result)
    OBVIOUS
  <1> DEFINE s == Settled(r, what, result)
  <1> HIDE DEF S, later, artifact, eligible, s
  <1>6. s = [state |-> [r.state EXCEPT ![what] = S], token |-> None, live |-> FALSE,
             later |-> later, eligible |-> eligible, outcome |-> r.outcome,
             artifact |-> artifact]
    BY <1>2 DEF Row, s
  <1>7. s \in Row
    BY <1>1, <1>3, <1>6 DEF Row
  <1>8. /\ s.state[what] = S
        /\ \A w \in Obligation : w # what => s.state[w] = r.state[w]
        /\ s.token = None /\ ~s.live
        /\ s.eligible = eligible
    BY <1>6 DEF Row
  <1> QED  BY <1>4, <1>5, <1>7, <1>8 DEF s

LEMMA ClaimedFields ==
    ASSUME NEW r \in Row, NEW what \in Obligation, NEW c \in Cleaner
    PROVE  LET s == Claimed(r, c, what) IN
           /\ s \in Row
           /\ s.state[what] = "claimed"
           /\ \A w \in Obligation : w # what => s.state[w] = r.state[w]
           /\ s.token = c /\ s.live /\ s.eligible = r.eligible
  BY DEF Claimed, Row, CleanupState

LEMMA PreparedFields ==
    ASSUME NEW r \in Row
    PROVE  LET s == PreparedRow(r) IN
           /\ s \in Row
           /\ s.state = r.state /\ s.token = r.token /\ s.live = r.live /\ s.eligible
  BY DEF PreparedRow, Row

(* The fenced update changes the row of a claim that the call still holds. *)
LEMMA FinishEffect ==
    ASSUME TypeOK, NEW c \in Cleaner, NEW a \in Attempt,
           NEW what \in Obligation, NEW result \in Result,
           Finish(c, a, what, result)
    PROVE  /\ row' \in [Attempt -> Row]
           /\ \A b \in Attempt : b # a => row'[b] = row[b]
           /\ ~Holds(c, a, what) => row' = row
           /\ Holds(c, a, what) => row'[a] = Settled(row[a], what, result)
  <1>1. row \in [Attempt -> Row]
    BY DEF TypeOK
  <1>2. Settled(row[a], what, result) \in Row
    BY <1>1, SettledFields
  <1> QED  BY <1>1, <1>2 DEF Finish

LEMMA ClaimEffect ==
    ASSUME TypeOK, NEW c \in Cleaner, NEW a \in Attempt, NEW what \in Obligation,
           ClaimRow(a, c, what)
    PROVE  /\ row' \in [Attempt -> Row]
           /\ \A b \in Attempt : b # a => row'[b] = row[b]
           /\ row'[a] = Claimed(row[a], c, what)
  <1>1. row \in [Attempt -> Row]
    BY DEF TypeOK
  <1>2. Claimed(row[a], c, what) \in Row
    BY <1>1, ClaimedFields
  <1> QED  BY <1>1, <1>2 DEF ClaimRow

(* A claim that is won changes the phase of its call and what others read. *)
LEMMA WonEffect ==
    ASSUME TypeOK, NEW c \in Cleaner, NEW a \in Attempt, NEW phase \in Phase,
           Won(c, a, phase)
    PROVE  /\ cl' \in [Cleaner -> Call]
           /\ cl'[c] = [cl[c] EXCEPT !.phase = phase, !.fresh = FALSE]
           /\ \A d \in Cleaner : d # c =>
                 cl'[d] = cl[d] \/ cl'[d] = [cl[d] EXCEPT !.fresh = FALSE]
  <1>1. cl \in [Cleaner -> Call]
    BY DEF TypeOK
  <1>2. cl' = [d \in Cleaner |->
                 IF d = c THEN [cl[c] EXCEPT !.phase = phase, !.fresh = FALSE]
                 ELSE IF cl[d].on = a THEN [cl[d] EXCEPT !.fresh = FALSE] ELSE cl[d]]
    BY DEF Won
  <1>3. ASSUME NEW d \in Cleaner
        PROVE  /\ [cl[d] EXCEPT !.phase = phase, !.fresh = FALSE] \in Call
               /\ [cl[d] EXCEPT !.fresh = FALSE] \in Call
    BY <1>1 DEF Call
  <1> QED  BY <1>1, <1>2, <1>3

(* What becomes of a call that goes on, ends, or has its result noted.     *)
LEMMA GoEffect ==
    ASSUME TypeOK, NEW c \in Cleaner, NEW phase \in Phase, NEW result \in Result,
           Go(c, phase, result)
    PROVE  /\ cl' \in [Cleaner -> Call]
           /\ cl'[c] = [cl[c] EXCEPT !.phase = phase, !.result = result]
           /\ \A d \in Cleaner : d # c => cl'[d] = cl[d]
  <1>1. cl \in [Cleaner -> Call]
    BY DEF TypeOK
  <1>2. [cl[c] EXCEPT !.phase = phase, !.result = result] \in Call
    BY <1>1 DEF Call
  <1>3. cl' = [cl EXCEPT ![c] = [cl[c] EXCEPT !.phase = phase, !.result = result]]
    BY <1>1 DEF Go, Call
  <1> QED  BY <1>1, <1>2, <1>3

LEMMA GoFields ==
    ASSUME TypeOK, NEW c \in Cleaner, NEW phase \in Phase, NEW result \in Result,
           Go(c, phase, result)
    PROVE  /\ cl'[c].phase = phase /\ cl'[c].result = result
           /\ cl'[c].on = cl[c].on /\ cl'[c].lane = cl[c].lane
           /\ cl'[c].fresh = cl[c].fresh /\ cl'[c].detached = cl[c].detached
  <1>1. cl'[c] = [cl[c] EXCEPT !.phase = phase, !.result = result]
    BY GoEffect, ZenonT(60)
  <1>2. cl[c] \in Call
    BY DEF TypeOK
  <1> QED  BY <1>1, <1>2 DEF Call

LEMMA EndEffect ==
    ASSUME TypeOK, NEW c \in Cleaner, End(c)
    PROVE  /\ cl' \in [Cleaner -> Call]
           /\ cl'[c] = IdleCall
           /\ \A d \in Cleaner : d # c => cl'[d] = cl[d]
  <1>1. IdleCall \in Call
    BY DEF IdleCall, Call, Phase, ActingPhases, Result
  <1>2. cl \in [Cleaner -> Call] /\ cl' = [cl EXCEPT ![c] = IdleCall]
    BY DEF End, TypeOK
  <1> QED  BY <1>1, <1>2

LEMMA CloseEffect ==
    ASSUME TypeOK, NEW c \in Cleaner, NEW result \in Result, Close(c, result)
    PROVE  /\ cl' \in [Cleaner -> Call]
           /\ \E res \in Result : cl'[c] = [cl[c] EXCEPT !.phase = "mark", !.result = res]
           /\ \A d \in Cleaner : d # c => cl'[d] = cl[d]
  <1> DEFINE res == IF result \in Gone THEN "removed" ELSE "none"
  <1>1. "mark" \in Phase /\ res \in Result
    BY DEF Phase, Result
  <1>2. Go(c, "mark", res)
    BY DEF Close
  <1> HIDE DEF res
  <1>3. cl' \in [Cleaner -> Call] /\ cl'[c] = [cl[c] EXCEPT !.phase = "mark", !.result = res]
        /\ \A d \in Cleaner : d # c => cl'[d] = cl[d]
    BY <1>1, <1>2, GoEffect, ZenonT(60)
  <1> QED  BY <1>1, <1>3

LEMMA ReadEffect ==
    ASSUME TypeOK, NEW c \in Cleaner, NEW phase \in Phase, ReadVersion(c, phase)
    PROVE  /\ cl' \in [Cleaner -> Call]
           /\ cl'[c] = [cl[c] EXCEPT !.phase = phase, !.fresh = TRUE]
           /\ \A d \in Cleaner : d # c => cl'[d] = cl[d]
  <1>1. cl \in [Cleaner -> Call]
    BY DEF TypeOK
  <1>2. [cl[c] EXCEPT !.phase = phase, !.fresh = TRUE] \in Call
    BY <1>1 DEF Call
  <1>3. cl' = [cl EXCEPT ![c] = [cl[c] EXCEPT !.phase = phase, !.fresh = TRUE]]
    BY <1>1 DEF ReadVersion, Call
  <1> QED  BY <1>1, <1>2, <1>3

LEMMA AfterProviderEffect ==
    ASSUME TypeOK, NEW c \in Cleaner, NEW result \in Result, AfterProvider(c, result)
    PROVE  /\ cl' \in [Cleaner -> Call]
           /\ \A d \in Cleaner : d # c => cl'[d] = cl[d]
           /\ \/ cl'[c] = IdleCall
              \/ /\ cl[c].lane = "imported" /\ result \in Gone
                 /\ cl'[c] = [cl[c] EXCEPT !.phase = "f_call", !.result = "none"]
              \/ \E res \in Result : cl'[c] = [cl[c] EXCEPT !.phase = "mark", !.result = res]
  <1>1. "f_call" \in Phase /\ "none" \in Result
    BY DEF Phase, Result
  <1>2. CASE cl[c].lane = "sweep" /\ End(c)
    BY <1>2, EndEffect
  <1>3. CASE cl[c].lane = "imported" /\ result \in Gone /\ Go(c, "f_call", "none")
    <2>1. /\ cl' \in [Cleaner -> Call] /\ \A d \in Cleaner : d # c => cl'[d] = cl[d]
          /\ cl'[c] = [cl[c] EXCEPT !.phase = "f_call", !.result = "none"]
      BY <1>1, <1>3, GoEffect
    <2> QED
      BY <1>3, <2>1
  <1>4. CASE Close(c, result)
    BY <1>4, CloseEffect
  <1> QED  BY <1>2, <1>3, <1>4 DEF AfterProvider

(* A call that is taken up. *)
LEMMA StartEffect ==
    ASSUME TypeOK, NEW c \in Cleaner, NEW a \in Attempt,
           NEW lane \in {"sweep", "imported"}, NEW phase \in Phase,
           Start(c, a, lane, phase)
    PROVE  /\ cl' \in [Cleaner -> Call]
           /\ cl'[c] = [phase |-> phase, on |-> a, lane |-> lane, result |-> "none",
                       fresh |-> FALSE, detached |-> FALSE]
           /\ \A d \in Cleaner : d # c => cl'[d] = cl[d]
  BY DEF Start, TypeOK, IdleCall, Call, Result

(* Every step of a call keeps the types. *)
LEMMA CallTypes ==
    ASSUME TypeOK, NEW c \in Cleaner, NEW a \in Attempt, CallStep(c, a)
    PROVE  TypeOK'
  <1>0. /\ row[a] \in Row /\ {"provider", "file"} = Obligation /\ cl[c].result \in Result
        /\ \A p \in ThreadPhases \cup {"p_call", "p_snapshot", "p_remove", "p_verify",
              "p_finish", "f_call", "f_finish", "q_call", "q_snapshot", "q_finish", "prepare"} :
              p \in Phase
        /\ "p_claim" \in Phase /\ "f_claim" \in Phase /\ "q_claim" \in Phase
        /\ ThreadPhases = {"f_look", "f_source", "f_move", "f_validate", "f_restore",
                 "f_open", "f_erase", "f_confirm", "q_stat", "q_unlink"}
        /\ Result = {"none", "removed", "quarantined", "already_absent", "blocked",
                     "retryable_failure", "claimed_elsewhere", "not_eligible"}
    BY DEF TypeOK, Obligation, Call, Phase, ActingPhases, ThreadPhases, Result
  <1>1. CASE SweepProvider(c, a)
    BY <1>0, <1>1, StartEffect DEF SweepProvider, Start, TypeOK, Gone
  <1>2. CASE SweepPartial(c, a)
    BY <1>0, <1>2, StartEffect DEF SweepPartial, Start, TypeOK, Gone
  <1>3. CASE TakeImported(c, a)
    BY <1>0, <1>3, StartEffect DEF TakeImported, Start, TypeOK, Gone
  <1>4. CASE Prepare(c, a)
    <2>1. row' = [row EXCEPT ![a] = PreparedRow(row[a])]
      BY <1>4 DEF Prepare, PreparedRow, TypeOK
    <2>2. row' \in [Attempt -> Row]
      BY <1>0, <2>1, PreparedFields DEF TypeOK
    <2> QED
      BY <1>0, <1>4, <2>2, GoEffect DEF Prepare, TypeOK
  <1>5. CASE Mark(c, a)
    BY <1>0, <1>5, EndEffect, CloseEffect DEF Mark, TypeOK, Gone
  <1>6. CASE ProviderRead(c, a)
    BY <1>0, <1>6, ReadEffect, AfterProviderEffect DEF ProviderRead, TypeOK, Gone
  <1>7. CASE ProviderClaim(c, a)
    <2>1. CASE ClaimRow(a, c, "provider") /\ Won(c, a, "p_snapshot")
      <3>1. row' \in [Attempt -> Row] /\ cl' \in [Cleaner -> Call]
        BY <1>0, <2>1, ClaimEffect, WonEffect DEF Phase, ActingPhases, ThreadPhases
      <3> QED
        BY <1>7, <3>1 DEF ProviderClaim, TypeOK
    <2>2. CASE row' = row /\ ~(ClaimRow(a, c, "provider") /\ Won(c, a, "p_snapshot"))
      BY <1>0, <1>7, <2>2, AfterProviderEffect DEF ProviderClaim, TypeOK, Gone
    <2> QED
      BY <1>7, <2>1, <2>2 DEF ProviderClaim
  <1>8. CASE ProviderSnapshot(c, a)
    BY <1>0, <1>8, GoEffect DEF ProviderSnapshot, TypeOK, Gone
  <1>9. CASE ProviderMismatch(c, a)
    BY <1>0, <1>9, GoEffect DEF ProviderMismatch, TypeOK, Gone
  <1>10. CASE ProviderRemove(c, a)
    BY <1>0, <1>10, GoEffect DEF ProviderRemove, TypeOK, Gone
  <1>11. CASE ProviderVerify(c, a)
    BY <1>0, <1>11, GoEffect DEF ProviderVerify, TypeOK, Gone
  <1>12. CASE ProviderErrs(c, a)
    BY <1>0, <1>12, GoEffect DEF ProviderErrs, TypeOK, Gone
  <1>13. CASE ProviderFinish(c, a)
    <2>1. row' \in [Attempt -> Row]
      BY <1>0, <1>13, FinishEffect DEF ProviderFinish, TypeOK
    <2> QED
      BY <1>0, <1>13, <2>1, AfterProviderEffect DEF ProviderFinish, TypeOK, Gone
  <1>14. CASE FileRead(c, a)
    <2>1. Settled(row[a], "file", "blocked") \in Row
      BY <1>0, SettledFields DEF Result
    <2>2. row' \in [Attempt -> Row]
      BY <1>14, <2>1 DEF FileRead, TypeOK
    <2> QED
      BY <1>0, <1>14, <2>2, CloseEffect, ReadEffect DEF FileRead, TypeOK, Gone
  <1>15. CASE FileClaim(c, a)
    <2>1. CASE ClaimRow(a, c, "file") /\ Won(c, a, "f_look")
      <3>1. row' \in [Attempt -> Row] /\ cl' \in [Cleaner -> Call]
        BY <1>0, <2>1, ClaimEffect, WonEffect DEF Phase, ActingPhases, ThreadPhases
      <3> QED
        BY <1>15, <3>1 DEF FileClaim, TypeOK
    <2>2. CASE row' = row /\ ~(ClaimRow(a, c, "file") /\ Won(c, a, "f_look"))
      BY <1>0, <1>15, <2>2, CloseEffect DEF FileClaim, TypeOK, Gone
    <2> QED
      BY <1>15, <2>1, <2>2 DEF FileClaim
  <1>16. CASE FileLook(c, a)
    BY <1>0, <1>16, GoEffect DEF FileLook, Looks, TypeOK, Gone
  <1>17. CASE FileSource(c, a)
    BY <1>0, <1>17, GoEffect DEF FileSource, Looks, TypeOK, Gone
  <1>18. CASE FileMove(c, a)
    <2>1. disk[a] \in Files
      BY DEF TypeOK
    <2>2. \/ disk' = disk
          \/ disk' = [disk EXCEPT ![a] =
                 [source |-> "none", quarantine |-> disk[a].source, erased |-> disk[a].erased]]
      BY <1>18, <2>1 DEF FileMove, TypeOK, Files
    <2>3. disk' \in [Attempt -> Files]
      BY <2>1, <2>2 DEF TypeOK, Files, Entry
    <2> QED
      BY <1>0, <1>18, <2>3, GoEffect DEF FileMove, TypeOK
  <1>19. CASE FileValidate(c, a)
    BY <1>0, <1>19, GoEffect DEF FileValidate, Looks, TypeOK, Gone
  <1>20. CASE FileRestore(c, a)
    <2>1. disk[a] \in Files
      BY DEF TypeOK
    <2>2. \/ disk' = disk
          \/ disk' = [disk EXCEPT ![a] =
                 [source |-> disk[a].quarantine, quarantine |-> "none", erased |-> disk[a].erased]]
      BY <1>20, <2>1 DEF FileRestore, TypeOK, Files
    <2>3. disk' \in [Attempt -> Files]
      BY <2>1, <2>2 DEF TypeOK, Files, Entry
    <2> QED
      BY <1>0, <1>20, <2>3, GoEffect DEF FileRestore, TypeOK
  <1>21. CASE FileOpen(c, a)
    BY <1>0, <1>21, GoEffect DEF FileOpen, Looks, TypeOK, Gone
  <1>22. CASE FileErase(c, a)
    <2>1. disk' \in [Attempt -> Files]
      BY <1>22 DEF FileErase, TypeOK, Files, Entry
    <2> QED
      BY <1>0, <1>22, <2>1, GoEffect DEF FileErase, TypeOK, Gone
  <1>23. CASE FileConfirm(c, a)
    BY <1>0, <1>23, GoEffect DEF FileConfirm, Looks, TypeOK, Gone
  <1>24. CASE FileErrs(c, a)
    BY <1>0, <1>24, GoEffect DEF FileErrs, Looks, TypeOK, Gone
  <1>25. CASE FileFinish(c, a)
    <2>1. row' \in [Attempt -> Row]
      BY <1>0, <1>25, FinishEffect DEF FileFinish, TypeOK
    <2> QED
      BY <1>0, <1>25, <2>1, EndEffect, CloseEffect DEF FileFinish, TypeOK, Gone
  <1>26. CASE PartialRead(c, a)
    BY <1>0, <1>26, ReadEffect, EndEffect DEF PartialRead, TypeOK, Gone
  <1>27. CASE PartialClaim(c, a)
    <2>1. CASE ClaimRow(a, c, "file") /\ Won(c, a, "q_snapshot")
      <3>1. row' \in [Attempt -> Row] /\ cl' \in [Cleaner -> Call]
        BY <1>0, <2>1, ClaimEffect, WonEffect DEF Phase, ActingPhases, ThreadPhases
      <3> QED
        BY <1>27, <3>1 DEF PartialClaim, TypeOK
    <2>2. CASE row' = row /\ ~(ClaimRow(a, c, "file") /\ Won(c, a, "q_snapshot"))
      BY <1>0, <1>27, <2>2, EndEffect DEF PartialClaim, TypeOK, Gone
    <2> QED
      BY <1>27, <2>1, <2>2 DEF PartialClaim
  <1>28. CASE PartialSnapshot(c, a)
    BY <1>0, <1>28, GoEffect DEF PartialSnapshot, Looks, TypeOK, Gone
  <1>29. CASE PartialStat(c, a)
    BY <1>0, <1>29, GoEffect DEF PartialStat, Looks, TypeOK, Gone
  <1>30. CASE PartialUnlink(c, a)
    <2>1. disk' \in [Attempt -> Files]
      BY <1>30 DEF PartialUnlink, TypeOK, Files, Entry
    <2> QED
      BY <1>0, <1>30, <2>1, GoEffect DEF PartialUnlink, TypeOK, Gone
  <1>31. CASE PartialFinish(c, a)
    <2>1. row' \in [Attempt -> Row]
      BY <1>0, <1>31, FinishEffect DEF PartialFinish, TypeOK
    <2> QED
      BY <1>0, <1>31, <2>1, EndEffect DEF PartialFinish, TypeOK, Gone
  <1>32. CASE CancelThread(c, a)
    <2>1. row' \in [Attempt -> Row]
      BY <1>0, <1>32, FinishEffect DEF CancelThread, TypeOK, Result
    <2> QED
      <3>1. cl' = [cl EXCEPT ![c] = [cl[c] EXCEPT !.detached = TRUE]] /\ cl[c] \in Call
        BY <1>32 DEF CancelThread, TypeOK
      <3>2. cl' \in [Cleaner -> Call]
        BY <3>1 DEF TypeOK, Call
      <3> QED
        BY <1>32, <2>1, <3>2, CleanupAssumption DEF CancelThread, Fault, TypeOK
  <1> QED
    BY <1>1, <1>2, <1>3, <1>4, <1>5, <1>6, <1>7, <1>8, <1>9, <1>10, <1>11, <1>12,
       <1>13, <1>14, <1>15, <1>16, <1>17, <1>18, <1>19, <1>20, <1>21, <1>22, <1>23,
       <1>24, <1>25, <1>26, <1>27, <1>28, <1>29, <1>30, <1>31, <1>32 DEF CallStep

(* The shape of the variables. *)
THEOREM CleanupTypeCorrect == Spec => []TypeOK
  <1>1. Init => TypeOK
    <2> SUFFICES ASSUME Init PROVE TypeOK
      OBVIOUS
    <2>1. \A kind \in {"staged", "partial"} : NewRow(kind) \in Row
      BY DEF NewRow, Row, CleanupState
    <2> QED
      BY <2>1, CleanupAssumption
      DEF Init, TypeOK, Call, IdleCall, Phase, ActingPhases, Result, Files, Entry
  <1>2. TypeOK /\ [Next]_vars => TypeOK'
    <2> SUFFICES ASSUME TypeOK, [Next]_vars PROVE TypeOK'
      OBVIOUS
    <2>1. ASSUME NEW c \in Cleaner, NEW a \in Attempt, CallStep(c, a) PROVE TypeOK'
      BY <2>1, CallTypes
    <2>2. ASSUME NEW a \in Attempt, Import(a) PROVE TypeOK'
      BY <2>2 DEF Import, TypeOK
    <2>3. ASSUME NEW a \in Attempt, LeaseLapses(a) PROVE TypeOK'
      <3>1. row' = [row EXCEPT ![a] = [row[a] EXCEPT !.live = FALSE]] /\ row[a] \in Row
        BY <2>3 DEF LeaseLapses, TypeOK
      <3>2. row' \in [Attempt -> Row]
        BY <3>1 DEF TypeOK, Row
      <3> QED
        BY <2>3, <3>2, CleanupAssumption DEF LeaseLapses, Fault, TypeOK
    <2>4. ASSUME NEW a \in Attempt, RetryComesDue(a) PROVE TypeOK'
      <3>1. row' = [row EXCEPT ![a] = [row[a] EXCEPT !.later = {}]] /\ row[a] \in Row
        BY <2>4 DEF RetryComesDue, TypeOK
      <3>2. row' \in [Attempt -> Row]
        BY <3>1 DEF TypeOK, Row
      <3> QED
        BY <2>4, <3>2 DEF RetryComesDue, TypeOK
    <2>5. ASSUME NEW a \in Attempt, Replace(a) PROVE TypeOK'
      BY <2>5, CleanupAssumption DEF Replace, Fault, TypeOK, Files, Entry
    <2>6. CASE Crash
      BY <2>6, CleanupAssumption
      DEF Crash, Fault, TypeOK, Call, IdleCall, Phase, ActingPhases, Result
    <2>7. CASE UNCHANGED vars
      BY <2>7 DEF vars, TypeOK
    <2> QED
      BY <2>1, <2>2, <2>3, <2>4, <2>5, <2>6, <2>7 DEF Next
  <1> QED  BY <1>1, <1>2, PTL DEF Spec

-----------------------------------------------------------------------------
(* The inductive invariant.                                                *)

FilePhases == {"f_call", "f_claim", "f_look", "f_source", "f_move", "f_validate",
               "f_restore", "f_open", "f_erase", "f_confirm", "f_finish"}

PartialPhases == {"q_claim", "q_snapshot", "q_stat", "q_unlink", "q_finish"}

ProviderDone(a) == row[a].state["provider"] = "completed"
FileDone(a) == row[a].state["file"] = "completed"

(* There is one claim, with a holder and perhaps a lease, and the file's   *)
(* turn comes after the provider's.                                        *)
RowInv(a) ==
    /\ row[a].token # None <=> \E what \in Obligation : row[a].state[what] = "claimed"
    /\ row[a].live => row[a].token # None
    /\ row[a].state["file"] # "pending" => ProviderDone(a)

(* There is one artifact, which is erased in its turn and gone from its    *)
(* name when the file is settled.                                          *)
DiskInv(a) ==
    /\ disk[a].erased => plan[a] # "none" /\ ProviderDone(a)
    /\ disk[a].quarantine # "none" => ~Intact(a, "source")
    /\ FileDone(a) => ~Intact(a, "source")

(* What a call on a may count on.                                          *)
CallInv(c, a) ==
    cl[c].on = a =>
        /\ cl[c].lane = "imported" => plan[a] # "none"
        /\ cl[c].lane = "imported" /\ cl[c].phase # "prepare" => row[a].eligible \/ FileDone(a)
        /\ cl[c].phase \in FilePhases => cl[c].lane = "imported" /\ ProviderDone(a)
        /\ cl[c].phase \in PartialPhases => ProviderDone(a)
        /\ cl[c].phase \in {"f_validate", "f_restore", "f_open", "f_erase", "f_confirm"}
              => ~Intact(a, "source")
        /\ cl[c].phase = "f_restore" => ~Intact(a, "quarantine")
        /\ cl[c].phase \in {"f_finish", "q_finish"} /\ cl[c].result \in Gone
              => ~Intact(a, "source")

(* The flags of a call belong to some of its phases.                       *)
FlagInv(c) ==
    /\ cl[c].fresh => cl[c].phase \in {"p_claim", "f_claim", "q_claim", "mark"}
    /\ cl[c].detached => cl[c].phase \in ThreadPhases \cup {"f_finish", "q_finish"}

CleanupInv ==
    /\ \A a \in Attempt : RowInv(a) /\ DiskInv(a)
    /\ \A c \in Cleaner : FlagInv(c) /\ \A a \in Attempt : CallInv(c, a)

-----------------------------------------------------------------------------
(* What a step does to a row, a plan and a file.                           *)

ClaimPhases(what) == IF what = "provider" THEN {"p_claim"} ELSE {"f_claim", "q_claim"}

RowStep(b) ==
    \/ row'[b] = row[b]
    \/ \E c \in Cleaner, what \in Obligation :
          /\ cl[c].on = b /\ cl[c].phase \in ClaimPhases(what)
          /\ Claimable(row[b], what) /\ row'[b] = Claimed(row[b], c, what)
    \/ \E c \in Cleaner, what \in Obligation, result \in Result :
          /\ cl[c].on = b /\ Holds(c, b, what) /\ row'[b] = Settled(row[b], what, result)
          /\ what = "file" /\ result \in Gone
                => cl[c].phase \in {"f_finish", "q_finish"} /\ cl[c].result = result
    \/ /\ row'[b] = PreparedRow(row[b])
       /\ \E c \in Cleaner : cl[c].on = b /\ cl[c].phase = "prepare"
    \/ row'[b] = [row[b] EXCEPT !.live = FALSE]
    \/ row'[b] = [row[b] EXCEPT !.later = {}]

DiskStep(b) ==
    /\ ~Intact(b, "source") => ~Intact(b, "source")'
    /\ ~Intact(b, "source") /\ ~Intact(b, "quarantine") => ~Intact(b, "quarantine")'
    /\ (disk[b].quarantine # "none")' => disk[b].quarantine # "none" \/ ~Intact(b, "source")'
    /\ (disk[b].erased)' => disk[b].erased \/ (plan[b] # "none" /\ ProviderDone(b))

(* Whatever a call has found stays so.                                     *)
Lasts(b) ==
    /\ plan[b] # "none" => (plan[b] # "none")'
    /\ ProviderDone(b) => ProviderDone(b)'
    /\ row[b].eligible \/ FileDone(b) => (row[b].eligible \/ FileDone(b))'

(* A row is claimed, settled by the holder of its claim, prepared, or only *)
(* gets older; the block of an attempt that is not ready is not reached.   *)
LEMMA CallRowStep ==
    ASSUME TypeOK, CleanupInv, NEW c \in Cleaner, NEW a \in Attempt, CallStep(c, a),
           NEW b \in Attempt
    PROVE  RowStep(b)
  <1>0. "provider" \in Obligation /\ "file" \in Obligation
    BY DEF Obligation
  <1>types. /\ row \in [Attempt -> Row] /\ cl[c].result \in Result
         /\ "retryable_failure" \in Result /\ "retryable_failure" \notin Gone
    BY DEF TypeOK, Call, Result, Gone
  <1>1. CASE Prepare(c, a)
    <2>1. row' = [row EXCEPT ![a] = PreparedRow(row[a])]
      BY <1>1 DEF Prepare, PreparedRow, TypeOK
    <2>2. cl[c].on = a /\ cl[c].phase = "prepare"
      BY <1>1 DEF Prepare, At
    <2> QED
      BY <1>types, <2>1, <2>2 DEF RowStep
  <1>2. CASE ProviderClaim(c, a)
    <2>1. CASE row' = row
      BY <2>1 DEF RowStep
    <2>2. CASE row' # row
      <3>1. ClaimRow(a, c, "provider") /\ At(c, a, cl[c].phase) /\ Claimable(row[a], "provider")
            /\ cl[c].phase \in ClaimPhases("provider")
        BY <1>2, <2>2 DEF ProviderClaim, At, ClaimPhases
      <3>2. row'[b] = row[b] \/ (b = a /\ row'[a] = Claimed(row[a], c, "provider"))
        BY <1>0, <3>1, ClaimEffect
      <3> QED
        BY <1>0, <3>1, <3>2 DEF RowStep, At
    <2> QED
      BY <2>1, <2>2
  <1>3. CASE ProviderFinish(c, a)
    <2>1. cl[c].on = a /\ cl[c].phase = "p_finish"
          /\ (row' = row \/ Finish(c, a, "provider", cl[c].result))
      BY <1>3 DEF ProviderFinish, At
    <2>2. \/ row'[b] = row[b]
          \/ /\ b = a /\ Holds(c, a, "provider")
             /\ row'[a] = Settled(row[a], "provider", cl[c].result)
      BY <1>0, <1>types, <2>1, FinishEffect
    <2> QED
      BY <1>0, <1>types, <2>1, <2>2 DEF RowStep
  <1>4. CASE FileRead(c, a)
    <2>1. FileReady(row[a]) \/ FileDone(a)
      BY <1>4 DEF FileRead, At, CleanupInv, CallInv, FilePhases, FileReady, ProviderDone
    <2>2. row' = row
      BY <1>4, <2>1 DEF FileRead, FileDone
    <2> QED
      BY <2>2 DEF RowStep
  <1>5. CASE FileClaim(c, a)
    <2>1. CASE row' = row
      BY <2>1 DEF RowStep
    <2>2. CASE row' # row
      <3>1. ClaimRow(a, c, "file") /\ At(c, a, cl[c].phase) /\ Claimable(row[a], "file")
            /\ cl[c].phase \in ClaimPhases("file")
        BY <1>5, <2>2 DEF FileClaim, At, ClaimPhases
      <3>2. row'[b] = row[b] \/ (b = a /\ row'[a] = Claimed(row[a], c, "file"))
        BY <1>0, <3>1, ClaimEffect
      <3> QED
        BY <1>0, <3>1, <3>2 DEF RowStep, At
    <2> QED
      BY <2>1, <2>2
  <1>6. CASE FileFinish(c, a)
    <2>1. cl[c].on = a /\ cl[c].phase = "f_finish"
          /\ (row' = row \/ Finish(c, a, "file", cl[c].result))
      BY <1>6 DEF FileFinish, At
    <2>2. \/ row'[b] = row[b]
          \/ /\ b = a /\ Holds(c, a, "file")
             /\ row'[a] = Settled(row[a], "file", cl[c].result)
      BY <1>0, <1>types, <2>1, FinishEffect
    <2> QED
      BY <1>0, <1>types, <2>1, <2>2 DEF RowStep
  <1>7. CASE PartialClaim(c, a)
    <2>1. CASE row' = row
      BY <2>1 DEF RowStep
    <2>2. CASE row' # row
      <3>1. ClaimRow(a, c, "file") /\ At(c, a, cl[c].phase) /\ Claimable(row[a], "file")
            /\ cl[c].phase \in ClaimPhases("file")
        BY <1>7, <2>2 DEF PartialClaim, At, ClaimPhases
      <3>2. row'[b] = row[b] \/ (b = a /\ row'[a] = Claimed(row[a], c, "file"))
        BY <1>0, <3>1, ClaimEffect
      <3> QED
        BY <1>0, <3>1, <3>2 DEF RowStep, At
    <2> QED
      BY <2>1, <2>2
  <1>8. CASE PartialFinish(c, a)
    <2>1. cl[c].on = a /\ cl[c].phase = "q_finish"
          /\ (row' = row \/ Finish(c, a, "file", cl[c].result))
      BY <1>8 DEF PartialFinish, At
    <2>2. \/ row'[b] = row[b]
          \/ /\ b = a /\ Holds(c, a, "file")
             /\ row'[a] = Settled(row[a], "file", cl[c].result)
      BY <1>0, <1>types, <2>1, FinishEffect
    <2> QED
      BY <1>0, <1>types, <2>1, <2>2 DEF RowStep
  <1>9. CASE CancelThread(c, a)
    <2>1. cl[c].on = a
          /\ (row' = row \/ Finish(c, a, "file", "retryable_failure"))
      BY <1>9 DEF CancelThread, At
    <2>2. \/ row'[b] = row[b]
          \/ /\ b = a /\ Holds(c, a, "file")
             /\ row'[a] = Settled(row[a], "file", "retryable_failure")
      BY <1>0, <1>types, <2>1, FinishEffect
    <2> QED
      BY <1>0, <1>types, <2>1, <2>2 DEF RowStep
  <1>10. CASE row' = row
    BY <1>10 DEF RowStep
  <1> QED
    BY <1>1, <1>2, <1>3, <1>4, <1>5, <1>6, <1>7, <1>8, <1>9, <1>10 DEF CallStep,
       SweepProvider, SweepPartial, TakeImported, Mark, ProviderRead, ProviderSnapshot,
       ProviderMismatch, ProviderRemove, ProviderVerify, ProviderErrs, FileLook,
       FileSource, FileMove, FileValidate, FileRestore, FileOpen, FileErase,
       FileConfirm, FileErrs, PartialRead, PartialSnapshot, PartialStat, PartialUnlink,
       Start, Looks

(* A plan is never forgotten, and a file that is not there as it was       *)
(* recorded does not come back.                                            *)
LEMMA CallDiskStep ==
    ASSUME TypeOK, CleanupInv, NEW c \in Cleaner, NEW a \in Attempt, CallStep(c, a),
           NEW b \in Attempt
    PROVE  DiskStep(b) /\ (plan[b] # "none" => plan'[b] # "none")
  <1>0. disk \in [Attempt -> Files] /\ plan \in [Attempt -> {"none", "owed", "done"}]
    BY DEF TypeOK
  <1>turn. CallInv(c, a) /\ (cl[c].on = a /\ cl[c].phase \in FilePhases => plan[a] # "none")
    BY DEF CleanupInv, CallInv
  <1>1. CASE FileMove(c, a)
    BY <1>0, <1>turn, <1>1 DEF FileMove, DiskStep, Intact, Files
  <1>2. CASE FileRestore(c, a)
    BY <1>0, <1>turn, <1>2 DEF FileRestore, DiskStep, Intact, Files, At, CallInv
  <1>3. CASE FileErase(c, a)
    BY <1>0, <1>turn, <1>3 DEF FileErase, DiskStep, Intact, Files, At, CallInv,
       FilePhases
  <1>4. CASE PartialUnlink(c, a)
    BY <1>0, <1>turn, <1>4 DEF PartialUnlink, DiskStep, Intact, Files
  <1>5. CASE Mark(c, a)
    BY <1>0, <1>5 DEF Mark, DiskStep, Intact
  <1>6. CASE disk' = disk /\ plan' = plan
    BY <1>6 DEF DiskStep, Intact
  <1> QED
    BY <1>1, <1>2, <1>3, <1>4, <1>5, <1>6 DEF CallStep, SweepProvider, SweepPartial,
       TakeImported, Prepare, ProviderRead, ProviderClaim, ProviderSnapshot,
       ProviderMismatch, ProviderRemove, ProviderVerify, ProviderErrs, ProviderFinish,
       FileRead, FileClaim, FileLook, FileSource, FileValidate, FileOpen, FileConfirm,
       FileErrs, FileFinish, PartialRead, PartialClaim, PartialSnapshot, PartialStat,
       PartialFinish, CancelThread, Start, Looks

(* The environment does the same to a row, a plan and a file.              *)
LEMMA StepEffects ==
    ASSUME TypeOK, CleanupInv, [Next]_vars, NEW b \in Attempt
    PROVE  RowStep(b) /\ DiskStep(b) /\ (plan[b] # "none" => plan'[b] # "none")
  <1>0. /\ row \in [Attempt -> Row] /\ disk \in [Attempt -> Files]
        /\ plan \in [Attempt -> {"none", "owed", "done"}]
    BY DEF TypeOK
  <1>1. ASSUME NEW c \in Cleaner, NEW a \in Attempt, CallStep(c, a)
        PROVE  RowStep(b) /\ DiskStep(b) /\ (plan[b] # "none" => plan'[b] # "none")
    BY <1>1, CallRowStep, CallDiskStep
  <1>2. ASSUME NEW a \in Attempt, Import(a)
        PROVE  RowStep(b) /\ DiskStep(b) /\ (plan[b] # "none" => plan'[b] # "none")
    BY <1>0, <1>2 DEF Import, RowStep, DiskStep, Intact
  <1>3. ASSUME NEW a \in Attempt, LeaseLapses(a)
        PROVE  RowStep(b) /\ DiskStep(b) /\ (plan[b] # "none" => plan'[b] # "none")
    BY <1>0, <1>3 DEF LeaseLapses, RowStep, DiskStep, Intact
  <1>4. ASSUME NEW a \in Attempt, RetryComesDue(a)
        PROVE  RowStep(b) /\ DiskStep(b) /\ (plan[b] # "none" => plan'[b] # "none")
    BY <1>0, <1>4 DEF RetryComesDue, RowStep, DiskStep, Intact
  <1>5. ASSUME NEW a \in Attempt, Replace(a)
        PROVE  RowStep(b) /\ DiskStep(b) /\ (plan[b] # "none" => plan'[b] # "none")
    <2>1. RowStep(b) /\ (plan[b] # "none" => plan'[b] # "none")
      BY <1>5 DEF Replace, RowStep
    <2>2. PICK e \in {"none", "other"} : disk' = [disk EXCEPT ![a].source = e]
      BY <1>5 DEF Replace
    <2>3. DiskStep(b)
      BY <1>0, <2>2 DEF DiskStep, Intact, Files
    <2> QED
      BY <2>1, <2>3
  <1>6. CASE Crash
    BY <1>6 DEF Crash, RowStep, DiskStep, Intact
  <1>7. CASE UNCHANGED vars
    BY <1>7 DEF vars, RowStep, DiskStep, Intact
  <1> QED
    BY <1>1, <1>2, <1>3, <1>4, <1>5, <1>6, <1>7 DEF Next

(* Rows keep their invariant, settled obligations stay settled, and a file *)
(* is settled only by a call that found it gone.                           *)
LEMMA RowKept ==
    ASSUME TypeOK, CleanupInv, NEW b \in Attempt, RowStep(b)
    PROVE  /\ RowInv(b)'
           /\ ProviderDone(b) => ProviderDone(b)'
           /\ row[b].eligible \/ FileDone(b) => (row[b].eligible \/ FileDone(b))'
           /\ FileDone(b)' => FileDone(b) \/ ~Intact(b, "source")
  <1> DEFINE Kept ==
        /\ RowInv(b)'
        /\ ProviderDone(b) => ProviderDone(b)'
        /\ row[b].eligible \/ FileDone(b) => (row[b].eligible \/ FileDone(b))'
        /\ FileDone(b)' => FileDone(b) \/ ~Intact(b, "source")
  <1>0. row[b] \in Row /\ RowInv(b) /\ Obligation = {"provider", "file"} /\ None \notin Cleaner
    BY CleanupAssumption DEF TypeOK, CleanupInv, Obligation
  <1>1. CASE row'[b] = row[b]
    BY <1>0, <1>1 DEF RowInv, ProviderDone, FileDone
  <1>2. ASSUME NEW c \in Cleaner, NEW what \in Obligation,
               cl[c].on = b, cl[c].phase \in ClaimPhases(what),
               Claimable(row[b], what), row'[b] = Claimed(row[b], c, what)
        PROVE  Kept
    <2>1. what = "file" => ProviderDone(b)
      BY <1>2 DEF CleanupInv, CallInv, ClaimPhases, FilePhases, PartialPhases
    <2>2. row[b].state[what] # "completed"
      BY <1>2 DEF Claimable
    <2>3. /\ row'[b].state[what] = "claimed"
          /\ \A w \in Obligation : w # what => row'[b].state[w] = row[b].state[w]
          /\ row'[b].token = c /\ row'[b].eligible = row[b].eligible
      BY <1>0, <1>2, ClaimedFields
    <2> QED
      BY <1>0, <2>1, <2>2, <2>3 DEF RowInv, ProviderDone, FileDone
  <1>3. ASSUME NEW c \in Cleaner, NEW what \in Obligation, NEW result \in Result,
               cl[c].on = b, Holds(c, b, what), row'[b] = Settled(row[b], what, result),
               what = "file" /\ result \in Gone
                  => cl[c].phase \in {"f_finish", "q_finish"} /\ cl[c].result = result
        PROVE  Kept
    <2>1. row[b].state[what] = "claimed" /\ row[b].token = c
      BY <1>3 DEF Holds
    <2>2. what = "file" /\ result \in Gone => ~Intact(b, "source")
      BY <1>3 DEF CleanupInv, CallInv
    <2>3. /\ row'[b].state[what] = SettledState(result)
          /\ \A w \in Obligation : w # what => row'[b].state[w] = row[b].state[w]
          /\ row'[b].token = None /\ ~row'[b].live
          /\ ~(what = "file" /\ result \in Gone) => row'[b].eligible = row[b].eligible
      BY <1>0, <1>3, SettledFields
    <2>4. /\ SettledState(result) # "claimed"
          /\ SettledState(result) = "completed" <=> result \in Gone
      BY SettledStates
    <2>5. what = "provider" => row[b].state["file"] = "pending"
      BY <1>0, <2>1 DEF RowInv, ProviderDone
    <2>6. \A w \in Obligation : row'[b].state[w] # "claimed"
      <3>1. \A w \in Obligation : w # what => row[b].state[w] # "claimed"
        BY <1>0, <2>1, <2>5 DEF RowInv, ProviderDone
      <3> QED
        BY <2>3, <2>4, <3>1
    <2> QED
      BY <1>0, <2>1, <2>2, <2>3, <2>4, <2>5, <2>6 DEF RowInv, ProviderDone, FileDone
  <1>4. CASE row'[b] = PreparedRow(row[b])
    BY <1>0, <1>4, PreparedFields DEF RowInv, ProviderDone, FileDone
  <1>5. CASE row'[b] = [row[b] EXCEPT !.live = FALSE]
    BY <1>0, <1>5 DEF RowInv, ProviderDone, FileDone, Row
  <1>6. CASE row'[b] = [row[b] EXCEPT !.later = {}]
    BY <1>0, <1>6 DEF RowInv, ProviderDone, FileDone, Row
  <1> QED
    BY <1>1, <1>2, <1>3, <1>4, <1>5, <1>6 DEF RowStep

(* What a call that takes no step may count on lasts, whatever the flags.  *)
LEMMA CallLasts ==
    ASSUME NEW c \in Cleaner, NEW b \in Attempt, CallInv(c, b), Lasts(b), DiskStep(b),
           cl'[c].on = cl[c].on, cl'[c].lane = cl[c].lane,
           cl'[c].phase = cl[c].phase, cl'[c].result = cl[c].result
    PROVE  CallInv(c, b)'
  BY DEF CallInv, Lasts, DiskStep

-----------------------------------------------------------------------------
(* The invariant is inductive.                                             *)

(* The call that takes a step may count on what its next phase asks for.   *)
LEMMA ActingCall ==
    ASSUME TypeOK, CleanupInv, NEW c \in Cleaner, NEW a \in Attempt, CallStep(c, a),
           Lasts(a), DiskStep(a)
    PROVE  FlagInv(c)' /\ \A b \in Attempt : CallInv(c, b)'
  <1> DEFINE Kept == FlagInv(c)' /\ \A b \in Attempt : CallInv(c, b)'
  <1>0. /\ cl[c] \in Call /\ row[a] \in Row /\ disk \in [Attempt -> Files]
        /\ FlagInv(c) /\ CallInv(c, a) /\ RowInv(a) /\ DiskInv(a)
        /\ None \notin Attempt
    BY CleanupAssumption DEF TypeOK, CleanupInv
  <1>sets. /\ \A p \in ThreadPhases \cup {"p_call", "p_snapshot", "p_remove", "p_verify",
              "p_finish", "f_call", "f_finish", "q_call", "q_snapshot", "q_finish", "prepare",
              "p_claim", "f_claim", "q_claim", "mark"} : p \in Phase
         /\ ThreadPhases = {"f_look", "f_source", "f_move", "f_validate", "f_restore",
                 "f_open", "f_erase", "f_confirm", "q_stat", "q_unlink"}
         /\ Result = {"none", "removed", "quarantined", "already_absent", "blocked",
                     "retryable_failure", "claimed_elsewhere", "not_eligible"}
         /\ cl[c].result \in Result
    BY <1>0 DEF Call, Phase, ActingPhases, ThreadPhases, Result
  <1>members. /\ "p_call" \in Phase /\ "f_call" \in Phase /\ "mark" \in Phase
          /\ "none" \in Result /\ "removed" \in Result
    BY DEF Phase, Result
  (* The ways a call's state changes. *)
  <1>10. ASSUME cl'[c] = IdleCall PROVE Kept
    BY <1>0, <1>10 DEF IdleCall, FlagInv, CallInv
  <1> DEFINE Fits(p, result) ==
        /\ Go(c, p, result) /\ cl[c].on = a /\ (cl[c].fresh => p = "mark")
        /\ cl[c].phase # "prepare"
        /\ cl[c].detached => p \in ThreadPhases \cup {"f_finish", "q_finish"}
        /\ p \in FilePhases => cl[c].phase \in FilePhases
        /\ p \in PartialPhases => cl[c].phase \in PartialPhases
        /\ p \in {"f_validate", "f_restore", "f_open", "f_erase", "f_confirm"}
              => ~Intact(a, "source")'
        /\ p = "f_restore" => ~Intact(a, "quarantine")'
        /\ p \in {"f_finish", "q_finish"} /\ result \in Gone => ~Intact(a, "source")'
  <1>11. ASSUME NEW p \in Phase, NEW result \in Result, Fits(p, result)
        PROVE Kept
    <2>0. Go(c, p, result)
      BY <1>11
    <2>1. cl[c].on = a
      BY <1>11
    <2>2. /\ cl'[c].phase = p /\ cl'[c].result = result /\ cl'[c].on = a
          /\ cl'[c].lane = cl[c].lane /\ cl'[c].fresh = cl[c].fresh
          /\ cl'[c].detached = cl[c].detached
      BY <2>0, <2>1, GoFields, SMTT(20)
    <2>3. /\ cl[c].lane = "imported" => (plan[a] # "none")'
          /\ p \in FilePhases => cl[c].lane = "imported" /\ ProviderDone(a)'
          /\ p \in PartialPhases => ProviderDone(a)'
          /\ cl[c].lane = "imported" => (row[a].eligible \/ FileDone(a))'
      BY <1>0, <1>11 DEF CallInv, Lasts
    <2>4. FlagInv(c)'
      BY <1>11, <2>2 DEF FlagInv
    <2>5. CallInv(c, a)'
      BY <1>11, <2>2, <2>3 DEF CallInv
    <2>6. \A b \in Attempt : b # a => CallInv(c, b)'
      BY <2>2 DEF CallInv
    <2> QED
      BY <2>4, <2>5, <2>6
  <1>12. ASSUME NEW result \in Result, Close(c, result), cl[c].on = a,
                ~cl[c].detached, cl[c].phase # "prepare"
         PROVE  Kept
    <2>1. PICK res \in Result : cl'[c] = [cl[c] EXCEPT !.phase = "mark", !.result = res]
      BY <1>12, CloseEffect
    <2>2. Go(c, "mark", "removed") \/ Go(c, "mark", "none")
      BY <1>12 DEF Close
    <2>3. ASSUME NEW r \in Result, Go(c, "mark", r) PROVE Kept
      <3>1. Fits("mark", r)
        BY <1>12, <2>3 DEF FilePhases, PartialPhases, Intact
      <3> HIDE DEF Fits
      <3> QED
        BY <1>sets, <1>11, <3>1
    <2> QED
      BY <1>members, <2>2, <2>3
  <1>13. ASSUME NEW result \in Result, AfterProvider(c, result), cl[c].on = a,
                ~cl[c].detached, cl[c].phase # "prepare", cl[c].phase \notin FilePhases,
                result \in Gone => ~cl[c].fresh /\ ProviderDone(a)'
         PROVE  Kept
    <2>1. CASE cl[c].lane = "sweep" /\ End(c)
      BY <1>10, <2>1, EndEffect
    <2>2. CASE cl[c].lane = "imported" /\ result \in Gone /\ Go(c, "f_call", "none")
      <3>1. /\ cl'[c].phase = "f_call" /\ cl'[c].result = "none" /\ cl'[c].on = cl[c].on
            /\ cl'[c].lane = cl[c].lane /\ cl'[c].fresh = cl[c].fresh
            /\ cl'[c].detached = cl[c].detached
        BY <1>members, <2>2, GoFields
      <3>2. /\ cl'[c].phase = "f_call" /\ cl'[c].result = "none" /\ cl'[c].on = a
            /\ cl'[c].lane = "imported" /\ ~cl'[c].fresh /\ ~cl'[c].detached
        BY <1>13, <2>2, <3>1
      <3>3. ProviderDone(a)' /\ (plan[a] # "none")' /\ (row[a].eligible \/ FileDone(a))'
        BY <1>0, <1>13, <2>2 DEF CallInv, Lasts
      <3> QED
        BY <1>0, <3>2, <3>3 DEF FlagInv, CallInv, PartialPhases, Gone
    <2>3. CASE Close(c, result)
      BY <1>12, <1>13, <2>3
    <2> QED
      BY <1>13, <2>1, <2>2, <2>3 DEF AfterProvider
  <1>14. ASSUME NEW p \in {"p_snapshot", "f_look", "q_snapshot"}, Won(c, a, p), cl[c].on = a,
                cl[c].phase \in {"p_claim", "f_claim", "q_claim"},
                p = "f_look" => cl[c].phase = "f_claim",
                p = "q_snapshot" => cl[c].phase = "q_claim"
         PROVE  Kept
    <2>1. cl'[c] = [cl[c] EXCEPT !.phase = p, !.fresh = FALSE]
      BY <1>sets, <1>14, WonEffect
    <2>2. /\ cl'[c].phase = p /\ cl'[c].on = a /\ cl'[c].lane = cl[c].lane
          /\ ~cl'[c].fresh /\ ~cl'[c].detached
      BY <1>0, <1>sets, <1>14, <2>1 DEF Call, FlagInv
    <2>3. /\ cl[c].lane = "imported" => (plan[a] # "none")'
          /\ p = "f_look" => cl[c].lane = "imported" /\ ProviderDone(a)'
          /\ p = "q_snapshot" => ProviderDone(a)'
          /\ cl[c].lane = "imported" => (row[a].eligible \/ FileDone(a))'
      BY <1>0, <1>14 DEF CallInv, Lasts, FilePhases, PartialPhases
    <2> QED
      BY <1>0, <1>14, <2>2, <2>3 DEF FlagInv, CallInv, FilePhases, PartialPhases
  <1>15. ASSUME NEW p \in {"p_claim", "f_claim", "q_claim"}, ReadVersion(c, p), cl[c].on = a,
                cl[c].phase \in {"p_call", "f_call", "q_call"},
                p = "f_claim" => cl[c].phase = "f_call",
                p = "q_claim" => ProviderDone(a)
         PROVE  Kept
    <2>1. cl'[c] = [cl[c] EXCEPT !.phase = p, !.fresh = TRUE]
      BY <1>sets, <1>15, ReadEffect
    <2>2. /\ cl'[c].phase = p /\ cl'[c].on = a /\ cl'[c].lane = cl[c].lane
          /\ cl'[c].detached = cl[c].detached
      BY <1>0, <1>15, <2>1 DEF Call
    <2>3. /\ cl[c].lane = "imported" => (plan[a] # "none")'
          /\ p = "f_claim" => cl[c].lane = "imported" /\ ProviderDone(a)'
          /\ p = "q_claim" => ProviderDone(a)'
          /\ cl[c].lane = "imported" => (row[a].eligible \/ FileDone(a))'
      BY <1>0, <1>15 DEF CallInv, Lasts, FilePhases, PartialPhases
    <2> QED
      BY <1>0, <1>sets, <1>15, <2>2, <2>3 DEF FlagInv, CallInv, FilePhases, PartialPhases
  (* The actions. *)
  <1>16. CASE SweepProvider(c, a)
    <2>1. Start(c, a, "sweep", "p_call")
      BY <1>16 DEF SweepProvider, Start
    <2>2. cl'[c] = [phase |-> "p_call", on |-> a, lane |-> "sweep", result |-> "none",
                    fresh |-> FALSE, detached |-> FALSE]
      BY <1>sets, <2>1, StartEffect
    <2> QED
      BY <2>1, <2>2 DEF FlagInv, CallInv, FilePhases, PartialPhases
  <1>17. CASE SweepPartial(c, a)
    <2>1. Start(c, a, "sweep", "q_call")
      BY <1>17 DEF SweepPartial, Start
    <2>2. cl'[c] = [phase |-> "q_call", on |-> a, lane |-> "sweep", result |-> "none",
                    fresh |-> FALSE, detached |-> FALSE]
      BY <1>sets, <2>1, StartEffect
    <2> QED
      BY <2>1, <2>2 DEF FlagInv, CallInv, FilePhases, PartialPhases
  <1>18. CASE TakeImported(c, a)
    <2>1. Start(c, a, "imported", "prepare") /\ (plan[a] # "none")'
      BY <1>18 DEF TakeImported, Start
    <2>2. cl'[c] = [phase |-> "prepare", on |-> a, lane |-> "imported", result |-> "none",
                    fresh |-> FALSE, detached |-> FALSE]
      BY <1>sets, <2>1, StartEffect
    <2> QED
      BY <2>1, <2>2 DEF FlagInv, CallInv, FilePhases, PartialPhases
  <1>19. CASE ProviderSnapshot(c, a)
    <2>1. \/ Fits("p_finish", "already_absent")
          \/ Fits("p_remove", "none")
      BY <1>0, <1>sets, <1>19 DEF ProviderSnapshot, At, FilePhases, PartialPhases, FlagInv,
         Gone, Intact
    <2> HIDE DEF Fits
    <2> QED
      BY <1>sets, <1>11, <2>1
  <1>20. CASE ProviderMismatch(c, a)
    <2>1. Fits("p_finish", "blocked")
      BY <1>0, <1>sets, <1>20 DEF ProviderMismatch, At, FilePhases, PartialPhases, FlagInv,
         Gone, Intact
    <2> HIDE DEF Fits
    <2> QED
      BY <1>sets, <1>11, <2>1
  <1>21. CASE ProviderRemove(c, a)
    <2>1. Fits("p_verify", "none")
      BY <1>0, <1>sets, <1>21 DEF ProviderRemove, At, FilePhases, PartialPhases, FlagInv,
         Gone, Intact
    <2> HIDE DEF Fits
    <2> QED
      BY <1>sets, <1>11, <2>1
  <1>22. CASE ProviderVerify(c, a)
    <2>1. \/ Fits("p_finish", "retryable_failure")
          \/ Fits("p_finish", "removed")
      BY <1>0, <1>sets, <1>22 DEF ProviderVerify, At, FilePhases, PartialPhases, FlagInv,
         Gone, Intact
    <2> HIDE DEF Fits
    <2> QED
      BY <1>sets, <1>11, <2>1
  <1>23. CASE ProviderErrs(c, a)
    <2>1. \/ Fits("p_finish", "retryable_failure")
          \/ Fits("p_verify", "none")
      BY <1>0, <1>sets, <1>23 DEF ProviderErrs, At, FilePhases, PartialPhases, FlagInv,
         Gone, Intact
    <2> HIDE DEF Fits
    <2> QED
      BY <1>sets, <1>11, <2>1
  <1>24. CASE FileLook(c, a)
    <2>1. \/ Fits("f_source", "none")
          \/ Fits("f_finish", "quarantined")
          \/ Fits("f_validate", "none")
      BY <1>0, <1>sets, <1>24 DEF FileLook, At, Looks, FilePhases, PartialPhases, FlagInv,
         Gone, Intact, DiskInv, DiskStep, CallInv
    <2> HIDE DEF Fits
    <2> QED
      BY <1>sets, <1>11, <2>1
  <1>25. CASE FileSource(c, a)
    <2>1. \/ Fits("f_finish", "already_absent")
          \/ Fits("f_move", "none")
          \/ Fits("f_finish", "blocked")
      BY <1>0, <1>sets, <1>25 DEF FileSource, At, Looks, FilePhases, PartialPhases, FlagInv,
         Gone, Intact
    <2> HIDE DEF Fits
    <2> QED
      BY <1>sets, <1>11, <2>1
  <1>26. CASE FileMove(c, a)
    <2>1. \/ Fits("f_validate", "none")
          \/ Fits("f_finish", "blocked")
          \/ Fits("f_finish", "retryable_failure")
      BY <1>0, <1>sets, <1>26 DEF FileMove, At, FilePhases, PartialPhases, FlagInv, Gone,
         Intact, Files
    <2> HIDE DEF Fits
    <2> QED
      BY <1>sets, <1>11, <2>1
  <1>27. CASE FileValidate(c, a)
    <2>1. \/ Fits("f_open", "none")
          \/ Fits("f_restore", "none")
      BY <1>0, <1>sets, <1>27 DEF FileValidate, At, Looks, FilePhases, PartialPhases,
         FlagInv, Gone, Intact, CallInv, DiskStep
    <2> HIDE DEF Fits
    <2> QED
      BY <1>sets, <1>11, <2>1
  <1>28. CASE FileRestore(c, a)
    <2>1. Fits("f_finish", "blocked")
      BY <1>0, <1>sets, <1>28 DEF FileRestore, At, FilePhases, PartialPhases, FlagInv, Gone,
         Intact
    <2> HIDE DEF Fits
    <2> QED
      BY <1>sets, <1>11, <2>1
  <1>29. CASE FileOpen(c, a)
    <2>1. \/ Fits("f_erase", "none")
          \/ Fits("f_finish", "blocked")
      BY <1>0, <1>sets, <1>29 DEF FileOpen, At, Looks, FilePhases, PartialPhases, FlagInv,
         Gone, Intact, CallInv, DiskStep
    <2> HIDE DEF Fits
    <2> QED
      BY <1>sets, <1>11, <2>1
  <1>30. CASE FileErase(c, a)
    <2>1. Fits("f_confirm", "none")
      BY <1>0, <1>sets, <1>30 DEF FileErase, At, FilePhases, PartialPhases, FlagInv, Gone,
         Intact, CallInv, DiskStep
    <2> HIDE DEF Fits
    <2> QED
      BY <1>sets, <1>11, <2>1
  <1>31. CASE FileConfirm(c, a)
    <2>1. \/ Fits("f_finish", "quarantined")
          \/ Fits("f_finish", "blocked")
      BY <1>0, <1>sets, <1>31 DEF FileConfirm, At, Looks, FilePhases, PartialPhases,
         FlagInv, Gone, Intact, CallInv, DiskStep
    <2> HIDE DEF Fits
    <2> QED
      BY <1>sets, <1>11, <2>1
  <1>32. CASE FileErrs(c, a)
    <2>1. Fits("f_finish", "retryable_failure")
      BY <1>0, <1>sets, <1>32 DEF FileErrs, At, Looks, FilePhases, PartialPhases, FlagInv,
         Gone, Intact
    <2> HIDE DEF Fits
    <2> QED
      BY <1>sets, <1>11, <2>1
  <1>33. CASE PartialSnapshot(c, a)
    <2>1. \/ Fits("q_stat", "none")
          \/ Fits("q_finish", "not_eligible")
          \/ Fits("q_finish", "retryable_failure")
      BY <1>0, <1>sets, <1>33 DEF PartialSnapshot, At, Looks, FilePhases, PartialPhases,
         FlagInv, Gone, Intact
    <2> HIDE DEF Fits
    <2> QED
      BY <1>sets, <1>11, <2>1
  <1>34. CASE PartialStat(c, a)
    <2>1. \/ Fits("q_finish", "already_absent")
          \/ Fits("q_finish", "blocked")
          \/ Fits("q_unlink", "none")
          \/ Fits("q_finish", "not_eligible")
      BY <1>0, <1>sets, <1>34 DEF PartialStat, At, Looks, FilePhases, PartialPhases,
         FlagInv, Gone, Intact
    <2> HIDE DEF Fits
    <2> QED
      BY <1>sets, <1>11, <2>1
  <1>35. CASE PartialUnlink(c, a)
    <2>1. \/ Fits("q_finish", "already_absent")
          \/ Fits("q_finish", "removed")
      BY <1>0, <1>sets, <1>35 DEF PartialUnlink, At, FilePhases, PartialPhases, FlagInv,
         Gone, Intact, Files
    <2> HIDE DEF Fits
    <2> QED
      BY <1>sets, <1>11, <2>1
  <1>36. CASE Prepare(c, a)
    <2>1. Go(c, "p_call", "none") /\ cl[c].on = a /\ cl[c].phase = "prepare"
          /\ row' = [row EXCEPT ![a] = PreparedRow(row[a])]
      BY <1>36 DEF Prepare, At, PreparedRow, TypeOK
    <2>2. row'[a].eligible
      BY <1>0, <2>1, PreparedFields DEF TypeOK
    <2>3. /\ cl'[c].phase = "p_call" /\ cl'[c].on = cl[c].on /\ cl'[c].lane = cl[c].lane
          /\ cl'[c].fresh = cl[c].fresh /\ cl'[c].detached = cl[c].detached
      BY <1>members, <2>1, GoFields
    <2>4. /\ cl'[c].phase = "p_call" /\ cl'[c].on = a /\ cl'[c].lane = cl[c].lane
          /\ ~cl'[c].fresh /\ ~cl'[c].detached
      BY <1>0, <1>sets, <2>1, <2>3 DEF FlagInv
    <2>5. cl[c].lane = "imported" => (plan[a] # "none")'
      BY <1>0, <2>1 DEF CallInv, Lasts
    <2> QED
      BY <2>2, <2>4, <2>5 DEF FlagInv, CallInv, FilePhases, PartialPhases
  <1>37. CASE Mark(c, a)
    BY <1>10, <1>37, EndEffect DEF Mark
  <1>38. CASE ProviderRead(c, a)
    <2>1. cl[c].on = a /\ cl[c].phase = "p_call" /\ ~cl[c].fresh /\ ~cl[c].detached
      BY <1>0, <1>sets, <1>38 DEF ProviderRead, At, FlagInv
    <2>2. \/ AfterProvider(c, "already_absent") /\ ProviderDone(a)'
          \/ AfterProvider(c, "not_eligible")
          \/ ReadVersion(c, "p_claim")
      BY <1>0, <1>38 DEF ProviderRead, ProviderDone
    <2> QED
      BY <1>sets, <1>13, <1>15, <2>1, <2>2 DEF Gone, FilePhases
  <1>39. CASE ProviderClaim(c, a)
    <2>1. cl[c].on = a /\ cl[c].phase = "p_claim" /\ ~cl[c].detached
          /\ (Won(c, a, "p_snapshot") \/ AfterProvider(c, "claimed_elsewhere"))
      BY <1>0, <1>sets, <1>39 DEF ProviderClaim, At, FlagInv
    <2> QED
      BY <1>sets, <1>13, <1>14, <2>1 DEF Gone, FilePhases
  <1>40. CASE ProviderFinish(c, a)
    <2>1. cl[c].on = a /\ cl[c].phase = "p_finish" /\ ~cl[c].fresh /\ ~cl[c].detached
          /\ Finish(c, a, "provider", cl[c].result) /\ "provider" \in Obligation
      BY <1>0, <1>sets, <1>40 DEF ProviderFinish, At, FlagInv, Obligation
    <2>2. CASE Holds(c, a, "provider")
      <3>1. row'[a] = Settled(row[a], "provider", cl[c].result)
        BY <1>sets, <2>1, <2>2, FinishEffect
      <3>2. cl[c].result \in Gone => ProviderDone(a)'
        <4>1. row[a] \in Row /\ cl[c].result \in Result /\ "provider" \in Obligation
          BY <1>0, <1>sets, <2>1
        <4>2. row'[a].state["provider"] = SettledState(cl[c].result)
          BY <3>1, <4>1, SettledFields
        <4> QED
          BY <4>1, <4>2, SettledStates DEF ProviderDone
      <3>3. AfterProvider(c, cl[c].result)
        BY <1>40, <2>2 DEF ProviderFinish
      <3> QED
        BY <1>sets, <1>13, <2>1, <3>2, <3>3 DEF FilePhases
    <2>3. CASE ~Holds(c, a, "provider")
      <3>1. AfterProvider(c, "claimed_elsewhere")
        BY <1>40, <2>3 DEF ProviderFinish
      <3> QED
        BY <1>sets, <1>13, <2>1, <3>1 DEF Gone, FilePhases
    <2> QED
      BY <2>2, <2>3
  <1>41. CASE FileRead(c, a)
    <2>1. cl[c].on = a /\ cl[c].phase = "f_call" /\ ~cl[c].detached
          /\ (Close(c, "already_absent") \/ Close(c, "not_eligible") \/ ReadVersion(c, "f_claim"))
      BY <1>0, <1>sets, <1>41 DEF FileRead, At, FlagInv
    <2> QED
      BY <1>sets, <1>12, <1>15, <2>1
  <1>42. CASE FileClaim(c, a)
    <2>1. cl[c].on = a /\ cl[c].phase = "f_claim" /\ ~cl[c].detached
          /\ (Won(c, a, "f_look") \/ Close(c, "claimed_elsewhere"))
      BY <1>0, <1>sets, <1>42 DEF FileClaim, At, FlagInv
    <2> QED
      BY <1>sets, <1>12, <1>14, <2>1
  <1>43. CASE FileFinish(c, a)
    <2>1. cl[c].on = a /\ cl[c].phase = "f_finish"
          /\ \/ End(c)
             \/ ~cl[c].detached /\ (Close(c, cl[c].result) \/ Close(c, "claimed_elsewhere"))
      BY <1>43 DEF FileFinish, At
    <2> QED
      BY <1>sets, <1>10, <1>12, <2>1, EndEffect
  <1>44. CASE PartialRead(c, a)
    <2>1. cl[c].on = a /\ cl[c].phase = "q_call"
      BY <1>44 DEF PartialRead, At
    <2>2. CASE End(c)
      BY <1>10, <2>2, EndEffect
    <2>3. CASE ReadVersion(c, "q_claim") /\ FileReady(row[a])
      BY <1>15, <2>1, <2>3 DEF FileReady, ProviderDone
    <2> QED
      BY <1>44, <2>2, <2>3 DEF PartialRead
  <1>45. CASE PartialClaim(c, a)
    <2>1. cl[c].on = a /\ cl[c].phase = "q_claim" /\ (Won(c, a, "q_snapshot") \/ End(c))
      BY <1>45 DEF PartialClaim, At
    <2> QED
      BY <1>10, <1>14, <2>1, EndEffect
  <1>46. CASE PartialFinish(c, a)
    BY <1>10, <1>46, EndEffect DEF PartialFinish
  <1>47. CASE CancelThread(c, a)
    <2>1. cl' = [cl EXCEPT ![c] = [cl[c] EXCEPT !.detached = TRUE]]
          /\ cl[c].on = a /\ cl[c].phase \in ThreadPhases
      BY <1>47 DEF CancelThread, TypeOK
    <2>2. /\ cl'[c].phase = cl[c].phase /\ cl'[c].result = cl[c].result /\ cl'[c].on = a
          /\ cl'[c].lane = cl[c].lane /\ cl'[c].fresh = cl[c].fresh
      BY <1>0, <2>1 DEF Call, TypeOK
    <2>3. CallInv(c, a)'
      BY <1>0, <2>1, <2>2, CallLasts
    <2> QED
      BY <1>0, <2>1, <2>2, <2>3 DEF FlagInv, CallInv
  <1> QED
    BY <1>16, <1>17, <1>18, <1>19, <1>20, <1>21, <1>22, <1>23, <1>24, <1>25, <1>26,
       <1>27, <1>28, <1>29, <1>30, <1>31, <1>32, <1>33, <1>34, <1>35, <1>36, <1>37,
       <1>38, <1>39, <1>40, <1>41, <1>42, <1>43, <1>44, <1>45, <1>46, <1>47 DEF
       CallStep

(* The other calls are left alone, but for the version they have read.     *)
LEMMA OtherCalls ==
    ASSUME TypeOK, NEW c \in Cleaner, NEW a \in Attempt, CallStep(c, a),
           NEW d \in Cleaner, d # c
    PROVE  /\ cl'[d].on = cl[d].on /\ cl'[d].lane = cl[d].lane
           /\ cl'[d].phase = cl[d].phase /\ cl'[d].result = cl[d].result
           /\ cl'[d].detached = cl[d].detached /\ (cl'[d].fresh => cl[d].fresh)
  <1>0. /\ \A x \in Cleaner : cl[x] \in Call
        /\ Result = {"none", "removed", "quarantined", "already_absent", "blocked",
                     "retryable_failure", "claimed_elsewhere", "not_eligible"}
        /\ cl[c].result \in Result
    BY DEF TypeOK, Call, Result
  <1>phases. \A p \in ThreadPhases \cup {"p_call", "p_snapshot", "p_remove", "p_verify",
              "p_finish", "f_call", "f_finish", "q_call", "q_snapshot", "q_finish", "prepare",
              "p_claim", "f_claim", "q_claim", "mark"} : p \in Phase
    BY DEF Phase, ActingPhases
  <1> DEFINE Alike == cl'[d] = cl[d] \/ cl'[d] = [cl[d] EXCEPT !.fresh = FALSE]
  <1>1. SUFFICES Alike
    BY <1>0 DEF Call
  <1>2. ASSUME NEW p \in Phase, NEW result \in Result, Go(c, p, result) PROVE Alike
    BY <1>2 DEF Go, TypeOK
  <1>3. ASSUME End(c) PROVE Alike
    BY <1>3 DEF End, TypeOK
  <1>4. ASSUME NEW result \in Result, Close(c, result) PROVE Alike
    BY <1>4, CloseEffect
  <1>5. ASSUME NEW result \in Result, AfterProvider(c, result) PROVE Alike
    BY <1>5, AfterProviderEffect
  <1>6. ASSUME NEW p \in Phase, ReadVersion(c, p) PROVE Alike
    BY <1>6, ReadEffect
  <1>7. ASSUME NEW p \in Phase, Won(c, a, p) PROVE Alike
    BY <1>7, WonEffect
  <1>8. CASE SweepProvider(c, a)
    BY <1>0, <1>phases, <1>8 DEF SweepProvider, Start, TypeOK
  <1>9. CASE SweepPartial(c, a)
    BY <1>0, <1>phases, <1>9 DEF SweepPartial, Start, TypeOK
  <1>10. CASE TakeImported(c, a)
    BY <1>0, <1>phases, <1>10 DEF TakeImported, Start, TypeOK
  <1>11. CASE Prepare(c, a)
    BY <1>0, <1>phases, <1>2, <1>11 DEF Prepare, ThreadPhases
  <1>12. CASE Mark(c, a)
    BY <1>0, <1>phases, <1>3, <1>4, <1>12 DEF Mark
  <1>13. CASE ProviderRead(c, a)
    BY <1>0, <1>phases, <1>6, <1>5, <1>13 DEF ProviderRead
  <1>14. CASE ProviderClaim(c, a)
    BY <1>0, <1>phases, <1>7, <1>5, <1>14 DEF ProviderClaim, ThreadPhases
  <1>15. CASE ProviderSnapshot(c, a)
    BY <1>0, <1>phases, <1>2, <1>15 DEF ProviderSnapshot, ThreadPhases
  <1>16. CASE ProviderMismatch(c, a)
    BY <1>0, <1>phases, <1>2, <1>16 DEF ProviderMismatch, ThreadPhases
  <1>17. CASE ProviderRemove(c, a)
    BY <1>0, <1>phases, <1>2, <1>17 DEF ProviderRemove, ThreadPhases
  <1>18. CASE ProviderVerify(c, a)
    BY <1>0, <1>phases, <1>2, <1>18 DEF ProviderVerify, ThreadPhases
  <1>19. CASE ProviderErrs(c, a)
    BY <1>0, <1>phases, <1>2, <1>19 DEF ProviderErrs, ThreadPhases
  <1>20. CASE ProviderFinish(c, a)
    BY <1>0, <1>phases, <1>5, <1>20 DEF ProviderFinish
  <1>21. CASE FileRead(c, a)
    BY <1>0, <1>phases, <1>4, <1>6, <1>21 DEF FileRead
  <1>22. CASE FileClaim(c, a)
    BY <1>0, <1>phases, <1>7, <1>4, <1>22 DEF FileClaim, ThreadPhases
  <1>23. CASE FileLook(c, a)
    BY <1>0, <1>phases, <1>2, <1>23 DEF FileLook, Looks, ThreadPhases
  <1>24. CASE FileSource(c, a)
    BY <1>0, <1>phases, <1>2, <1>24 DEF FileSource, Looks, ThreadPhases
  <1>25. CASE FileMove(c, a)
    BY <1>0, <1>phases, <1>2, <1>25 DEF FileMove, ThreadPhases
  <1>26. CASE FileValidate(c, a)
    BY <1>0, <1>phases, <1>2, <1>26 DEF FileValidate, Looks, ThreadPhases
  <1>27. CASE FileRestore(c, a)
    BY <1>0, <1>phases, <1>2, <1>27 DEF FileRestore, ThreadPhases
  <1>28. CASE FileOpen(c, a)
    BY <1>0, <1>phases, <1>2, <1>28 DEF FileOpen, Looks, ThreadPhases
  <1>29. CASE FileErase(c, a)
    BY <1>0, <1>phases, <1>2, <1>29 DEF FileErase, ThreadPhases
  <1>30. CASE FileConfirm(c, a)
    BY <1>0, <1>phases, <1>2, <1>30 DEF FileConfirm, Looks, ThreadPhases
  <1>31. CASE FileErrs(c, a)
    BY <1>0, <1>phases, <1>2, <1>31 DEF FileErrs, Looks, ThreadPhases
  <1>32. CASE FileFinish(c, a)
    BY <1>0, <1>phases, <1>3, <1>4, <1>32 DEF FileFinish
  <1>33. CASE PartialRead(c, a)
    BY <1>0, <1>phases, <1>6, <1>3, <1>33 DEF PartialRead
  <1>34. CASE PartialClaim(c, a)
    BY <1>0, <1>phases, <1>7, <1>3, <1>34 DEF PartialClaim, ThreadPhases
  <1>35. CASE PartialSnapshot(c, a)
    BY <1>0, <1>phases, <1>2, <1>35 DEF PartialSnapshot, Looks, ThreadPhases
  <1>36. CASE PartialStat(c, a)
    BY <1>0, <1>phases, <1>2, <1>36 DEF PartialStat, Looks, ThreadPhases
  <1>37. CASE PartialUnlink(c, a)
    BY <1>0, <1>phases, <1>2, <1>37 DEF PartialUnlink, ThreadPhases
  <1>38. CASE PartialFinish(c, a)
    BY <1>0, <1>phases, <1>3, <1>38 DEF PartialFinish
  <1>39. CASE CancelThread(c, a)
    BY <1>0, <1>phases, <1>39 DEF CancelThread, TypeOK
  <1> QED
    BY <1>8, <1>9, <1>10, <1>11, <1>12, <1>13, <1>14, <1>15, <1>16, <1>17, <1>18,
       <1>19, <1>20, <1>21, <1>22, <1>23, <1>24, <1>25, <1>26, <1>27, <1>28, <1>29,
       <1>30, <1>31, <1>32, <1>33, <1>34, <1>35, <1>36, <1>37, <1>38, <1>39 DEF
       CallStep

(* The invariant holds throughout. *)
LEMMA InvariantInductive ==
    ASSUME TypeOK, CleanupInv, [Next]_vars
    PROVE  CleanupInv'
  <1>1. ASSUME NEW b \in Attempt
        PROVE  RowInv(b)' /\ DiskInv(b)' /\ Lasts(b) /\ DiskStep(b)
    <2>1. RowStep(b) /\ DiskStep(b) /\ (plan[b] # "none" => plan'[b] # "none")
      BY StepEffects
    <2>2. /\ RowInv(b)' /\ (ProviderDone(b) => ProviderDone(b)')
          /\ row[b].eligible \/ FileDone(b) => (row[b].eligible \/ FileDone(b))'
          /\ FileDone(b)' => FileDone(b) \/ ~Intact(b, "source")
      BY <2>1, RowKept
    <2>3. Lasts(b)
      BY <2>1, <2>2 DEF Lasts
    <2>4. DiskInv(b)'
      BY <2>1, <2>2, <2>3 DEF DiskInv, DiskStep, Lasts, CleanupInv
    <2> QED
      BY <2>1, <2>2, <2>3, <2>4
  <1>2. ASSUME NEW d \in Cleaner
        PROVE  FlagInv(d)' /\ \A b \in Attempt : CallInv(d, b)'
    <2> DEFINE Kept == FlagInv(d)' /\ \A b \in Attempt : CallInv(d, b)'
    <2>0. FlagInv(d) /\ \A b \in Attempt : CallInv(d, b)
      BY DEF CleanupInv
    <2>1. ASSUME cl'[d].on = cl[d].on, cl'[d].lane = cl[d].lane, cl'[d].phase = cl[d].phase,
                 cl'[d].result = cl[d].result, cl'[d].detached = cl[d].detached,
                 cl'[d].fresh => cl[d].fresh
          PROVE  Kept
      <3>1. FlagInv(d)'
        BY <2>0, <2>1 DEF FlagInv
      <3>2. \A b \in Attempt : CallInv(d, b)'
        BY <1>1, <2>0, <2>1, CallLasts
      <3> QED
        BY <3>1, <3>2
    <2>2. ASSUME NEW c \in Cleaner, NEW a \in Attempt, CallStep(c, a) PROVE Kept
      <3>1. CASE d = c
        BY <1>1, <2>2, <3>1, ActingCall
      <3>2. CASE d # c
        BY <2>1, <2>2, <3>2, OtherCalls
      <3> QED
        BY <3>1, <3>2
    <2>3. CASE cl' = cl
      BY <2>1, <2>3
    <2>4. CASE Crash
      <3>1. cl'[d] = IdleCall
        BY <2>4 DEF Crash
      <3> QED
        BY <3>1, CleanupAssumption DEF IdleCall, FlagInv, CallInv
    <2> QED
      BY <2>2, <2>3, <2>4
      DEF Next, Import, LeaseLapses, RetryComesDue, Replace, vars
  <1> QED
    BY <1>1, <1>2 DEF CleanupInv

LEMMA InvariantInitially == Init => CleanupInv
  <1> SUFFICES ASSUME Init PROVE CleanupInv
    OBVIOUS
  <1>1. ASSUME NEW a \in Attempt PROVE RowInv(a) /\ DiskInv(a)
    BY DEF Init, NewRow, RowInv, DiskInv, Obligation, ProviderDone, FileDone
  <1>2. ASSUME NEW c \in Cleaner PROVE FlagInv(c) /\ \A a \in Attempt : CallInv(c, a)
    BY CleanupAssumption DEF Init, IdleCall, FlagInv, CallInv
  <1> QED
    BY <1>1, <1>2 DEF CleanupInv

LEMMA InvariantHolds == Spec => [](TypeOK /\ CleanupInv)
  <1>1. Init => CleanupInv
    BY InvariantInitially
  <1>2. TypeOK /\ CleanupInv /\ [Next]_vars => CleanupInv'
    BY InvariantInductive
  <1> QED  BY <1>1, <1>2, CleanupTypeCorrect, PTL DEF Spec

-----------------------------------------------------------------------------
(* The theorems.                                                           *)

(* Whatever claims were lost on the way, a staged file is emptied only     *)
(* after its import and the removal of its transfer.                       *)
THEOREM FilesAreErasedInTurn == Spec => []ErasedInItsTurn
  <1>1. CleanupInv => ErasedInItsTurn
    BY DEF CleanupInv, DiskInv, ErasedInItsTurn, ProviderDone
  <1> QED  BY <1>1, InvariantHolds, PTL

(* No file call finds an attempt that is not ready, so that the block that *)
(* would clear somebody else's claim is not reached.                       *)
THEOREM FileCallsAreInTurn == Spec => []FileCallsFindTheirTurn
  <1>1. CleanupInv => FileCallsFindTheirTurn
    BY DEF CleanupInv, CallInv, FileCallsFindTheirTurn, At, FilePhases, FileReady,
           ProviderDone, FileDone
  <1> QED  BY <1>1, InvariantHolds, PTL

(* The artifact of a settled file obligation is gone from its name.        *)
THEOREM SettledFilesStayGone == Spec => []SettledFilesAreGone
  <1>1. CleanupInv => SettledFilesAreGone
    BY DEF CleanupInv, DiskInv, SettledFilesAreGone, FileDone
  <1> QED  BY <1>1, InvariantHolds, PTL

(* A call whose claim was taken over or given back settles nothing.        *)
THEOREM LostClaimsAreFenced == Spec => LostClaimsSettleNothing
  <1> DEFINE Fenced(c, a) ==
        cl[c].on = a /\ cl'[c] # cl[c] /\ cl[c].phase \in {"p_finish", "f_finish", "q_finish"}
          /\ (row[a].token # c \/ cl[c].detached) => row'[a] = row[a]
  <1>1. ASSUME TypeOK, TypeOK', CleanupInv, [Next]_vars, NEW c \in Cleaner, NEW a \in Attempt
        PROVE  Fenced(c, a)
    <2> SUFFICES ASSUME cl[c].on = a, cl'[c] # cl[c],
                        cl[c].phase \in {"p_finish", "f_finish", "q_finish"},
                        row[a].token # c \/ cl[c].detached
                 PROVE  row'[a] = row[a]
      OBVIOUS
    <2>0. /\ cl[c] \in Call /\ cl'[c] \in Call /\ ~cl[c].fresh
          /\ (cl[c].phase = "p_finish" => ~cl[c].detached)
          /\ "provider" \in Obligation /\ "file" \in Obligation
          /\ cl[c].result \in Result
      BY <1>1 DEF TypeOK, CleanupInv, FlagInv, ThreadPhases, Obligation, Call
    <2>1. ASSUME NEW d \in Cleaner, NEW b \in Attempt, CallStep(d, b)
          PROVE  row'[a] = row[a]
      <3>1. CASE d # c
        <4>1. cl'[c] = cl[c]
          <5>1. /\ cl'[c].on = cl[c].on /\ cl'[c].lane = cl[c].lane
                /\ cl'[c].phase = cl[c].phase /\ cl'[c].result = cl[c].result
                /\ cl'[c].detached = cl[c].detached /\ (cl'[c].fresh => cl[c].fresh)
            BY <1>1, <2>1, <3>1, OtherCalls
          <5> QED
            BY <2>0, <5>1 DEF Call
        <4> QED
          BY <4>1
      <3>2. CASE d = c
        <4>1. \/ ProviderFinish(c, b) \/ FileFinish(c, b) \/ PartialFinish(c, b)
              \/ row' = row
          BY <2>0, <2>1, <3>2
          DEF CallStep, At, Start, Looks, ThreadPhases,
              SweepProvider, SweepPartial, TakeImported, Prepare, Mark,
              ProviderRead, ProviderClaim, ProviderSnapshot, ProviderMismatch, ProviderRemove,
              ProviderVerify, ProviderErrs, FileRead, FileClaim, FileLook,
              FileSource, FileMove, FileValidate, FileRestore, FileOpen,
              FileErase, FileConfirm, FileErrs, PartialRead, PartialClaim,
              PartialSnapshot, PartialStat, PartialUnlink, CancelThread
        <4>2. CASE ProviderFinish(c, b)
          <5>1. b = a /\ Finish(c, a, "provider", cl[c].result) /\ ~Holds(c, a, "provider")
            BY <2>0, <4>2 DEF ProviderFinish, At, Holds
          <5> QED
            BY <1>1, <2>0, <5>1, FinishEffect
        <4>3. CASE FileFinish(c, b) \/ PartialFinish(c, b)
          <5>1. /\ b = a
                /\ row' = row \/ (~cl[c].detached /\ Finish(c, a, "file", cl[c].result))
            BY <4>3 DEF FileFinish, PartialFinish, At
          <5>2. ~cl[c].detached => ~Holds(c, a, "file")
            BY DEF Holds
          <5> QED
            BY <1>1, <2>0, <5>1, <5>2, FinishEffect
        <4> QED
          BY <4>1, <4>2, <4>3
      <3> QED
        BY <3>1, <3>2
    <2>2. CASE Crash
      BY <2>2 DEF Crash
    <2> QED
      BY <1>1, <2>1, <2>2 DEF Next, Import, LeaseLapses, RetryComesDue, Replace, vars
  <1>2. TypeOK /\ TypeOK' /\ CleanupInv /\ [Next]_vars
          => \A c \in Cleaner, a \in Attempt : Fenced(c, a)
    BY <1>1
  <1>3. TypeOK /\ TypeOK' /\ CleanupInv /\ [Next]_vars
          => [\A c \in Cleaner, a \in Attempt :
                LET finishes == /\ cl[c].on = a /\ cl'[c] # cl[c]
                                /\ cl[c].phase \in {"p_finish", "f_finish", "q_finish"}
                IN  finishes /\ (row[a].token # c \/ cl[c].detached) => row'[a] = row[a]]_vars
    BY <1>2
  <1> QED
    BY <1>3, InvariantHolds, PTL DEF Spec, LostClaimsSettleNothing

-----------------------------------------------------------------------------
(* Strangers.                                                              *)

(* What is unlinked by its name belongs to an attempt that has failed and  *)
(* of which nothing was imported: a partial file is of such an attempt,    *)
(* and only an import makes an attempt anything else.                      *)
FailedInv(a) ==
    /\ row[a].artifact = "partial" => row[a].outcome = "failed"
    /\ row[a].outcome = "failed" => plan[a] = "none"

WorkInv(c, a) ==
    cl[c].on = a =>
        /\ cl[c].phase \in {"prepare", "mark"} => plan[a] # "none"
        /\ cl[c].phase \in PartialPhases => row[a].outcome = "failed"

PartialInv == \A a \in Attempt : FailedInv(a) /\ \A c \in Cleaner : WorkInv(c, a)

(* How a call comes to its partial file, to a preparation and to a mark.   *)
Enters(c, a) ==
    /\ cl'[c].phase \in PartialPhases =>
          /\ cl'[c].on = a
          /\ row[a].artifact = "partial" \/ (cl[c].on = a /\ cl[c].phase \in PartialPhases)
    /\ cl'[c].phase = "prepare" => cl'[c].on = a /\ plan[a] # "none"
    /\ cl'[c].phase = "mark" =>
          /\ cl'[c].on = a /\ cl[c].on = a
          /\ cl[c].lane = "imported" \/ cl[c].phase \in FilePhases

LEMMA CallEnters ==
    ASSUME TypeOK, NEW c \in Cleaner, NEW a \in Attempt, CallStep(c, a)
    PROVE  Enters(c, a)
  <1>0. /\ cl \in [Cleaner -> Call] /\ cl[c] \in Call
        /\ Result = {"none", "removed", "quarantined", "already_absent", "blocked",
                     "retryable_failure", "claimed_elsewhere", "not_eligible"}
        /\ cl[c].result \in Result
    BY DEF TypeOK, Call, Result
  <1>phases. \A p \in ThreadPhases \cup {"p_call", "p_snapshot", "p_remove", "p_verify",
              "p_finish", "f_call", "f_finish", "q_call", "q_snapshot", "q_finish", "prepare",
              "p_claim", "f_claim", "q_claim", "mark"} : p \in Phase
    BY DEF Phase, ActingPhases
  <1>end. ASSUME End(c) PROVE Enters(c, a)
    BY <1>end, EndEffect DEF Enters, IdleCall, PartialPhases
  <1>go. ASSUME NEW p \in Phase, NEW result \in Result, Go(c, p, result), cl[c].on = a,
                p \notin {"prepare", "mark"}, p \in PartialPhases => cl[c].phase \in PartialPhases
         PROVE  Enters(c, a)
    BY <1>go, GoFields DEF Enters
  <1>close. ASSUME NEW result \in Result, Close(c, result), cl[c].on = a,
                   cl[c].lane = "imported" \/ cl[c].phase \in FilePhases
            PROVE  Enters(c, a)
    <2>1. cl'[c].phase = "mark" /\ cl'[c].on = a
      <3>1. PICK res \in Result : cl'[c] = [cl[c] EXCEPT !.phase = "mark", !.result = res]
        BY <1>close, CloseEffect
      <3>2. cl[c] \in Call /\ cl[c].on = a
        BY <1>0, <1>close
      <3> QED
        BY <3>1, <3>2 DEF Call
    <2> QED
      BY <1>close, <2>1 DEF Enters, PartialPhases
  <1>after. ASSUME NEW result \in Result, AfterProvider(c, result), cl[c].on = a
            PROVE  Enters(c, a)
    <2>1. CASE cl[c].lane = "sweep"
      BY <1>after, <1>end, <2>1 DEF AfterProvider
    <2>2. CASE cl[c].lane = "imported" /\ result \in Gone
      BY <1>0, <1>phases, <1>after, <1>go, <2>2 DEF AfterProvider, PartialPhases
    <2>3. CASE cl[c].lane = "imported" /\ result \notin Gone
      BY <1>after, <1>close, <2>3 DEF AfterProvider
    <2> QED
      BY <1>0, <2>1, <2>2, <2>3 DEF Call
  <1>read. ASSUME NEW p \in Phase, ReadVersion(c, p), cl[c].on = a, p \notin {"prepare", "mark"},
                  p \in PartialPhases => row[a].artifact = "partial"
           PROVE  Enters(c, a)
    <2>1. cl'[c].phase = p /\ cl'[c].on = a
      <3>1. cl'[c] = [cl[c] EXCEPT !.phase = p, !.fresh = TRUE]
        BY <1>read, ReadEffect
      <3>2. cl[c] \in Call /\ cl[c].on = a
        BY <1>0, <1>read
      <3> QED
        BY <3>1, <3>2 DEF Call
    <2> QED
      BY <1>read, <2>1 DEF Enters
  <1>won. ASSUME NEW p \in Phase, Won(c, a, p), cl[c].on = a, p \notin {"prepare", "mark"},
                 p \in PartialPhases => cl[c].phase \in PartialPhases
          PROVE  Enters(c, a)
    <2>1. cl'[c].phase = p /\ cl'[c].on = a
      <3>1. cl'[c] = [cl[c] EXCEPT !.phase = p, !.fresh = FALSE]
        BY <1>won, WonEffect
      <3>2. cl[c] \in Call /\ cl[c].on = a
        BY <1>0, <1>won
      <3> QED
        BY <3>1, <3>2 DEF Call
    <2> QED
      BY <1>won, <2>1 DEF Enters
  <1>1. CASE SweepProvider(c, a) \/ SweepPartial(c, a)
    <2>1. PICK p \in {"p_call", "q_call"} : Start(c, a, "sweep", p)
      BY <1>1 DEF SweepProvider, SweepPartial
    <2>2. cl'[c].phase = p
      <3>1. p \in Phase
        BY <1>phases
      <3>2. cl'[c] = [phase |-> p, on |-> a, lane |-> "sweep", result |-> "none",
                      fresh |-> FALSE, detached |-> FALSE]
        BY <2>1, <3>1, StartEffect
      <3> QED
        BY <3>2
    <2> QED
      BY <2>1, <2>2 DEF Enters, PartialPhases
  <1>2. CASE TakeImported(c, a)
    <2>1. cl'[c].phase = "prepare" /\ cl'[c].on = a
      <3>1. "prepare" \in Phase /\ Start(c, a, "imported", "prepare")
        BY <1>phases, <1>2 DEF TakeImported
      <3>2. cl'[c] = [phase |-> "prepare", on |-> a, lane |-> "imported", result |-> "none",
                      fresh |-> FALSE, detached |-> FALSE]
        BY <3>1, StartEffect
      <3> QED
        BY <3>2
    <2> QED
      BY <1>2, <2>1 DEF Enters, PartialPhases, TakeImported
  <1>3. CASE Prepare(c, a)
    BY <1>0, <1>phases, <1>3, <1>go DEF Prepare, At, PartialPhases
  <1>4. CASE Mark(c, a)
    BY <1>4, <1>end DEF Mark
  <1>5. CASE ProviderRead(c, a)
    BY <1>0, <1>phases, <1>5, <1>after, <1>read DEF ProviderRead, At, PartialPhases
  <1>6. CASE ProviderClaim(c, a)
    BY <1>0, <1>phases, <1>6, <1>after, <1>won DEF ProviderClaim, At, PartialPhases
  <1>7. CASE \/ ProviderSnapshot(c, a) \/ ProviderMismatch(c, a) \/ ProviderRemove(c, a)
             \/ ProviderVerify(c, a) \/ ProviderErrs(c, a)
    BY <1>0, <1>phases, <1>7, <1>go DEF ProviderSnapshot, ProviderMismatch, ProviderRemove,
       ProviderVerify, ProviderErrs, At, PartialPhases
  <1>8. CASE ProviderFinish(c, a)
    BY <1>0, <1>8, <1>after DEF ProviderFinish, At
  <1>9. CASE FileRead(c, a)
    BY <1>0, <1>phases, <1>9, <1>close, <1>read DEF FileRead, At, PartialPhases, FilePhases
  <1>10. CASE FileClaim(c, a)
    BY <1>0, <1>phases, <1>10, <1>close, <1>won DEF FileClaim, At, PartialPhases, FilePhases,
       ThreadPhases
  <1>11. CASE FileLook(c, a) \/ FileSource(c, a) \/ FileValidate(c, a) \/ FileOpen(c, a)
              \/ FileConfirm(c, a) \/ FileErrs(c, a)
    BY <1>0, <1>phases, <1>11, <1>go DEF FileLook, FileSource, FileValidate, FileOpen, FileConfirm,
       FileErrs, Looks, At, PartialPhases, ThreadPhases
  <1>12. CASE FileMove(c, a) \/ FileRestore(c, a) \/ FileErase(c, a)
    BY <1>0, <1>phases, <1>12, <1>go DEF FileMove, FileRestore, FileErase, At, PartialPhases,
       ThreadPhases
  <1>13. CASE FileFinish(c, a)
    BY <1>0, <1>13, <1>end, <1>close DEF FileFinish, At, FilePhases
  <1>14. CASE PartialRead(c, a)
    BY <1>phases, <1>14, <1>end, <1>read DEF PartialRead, At
  <1>15. CASE PartialClaim(c, a)
    BY <1>phases, <1>15, <1>end, <1>won DEF PartialClaim, At, PartialPhases
  <1>16. CASE PartialSnapshot(c, a) \/ PartialStat(c, a) \/ PartialUnlink(c, a)
    BY <1>0, <1>phases, <1>16, <1>go DEF PartialSnapshot, PartialStat, PartialUnlink, Looks, At,
       PartialPhases, ThreadPhases
  <1>17. CASE PartialFinish(c, a)
    BY <1>17, <1>end DEF PartialFinish
  <1>18. CASE CancelThread(c, a)
    <2>1. /\ cl'[c].phase = cl[c].phase /\ cl'[c].on = a /\ cl[c].on = a
          /\ cl[c].phase \in ThreadPhases
      BY <1>0, <1>18 DEF CancelThread, Call
    <2> QED
      BY <2>1 DEF Enters, ThreadPhases
  <1> QED
    BY <1>1, <1>2, <1>3, <1>4, <1>5, <1>6, <1>7, <1>8, <1>9, <1>10, <1>11, <1>12, <1>13, <1>14,
       <1>15, <1>16, <1>17, <1>18 DEF CallStep

(* A failed attempt stays one, and no other becomes one or has a partial   *)
(* file.                                                                   *)
LEMMA OutcomesLast ==
    ASSUME TypeOK, PartialInv, NEW a \in Attempt, RowStep(a)
    PROVE  /\ row'[a].outcome = "failed" <=> row[a].outcome = "failed"
           /\ row'[a].artifact = "partial" => row[a].artifact = "partial"
  <1>0. row[a] \in Row
    BY DEF TypeOK
  <1>1. ASSUME NEW c, NEW what, row'[a] = Claimed(row[a], c, what)
        PROVE  row'[a].outcome = row[a].outcome /\ row'[a].artifact = row[a].artifact
    BY <1>0, <1>1 DEF Claimed, Row
  <1>2. ASSUME NEW what, NEW result, row'[a] = Settled(row[a], what, result)
        PROVE  /\ row'[a].outcome = row[a].outcome
               /\ row'[a].artifact = "partial" => row[a].artifact = "partial"
    <2>1. /\ Settled(row[a], what, result).outcome = row[a].outcome
          /\ Settled(row[a], what, result).artifact \in {"missing", row[a].artifact}
      BY <1>0 DEF Settled, Row
    <2> QED
      BY <1>2, <2>1
  <1>3. ASSUME row'[a] = PreparedRow(row[a]), \E c \in Cleaner : cl[c].on = a /\ cl[c].phase = "prepare"
        PROVE  row[a].outcome # "failed" /\ row'[a].outcome # "failed" /\ row'[a].artifact # "partial"
    <2>1. row'[a].outcome = "imported" /\ row'[a].artifact = "imported"
      BY <1>0, <1>3 DEF PreparedRow, Row
    <2>2. row[a].outcome # "failed"
      BY <1>3 DEF PartialInv, WorkInv, FailedInv
    <2> QED
      BY <2>1, <2>2
  <1>4. ASSUME \/ row'[a] = [row[a] EXCEPT !.live = FALSE]
               \/ row'[a] = [row[a] EXCEPT !.later = {}]
        PROVE  row'[a].outcome = row[a].outcome /\ row'[a].artifact = row[a].artifact
    BY <1>0, <1>4 DEF Row
  <1>5. CASE row'[a] = row[a]
    BY <1>5
  <1> QED
    BY <1>1, <1>2, <1>3, <1>4, <1>5 DEF RowStep

(* Only an import owes a plan, and only a mark settles one.                *)
LEMMA PlansOfImports ==
    ASSUME TypeOK, CleanupInv, PartialInv, [Next]_vars, NEW a \in Attempt, row[a].outcome = "failed"
    PROVE  plan'[a] = "none"
  <1>0. plan \in [Attempt -> {"none", "owed", "done"}] /\ plan[a] = "none"
    BY DEF TypeOK, PartialInv, FailedInv
  <1>1. ASSUME NEW c \in Cleaner, NEW b \in Attempt, CallStep(c, b)
        PROVE  plan'[a] = "none"
    <2>1. CASE Mark(c, b)
      <3>1. b # a
        BY <1>0, <2>1 DEF Mark, At, PartialInv, WorkInv
      <3> QED
        BY <1>0, <2>1, <3>1 DEF Mark
    <2>2. CASE plan' = plan
      BY <1>0, <2>2
    <2> QED
      BY <1>1, <2>1, <2>2 DEF CallStep, SweepProvider, SweepPartial, TakeImported, Prepare,
         ProviderRead, ProviderClaim, ProviderSnapshot, ProviderMismatch, ProviderRemove,
         ProviderVerify, ProviderErrs, ProviderFinish, FileRead, FileClaim, FileLook, FileSource,
         FileMove, FileValidate, FileRestore, FileOpen, FileErase, FileConfirm, FileErrs,
         FileFinish, PartialRead, PartialClaim, PartialSnapshot, PartialStat, PartialUnlink,
         PartialFinish, CancelThread, Start, Looks
  <1>2. ASSUME NEW b \in Attempt, Import(b)
        PROVE  plan'[a] = "none"
    BY <1>0, <1>2 DEF Import
  <1>3. CASE plan' = plan
    BY <1>0, <1>3
  <1> QED
    BY <1>1, <1>2, <1>3 DEF Next, LeaseLapses, RetryComesDue, Replace, Crash, vars

LEMMA PartialInductive ==
    ASSUME TypeOK, CleanupInv, PartialInv, [Next]_vars
    PROVE  PartialInv'
  <1>1. ASSUME NEW a \in Attempt
        PROVE  /\ row'[a].outcome = "failed" <=> row[a].outcome = "failed"
               /\ FailedInv(a)'
               /\ plan[a] # "none" => plan'[a] # "none"
    <2>1. RowStep(a) /\ (plan[a] # "none" => plan'[a] # "none")
      BY StepEffects
    <2>2. /\ row'[a].outcome = "failed" <=> row[a].outcome = "failed"
          /\ row'[a].artifact = "partial" => row[a].artifact = "partial"
      BY <2>1, OutcomesLast
    <2>3. row[a].outcome = "failed" => plan'[a] = "none"
      BY PlansOfImports
    <2>4. row[a].artifact = "partial" => row[a].outcome = "failed"
      BY DEF PartialInv, FailedInv
    <2> QED
      BY <2>1, <2>2, <2>3, <2>4 DEF FailedInv
  <1>2. ASSUME NEW d \in Cleaner, NEW b \in Attempt
        PROVE  WorkInv(d, b)'
    <2>0. WorkInv(d, b)
      BY DEF PartialInv
    <2>1. ASSUME cl'[d].on = cl[d].on, cl'[d].phase = cl[d].phase
          PROVE  WorkInv(d, b)'
      BY <1>1, <2>0, <2>1 DEF WorkInv
    <2>2. ASSUME NEW c \in Cleaner, NEW a \in Attempt, CallStep(c, a)
          PROVE  WorkInv(d, b)'
      <3>1. CASE d # c
        BY <2>1, <2>2, <3>1, OtherCalls
      <3>2. CASE d = c
        <4>1. Enters(c, a) /\ FailedInv(a) /\ WorkInv(c, a) /\ CallInv(c, a)
          BY <2>2, CallEnters DEF PartialInv, CleanupInv
        <4>2. cl'[c].phase \in {"prepare", "mark"} => cl'[c].on = a /\ plan[a] # "none"
          BY <4>1 DEF Enters, CallInv
        <4>3. cl'[c].phase \in PartialPhases => cl'[c].on = a /\ row[a].outcome = "failed"
          BY <4>1 DEF Enters, FailedInv, WorkInv
        <4> QED
          BY <1>1, <3>2, <4>2, <4>3 DEF WorkInv
      <3> QED
        BY <3>1, <3>2
    <2>3. CASE cl' = cl
      BY <2>1, <2>3
    <2>4. CASE Crash
      <3>1. cl'[d] = IdleCall
        BY <2>4 DEF Crash
      <3> QED
        BY <3>1 DEF IdleCall, WorkInv, PartialPhases
    <2> QED
      BY <2>2, <2>3, <2>4 DEF Next, Import, LeaseLapses, RetryComesDue, Replace, vars
  <1> QED
    BY <1>1, <1>2 DEF PartialInv

LEMMA PartialHolds == Spec => []PartialInv
  <1>1. Init => PartialInv
    BY CleanupAssumption DEF Init, NewRow, IdleCall, PartialInv, FailedInv, WorkInv, PartialPhases
  <1>2. TypeOK /\ CleanupInv /\ PartialInv /\ [Next]_vars => PartialInv'
    BY PartialInductive
  <1> QED  BY <1>1, <1>2, InvariantHolds, PTL DEF Spec

(* Two entries that change places, or stay, are as many of each kind.      *)
LEMMA EntriesCounted ==
    ASSUME NEW a \in Attempt, NEW kind,
           \/ disk'[a].source = disk[a].source /\ disk'[a].quarantine = disk[a].quarantine
           \/ disk'[a].source = disk[a].quarantine /\ disk'[a].quarantine = disk[a].source
    PROVE  Cardinality(Entries(a, kind)') = Cardinality(Entries(a, kind))
  <1>1. CASE (disk[a].source = kind) <=> (disk[a].quarantine = kind)
    <2>1. Entries(a, kind)' = Entries(a, kind)
      BY <1>1 DEF Entries
    <2> QED
      BY <2>1
  <1>2. CASE ~((disk[a].source = kind) <=> (disk[a].quarantine = kind))
    <2>1. Entries(a, kind) \in {{"source"}, {"quarantine"}}
      BY <1>2 DEF Entries
    <2>2. Entries(a, kind)' \in {{"source"}, {"quarantine"}}
      BY <1>2 DEF Entries
    <2>3. \A S \in {{"source"}, {"quarantine"}} : Cardinality(S) = 1
      BY FS_Singleton
    <2> QED
      BY <2>1, <2>2, <2>3
  <1> QED
    BY <1>1, <1>2

(* A file that lies in the artifact's place, or that was put there while   *)
(* its cleanup was at work, keeps its directory entry: it is moved to the  *)
(* quarantine and back (_restore_quarantine_at), and only the partial file *)
(* of a failed attempt is unlinked by its name (_remove_owned_partial).    *)
THEOREM NoEntryIsRemoved == Spec => StrangersSurvive
  <1>1. ASSUME TypeOK, PartialInv, Next, NEW a \in Attempt, NEW kind \in {"artifact", "other"},
               row[a].outcome # "failed", ~Replace(a)
        PROVE  Cardinality(Entries(a, kind)') = Cardinality(Entries(a, kind))
    <2>0. disk \in [Attempt -> Files]
      BY <1>1 DEF TypeOK
    <2> DEFINE Moved ==
          \/ disk'[a].source = disk[a].source /\ disk'[a].quarantine = disk[a].quarantine
          \/ disk'[a].source = disk[a].quarantine /\ disk'[a].quarantine = disk[a].source
    <2>1. ASSUME NEW c \in Cleaner, NEW b \in Attempt, CallStep(c, b)
          PROVE  Moved
      <3>1. CASE FileMove(c, b)
        BY <2>0, <3>1 DEF FileMove, Files
      <3>2. CASE FileRestore(c, b)
        BY <2>0, <3>2 DEF FileRestore, Files
      <3>3. CASE FileErase(c, b)
        BY <2>0, <3>3 DEF FileErase, Files
      <3>4. CASE PartialUnlink(c, b)
        <4>1. b # a
          BY <1>1, <3>4 DEF PartialUnlink, At, PartialInv, WorkInv, PartialPhases
        <4> QED
          BY <2>0, <3>4, <4>1 DEF PartialUnlink
      <3>5. CASE disk' = disk
        BY <3>5
      <3> QED
        BY <2>1, <3>1, <3>2, <3>3, <3>4, <3>5 DEF CallStep, SweepProvider, SweepPartial,
           TakeImported, Prepare, Mark, ProviderRead, ProviderClaim, ProviderSnapshot,
           ProviderMismatch, ProviderRemove, ProviderVerify, ProviderErrs, ProviderFinish,
           FileRead, FileClaim, FileLook, FileSource, FileValidate, FileOpen, FileConfirm,
           FileErrs, FileFinish, PartialRead, PartialClaim, PartialSnapshot, PartialStat,
           PartialFinish, CancelThread, Start, Looks
    <2>2. ASSUME NEW b \in Attempt, Replace(b)
          PROVE  Moved
      <3>1. b # a
        BY <1>1, <2>2
      <3> QED
        BY <2>0, <2>2, <3>1 DEF Replace
    <2>3. Moved
      BY <1>1, <2>1, <2>2 DEF Next, Import, LeaseLapses, RetryComesDue, Crash
    <2> QED
      BY <2>3, EntriesCounted
  <1>2. TypeOK /\ PartialInv /\ [Next]_vars =>
          [\A a \in Attempt, kind \in {"artifact", "other"} :
             row[a].outcome # "failed" /\ ~Replace(a)
               => Cardinality(Entries(a, kind)') = Cardinality(Entries(a, kind))]_vars
    BY <1>1
  <1> QED
    BY <1>2, CleanupTypeCorrect, PartialHolds, PTL DEF Spec, StrangersSurvive

-----------------------------------------------------------------------------
(* The refinement.                                                         *)

(* A step changes one row at most. *)
LEMMA OneRow ==
    ASSUME TypeOK, CleanupInv, [Next]_vars, row' # row
    PROVE  \E a \in Attempt : \A b \in Attempt : b # a => row'[b] = row[b]
  <1>0. row \in [Attempt -> Row] /\ "provider" \in Obligation /\ "file" \in Obligation
        /\ "retryable_failure" \in Result
        /\ \A c \in Cleaner : cl[c].result \in Result
    BY DEF TypeOK, Obligation, Result, Call
  <1> DEFINE Only(a) == \A b \in Attempt : b # a => row'[b] = row[b]
  <1>1. ASSUME NEW c \in Cleaner, NEW a \in Attempt, CallStep(c, a) PROVE Only(a)
    <2>1. CASE row' = row
      BY <2>1
    <2>2. CASE Prepare(c, a)
      BY <1>0, <2>2 DEF Prepare
    <2>3. ASSUME NEW what \in Obligation, ClaimRow(a, c, what) PROVE Only(a)
      BY <2>3, ClaimEffect
    <2>4. ASSUME NEW what \in Obligation, NEW result \in Result, Finish(c, a, what, result)
          PROVE  Only(a)
      BY <2>4, FinishEffect
    <2>5. CASE FileRead(c, a)
      BY <1>0, <2>5 DEF FileRead
    <2> QED
      BY <1>0, <1>1, <2>1, <2>2, <2>3, <2>4, <2>5
      DEF CallStep, Start, Looks, SweepProvider, SweepPartial, TakeImported, Mark, ProviderRead,
          ProviderClaim, ProviderSnapshot, ProviderMismatch, ProviderRemove, ProviderVerify,
          ProviderErrs, ProviderFinish, FileClaim, FileLook, FileSource,
          FileMove, FileValidate, FileRestore, FileOpen, FileErase,
          FileConfirm, FileErrs, FileFinish, PartialRead, PartialClaim,
          PartialSnapshot, PartialStat, PartialUnlink, PartialFinish, CancelThread
  <1> QED
    BY <1>0, <1>1 DEF Next, Import, LeaseLapses, RetryComesDue, Replace, Crash, vars

Stage(r) == IF r.state["file"] = "completed" THEN "nothing"
            ELSE IF r.state["provider"] = "completed" THEN "file" ELSE "provider"

LEMMA RefinedStep ==
    ASSUME TypeOK, TypeOK', CleanupInv, CleanupInv', NEW a \in Attempt, RowStep(a),
           \A b \in Attempt : b # a => row'[b] = row[b]
    PROVE  [Promise!Next]_(Promise!vars)
  <1> DEFINE stage == [b \in Attempt |-> IF row[b].state["file"] = "completed" THEN "nothing"
                        ELSE IF row[b].state["provider"] = "completed" THEN "file" ELSE "provider"]
             holder == [b \in Attempt |-> row[b].token]
             fresh == [b \in Attempt |-> row[b].live]
  <1>0. /\ row[a] \in Row /\ row'[a] \in Row /\ RowInv(a) /\ RowInv(a)'
        /\ Obligation = {"provider", "file"}
    BY DEF TypeOK, CleanupInv, Obligation
  <1>1. /\ stage' = [stage EXCEPT ![a] = Stage(row'[a])]
        /\ holder' = [holder EXCEPT ![a] = row'[a].token]
        /\ fresh' = [fresh EXCEPT ![a] = row'[a].live]
        /\ stage[a] = Stage(row[a]) /\ holder[a] = row[a].token /\ fresh[a] = row[a].live
    BY DEF Stage
  <1>2. CASE Stage(row'[a]) = Stage(row[a]) /\ row'[a].token = row[a].token
             /\ row'[a].live = row[a].live
    <2>1. stage' = stage /\ holder' = holder /\ fresh' = fresh
      BY <1>1, <1>2
    <2> QED
      BY <2>1 DEF Promise!vars
  <1>3. ASSUME NEW c \in Cleaner, NEW what \in Obligation, cl[c].on = a,
               cl[c].phase \in ClaimPhases(what),
               Claimable(row[a], what), row'[a] = Claimed(row[a], c, what)
        PROVE  Promise!Take(a, c)
    <2>1. /\ row'[a].state[what] = "claimed"
          /\ \A w \in Obligation : w # what => row'[a].state[w] = row[a].state[w]
          /\ row'[a].token = c /\ row'[a].live
      BY <1>0, <1>3, ClaimedFields
    <2>2. what = "file" => ProviderDone(a)
      BY <1>3 DEF CleanupInv, CallInv, ClaimPhases, FilePhases, PartialPhases
    <2>3. row[a].token = None \/ ~row[a].live
      BY <1>0, <1>3, <2>2 DEF Claimable, RowInv, ProviderDone
    <2>4. Stage(row[a]) # "nothing" /\ Stage(row'[a]) = Stage(row[a])
      BY <1>0, <1>3, <2>1, <2>2 DEF Claimable, RowInv, ProviderDone, Stage
    <2>5. row'[a].live = TRUE
      BY <1>0, <2>1 DEF Row
    <2>6. /\ stage[a] # "nothing" /\ (holder[a] = None \/ ~fresh[a])
          /\ holder' = [holder EXCEPT ![a] = c] /\ fresh' = [fresh EXCEPT ![a] = TRUE]
          /\ stage' = stage
      BY <1>1, <2>1, <2>3, <2>4, <2>5
    <2> QED
      BY <2>6 DEF Promise!Take
  <1>4. ASSUME NEW what \in Obligation, NEW result \in Result,
               row[a].state[what] = "claimed", row'[a] = Settled(row[a], what, result)
        PROVE  Promise!Settle(a) \/ Promise!Fail(a)
    <2>1. /\ row'[a].state[what] = SettledState(result)
          /\ \A w \in Obligation : w # what => row'[a].state[w] = row[a].state[w]
          /\ row'[a].token = None /\ ~row'[a].live
      BY <1>0, <1>4, SettledFields
    <2>2. row[a].token # None /\ row'[a].live = FALSE
      BY <1>0, <1>4, <2>1 DEF RowInv, Row
    <2>3. \/ Stage(row'[a]) = Stage(row[a])
          \/ Stage(row[a]) = "provider" /\ Stage(row'[a]) = "file"
          \/ Stage(row[a]) = "file" /\ Stage(row'[a]) = "nothing"
      BY <1>0, <1>4, <2>1 DEF RowInv, ProviderDone, Stage
    <2>4. /\ holder[a] # None /\ holder' = [holder EXCEPT ![a] = None]
          /\ fresh' = [fresh EXCEPT ![a] = FALSE]
          /\ stage[a] = Stage(row[a]) /\ stage' = [stage EXCEPT ![a] = Stage(row'[a])]
      BY <1>1, <2>1, <2>2
    <2>5. CASE Stage(row'[a]) = Stage(row[a])
      BY <2>4, <2>5 DEF Promise!Fail, Promise!GiveBack
    <2>6. CASE Stage(row[a]) = "provider" /\ Stage(row'[a]) = "file"
      BY <2>4, <2>6 DEF Promise!Settle, Promise!GiveBack
    <2>7. CASE Stage(row[a]) = "file" /\ Stage(row'[a]) = "nothing"
      BY <2>4, <2>7 DEF Promise!Settle, Promise!GiveBack
    <2> QED
      BY <2>3, <2>5, <2>6, <2>7
  <1>5. CASE row'[a] = PreparedRow(row[a])
    BY <1>0, <1>2, <1>5, PreparedFields DEF Stage
  <1>6. CASE row'[a] = [row[a] EXCEPT !.live = FALSE]
    <2>1. row'[a].state = row[a].state /\ row'[a].token = row[a].token /\ row'[a].live = FALSE
      BY <1>0, <1>6 DEF Row
    <2>2. CASE row[a].live
      <3>1. Stage(row'[a]) = Stage(row[a]) /\ row[a].token # None
        BY <1>0, <2>1, <2>2 DEF RowInv, Stage
      <3>2. stage' = stage /\ holder' = holder
        BY <1>1, <2>1, <3>1
      <3>3. holder[a] # None /\ fresh' = [fresh EXCEPT ![a] = FALSE]
        BY <1>1, <2>1, <3>1
      <3>4. Promise!Lapse(a)
        BY <3>2, <3>3 DEF Promise!Lapse
      <3> QED
        BY <3>4 DEF Promise!Next
    <2>3. CASE ~row[a].live
      BY <1>0, <1>2, <2>1, <2>3 DEF Stage, Row
    <2> QED
      BY <2>2, <2>3
  <1>7. CASE row'[a] = [row[a] EXCEPT !.later = {}]
    <2>1. row'[a].state = row[a].state /\ row'[a].token = row[a].token
          /\ row'[a].live = row[a].live
      BY <1>0, <1>7 DEF Row
    <2> QED
      BY <1>2, <2>1 DEF Stage
  <1>8. CASE row'[a] = row[a]
    BY <1>2, <1>8
  <1>9. ASSUME NEW c \in Cleaner, Promise!Take(a, c) PROVE Promise!Next
    BY <1>9 DEF Promise!Next
  <1>10. Promise!Settle(a) \/ Promise!Fail(a) => Promise!Next
    BY DEF Promise!Next
  <1> HIDE DEF stage, holder, fresh
  <1> QED
    BY <1>3, <1>4, <1>5, <1>6, <1>7, <1>8, <1>9, <1>10 DEF RowStep, Holds

(* The claims of an attempt implement CleanupObligation. *)
THEOREM CleanupImplementsObligation == Spec => ImplementsObligation
  <1>1. Init => Promise!Init
    <2> SUFFICES ASSUME Init PROVE Promise!Init
      OBVIOUS
    <2>1. \A a \in Attempt : /\ row[a].state["file"] = "pending"
                            /\ row[a].state["provider"] = "pending"
                            /\ row[a].token = None /\ row[a].live = FALSE
      BY DEF Init, NewRow, Obligation
    <2> QED
      BY <2>1 DEF Promise!Init
  <1>2. ASSUME TypeOK, TypeOK', CleanupInv, CleanupInv', [Next]_vars
        PROVE  [Promise!Next]_(Promise!vars)
    <2>1. CASE row' = row
      BY <2>1 DEF Promise!vars
    <2>2. CASE row' # row
      <3>1. PICK a \in Attempt : \A b \in Attempt : b # a => row'[b] = row[b]
        BY <1>2, <2>2, OneRow
      <3>2. RowStep(a)
        BY <1>2, StepEffects
      <3> QED
        BY <1>2, <3>1, <3>2, RefinedStep
    <2> QED
      BY <2>1, <2>2
  <1>3. TypeOK /\ TypeOK' /\ CleanupInv /\ CleanupInv' /\ [Next]_vars
          => [Promise!Next]_(Promise!vars)
    BY <1>2
  <1> QED
    BY <1>1, <1>3, InvariantHolds, PTL DEF Spec, ImplementsObligation, Promise!Spec
=============================================================================
