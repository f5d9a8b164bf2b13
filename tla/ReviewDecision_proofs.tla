------------------------ MODULE ReviewDecision_proofs ------------------------
(***************************************************************************)
(* Theorems about ReviewDecision, for any items, schedulers, files and     *)
(* limits.                                                                 *)
(***************************************************************************)
EXTENDS ReviewDecision, TLAPS

-----------------------------------------------------------------------------
(* What a scheduler knows while it works.                                  *)

(* A verdict that is still to be applied.                                  *)
VerdictIsDue(state) ==
    /\ state.phase \in Judging => state.path \in Path
    /\ state.phase = "recheck" => state.bytes \in Good
    /\ state.phase = "apply" =>
           /\ state.verdict \in {"approved", "retry", "rejected"}
           /\ state.verdict = "approved" => state.bytes \in Good

(* An import under way is the one its item was approved for.               *)
ImportIsApproved(state) ==
    state.phase \in {"check", "plan", "place", "commit"} =>
        /\ state.path \in Path
        /\ IsApproved(state.item) /\ item[state.item].decision # None
        /\ state.bytes = item[state.item].decision.bytes

WorkersKnow ==
    \A w \in Worker : VerdictIsDue(worker[w]) /\ ImportIsApproved(worker[w])

(* The writer's lock protects the item that a denial is about.             *)
DenialIsPending == denial # None /\ ~denial.committed => IsPending(denial.item)

(* Only what is approved is dispatched.                                    *)
PendingIsUndispatched == \A i \in Item : IsPending(i) => item[i].dispatchToken = None

(* The inductive invariant.                                                *)
IInv ==
    /\ TypeOK /\ WorkersKnow /\ DenialIsPending /\ PendingIsUndispatched
    /\ OneReviewAtATime /\ OpenAttemptsAreHeld
    /\ ApprovedBytesAreGood /\ DispatchedBytesAreApproved

-----------------------------------------------------------------------------
(* Types.                                                                  *)

Outcomes == {"none", "approved", "retry", "rejected", "failed", "succeeded"}

WorkerTyped(state) ==
    /\ state \in WorkerState
    /\ state.phase # "idle" => state.item \in Item /\ state.token \in Token

(* The same claim, further on.                                             *)
SameClaim(state, w) ==
    /\ state.item = worker[w].item /\ state.token = worker[w].token
    /\ state.revision = worker[w].revision /\ state.path = worker[w].path

LEMMA PhaseMoves ==
    ASSUME TypeOK, NEW w \in Worker, worker[w].phase # "idle", NEW p \in Phase
    PROVE  LET state == [worker[w] EXCEPT !.phase = p]
           IN  /\ WorkerTyped(state) /\ SameClaim(state, w) /\ state.phase = p
               /\ state.bytes = worker[w].bytes /\ state.verdict = worker[w].verdict
  BY DEF WorkerTyped, SameClaim, TypeOK, WorkerState

LEMMA BytesMove ==
    ASSUME TypeOK, NEW w \in Worker, worker[w].phase # "idle", NEW p \in Phase, NEW b \in Bytes
    PROVE  LET state == [worker[w] EXCEPT !.phase = p, !.bytes = b]
           IN  /\ WorkerTyped(state) /\ SameClaim(state, w) /\ state.phase = p
               /\ state.bytes = b /\ state.verdict = worker[w].verdict
  BY ZenonT(60) DEF WorkerTyped, SameClaim, TypeOK, WorkerState

LEMMA MovedIsTyped ==
    ASSUME NEW w \in Worker, NEW state, WorkerTyped(state), TypeOK,
           worker' = [worker EXCEPT ![w] = state]
    PROVE  /\ worker' \in [Worker -> WorkerState]
           /\ \A u \in Worker : worker'[u].phase # "idle" =>
                  worker'[u].item \in Item /\ worker'[u].token \in Token
  BY DEF TypeOK, WorkerTyped

LEMMA WorkerOnlyIsTyped ==
    ASSUME NEW w \in Worker, NEW state, WorkerTyped(state), TypeOK, WorkerOnly(w, state)
    PROVE  TypeOK'
  BY MovedIsTyped DEF WorkerOnly, TypeOK, rows

LEMMA IdleIsTyped == WorkerTyped(Idle) /\ Idle.phase = "idle"
  BY DEF WorkerTyped, WorkerState, Idle, Phase, Bytes

(* What each judging or dispatching step makes of its scheduler.           *)
LEMMA PinMoves ==
    ASSUME TypeOK, WorkersKnow, NEW w \in Worker, Pin(w)
    PROVE  \E state : /\ WorkerOnly(w, state) /\ WorkerTyped(state) /\ SameClaim(state, w)
                      /\ \/ state.phase = "apply" /\ state.verdict = "rejected"
                         \/ state.phase = "evaluate"
<1>1. disk[worker[w].path] \in Bytes
  BY DEF TypeOK, Pin, WorkersKnow, VerdictIsDue, Judging
<1>2. CASE disk[worker[w].path] = None
  <2>1. LET state == [worker[w] EXCEPT !.phase = "apply", !.verdict = "rejected"]
        IN  /\ WorkerTyped(state) /\ SameClaim(state, w)
            /\ state.phase = "apply" /\ state.verdict = "rejected"
    <3>1. worker[w].phase # "idle" /\ "apply" \in Phase /\ "rejected" \in Outcomes
      BY DEF Pin, Phase, Judging, Outcomes
    <3> QED
      BY <3>1 DEF WorkerTyped, SameClaim, TypeOK, WorkerState, Outcomes
  <2> QED
    BY <1>2, <2>1 DEF Pin
<1>3. CASE disk[worker[w].path] # None
  <2>1. LET state == [worker[w] EXCEPT !.phase = "evaluate", !.bytes = disk[worker[w].path]]
        IN  WorkerTyped(state) /\ SameClaim(state, w) /\ state.phase = "evaluate"
    <3>1. worker[w].phase # "idle" /\ "evaluate" \in Phase
      BY DEF Pin, Phase, Judging
    <3> QED
      BY <1>1, <3>1, BytesMove, ZenonT(30)
  <2> QED
    BY <1>3, <2>1 DEF Pin
<1> QED
  BY <1>2, <1>3

LEMMA EvaluateMoves ==
    ASSUME TypeOK, NEW w \in Worker, Evaluate(w)
    PROVE  \/ WorkerOnly(w, Idle)
           \/ \E state : /\ WorkerOnly(w, state) /\ WorkerTyped(state) /\ SameClaim(state, w)
                         /\ \/ state.phase = "recheck" /\ state.bytes \in Good
                            \/ state.phase = "apply" /\ state.verdict \in {"retry", "rejected"}
<1> SUFFICES ASSUME NEW v \in Verdicts(worker[w].bytes),
                    WorkerOnly(w, [worker[w] EXCEPT !.verdict = v,
                        !.phase = IF v = "approved" THEN "recheck" ELSE "apply"])
             PROVE  \E state : /\ WorkerOnly(w, state) /\ WorkerTyped(state) /\ SameClaim(state, w)
                         /\ \/ state.phase = "recheck" /\ state.bytes \in Good
                            \/ state.phase = "apply" /\ state.verdict \in {"retry", "rejected"}
  BY DEF Evaluate
<1>1. v \in Outcomes /\ (v = "approved" => worker[w].bytes \in Good)
      /\ v \in {"approved", "retry", "rejected"}
  BY DEF Verdicts, Outcomes
<1> DEFINE phase == IF v = "approved" THEN "recheck" ELSE "apply"
<1>2. phase \in Phase /\ (v = "approved" => phase = "recheck") /\ (v # "approved" => phase = "apply")
  BY DEF Phase, Judging
<1>3. WorkerOnly(w, [worker[w] EXCEPT !.verdict = v, !.phase = phase])
  OBVIOUS
<1> HIDE DEF phase
<1>4. LET state == [worker[w] EXCEPT !.verdict = v, !.phase = phase]
      IN  /\ WorkerTyped(state) /\ SameClaim(state, w) /\ state.phase = phase
          /\ state.bytes = worker[w].bytes /\ state.verdict = v
  <2>1. worker[w].phase # "idle"
    BY DEF Evaluate
  <2> QED
    BY <1>1, <1>2, <2>1 DEF WorkerTyped, SameClaim, TypeOK, WorkerState, Outcomes
<1> QED
  BY <1>1, <1>2, <1>3, <1>4

LEMMA RecheckMoves ==
    ASSUME TypeOK, NEW w \in Worker, Recheck(w)
    PROVE  \E state : /\ WorkerOnly(w, state) /\ WorkerTyped(state) /\ SameClaim(state, w)
                      /\ state.phase = "apply" /\ state.verdict \in {"approved", "rejected"}
                      /\ state.bytes = worker[w].bytes
<1> DEFINE v == IF disk[worker[w].path] = worker[w].bytes THEN "approved" ELSE "rejected"
<1>1. v \in Outcomes /\ v \in {"approved", "rejected"}
  BY DEF Outcomes
<1>2. WorkerOnly(w, [worker[w] EXCEPT !.phase = "apply", !.verdict = v])
  BY DEF Recheck
<1> HIDE DEF v
<1>3. LET state == [worker[w] EXCEPT !.phase = "apply", !.verdict = v]
      IN  /\ WorkerTyped(state) /\ SameClaim(state, w) /\ state.phase = "apply"
          /\ state.bytes = worker[w].bytes /\ state.verdict = v
  <2>1. worker[w].phase # "idle" /\ "apply" \in Phase
    BY DEF Recheck, Phase, Judging
  <2> QED
    BY <1>1, <2>1 DEF WorkerTyped, SameClaim, TypeOK, WorkerState, Outcomes
<1> QED
  BY <1>1, <1>2, <1>3

LEMMA SettlingMoves ==
    ASSUME TypeOK, NEW w \in Worker, worker[w].phase # "idle", NEW v \in Outcomes
    PROVE  /\ WorkerTyped(Settling(w, v)) /\ SameClaim(Settling(w, v), w)
           /\ Settling(w, v).phase = "settle"
<1>1. "settle" \in Phase
  BY DEF Phase, Dispatching
<1> QED
  BY <1>1 DEF Settling, WorkerTyped, SameClaim, TypeOK, WorkerState, Outcomes

LEMMA CheckSourceMoves ==
    ASSUME TypeOK, NEW w \in Worker, CheckSource(w)
    PROVE  \E state : /\ WorkerOnly(w, state) /\ WorkerTyped(state) /\ SameClaim(state, w)
                      /\ \/ state.phase = "plan" /\ state.bytes = worker[w].bytes
                         \/ state.phase = "settle"
<1>1. CASE disk[worker[w].path] = worker[w].bytes
  <2>1. LET state == [worker[w] EXCEPT !.phase = "plan"]
        IN  /\ WorkerTyped(state) /\ SameClaim(state, w) /\ state.phase = "plan"
            /\ state.bytes = worker[w].bytes
    BY PhaseMoves DEF CheckSource, Phase, Dispatching
  <2> QED
    BY <1>1, <2>1 DEF CheckSource
<1>2. CASE disk[worker[w].path] # worker[w].bytes
  BY <1>2, SettlingMoves DEF CheckSource, Outcomes
<1> QED
  BY <1>1, <1>2

(* The three steps of an import: on to the next, or to the settlement.     *)
Onward(w, phase) ==
    \E state : /\ worker' = [worker EXCEPT ![w] = state]
               /\ WorkerTyped(state) /\ SameClaim(state, w)
               /\ \/ state.phase = phase /\ state.bytes = worker[w].bytes
                  \/ state.phase = "settle"

LEMMA PlanImportMoves ==
    ASSUME TypeOK, NEW w \in Worker, PlanImport(w)
    PROVE  Onward(w, "place")
<1>1. CASE worker' = [worker EXCEPT ![w] = [worker[w] EXCEPT !.phase = "place"]]
  <2>1. LET state == [worker[w] EXCEPT !.phase = "place"]
        IN  /\ WorkerTyped(state) /\ SameClaim(state, w) /\ state.phase = "place"
            /\ state.bytes = worker[w].bytes
    BY PhaseMoves DEF PlanImport, Phase, Dispatching
  <2> QED
    BY <1>1, <2>1 DEF Onward
<1>2. CASE worker' = [worker EXCEPT ![w] = Settling(w, "retry")]
  BY <1>2, SettlingMoves DEF PlanImport, Outcomes, Onward
<1> QED
  BY <1>1, <1>2 DEF PlanImport, TypeOK

LEMMA PlaceFileMoves ==
    ASSUME TypeOK, NEW w \in Worker, PlaceFile(w)
    PROVE  Onward(w, "commit")
<1>1. CASE worker' = [worker EXCEPT ![w] = [worker[w] EXCEPT !.phase = "commit"]]
  <2>1. LET state == [worker[w] EXCEPT !.phase = "commit"]
        IN  /\ WorkerTyped(state) /\ SameClaim(state, w) /\ state.phase = "commit"
            /\ state.bytes = worker[w].bytes
    BY PhaseMoves DEF PlaceFile, Phase, Dispatching
  <2> QED
    BY <1>1, <2>1 DEF Onward
<1>2. CASE worker' = [worker EXCEPT ![w] = Settling(w, "retry")]
  BY <1>2, SettlingMoves DEF PlaceFile, Outcomes, Onward
<1> QED
  BY <1>1, <1>2 DEF PlaceFile, TypeOK

LEMMA CommitImportMoves ==
    ASSUME TypeOK, NEW w \in Worker, CommitImport(w)
    PROVE  Onward(w, "commit")
  BY SettlingMoves DEF CommitImport, Outcomes, Onward

-----------------------------------------------------------------------------
(* What the steps make of the rows.                                        *)

(* All rows but one stay.                                                  *)
Others(i) == \A k \in Item : k # i => item'[k] = item[k]

Typed == item' \in [Item -> Row \cup {None}] /\ open' \in [Token -> Item \cup {None}]

LEMMA ClaimEffect ==
    ASSUME TypeOK, NEW w \in Worker, NEW i \in Item, Claim(w, i)
    PROVE  \E t \in Token :
              /\ IsPending(i) /\ Others(i) /\ item'[i] # None
              /\ item'[i].review = "pending" /\ item'[i].auto = "claimed" /\ item'[i].token = t
              /\ item'[i].dispatchToken = item[i].dispatchToken
              /\ open' = [ClosedAttempt(item[i].token) EXCEPT ![t] = i]
              /\ Typed
              /\ \E state : /\ worker' = [worker EXCEPT ![w] = state] /\ WorkerTyped(state)
                            /\ state.phase = "pin" /\ state.path \in Path
<1>1. PICK t \in Token :
         /\ item' = [item EXCEPT ![i].auto = "claimed", ![i].token = t, ![i].tries = @ + 1]
         /\ open' = [ClosedAttempt(item[i].token) EXCEPT ![t] = i]
         /\ worker' = [worker EXCEPT ![w] =
                  [Idle EXCEPT !.phase = "pin", !.item = i, !.token = t,
                               !.revision = item[i].revision, !.path = track.path]]
  BY DEF Claim
<1>2. item[i] \in Row /\ item[i] # None /\ item[i].review = "pending"
  BY DEF TypeOK, Claim, IsPending, Exists
<1> DEFINE row == [item[i] EXCEPT !.auto = "claimed", !.token = t, !.tries = item[i].tries + 1]
<1>3. /\ row \in Row /\ row.review = "pending" /\ row.auto = "claimed" /\ row.token = t
      /\ row.dispatchToken = item[i].dispatchToken
  <2>1. item[i].tries + 1 \in Nat
    BY <1>2 DEF Row
  <2> QED
    BY <1>2, <2>1 DEF Row, Undecided
<1>4. item' = [item EXCEPT ![i] = row]
  BY <1>1 DEF TypeOK
<1> HIDE DEF row
<1>5. row # None
  BY <1>3, NoneIsNoRow
<1>6. /\ Others(i) /\ item'[i] = row /\ item' \in [Item -> Row \cup {None}]
  BY <1>3, <1>4 DEF TypeOK, Others
<1>7. open' \in [Token -> Item \cup {None}]
  BY <1>1 DEF TypeOK, ClosedAttempt
<1> DEFINE state == [Idle EXCEPT !.phase = "pin", !.item = i, !.token = t,
                               !.revision = item[i].revision, !.path = track.path]
<1>8. WorkerTyped(state) /\ state.phase = "pin" /\ state.path \in Path
  BY <1>2 DEF WorkerTyped, WorkerState, Idle, Phase, Judging, Bytes, Row, Claim, TypeOK, Track
<1> QED
  BY <1>1, <1>2, <1>3, <1>5, <1>6, <1>7, <1>8, ZenonT(60) DEF Typed, Claim

LEMMA ClaimImportEffect ==
    ASSUME TypeOK, NEW w \in Worker, NEW i \in Item, ClaimImport(w, i)
    PROVE  \E t \in Token :
              /\ IsApproved(i) /\ Others(i) /\ item'[i] # None
              /\ item'[i].review = "approved" /\ item'[i].auto = item[i].auto
              /\ item'[i].decision = item[i].decision
              /\ item'[i].token = item[i].token /\ item'[i].dispatchToken = t
              /\ open' = [ClosedAttempt(item[i].dispatchToken) EXCEPT ![t] = i]
              /\ Typed
              /\ \E state : /\ worker' = [worker EXCEPT ![w] = state] /\ WorkerTyped(state)
                            /\ \/ state.phase = "settle"
                               \/ /\ state.phase = "check" /\ state.item = i
                                  /\ item[i].decision # None
                                  /\ state.path \in Path /\ state.bytes = item[i].decision.bytes
<1> DEFINE decision == item[i].decision
           sound == decision # None /\ decision.path = track.path
<1>1. PICK t \in Token :
         /\ item' = [item EXCEPT ![i].dispatch = "dispatching", ![i].dispatchToken = t]
         /\ open' = [ClosedAttempt(item[i].dispatchToken) EXCEPT ![t] = i]
         /\ worker' = [worker EXCEPT ![w] =
                  [Idle EXCEPT !.phase = IF sound THEN "check" ELSE "settle",
                               !.item = i, !.token = t,
                               !.path = IF sound THEN decision.path ELSE None,
                               !.bytes = IF sound THEN decision.bytes ELSE None,
                               !.verdict = IF sound THEN "none" ELSE "failed"]]
  BY DEF ClaimImport
<1>2. item[i] \in Row /\ item[i] # None /\ item[i].review = "approved" /\ IsApproved(i)
  BY DEF TypeOK, ClaimImport, MayDispatch, IsApproved, Exists
<1> DEFINE row == [item[i] EXCEPT !.dispatch = "dispatching", !.dispatchToken = t]
<1>3. /\ row \in Row /\ row.review = "approved" /\ row.auto = item[i].auto
      /\ row.decision = item[i].decision
      /\ row.token = item[i].token /\ row.dispatchToken = t
  BY <1>2 DEF Row, Undispatched
<1>4. item' = [item EXCEPT ![i] = row]
  BY <1>1 DEF TypeOK
<1> HIDE DEF row
<1>5. row # None
  BY <1>3, NoneIsNoRow
<1>6. /\ Others(i) /\ item'[i] = row /\ item' \in [Item -> Row \cup {None}]
  BY <1>3, <1>4 DEF TypeOK, Others
<1>7. open' \in [Token -> Item \cup {None}]
  BY <1>1 DEF TypeOK, ClosedAttempt
<1>8. decision \in Source \cup {None}
  BY <1>2 DEF Row
<1>9. \E state : /\ worker' = [worker EXCEPT ![w] = state] /\ WorkerTyped(state)
                 /\ \/ state.phase = "settle"
                    \/ /\ state.phase = "check" /\ state.item = i /\ decision # None
                       /\ state.path \in Path /\ state.bytes = decision.bytes
  <2>1. CASE sound
    <3> DEFINE state == [Idle EXCEPT !.phase = "check", !.item = i, !.token = t,
                              !.path = decision.path, !.bytes = decision.bytes, !.verdict = "none"]
    <3>1. decision \in Source /\ decision # None
      BY <1>8, <2>1
    <3>2. decision.path \in Path /\ decision.bytes \in Version
      BY <3>1 DEF Source, Bytes
    <3>3. worker' = [worker EXCEPT ![w] = state]
      BY <1>1, <2>1
    <3> HIDE DEF decision
    <3>4. /\ WorkerTyped(state) /\ state.phase = "check" /\ state.item = i
          /\ state.path \in Path /\ state.bytes = decision.bytes
      BY <3>2 DEF WorkerTyped, WorkerState, Idle, Phase, Dispatching, Bytes
    <3> QED
      BY <3>1, <3>3, <3>4
  <2>2. CASE ~sound
    <3> DEFINE state == [Idle EXCEPT !.phase = "settle", !.item = i, !.token = t,
                              !.path = None, !.bytes = None, !.verdict = "failed"]
    <3>1. worker' = [worker EXCEPT ![w] = state]
      BY <1>1, <2>2
    <3>2. WorkerTyped(state) /\ state.phase = "settle"
      BY DEF WorkerTyped, WorkerState, Idle, Phase, Dispatching, Bytes
    <3> QED
      BY <3>1, <3>2
  <2> QED
    BY <2>1, <2>2
<1> QED
  BY <1>1, <1>2, <1>3, <1>5, <1>6, <1>7, <1>9, ZenonT(60) DEF Typed, ClaimImport

LEMMA ApplyEffect ==
    ASSUME TypeOK, WorkersKnow, NEW w \in Worker, Apply(w)
    PROVE  /\ worker' = [worker EXCEPT ![w] = Idle]
           /\ \/ UNCHANGED <<item, open, track>>
              \/ \E i \in Item :
                    /\ IsPending(i) /\ Others(i) /\ item'[i] # None
                    /\ item[i].token = worker[w].token /\ item'[i].token = None
                    /\ item'[i].dispatchToken = item[i].dispatchToken
                    /\ item'[i].auto = "approved" =>
                           item'[i].decision # None /\ item'[i].decision.bytes \in Good
                    /\ open' = ClosedAttempt(item[i].token)
                    /\ Typed /\ track' \in Track /\ track'.verdict \in {track.verdict, "approved"}
<1> DEFINE i == worker[w].item
<1>1. i \in Item /\ worker[w].token \in Token /\ worker[w] \in WorkerState
  BY DEF TypeOK, Apply
<1>2. /\ worker[w].path \in Path /\ worker[w].verdict \in {"approved", "retry", "rejected"}
      /\ worker[w].verdict = "approved" => worker[w].bytes \in Good
  BY DEF WorkersKnow, VerdictIsDue, Apply, Judging
<1> SUFFICES ASSUME MayApply(w),
                    item' = [item EXCEPT ![i] = Decided(item[i], w)],
                    open' = ClosedAttempt(worker[w].token),
                    track' = IF worker[w].verdict = "approved"
                            THEN [track EXCEPT !.verdict = "approved"] ELSE track
             PROVE  \E k \in Item :
                    /\ IsPending(k) /\ Others(k) /\ item'[k] # None
                    /\ item[k].token = worker[w].token /\ item'[k].token = None
                    /\ item'[k].dispatchToken = item[k].dispatchToken
                    /\ item'[k].auto = "approved" =>
                           item'[k].decision # None /\ item'[k].decision.bytes \in Good
                    /\ open' = ClosedAttempt(item[k].token)
                    /\ Typed /\ track' \in Track /\ track'.verdict \in {track.verdict, "approved"}
  BY <1>1 DEF Apply, TypeOK
<1>3. IsPending(i) /\ item[i].token = worker[w].token /\ item[i] \in Row
  BY <1>1 DEF MayApply, HoldsClaim, IsPending, Exists, TypeOK
<1> DEFINE judged == IF worker[w].bytes = None THEN None
                     ELSE [path |-> worker[w].path, bytes |-> worker[w].bytes]
           auto == IF worker[w].verdict = "retry" /\ item[i].tries >= MaxAttempts THEN "failed"
                   ELSE worker[w].verdict
           review == IF worker[w].verdict = "approved" THEN "approved" ELSE item[i].review
           dispatch == IF worker[w].verdict = "approved" THEN "pending" ELSE item[i].dispatch
           row == Decided(item[i], w)
<1>4. /\ judged \in Source \cup {None}
      /\ worker[w].verdict = "approved" => judged # None /\ judged.bytes \in Good
  <2>1. worker[w].bytes \in Version \cup {None}
    BY <1>1 DEF WorkerState, Bytes
  <2>2. worker[w].bytes \in Good => worker[w].bytes # None
    BY ReviewAssumption
  <2>3. ASSUME worker[w].bytes # None
        PROVE  [path |-> worker[w].path, bytes |-> worker[w].bytes] \in Source
    BY <1>2, <2>1, <2>3 DEF Source, Bytes
  <2> QED
    BY <1>2, <2>1, <2>2, <2>3, NoneIsNoRow
<1>5. /\ auto \in {"approved", "retry", "rejected", "failed"}
      /\ auto = "approved" => worker[w].verdict = "approved"
  BY <1>2
<1>a. /\ review \in {"pending", "approved"}
      /\ dispatch \in Undispatched \cup {"none", "completed", "failed"}
  BY <1>3 DEF Row, Undispatched
<1>6. row = [item[i] EXCEPT !.token = None, !.decision = judged, !.review = review,
                            !.auto = auto, !.dispatch = dispatch]
  BY <1>3 DEF Decided, Row
<1> HIDE DEF judged, auto, review, dispatch, row
<1>7. /\ row \in Row /\ row.token = None /\ row.dispatchToken = item[i].dispatchToken
      /\ row.auto = auto /\ row.decision = judged
  BY <1>3, <1>4, <1>5, <1>6, <1>a DEF Row, Undecided
<1>8. item' = [item EXCEPT ![i] = row]
  BY DEF row
<1>9. Others(i) /\ item'[i] = row /\ item' \in [Item -> Row \cup {None}]
  BY <1>1, <1>7, <1>8 DEF TypeOK, Others
<1>10. open' \in [Token -> Item \cup {None}]
  BY DEF TypeOK, ClosedAttempt
<1>11. track' \in Track /\ track'.verdict \in {track.verdict, "approved"}
  BY DEF TypeOK, Track
<1> QED
  BY <1>1, <1>3, <1>4, <1>5, <1>7, <1>9, <1>10, <1>11, NoneIsNoRow DEF Typed

LEMMA SettleEffect ==
    ASSUME TypeOK, NEW w \in Worker, SettleImport(w)
    PROVE  /\ worker' = [worker EXCEPT ![w] = Idle]
           /\ \/ UNCHANGED <<item, open>>
              \/ \E i \in Item :
                    /\ IsApproved(i) /\ Others(i) /\ item'[i] # None
                    /\ item'[i].review = "approved" /\ item'[i].auto = item[i].auto
                    /\ item'[i].decision = item[i].decision
                    /\ item'[i].token = item[i].token /\ item'[i].dispatchToken = None
                    /\ open' = ClosedAttempt(item[i].dispatchToken)
                    /\ Typed
<1> DEFINE i == worker[w].item
<1>1. i \in Item /\ worker[w].token \in Token
  BY DEF TypeOK, SettleImport
<1> SUFFICES ASSUME HoldsDispatch(w),
                    item' = [item EXCEPT ![i] = Dispatched(item[i], worker[w].verdict)],
                    open' = ClosedAttempt(worker[w].token)
             PROVE  \E k \in Item :
                    /\ IsApproved(k) /\ Others(k) /\ item'[k] # None
                    /\ item'[k].review = "approved" /\ item'[k].auto = item[k].auto
                    /\ item'[k].decision = item[k].decision
                    /\ item'[k].token = item[k].token /\ item'[k].dispatchToken = None
                    /\ open' = ClosedAttempt(item[k].dispatchToken)
                    /\ Typed
  BY <1>1 DEF SettleImport, TypeOK
<1>2. /\ IsApproved(i) /\ item[i].review = "approved"
      /\ item[i].dispatchToken = worker[w].token /\ item[i] \in Row
  BY <1>1 DEF HoldsDispatch, IsApproved, Exists, TypeOK
<1> DEFINE outcome == worker[w].verdict
           dispatch == CASE outcome = "succeeded" -> "completed"
                       [] outcome = "failed" \/ item[i].dispatchTries + 1 >= MaxAttempts -> "failed"
                       [] OTHER -> "retry"
           tries == item[i].dispatchTries + 1
           row == Dispatched(item[i], outcome)
<1>a. dispatch \in Undispatched \cup {"completed", "failed"} /\ tries \in Nat
  BY <1>2 DEF Row, Undispatched
<1>b. row = [item[i] EXCEPT !.dispatchToken = None, !.dispatchTries = tries, !.dispatch = dispatch]
  BY <1>2 DEF Dispatched
<1> HIDE DEF tries, dispatch
<1>3. /\ row \in Row /\ row.review = "approved" /\ row.auto = item[i].auto
      /\ row.decision = item[i].decision /\ row.token = item[i].token /\ row.dispatchToken = None
  BY <1>2, <1>a, <1>b DEF Row
<1>4. item' = [item EXCEPT ![i] = row]
  OBVIOUS
<1> HIDE DEF row
<1>5. Others(i) /\ item'[i] = row /\ item' \in [Item -> Row \cup {None}]
  BY <1>1, <1>3, <1>4 DEF TypeOK, Others
<1>6. open' \in [Token -> Item \cup {None}]
  BY DEF TypeOK, ClosedAttempt
<1> QED
  BY <1>1, <1>2, <1>3, <1>5, <1>6, NoneIsNoRow DEF Typed

LEMMA ApproveEffect ==
    ASSUME TypeOK, Approve
    PROVE  \/ UNCHANGED <<item, open, track>>
           \/ \E i \in Item :
                 /\ IsPending(i) /\ Others(i) /\ item'[i] # None
                 /\ item'[i].review = "approved" /\ item'[i].auto = "manual_approved"
                 /\ item'[i].token = None /\ item'[i].dispatchToken = None
                 /\ open' = ClosedAttempt(item[i].token)
                 /\ Typed /\ track' \in Track /\ track'.verdict = "approved"
<1> DEFINE i == approval.item
           row == [item[i] EXCEPT
                       !.review = "approved", !.auto = "manual_approved", !.token = None,
                       !.decision = [path |-> approval.path, bytes |-> approval.bytes],
                       !.dispatch = "pending", !.dispatchToken = None]
<1>1. i \in Item /\ approval.path \in Path /\ approval.bytes \in Version
  BY DEF TypeOK, Approve
<1> SUFFICES ASSUME IsPending(i), item' = [item EXCEPT ![i] = row],
                    open' = ClosedAttempt(item[i].token),
                    track' = [track EXCEPT !.verdict = "approved"]
             PROVE  \E k \in Item :
                    /\ IsPending(k) /\ Others(k) /\ item'[k] # None
                    /\ item'[k].review = "approved" /\ item'[k].auto = "manual_approved"
                    /\ item'[k].token = None /\ item'[k].dispatchToken = None
                    /\ open' = ClosedAttempt(item[k].token)
                    /\ Typed /\ track' \in Track /\ track'.verdict = "approved"
  BY <1>1 DEF Approve, TypeOK
<1>2. item[i] \in Row
  BY <1>1 DEF IsPending, Exists, TypeOK
<1>3. [path |-> approval.path, bytes |-> approval.bytes] \in Source
  BY <1>1 DEF Source, Bytes
<1>4. /\ row \in Row /\ row.review = "approved" /\ row.auto = "manual_approved"
      /\ row.token = None /\ row.dispatchToken = None
  BY <1>2, <1>3 DEF Row, Undispatched
<1> HIDE DEF row
<1>5. Others(i) /\ item'[i] = row /\ item' \in [Item -> Row \cup {None}]
  BY <1>1, <1>4 DEF TypeOK, Others
<1>6. open' \in [Token -> Item \cup {None}] /\ track' \in Track /\ track'.verdict = "approved"
  BY DEF TypeOK, ClosedAttempt, Track
<1> QED
  BY <1>1, <1>4, <1>5, <1>6, NoneIsNoRow DEF Typed

LEMMA DenyEffect ==
    ASSUME TypeOK, DenialIsPending, Deny
    PROVE  \E i \in Item : /\ IsPending(i) /\ Others(i) /\ item'[i] = None
                           /\ open' = Orphaned({i})
                           /\ Typed /\ track' \in Track
<1>1. denial.item \in Item /\ IsPending(denial.item)
  BY DEF TypeOK, Deny, DenialIsPending
<1>2. Others(denial.item) /\ item'[denial.item] = None /\ item' \in [Item -> Row \cup {None}]
  BY <1>1 DEF Deny, Others, TypeOK
<1>3. open' \in [Token -> Item \cup {None}] /\ track' \in Track
  BY DEF TypeOK, Orphaned, Track, Deny
<1> QED
  BY <1>1, <1>2, <1>3 DEF Deny, Typed

(* A row that a verification has made or refreshed.                        *)
Refreshed(i) ==
    /\ item'[i] # None /\ item'[i].review = "pending" /\ item'[i].auto = "pending"
    /\ item'[i].token = None /\ item'[i].dispatchToken = None

LEMMA VerifyEffect ==
    ASSUME TypeOK, Verify
    PROVE  /\ Typed /\ track' \in Track /\ track'.verdict \in {"verified", "flagged"}
           /\ \/ UNCHANGED <<item, open>>
              \/ /\ open' = Orphaned(PendingItems)
                 /\ \A i \in Item : item'[i] = IF IsPending(i) THEN None ELSE item[i]
              \/ \E i \in Item :
                    /\ Others(i) /\ Refreshed(i)
                    /\ \/ IsPending(i) /\ open' = ClosedAttempt(item[i].token)
                       \/ /\ ~Exists(i) /\ open' = open
                          /\ \A k \in Item : ~IsPending(k)
<1>1. track' \in Track /\ track'.verdict \in {"verified", "flagged"}
  BY DEF TypeOK, Track, Verify
<1>2. CASE UNCHANGED <<item, open>>
  BY <1>1, <1>2 DEF Typed, TypeOK
<1>3. CASE DeletePending
  <2>1. \A i \in Item : item'[i] = IF IsPending(i) THEN None ELSE item[i]
    BY <1>3 DEF DeletePending, PendingItems
  <2>2. Typed /\ open' = Orphaned(PendingItems)
    BY <1>3 DEF DeletePending, Orphaned, Typed, TypeOK
  <2> QED
    BY <1>1, <2>1, <2>2
<1>4. ASSUME NEW i \in Item, ToReview(i), Review(i)
      PROVE  /\ Typed /\ Others(i) /\ Refreshed(i)
             /\ \/ IsPending(i) /\ open' = ClosedAttempt(item[i].token)
                \/ /\ ~Exists(i) /\ open' = open
                   /\ \A k \in Item : ~IsPending(k)
  <2>1. /\ NewRow \in Row /\ NewRow.review = "pending" /\ NewRow.auto = "pending"
        /\ NewRow.token = None /\ NewRow.dispatchToken = None
    BY DEF NewRow, Row, Undecided
  <2>2. CASE IsPending(i)
    <3> DEFINE row == [NewRow EXCEPT !.revision = item[i].revision + 1]
    <3>1. item[i].revision + 1 \in Nat
      BY <2>2 DEF TypeOK, IsPending, Exists, Row
    <3>2. /\ row \in Row /\ row.review = "pending" /\ row.auto = "pending"
          /\ row.token = None /\ row.dispatchToken = None
      BY <3>1 DEF NewRow, Row, Undecided
    <3>3. item' = [item EXCEPT ![i] = row] /\ open' = ClosedAttempt(item[i].token)
      BY <1>4, <2>2 DEF Review
    <3> HIDE DEF row
    <3>4. Others(i) /\ item'[i] = row /\ item' \in [Item -> Row \cup {None}]
      BY <3>2, <3>3 DEF TypeOK, Others
    <3>5. open' \in [Token -> Item \cup {None}]
      BY <3>3 DEF TypeOK, ClosedAttempt
    <3> QED
      BY <2>2, <3>2, <3>3, <3>4, <3>5, NoneIsNoRow DEF Typed, Refreshed
  <2>3. CASE ~IsPending(i)
    <3>1. item' = [item EXCEPT ![i] = NewRow] /\ open' = open
      BY <1>4, <2>3 DEF Review
    <3>2. ~Exists(i) /\ \A k \in Item : ~IsPending(k)
      BY <1>4, <2>3, ReviewAssumption DEF ToReview
    <3>3. Others(i) /\ item'[i] = NewRow /\ item' \in [Item -> Row \cup {None}]
      BY <2>1, <3>1 DEF TypeOK, Others
    <3> QED
      BY <2>1, <3>1, <3>2, <3>3, NoneIsNoRow DEF Typed, Refreshed, TypeOK
  <2> QED
    BY <2>2, <2>3
<1> QED
  BY <1>1, <1>2, <1>3, <1>4 DEF Verify

(* Every variable keeps its shape.                                         *)
LEMMA TypeStep ==
    TypeOK /\ WorkersKnow /\ DenialIsPending /\ [Next]_vars => TypeOK'
<1> SUFFICES ASSUME TypeOK, WorkersKnow, DenialIsPending, [Next]_vars PROVE TypeOK'
  OBVIOUS
<1>1. ASSUME NEW w \in Worker, NEW i \in Item, Claim(w, i) PROVE TypeOK'
  <2>1. worker' \in [Worker -> WorkerState]
        /\ \A u \in Worker : worker'[u].phase # "idle" =>
              worker'[u].item \in Item /\ worker'[u].token \in Token
    BY <1>1, ClaimEffect, MovedIsTyped
  <2>2. Typed
    BY <1>1, ClaimEffect
  <2>3. events' \in Nat
    BY <1>1 DEF Claim, Event, TypeOK
  <2> QED
    BY <1>1, <2>1, <2>2, <2>3 DEF Claim, Typed, TypeOK
<1>2. ASSUME NEW w \in Worker, Pin(w) PROVE TypeOK'
  BY <1>2, PinMoves, WorkerOnlyIsTyped
<1>3. ASSUME NEW w \in Worker, Evaluate(w) PROVE TypeOK'
  BY <1>3, EvaluateMoves, WorkerOnlyIsTyped, IdleIsTyped
<1>4. ASSUME NEW w \in Worker, Recheck(w) PROVE TypeOK'
  BY <1>4, RecheckMoves, WorkerOnlyIsTyped
<1>5. ASSUME NEW w \in Worker, Apply(w) PROVE TypeOK'
  <2>1. worker' \in [Worker -> WorkerState]
        /\ \A u \in Worker : worker'[u].phase # "idle" =>
              worker'[u].item \in Item /\ worker'[u].token \in Token
    BY <1>5, ApplyEffect, IdleIsTyped, MovedIsTyped
  <2>2. Typed /\ track' \in Track
    BY <1>5, ApplyEffect DEF Typed, TypeOK
  <2> QED
    BY <1>5, <2>1, <2>2 DEF Apply, Typed, TypeOK
<1>6. ASSUME NEW w \in Worker, NEW i \in Item, ClaimImport(w, i) PROVE TypeOK'
  <2>1. worker' \in [Worker -> WorkerState]
        /\ \A u \in Worker : worker'[u].phase # "idle" =>
              worker'[u].item \in Item /\ worker'[u].token \in Token
    BY <1>6, ClaimImportEffect, MovedIsTyped
  <2>2. Typed
    BY <1>6, ClaimImportEffect
  <2> QED
    BY <1>6, <2>1, <2>2 DEF ClaimImport, Typed, TypeOK
<1>7. ASSUME NEW w \in Worker, CheckSource(w) PROVE TypeOK'
  BY <1>7, CheckSourceMoves, WorkerOnlyIsTyped
<1>8. ASSUME NEW w \in Worker, PlanImport(w) PROVE TypeOK'
  <2>1. worker' \in [Worker -> WorkerState]
        /\ \A u \in Worker : worker'[u].phase # "idle" =>
              worker'[u].item \in Item /\ worker'[u].token \in Token
    BY <1>8, PlanImportMoves, MovedIsTyped DEF Onward
  <2>2. plan' \in Worker \cup {None}
    BY <1>8 DEF PlanImport, TypeOK
  <2> QED
    BY <1>8, <2>1, <2>2 DEF PlanImport, TypeOK
<1>9. ASSUME NEW w \in Worker, PlaceFile(w) PROVE TypeOK'
  <2>1. worker' \in [Worker -> WorkerState]
        /\ \A u \in Worker : worker'[u].phase # "idle" =>
              worker'[u].item \in Item /\ worker'[u].token \in Token
    BY <1>9, PlaceFileMoves, MovedIsTyped DEF Onward
  <2>2. worker[w].item \in Item /\ worker[w].path \in Path
    BY <1>9 DEF PlaceFile, TypeOK, WorkersKnow, ImportIsApproved
  <2>3. disk[worker[w].path] \in Bytes
    BY <2>2 DEF TypeOK
  <2>4. /\ plan' \in Worker \cup {None}
        /\ library' \in [bytes : Bytes, by : Item \cup {None}]
    BY <1>9, <2>2, <2>3 DEF PlaceFile, TypeOK
  <2> QED
    BY <1>9, <2>1, <2>4 DEF PlaceFile, TypeOK
<1>10. ASSUME NEW w \in Worker, CommitImport(w) PROVE TypeOK'
  <2>1. worker' \in [Worker -> WorkerState]
        /\ \A u \in Worker : worker'[u].phase # "idle" =>
              worker'[u].item \in Item /\ worker'[u].token \in Token
    BY <1>10, CommitImportMoves, MovedIsTyped DEF Onward
  <2>2. library' \in [bytes : Bytes, by : Item \cup {None}]
    BY <1>10 DEF CommitImport, TakenBack, TypeOK, Bytes
  <2>3. plan' \in Worker \cup {None} /\ track' \in Track
    BY <1>10 DEF CommitImport, TypeOK, Track
  <2> QED
    BY <1>10, <2>1, <2>2, <2>3 DEF CommitImport, TypeOK
<1>11. ASSUME NEW w \in Worker, SettleImport(w) PROVE TypeOK'
  <2>1. worker' \in [Worker -> WorkerState]
        /\ \A u \in Worker : worker'[u].phase # "idle" =>
              worker'[u].item \in Item /\ worker'[u].token \in Token
    BY <1>11, SettleEffect, IdleIsTyped, MovedIsTyped
  <2>2. Typed
    BY <1>11, SettleEffect DEF Typed, TypeOK
  <2> QED
    BY <1>11, <2>1, <2>2 DEF SettleImport, Typed, TypeOK
<1>12. ASSUME NEW w \in Worker, BreakOff(w) PROVE TypeOK'
  <2>1. worker' \in [Worker -> WorkerState]
        /\ \A u \in Worker : worker'[u].phase # "idle" =>
              worker'[u].item \in Item /\ worker'[u].token \in Token
    BY <1>12, IdleIsTyped, MovedIsTyped DEF BreakOff
  <2>2. library' \in [bytes : Bytes, by : Item \cup {None}] /\ events' \in Nat
    BY <1>12 DEF BreakOff, TakenBack, TypeOK, Bytes, Event
  <2> QED
    BY <1>12, <2>1, <2>2 DEF BreakOff, rows, TypeOK
<1>13. ASSUME NEW i \in Item, ReadApproval(i) PROVE TypeOK'
  <2>1. track.path \in Path /\ disk[track.path] \in Version
    BY <1>13 DEF ReadApproval, TypeOK, Track, Bytes
  <2>2. approval' \in [item : Item, path : Path, bytes : Version] /\ events' \in Nat
    BY <1>13, <2>1 DEF ReadApproval, Event, TypeOK
  <2> QED
    BY <1>13, <2>2 DEF ReadApproval, rows, TypeOK
<1>14. CASE Approve
  <2>1. Typed /\ track' \in Track
    BY <1>14, ApproveEffect DEF Typed, TypeOK
  <2> QED
    BY <1>14, <2>1 DEF Approve, Typed, TypeOK
<1>15. ASSUME NEW i \in Item, MoveAside(i) PROVE TypeOK'
  <2>1. track.path \in Path \cup {None}
    BY DEF TypeOK, Track
  <2>2. (IF track.path = None THEN None ELSE disk[track.path]) \in Bytes
    BY <2>1 DEF TypeOK, Bytes
  <2>3. /\ denial' \in [item : Item, path : Path \cup {None}, bytes : Bytes, committed : BOOLEAN]
        /\ events' \in Nat
    BY <1>15, <2>1, <2>2 DEF MoveAside, Event, TypeOK
  <2>4. disk' \in [Path -> Bytes]
    BY <1>15 DEF MoveAside, TypeOK, Bytes
  <2> QED
    BY <1>15, <2>3, <2>4 DEF MoveAside, rows, TypeOK
<1>16. CASE Deny
  <2>1. Typed /\ track' \in Track
    BY <1>16, DenyEffect
  <2>2. denial' \in [item : Item, path : Path \cup {None}, bytes : Bytes, committed : BOOLEAN]
    BY <1>16 DEF Deny, TypeOK
  <2> QED
    BY <1>16, <2>1, <2>2 DEF Deny, Typed, TypeOK
<1>17. CASE FinishDenial
  <2>1. disk' \in [Path -> Bytes]
    <3>1. denial.bytes \in Bytes
      BY <1>17 DEF FinishDenial, TypeOK
    <3> QED
      BY <1>17, <3>1 DEF FinishDenial, TypeOK
  <2> QED
    BY <1>17, <2>1 DEF FinishDenial, rows, TypeOK
<1>18. ASSUME NEW p \in Path, NEW v \in Version, Download(p, v) PROVE TypeOK'
  <2>1. disk' \in [Path -> Bytes] /\ events' \in Nat
    BY <1>18 DEF Download, Event, TypeOK, Bytes
  <2>2. track' \in Track
    BY <1>18 DEF Download, TypeOK, Track
  <2> QED
    BY <1>18, <2>1, <2>2 DEF Download, TypeOK
<1>19. CASE Verify
  <2>1. Typed /\ track' \in Track
    BY <1>19, VerifyEffect
  <2> QED
    BY <1>19, <2>1 DEF Verify, Typed, TypeOK
<1>20. CASE OtherImport
  <2>1. disk[track.path] \in Bytes
    BY <1>20 DEF OtherImport, Importable, TypeOK, Track
  <2>2. library' \in [bytes : Bytes, by : Item \cup {None}] /\ track' \in Track
    BY <1>20, <2>1 DEF OtherImport, TypeOK, Track
  <2> QED
    BY <1>20, <2>2 DEF OtherImport, TypeOK
<1>21. ASSUME NEW p \in Path, NEW bytes \in Bytes, Replace(p, bytes) PROVE TypeOK'
  <2>1. disk' \in [Path -> Bytes] /\ events' \in Nat
    BY <1>21 DEF Replace, Event, TypeOK
  <2> QED
    BY <1>21, <2>1 DEF Replace, rows, TypeOK
<1>22. CASE Crash
  <2>1. worker' \in [Worker -> WorkerState] /\ events' \in Nat
        /\ \A u \in Worker : worker'[u].phase = "idle"
    BY <1>22, IdleIsTyped DEF Crash, Event, TypeOK, WorkerTyped
  <2> QED
    BY <1>22, <2>1 DEF Crash, rows, TypeOK
<1>23. CASE UNCHANGED vars
  BY <1>23 DEF vars, rows, TypeOK
<1> QED
  BY <1>1, <1>2, <1>3, <1>4, <1>5, <1>6, <1>7, <1>8, <1>9, <1>10, <1>11, <1>12, <1>13, <1>14,
     <1>15, <1>16, <1>17, <1>18, <1>19, <1>20, <1>21, <1>22, <1>23
     DEF Next, Cycle, WorkerStep, Operator, World

-----------------------------------------------------------------------------
(* The rows: what any step makes of them.                                  *)

Quiet == UNCHANGED <<item, open>> /\ track'.verdict = track.verdict

TakenRow(i) ==
    /\ IsPending(i) /\ item'[i] # None
    /\ item'[i].review = "pending" /\ item'[i].auto = "claimed"
    /\ item'[i].dispatchToken = item[i].dispatchToken
    /\ \E t \in Token : item'[i].token = t /\ open' = [ClosedAttempt(item[i].token) EXCEPT ![t] = i]
    /\ track' = track

DecidedRow(i) ==
    /\ IsPending(i) /\ item'[i] # None /\ item'[i].token = None
    /\ item'[i].dispatchToken = item[i].dispatchToken
    /\ item'[i].auto = "approved" => item'[i].decision # None /\ item'[i].decision.bytes \in Good
    /\ open' = ClosedAttempt(item[i].token)
    /\ track'.verdict \in {track.verdict, "approved"}

SentRow(i) ==
    /\ IsApproved(i) /\ item'[i] # None
    /\ item'[i].review = "approved" /\ item'[i].auto = item[i].auto
    /\ item'[i].decision = item[i].decision /\ item'[i].token = item[i].token
    /\ \/ /\ item'[i].dispatchToken = None
          /\ open' = ClosedAttempt(item[i].dispatchToken)
       \/ \E t \in Token : /\ item'[i].dispatchToken = t
                           /\ open' = [ClosedAttempt(item[i].dispatchToken) EXCEPT ![t] = i]
    /\ track' = track

ApprovedRow(i) ==
    /\ IsPending(i) /\ item'[i] # None
    /\ item'[i].review = "approved" /\ item'[i].auto = "manual_approved"
    /\ item'[i].token = None /\ item'[i].dispatchToken = None
    /\ open' = ClosedAttempt(item[i].token)
    /\ track'.verdict = "approved"

DeniedRow(i) == IsPending(i) /\ item'[i] = None /\ open' = Orphaned({i})

RefreshedRow(i) ==
    /\ Refreshed(i)
    /\ \/ IsPending(i) /\ open' = ClosedAttempt(item[i].token)
       \/ ~Exists(i) /\ open' = open /\ \A k \in Item : ~IsPending(k)
    /\ track'.verdict \in {"verified", "flagged"} /\ job

PendingGone ==
    /\ open' = Orphaned(PendingItems)
    /\ \A i \in Item : item'[i] = IF IsPending(i) THEN None ELSE item[i]
    /\ track'.verdict \in {"verified", "flagged"} /\ job

VerdictOnly == UNCHANGED <<item, open>> /\ track'.verdict \in {"verified", "flagged"} /\ job

RowsMove ==
    \/ Quiet \/ PendingGone \/ VerdictOnly
    \/ \E i \in Item :
          /\ Others(i)
          /\ \/ TakenRow(i) \/ DecidedRow(i) \/ SentRow(i) \/ ApprovedRow(i) \/ DeniedRow(i)
             \/ RefreshedRow(i)

LEMMA QuietMoves == Quiet => RowsMove
  BY Zenon DEF RowsMove

LEMMA RowsStep ==
    TypeOK /\ WorkersKnow /\ DenialIsPending /\ [Next]_vars => RowsMove
<1> SUFFICES ASSUME TypeOK, WorkersKnow, DenialIsPending, [Next]_vars PROVE RowsMove
  OBVIOUS
<1>1. ASSUME NEW w \in Worker, NEW i \in Item, Claim(w, i) PROVE RowsMove
  <2>1. Others(i) /\ TakenRow(i)
    <3>1. track' = track
      BY <1>1 DEF Claim
    <3> QED
      BY <1>1, <3>1, ClaimEffect DEF TakenRow
  <2> QED
    BY <2>1 DEF RowsMove
<1>2. ASSUME NEW w \in Worker, Apply(w) PROVE RowsMove
  <2>1. CASE UNCHANGED <<item, open, track>>
    BY <2>1, QuietMoves DEF Quiet
  <2>2. CASE ~UNCHANGED <<item, open, track>>
    <3>1. PICK i \in Item : Others(i) /\ DecidedRow(i)
      BY <1>2, <2>2, ApplyEffect DEF DecidedRow
    <3> QED
      BY <3>1 DEF RowsMove
  <2> QED
    BY <2>1, <2>2
<1>3. ASSUME NEW w \in Worker, NEW i \in Item, ClaimImport(w, i) PROVE RowsMove
  <2>1. Others(i) /\ SentRow(i)
    <3>1. track' = track
      BY <1>3 DEF ClaimImport
    <3> QED
      BY <1>3, <3>1, ClaimImportEffect DEF SentRow
  <2> QED
    BY <2>1 DEF RowsMove
<1>4. ASSUME NEW w \in Worker, SettleImport(w) PROVE RowsMove
  <2>1. CASE UNCHANGED <<item, open>>
    BY <1>4, <2>1, QuietMoves DEF Quiet, SettleImport
  <2>2. CASE ~UNCHANGED <<item, open>>
    <3>1. PICK i \in Item : Others(i) /\ SentRow(i)
      BY <1>4, <2>2, SettleEffect DEF SentRow, SettleImport
    <3> QED
      BY <3>1 DEF RowsMove
  <2> QED
    BY <2>1, <2>2
<1>5. CASE Approve
  <2>1. CASE UNCHANGED <<item, open, track>>
    BY <2>1, QuietMoves DEF Quiet
  <2>2. CASE ~UNCHANGED <<item, open, track>>
    <3>1. PICK i \in Item : Others(i) /\ ApprovedRow(i)
      BY <1>5, <2>2, ApproveEffect DEF ApprovedRow
    <3> QED
      BY <3>1 DEF RowsMove
  <2> QED
    BY <2>1, <2>2
<1>6. CASE Deny
  BY <1>6, DenyEffect DEF RowsMove, DeniedRow
<1>7. CASE Verify
  <2>1. job /\ track'.verdict \in {"verified", "flagged"}
    BY <1>7, VerifyEffect DEF Verify
  <2>2. CASE UNCHANGED <<item, open>>
    BY <2>1, <2>2 DEF RowsMove, VerdictOnly
  <2>3. ASSUME open' = Orphaned(PendingItems),
               \A i \in Item : item'[i] = IF IsPending(i) THEN None ELSE item[i]
        PROVE  RowsMove
    BY <2>1, <2>3 DEF RowsMove, PendingGone
  <2>4. ASSUME NEW i \in Item, Others(i), Refreshed(i),
               \/ IsPending(i) /\ open' = ClosedAttempt(item[i].token)
               \/ ~Exists(i) /\ open' = open /\ \A k \in Item : ~IsPending(k)
        PROVE  RowsMove
    <3>1. RefreshedRow(i)
      BY <2>1, <2>4 DEF RefreshedRow
    <3> QED
      BY <2>1, <2>4, <3>1 DEF RowsMove
  <2> QED
    BY <1>7, VerifyEffect, <2>2, <2>3, <2>4
<1>8. ASSUME NEW w \in Worker, \/ Pin(w) \/ Evaluate(w) \/ Recheck(w) \/ CheckSource(w)
                               \/ PlanImport(w) \/ PlaceFile(w) \/ BreakOff(w)
      PROVE  RowsMove
  BY <1>8, QuietMoves DEF Pin, Evaluate, Recheck, CheckSource, PlanImport, PlaceFile, BreakOff, WorkerOnly, rows, Quiet
<1>9. ASSUME NEW w \in Worker, CommitImport(w) PROVE RowsMove
  <2>1. track'.verdict = track.verdict
    BY <1>9 DEF CommitImport, TypeOK, Track
  <2> QED
    BY <1>9, <2>1, QuietMoves DEF CommitImport, Quiet
<1>10. CASE OtherImport
  <2>1. track'.verdict = track.verdict
    BY <1>10 DEF OtherImport, TypeOK, Track
  <2> QED
    BY <1>10, <2>1, QuietMoves DEF OtherImport, Quiet
<1>11. ASSUME NEW p \in Path, NEW v \in Version, Download(p, v) PROVE RowsMove
  <2>1. track'.verdict = track.verdict
    BY <1>11 DEF Download, TypeOK, Track
  <2> QED
    BY <1>11, <2>1, QuietMoves DEF Download, Quiet
<1>12. ASSUME NEW i \in Item, ReadApproval(i) \/ MoveAside(i) PROVE RowsMove
  BY <1>12, QuietMoves DEF ReadApproval, MoveAside, rows, Quiet
<1>13. CASE FinishDenial \/ Crash \/ UNCHANGED vars
  BY <1>13, QuietMoves DEF FinishDenial, Crash, vars, rows, Quiet
<1>14. ASSUME NEW p \in Path, NEW bytes \in Bytes, Replace(p, bytes) PROVE RowsMove
  BY <1>14, QuietMoves DEF Replace, rows, Quiet
<1> QED
  BY <1>1, <1>2, <1>3, <1>4, <1>5, <1>6, <1>7, <1>8, <1>9, <1>10, <1>11, <1>12, <1>13, <1>14
     DEF Next, Cycle, WorkerStep, Operator, World

(* An approved item stays what it is.                                      *)
ApprovedStays ==
    \A i \in Item : IsApproved(i) =>
        /\ item'[i] # None /\ item'[i].review = item[i].review
        /\ item'[i].auto = item[i].auto /\ item'[i].decision = item[i].decision

LEMMA ApprovedStep == RowsMove => ApprovedStays
<1> SUFFICES ASSUME RowsMove, NEW k \in Item, IsApproved(k)
             PROVE  /\ item'[k] # None /\ item'[k].review = item[k].review
                    /\ item'[k].auto = item[k].auto /\ item'[k].decision = item[k].decision
  BY DEF ApprovedStays
<1>1. ~IsPending(k) /\ Exists(k) /\ item[k] # None /\ item[k].review = "approved"
  BY DEF IsApproved, IsPending, Exists
<1>2. CASE Quiet \/ VerdictOnly \/ PendingGone
  BY <1>1, <1>2 DEF Quiet, VerdictOnly, PendingGone
<1>3. ASSUME NEW i \in Item, Others(i),
             \/ TakenRow(i) \/ DecidedRow(i) \/ SentRow(i) \/ ApprovedRow(i) \/ DeniedRow(i)
             \/ RefreshedRow(i)
      PROVE  /\ item'[k] # None /\ item'[k].review = item[k].review
             /\ item'[k].auto = item[k].auto /\ item'[k].decision = item[k].decision
  <2>1. CASE i # k
    BY <1>1, <1>3, <2>1 DEF Others
  <2>2. CASE i = k
    BY <1>1, <1>3, <2>2 DEF TakenRow, DecidedRow, SentRow, ApprovedRow, DeniedRow, RefreshedRow
  <2> QED
    BY <2>1, <2>2
<1> QED
  BY <1>2, <1>3 DEF RowsMove

-----------------------------------------------------------------------------
(* The parts of the invariant.                                             *)

LEMMA OneReviewStep ==
    OneReviewAtATime /\ RowsMove => OneReviewAtATime'
<1> SUFFICES ASSUME OneReviewAtATime, RowsMove
             PROVE  /\ \A i, k \in Item : IsPending(i)' /\ IsPending(k)' => i = k
                    /\ \A i \in Item : track'.verdict = "denied" => ~IsPending(i)'
  BY DEF OneReviewAtATime, PendingItems
<1>1. /\ \A i, k \in Item : IsPending(i) /\ IsPending(k) => i = k
      /\ \A i \in Item : track.verdict = "denied" => ~IsPending(i)
  BY DEF OneReviewAtATime, PendingItems
<1>2. CASE Quiet \/ VerdictOnly \/ PendingGone
  BY <1>1, <1>2 DEF Quiet, VerdictOnly, PendingGone, IsPending, Exists
<1>3. ASSUME NEW j \in Item, Others(j),
             \/ TakenRow(j) \/ DecidedRow(j) \/ SentRow(j) \/ ApprovedRow(j) \/ DeniedRow(j)
             \/ RefreshedRow(j)
      PROVE  /\ \A i, k \in Item : IsPending(i)' /\ IsPending(k)' => i = k
             /\ \A i \in Item : track'.verdict = "denied" => ~IsPending(i)'
  <2>1. \A i \in Item : i # j => (IsPending(i)' <=> IsPending(i))
    BY <1>3 DEF Others, IsPending, Exists
  <2>2. CASE TakenRow(j) \/ DecidedRow(j)
    <3>1. IsPending(j) /\ track'.verdict \in {track.verdict, "approved"}
      BY <2>2 DEF TakenRow, DecidedRow
    <3> QED
      BY <1>1, <2>1, <3>1
  <2>3. CASE SentRow(j) \/ ApprovedRow(j) \/ DeniedRow(j)
    <3>1. ~IsPending(j)'
      BY <2>3 DEF SentRow, ApprovedRow, DeniedRow, IsPending, Exists
    <3>2. \/ track' = track
          \/ IsPending(j)
      BY <2>3 DEF SentRow, ApprovedRow, DeniedRow
    <3> QED
      BY <1>1, <2>1, <3>1, <3>2
  <2>4. CASE RefreshedRow(j)
    BY <1>1, <2>1, <2>4 DEF RefreshedRow
  <2> QED
    BY <1>3, <2>2, <2>3, <2>4
<1> QED
  BY <1>2, <1>3 DEF RowsMove

LEMMA UndispatchedStep ==
    PendingIsUndispatched /\ RowsMove => PendingIsUndispatched'
<1> SUFFICES ASSUME PendingIsUndispatched, RowsMove, NEW k \in Item, IsPending(k)'
             PROVE  item'[k].dispatchToken = None
  BY DEF PendingIsUndispatched
<1>1. CASE Quiet \/ VerdictOnly \/ PendingGone
  BY <1>1 DEF Quiet, VerdictOnly, PendingGone, IsPending, Exists, PendingIsUndispatched
<1>2. ASSUME NEW j \in Item, Others(j),
             \/ TakenRow(j) \/ DecidedRow(j) \/ SentRow(j) \/ ApprovedRow(j) \/ DeniedRow(j)
             \/ RefreshedRow(j)
      PROVE  item'[k].dispatchToken = None
  <2>1. CASE k # j
    BY <1>2, <2>1 DEF Others, IsPending, Exists, PendingIsUndispatched
  <2>2. CASE k = j
    BY <1>2, <2>2 DEF TakenRow, DecidedRow, SentRow, ApprovedRow, DeniedRow, RefreshedRow,
                      Refreshed, IsPending, Exists, PendingIsUndispatched
  <2> QED
    BY <2>1, <2>2
<1> QED
  BY <1>1, <1>2 DEF RowsMove

LEMMA GoodStep ==
    ApprovedBytesAreGood /\ RowsMove => ApprovedBytesAreGood'
<1> SUFFICES ASSUME ApprovedBytesAreGood, RowsMove,
                    NEW k \in Item, item'[k] # None, item'[k].auto = "approved"
             PROVE  item'[k].decision # None /\ item'[k].decision.bytes \in Good
  BY DEF ApprovedBytesAreGood, Exists
<1>1. CASE Quiet \/ VerdictOnly \/ PendingGone
  BY <1>1 DEF Quiet, VerdictOnly, PendingGone, Exists, ApprovedBytesAreGood
<1>2. ASSUME NEW j \in Item, Others(j),
             \/ TakenRow(j) \/ DecidedRow(j) \/ SentRow(j) \/ ApprovedRow(j) \/ DeniedRow(j)
             \/ RefreshedRow(j)
      PROVE  item'[k].decision # None /\ item'[k].decision.bytes \in Good
  <2>1. CASE k # j
    BY <1>2, <2>1 DEF Others, Exists, ApprovedBytesAreGood
  <2>2. CASE k = j
    BY <1>2, <2>2 DEF TakenRow, DecidedRow, SentRow, ApprovedRow, DeniedRow, RefreshedRow,
                      Refreshed, IsApproved, Exists, ApprovedBytesAreGood
  <2> QED
    BY <2>1, <2>2
<1> QED
  BY <1>1, <1>2 DEF RowsMove

(* The claim that an open attempt belongs to.                              *)
LEMMA OpenStep ==
    TypeOK /\ OpenAttemptsAreHeld /\ PendingIsUndispatched /\ RowsMove => OpenAttemptsAreHeld'
<1> SUFFICES ASSUME TypeOK, OpenAttemptsAreHeld, PendingIsUndispatched, RowsMove,
                    NEW u \in Token, open'[u] # None
             PROVE  /\ item'[open'[u]] # None
                    /\ u \in {item'[open'[u]].token, item'[open'[u]].dispatchToken}
  BY DEF OpenAttemptsAreHeld, Exists
<1>1. u # None /\ None \notin Item
  BY ReviewAssumption
<1>2. open[u] # None =>
         /\ open[u] \in Item /\ item[open[u]] # None
         /\ u \in {item[open[u]].token, item[open[u]].dispatchToken}
  BY DEF OpenAttemptsAreHeld, Exists, TypeOK
<1>3. CASE Quiet \/ VerdictOnly
  BY <1>2, <1>3 DEF Quiet, VerdictOnly
<1>4. CASE PendingGone
  <2>1. open[u] \notin PendingItems /\ open'[u] = open[u]
    BY <1>4 DEF PendingGone, Orphaned
  <2> QED
    BY <1>2, <1>4, <2>1 DEF PendingGone, PendingItems
<1>5. ASSUME NEW j \in Item, Others(j),
             \/ TakenRow(j) \/ DecidedRow(j) \/ SentRow(j) \/ ApprovedRow(j) \/ DeniedRow(j)
             \/ RefreshedRow(j)
      PROVE  /\ item'[open'[u]] # None
             /\ u \in {item'[open'[u]].token, item'[open'[u]].dispatchToken}
  <2>1. ASSUME open'[u] = open[u], open[u] # j
        PROVE  /\ item'[open'[u]] # None
               /\ u \in {item'[open'[u]].token, item'[open'[u]].dispatchToken}
    BY <1>2, <1>5, <2>1 DEF Others
  <2>2. CASE TakenRow(j)
    <3>1. PICK t \in Token : item'[j].token = t /\ open' = [ClosedAttempt(item[j].token) EXCEPT ![t] = j]
      BY <2>2 DEF TakenRow
    <3>2. \/ u = t /\ open'[u] = j
          \/ u # t /\ u # item[j].token /\ open'[u] = open[u]
      BY <3>1 DEF ClosedAttempt
    <3> QED
      BY <1>2, <2>1, <2>2, <3>1, <3>2 DEF TakenRow
  <2>3. CASE DecidedRow(j)
    <3>1. u # item[j].token /\ open'[u] = open[u]
      BY <2>3 DEF DecidedRow, ClosedAttempt
    <3> QED
      BY <1>2, <2>1, <2>3, <3>1 DEF DecidedRow
  <2>4. CASE SentRow(j)
    <3>1. CASE open' = ClosedAttempt(item[j].dispatchToken)
      <4>1. u # item[j].dispatchToken /\ open'[u] = open[u]
        BY <3>1 DEF ClosedAttempt
      <4> QED
        BY <1>2, <2>1, <2>4, <4>1 DEF SentRow
    <3>2. ASSUME NEW t \in Token, item'[j].dispatchToken = t,
                 open' = [ClosedAttempt(item[j].dispatchToken) EXCEPT ![t] = j]
          PROVE  /\ item'[open'[u]] # None
                 /\ u \in {item'[open'[u]].token, item'[open'[u]].dispatchToken}
      <4>1. \/ u = t /\ open'[u] = j
            \/ u # t /\ u # item[j].dispatchToken /\ open'[u] = open[u]
        BY <3>2 DEF ClosedAttempt
      <4> QED
        BY <1>2, <2>1, <2>4, <3>2, <4>1 DEF SentRow
    <3> QED
      BY <2>4, <3>1, <3>2 DEF SentRow
  <2>5. CASE ApprovedRow(j)
    <3>1. u # item[j].token /\ open'[u] = open[u] /\ item[j].dispatchToken = None
      BY <2>5 DEF ApprovedRow, ClosedAttempt, PendingIsUndispatched
    <3> QED
      BY <1>1, <1>2, <2>1, <3>1
  <2>6. CASE DeniedRow(j)
    <3>1. open[u] # j /\ open'[u] = open[u]
      BY <2>6 DEF DeniedRow, Orphaned
    <3> QED
      BY <2>1, <3>1
  <2>7. CASE RefreshedRow(j)
    <3>1. CASE IsPending(j) /\ open' = ClosedAttempt(item[j].token)
      <4>1. u # item[j].token /\ open'[u] = open[u] /\ item[j].dispatchToken = None
        BY <3>1 DEF ClosedAttempt, PendingIsUndispatched
      <4> QED
        BY <1>1, <1>2, <2>1, <4>1
    <3>2. CASE ~Exists(j) /\ open' = open
      BY <1>2, <2>1, <3>2 DEF Exists
    <3> QED
      BY <2>7, <3>1, <3>2 DEF RefreshedRow
  <2> QED
    BY <1>5, <2>2, <2>3, <2>4, <2>5, <2>6, <2>7
<1> QED
  BY <1>3, <1>4, <1>5 DEF RowsMove

LEMMA DenialStep ==
    TypeOK /\ DenialIsPending /\ [Next]_vars => DenialIsPending'
<1> SUFFICES ASSUME TypeOK, DenialIsPending, [Next]_vars PROVE DenialIsPending'
  OBVIOUS
<1>1. ASSUME WriterFree, denial' = denial PROVE DenialIsPending'
  BY <1>1 DEF WriterFree, DenialIsPending
<1>2. ASSUME item' = item, denial' = denial PROVE DenialIsPending'
  BY <1>2 DEF DenialIsPending, IsPending, Exists
<1>3. ASSUME NEW w \in Worker, NEW i \in Item, Claim(w, i) \/ ClaimImport(w, i) PROVE DenialIsPending'
  BY <1>1, <1>3 DEF Claim, ClaimImport
<1>4. ASSUME NEW w \in Worker, Apply(w) \/ SettleImport(w) PROVE DenialIsPending'
  BY <1>1, <1>4 DEF Apply, SettleImport
<1>5. CASE Approve \/ Verify
  BY <1>1, <1>5 DEF Approve, Verify
<1>6. ASSUME NEW w \in Worker, \/ Pin(w) \/ Evaluate(w) \/ Recheck(w) \/ CheckSource(w)
                               \/ PlanImport(w) \/ PlaceFile(w) \/ CommitImport(w) \/ BreakOff(w)
      PROVE  DenialIsPending'
  BY <1>2, <1>6 DEF Pin, Evaluate, Recheck, CheckSource, PlanImport, PlaceFile, CommitImport,
                    BreakOff, WorkerOnly, rows
<1>7. ASSUME NEW i \in Item, MoveAside(i) PROVE DenialIsPending'
  BY <1>7 DEF MoveAside, rows, DenialIsPending, IsPending, Exists
<1>8. CASE Deny
  BY <1>8 DEF Deny, TypeOK, DenialIsPending
<1>9. CASE FinishDenial \/ Crash
  BY <1>9 DEF FinishDenial, Crash, DenialIsPending
<1>10. ASSUME NEW p \in Path, NEW v \in Version, Download(p, v) PROVE DenialIsPending'
  BY <1>2, <1>10 DEF Download
<1>11. ASSUME NEW p \in Path, NEW bytes \in Bytes, Replace(p, bytes) PROVE DenialIsPending'
  BY <1>2, <1>11 DEF Replace, rows
<1>12. ASSUME NEW i \in Item, ReadApproval(i) PROVE DenialIsPending'
  BY <1>2, <1>12 DEF ReadApproval, rows
<1>13. CASE OtherImport \/ UNCHANGED vars
  BY <1>2, <1>13 DEF OtherImport, vars, rows
<1> QED
  BY <1>3, <1>4, <1>5, <1>6, <1>7, <1>8, <1>9, <1>10, <1>11, <1>12, <1>13
     DEF Next, Cycle, WorkerStep, Operator, World

(* What a scheduler knows survives the steps of the others.                *)
LEMMA OthersKnow ==
    ASSUME TypeOK, WorkersKnow, ApprovedStays, NEW w \in Worker, worker'[w] = worker[w]
    PROVE  VerdictIsDue(worker[w])' /\ ImportIsApproved(worker[w])'
<1>1. VerdictIsDue(worker[w]) /\ ImportIsApproved(worker[w])
  BY DEF WorkersKnow
<1>2. VerdictIsDue(worker[w])'
  BY <1>1 DEF VerdictIsDue
<1>3. worker[w].phase # "idle" => worker[w].item \in Item
  BY DEF TypeOK
<1>4. IsApproved(worker[w].item) /\ worker[w].item \in Item =>
        /\ IsApproved(worker[w].item)'
        /\ item'[worker[w].item].decision = item[worker[w].item].decision
  BY DEF ApprovedStays, IsApproved, Exists
<1> QED
  BY <1>1, <1>2, <1>3, <1>4 DEF ImportIsApproved

LEMMA MoverKnows ==
    ASSUME TypeOK, WorkersKnow, ApprovedStays, NEW w \in Worker, NEW state,
           worker' = [worker EXCEPT ![w] = state],
           VerdictIsDue(state), ImportIsApproved(state), WorkerTyped(state)
    PROVE  WorkersKnow'
<1>1. ASSUME NEW u \in Worker, u # w
      PROVE  VerdictIsDue(worker[u])' /\ ImportIsApproved(worker[u])'
  <2>1. worker'[u] = worker[u]
    BY <1>1 DEF TypeOK
  <2> QED
    BY <2>1, OthersKnow
<1>2. worker'[w] = state
  BY DEF TypeOK
<1>3. VerdictIsDue(worker[w])'
  BY <1>2 DEF VerdictIsDue
<1>4. IsApproved(state.item) /\ state.item \in Item =>
        /\ item'[state.item] # None /\ item'[state.item].review = "approved"
        /\ item'[state.item].decision = item[state.item].decision
  BY DEF ApprovedStays, IsApproved, Exists
<1>5. ImportIsApproved(worker[w])'
  BY <1>2, <1>4 DEF ImportIsApproved, WorkerTyped, IsApproved, Exists
<1> QED
  BY <1>1, <1>3, <1>5 DEF WorkersKnow

LEMMA IdleKnows == VerdictIsDue(Idle) /\ ImportIsApproved(Idle)
  BY DEF Idle, VerdictIsDue, ImportIsApproved, Judging

LEMMA WorkersStep ==
    TypeOK /\ WorkersKnow /\ ApprovedStays /\ [Next]_vars => WorkersKnow'
<1> SUFFICES ASSUME TypeOK, WorkersKnow, ApprovedStays, [Next]_vars PROVE WorkersKnow'
  OBVIOUS
<1>0. ASSUME NEW w \in Worker
      PROVE  /\ VerdictIsDue(worker[w]) /\ ImportIsApproved(worker[w])
             /\ worker[w].phase # "idle" => worker[w].item \in Item
  BY DEF WorkersKnow, TypeOK
<1>1. ASSUME NEW w \in Worker, NEW i \in Item, Claim(w, i) PROVE WorkersKnow'
  <2>1. PICK state : /\ worker' = [worker EXCEPT ![w] = state] /\ WorkerTyped(state)
                     /\ state.phase = "pin" /\ state.path \in Path
    BY <1>1, ClaimEffect
  <2>2. VerdictIsDue(state) /\ ImportIsApproved(state)
    BY <2>1 DEF VerdictIsDue, ImportIsApproved
  <2> QED
    BY <2>1, <2>2, MoverKnows
<1>2. ASSUME NEW w \in Worker, Pin(w) PROVE WorkersKnow'
  <2>1. PICK state : /\ WorkerOnly(w, state) /\ WorkerTyped(state) /\ SameClaim(state, w)
                     /\ \/ state.phase = "apply" /\ state.verdict = "rejected"
                        \/ state.phase = "evaluate"
    BY <1>2, PinMoves
  <2>2. worker[w].path \in Path
    BY <1>0, <1>2 DEF Pin, VerdictIsDue, Judging
  <2>3. VerdictIsDue(state) /\ ImportIsApproved(state)
    BY <2>1, <2>2 DEF VerdictIsDue, ImportIsApproved, SameClaim
  <2> QED
    BY <2>1, <2>3, MoverKnows DEF WorkerOnly
<1>3. ASSUME NEW w \in Worker, Evaluate(w) PROVE WorkersKnow'
  <2>1. CASE WorkerOnly(w, Idle)
    BY <2>1, IdleKnows, IdleIsTyped, MoverKnows DEF WorkerOnly
  <2>2. ASSUME NEW state, WorkerOnly(w, state), WorkerTyped(state), SameClaim(state, w),
               \/ state.phase = "recheck" /\ state.bytes \in Good
               \/ state.phase = "apply" /\ state.verdict \in {"retry", "rejected"}
        PROVE  WorkersKnow'
    <3>1. worker[w].path \in Path
      BY <1>0, <1>3 DEF Evaluate, VerdictIsDue, Judging
    <3>2. VerdictIsDue(state) /\ ImportIsApproved(state)
      BY <2>2, <3>1 DEF VerdictIsDue, ImportIsApproved, SameClaim
    <3> QED
      BY <2>2, <3>2, MoverKnows DEF WorkerOnly
  <2> QED
    BY <1>3, <2>1, <2>2, EvaluateMoves
<1>4. ASSUME NEW w \in Worker, Recheck(w) PROVE WorkersKnow'
  <2>1. PICK state : /\ WorkerOnly(w, state) /\ WorkerTyped(state) /\ SameClaim(state, w)
                     /\ state.phase = "apply" /\ state.verdict \in {"approved", "rejected"}
                     /\ state.bytes = worker[w].bytes
    BY <1>4, RecheckMoves
  <2>2. worker[w].path \in Path /\ worker[w].bytes \in Good
    BY <1>0, <1>4 DEF Recheck, VerdictIsDue, Judging
  <2>3. VerdictIsDue(state) /\ ImportIsApproved(state)
    BY <2>1, <2>2 DEF VerdictIsDue, ImportIsApproved, SameClaim
  <2> QED
    BY <2>1, <2>3, MoverKnows DEF WorkerOnly
<1>5. ASSUME NEW w \in Worker, Apply(w) \/ SettleImport(w) \/ BreakOff(w) PROVE WorkersKnow'
  <2>1. worker' = [worker EXCEPT ![w] = Idle]
    BY <1>5 DEF Apply, SettleImport, BreakOff
  <2> QED
    BY <2>1, IdleKnows, IdleIsTyped, MoverKnows
<1>6. ASSUME NEW w \in Worker, NEW i \in Item, ClaimImport(w, i) PROVE WorkersKnow'
  <2>1. PICK state : /\ worker' = [worker EXCEPT ![w] = state] /\ WorkerTyped(state)
                     /\ \/ state.phase = "settle"
                        \/ /\ state.phase = "check" /\ state.item = i
                           /\ IsApproved(i) /\ item[i].decision # None
                           /\ state.path \in Path /\ state.bytes = item[i].decision.bytes
    BY <1>6, ClaimImportEffect
  <2>2. VerdictIsDue(state) /\ ImportIsApproved(state)
    BY <2>1 DEF VerdictIsDue, ImportIsApproved, Judging
  <2> QED
    BY <2>1, <2>2, MoverKnows
<1>7. ASSUME NEW w \in Worker, NEW state, worker' = [worker EXCEPT ![w] = state],
             WorkerTyped(state), SameClaim(state, w),
             \/ state.phase \in {"plan", "place", "commit"} /\ state.bytes = worker[w].bytes
             \/ state.phase = "settle",
             worker[w].phase \in {"check", "plan", "place", "commit"}
      PROVE  WorkersKnow'
  <2>1. ImportIsApproved(worker[w])
    BY <1>0
  <2>2. VerdictIsDue(state) /\ ImportIsApproved(state)
    BY <1>7, <2>1 DEF VerdictIsDue, ImportIsApproved, Judging, SameClaim
  <2> QED
    BY <1>7, <2>2, MoverKnows
<1>8. ASSUME NEW w \in Worker, CheckSource(w) PROVE WorkersKnow'
  <2>1. worker[w].phase = "check"
    BY <1>8 DEF CheckSource
  <2> QED
    BY <1>7, <1>8, <2>1, CheckSourceMoves DEF WorkerOnly
<1>9. ASSUME NEW w \in Worker, PlanImport(w) \/ PlaceFile(w) \/ CommitImport(w) PROVE WorkersKnow'
  <2>1. worker[w].phase \in {"check", "plan", "place", "commit"}
    BY <1>9 DEF PlanImport, PlaceFile, CommitImport
  <2>2. Onward(w, "place") \/ Onward(w, "commit")
    BY <1>9, PlanImportMoves, PlaceFileMoves, CommitImportMoves
  <2> QED
    BY <1>7, <2>1, <2>2 DEF Onward
<1>10. ASSUME worker' = worker PROVE WorkersKnow'
  <2>1. ASSUME NEW w \in Worker PROVE VerdictIsDue(worker[w])' /\ ImportIsApproved(worker[w])'
    BY <1>10, <2>1, OthersKnow
  <2> QED
    BY <2>1 DEF WorkersKnow
<1>11. CASE Crash
  <2>1. \A w \in Worker : worker'[w].phase = "idle"
    BY <1>11, IdleIsTyped DEF Crash
  <2> QED
    BY <2>1 DEF WorkersKnow, VerdictIsDue, ImportIsApproved, Judging
<1>12. CASE Operator \/ Verify \/ OtherImport \/ UNCHANGED vars
  BY <1>10, <1>12 DEF Operator, ReadApproval, MoveAside, Approve, Deny, FinishDenial, Verify,
                      OtherImport, vars
<1>13. ASSUME NEW p \in Path, \/ \E v \in Version : Download(p, v)
                              \/ \E bytes \in Bytes : Replace(p, bytes)
       PROVE  WorkersKnow'
  BY <1>10, <1>13 DEF Download, Replace
<1> QED
  BY <1>1, <1>2, <1>3, <1>4, <1>5, <1>6, <1>8, <1>9, <1>11, <1>12, <1>13
     DEF Next, Cycle, WorkerStep, World

LEMMA DispatchedStep ==
    TypeOK /\ WorkersKnow /\ ApprovedStays /\ DispatchedBytesAreApproved /\ [Next]_vars
        => DispatchedBytesAreApproved'
<1> SUFFICES ASSUME TypeOK, WorkersKnow, ApprovedStays, DispatchedBytesAreApproved, [Next]_vars
             PROVE  DispatchedBytesAreApproved'
  OBVIOUS
<1>1. ASSUME library' = library PROVE DispatchedBytesAreApproved'
  BY <1>1 DEF DispatchedBytesAreApproved, ApprovedStays, IsApproved, Exists, TypeOK
<1>2. ASSUME library'.by = None PROVE DispatchedBytesAreApproved'
  BY <1>2 DEF DispatchedBytesAreApproved
<1>3. ASSUME NEW w \in Worker, PlaceFile(w) PROVE DispatchedBytesAreApproved'
  <2>1. /\ IsApproved(worker[w].item) /\ item[worker[w].item].decision # None
        /\ worker[w].bytes = item[worker[w].item].decision.bytes
        /\ worker[w].item \in Item
    BY <1>3 DEF PlaceFile, WorkersKnow, ImportIsApproved, TypeOK
  <2>2. CASE library' = library
    BY <1>1, <2>2
  <2>3. CASE library' = [bytes |-> disk[worker[w].path], by |-> worker[w].item] /\ CopyIsSound(w)
    BY <2>1, <2>3 DEF CopyIsSound, DispatchedBytesAreApproved, ApprovedStays, IsApproved, Exists
  <2> QED
    BY <1>3, <2>2, <2>3 DEF PlaceFile
<1>4. ASSUME NEW w \in Worker, CommitImport(w) \/ BreakOff(w) PROVE DispatchedBytesAreApproved'
  BY <1>1, <1>2, <1>4 DEF CommitImport, BreakOff, TakenBack
<1>5. CASE OtherImport
  BY <1>2, <1>5 DEF OtherImport
<1>6. ASSUME NEW w \in Worker, \/ \E i \in Item : Claim(w, i) \/ ClaimImport(w, i)
                               \/ Pin(w) \/ Evaluate(w) \/ Recheck(w) \/ Apply(w)
                               \/ CheckSource(w) \/ PlanImport(w) \/ SettleImport(w)
      PROVE  DispatchedBytesAreApproved'
  BY <1>1, <1>6 DEF Claim, ClaimImport, Pin, Evaluate, Recheck, Apply, CheckSource, PlanImport,
                    SettleImport, WorkerOnly
<1>7. CASE Operator \/ Verify \/ Crash \/ UNCHANGED vars
  BY <1>1, <1>7 DEF Operator, ReadApproval, MoveAside, Approve, Deny, FinishDenial, Verify, Crash,
                    vars
<1>8. ASSUME NEW p \in Path, \/ \E v \in Version : Download(p, v)
                             \/ \E bytes \in Bytes : Replace(p, bytes)
      PROVE  DispatchedBytesAreApproved'
  BY <1>1, <1>8 DEF Download, Replace
<1> QED
  BY <1>3, <1>4, <1>5, <1>6, <1>7, <1>8 DEF Next, Cycle, WorkerStep, World

LEMMA DecisionsStep ==
    OneReviewAtATime /\ RowsMove =>
        /\ \A i \in Item : IsApproved(i) =>
              /\ item'[i] # None
              /\ \A f \in {"review", "auto", "decision"} : item'[i][f] = item[i][f]
        /\ track.verdict = "denied" /\ track'.verdict # "denied" => job
<1> SUFFICES ASSUME OneReviewAtATime, RowsMove
             PROVE  /\ ApprovedStays
                    /\ track.verdict = "denied" /\ track'.verdict # "denied" => job
  BY DEF ApprovedStays
<1>1. ApprovedStays
  BY ApprovedStep
<1>2. ASSUME track.verdict = "denied", track'.verdict # "denied" PROVE job
  <2>1. \A i \in Item : ~IsPending(i)
    BY <1>2 DEF OneReviewAtATime, PendingItems
  <2>2. CASE Quiet
    BY <1>2, <2>2 DEF Quiet
  <2>3. CASE VerdictOnly \/ PendingGone
    BY <2>3 DEF VerdictOnly, PendingGone
  <2>4. ASSUME NEW i \in Item,
               \/ TakenRow(i) \/ DecidedRow(i) \/ SentRow(i) \/ ApprovedRow(i) \/ DeniedRow(i)
               \/ RefreshedRow(i)
        PROVE  job
    BY <1>2, <2>1, <2>4 DEF TakenRow, DecidedRow, SentRow, ApprovedRow, DeniedRow, RefreshedRow
  <2> QED
    BY <2>2, <2>3, <2>4 DEF RowsMove
<1> QED
  BY <1>1, <1>2

-----------------------------------------------------------------------------
(* The theorems.                                                           *)

LEMMA InitIInv == Init => IInv
<1> SUFFICES ASSUME Init PROVE IInv
  OBVIOUS
<1>1. PICK i \in Item, p \in Path :
        /\ item = [k \in Item |-> IF k = i THEN NewRow ELSE None]
        /\ open = [t \in Token |-> None]
        /\ track = [verdict |-> "flagged", downloaded |-> TRUE, imported |-> FALSE, path |-> p]
        /\ plan = None
        /\ disk \in [Path -> Bytes] /\ disk[p] # None
        /\ library = [bytes |-> None, by |-> None]
        /\ worker = [w \in Worker |-> Idle]
        /\ approval = None /\ denial = None
        /\ job = FALSE
        /\ events = 0
  BY DEF Init
<1>2. /\ NewRow \in Row /\ NewRow # None /\ NewRow.review = "pending" /\ NewRow.auto = "pending"
      /\ NewRow.dispatchToken = None
  BY NoneIsNoRow DEF NewRow, Row, Undecided
<1>3. \A k \in Item : IsPending(k) => k = i
  BY <1>1 DEF IsPending, Exists
<1>4. \A k \in Item : item[k] = NewRow \/ item[k] = None
  BY <1>1
<1>5. TypeOK
  <2>1. item \in [Item -> Row \cup {None}] /\ open \in [Token -> Item \cup {None}]
    BY <1>1, <1>2
  <2>2. track \in Track /\ library \in [bytes : Bytes, by : Item \cup {None}]
    BY <1>1 DEF Track, Bytes
  <2>3. worker \in [Worker -> WorkerState] /\ \A w \in Worker : worker[w].phase = "idle"
    BY <1>1, IdleIsTyped DEF WorkerTyped
  <2> QED
    BY <1>1, <2>1, <2>2, <2>3 DEF TypeOK
<1>6. WorkersKnow
  BY <1>1, IdleKnows DEF WorkersKnow
<1>7. DenialIsPending /\ PendingIsUndispatched
  BY <1>1, <1>2, <1>4 DEF DenialIsPending, PendingIsUndispatched, IsPending, Exists
<1>8. OneReviewAtATime
  BY <1>1, <1>3 DEF OneReviewAtATime, PendingItems
<1>9. OpenAttemptsAreHeld /\ ApprovedBytesAreGood /\ DispatchedBytesAreApproved
  BY <1>1, <1>2, <1>4 DEF OpenAttemptsAreHeld, ApprovedBytesAreGood, DispatchedBytesAreApproved, Exists
<1> QED
  BY <1>5, <1>6, <1>7, <1>8, <1>9 DEF IInv

LEMMA NextIInv == IInv /\ [Next]_vars => IInv' /\ RowsMove
<1> SUFFICES ASSUME IInv, [Next]_vars PROVE IInv' /\ RowsMove
  OBVIOUS
<1> USE DEF IInv
<1>1. RowsMove
  BY RowsStep
<1>2. ApprovedStays
  BY <1>1, ApprovedStep
<1>3. TypeOK'
  BY TypeStep
<1>4. WorkersKnow' /\ DispatchedBytesAreApproved'
  BY <1>2, WorkersStep, DispatchedStep
<1>5. DenialIsPending'
  BY DenialStep
<1>6. PendingIsUndispatched' /\ OneReviewAtATime' /\ OpenAttemptsAreHeld' /\ ApprovedBytesAreGood'
  BY <1>1, UndispatchedStep, OneReviewStep, OpenStep, GoodStep
<1> QED
  BY <1>1, <1>3, <1>4, <1>5, <1>6

(* The invariant holds for ever.                                           *)
THEOREM ReviewInvariant == Spec => []IInv
  BY InitIInv, NextIInv, PTL DEF Spec

(* Every variable keeps its shape.                                         *)
THEOREM ReviewTypeCorrect == Spec => []TypeOK
  BY ReviewInvariant, PTL DEF IInv

(* What automation approves sounds like the reference.                     *)
THEOREM ApprovalsAreJudged == Spec => []ApprovedBytesAreGood
  BY ReviewInvariant, PTL DEF IInv

(* A dispatch imports the bytes that were approved.                        *)
THEOREM DispatchesAreApproved == Spec => []DispatchedBytesAreApproved
  BY ReviewInvariant, PTL DEF IInv

(* An open attempt is that of a claim its item has.                        *)
THEOREM AttemptsAreClosed == Spec => []OpenAttemptsAreHeld
  BY ReviewInvariant, PTL DEF IInv

(* One review of a track at a time, none of a denied one.                  *)
THEOREM ReviewsAreSingle == Spec => []OneReviewAtATime
  BY ReviewInvariant, PTL DEF IInv

(* Nothing that comes late changes a decision.                             *)
THEOREM LateStepsChangeNothing == Spec => DecisionsStand
<1>1. IInv /\ [Next]_vars =>
        [/\ \A i \in Item : IsApproved(i) =>
              /\ item'[i] # None
              /\ \A f \in {"review", "auto", "decision"} : item'[i][f] = item[i][f]
         /\ track.verdict = "denied" /\ track'.verdict # "denied" => job]_vars
  BY NextIInv, DecisionsStep DEF IInv
<1> QED
  BY <1>1, ReviewInvariant, PTL DEF Spec, DecisionsStand
====
