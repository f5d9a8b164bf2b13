---------------------- MODULE AcquisitionPermits_proofs ----------------------
(***************************************************************************)
(* Theorems about AcquisitionPermits, for any finite number of runs and    *)
(* any limits.                                                             *)
(***************************************************************************)
EXTENDS AcquisitionPermits, FiniteSetTheorems, TLAPS

(***************************************************************************)
(* What ties a run's permit and its release task to where the run is.  The *)
(* counters are exact because of it: a slot is given back by one task, and *)
(* nobody starts a second one before the first has been noticed.           *)
(***************************************************************************)
PermitMatchesStage ==
    \A r \in Run :
       /\ stage[r] \in {"idle", "queued", "waiting", "parked", "returning", "done"}
             => ~held[r] /\ giving[r] = "none"
       /\ stage[r] = "working" => held[r] /\ giving[r] = "none"
       /\ stage[r] = "yielding" => held[r] /\ giving[r] # "none"
       /\ giving[r] # "none" => held[r]

PermitInvariant == TypeOK /\ PermitMatchesStage /\ CountsAreExact

LEMMA TypeStep == TypeOK /\ [Next]_vars => TypeOK'
<1> SUFFICES ASSUME TypeOK, [Next]_vars PROVE TypeOK'
  OBVIOUS
<1> USE PermitsAssumption DEF TypeOK
<1>1. CASE SetLimit
  BY <1>1 DEF SetLimit
<1>2. ASSUME NEW r \in Run, RunStep(r) PROVE TypeOK'
  <2>1. CASE Dispatch(r)
    BY <2>1 DEF Dispatch, GoTo, Stage
  <2>2. CASE Join(r)
    BY <2>2 DEF Join, GoTo, Stage
  <2>3. CASE Acquire(r)
    BY <2>3 DEF Acquire, GoTo, Stage
  <2>4. CASE Yield(r)
    BY <2>4 DEF Yield, GoTo, Stage
  <2>5. CASE ReleaseSlot(r)
    BY <2>5 DEF ReleaseSlot
  <2>6. CASE YieldReturns(r)
    BY <2>6 DEF YieldReturns, GoTo, Stage
  <2>7. CASE Return(r)
    BY <2>7 DEF Return, GoTo, Stage
  <2>8. CASE Finish(r)
    BY <2>8 DEF Finish, GoTo, Stage
  <2>9. CASE Cancel(r)
    BY <2>9 DEF Cancel
  <2>10. CASE Interrupted(r)
    BY <2>10 DEF Interrupted, GoTo, Stage
  <2>11. CASE GiveBack(r)
    BY <2>11 DEF GiveBack
  <2>12. CASE Leave(r)
    BY <2>12 DEF Leave, GoTo, Stage
  <2> QED
    BY <1>2, <2>1, <2>2, <2>3, <2>4, <2>5, <2>6, <2>7, <2>8, <2>9, <2>10, <2>11, <2>12
       DEF RunStep
<1> QED
  BY <1>1, <1>2 DEF Next, vars

LEMMA StageStep == TypeOK /\ PermitMatchesStage /\ [Next]_vars => PermitMatchesStage'
<1> SUFFICES ASSUME TypeOK, PermitMatchesStage, [Next]_vars PROVE PermitMatchesStage'
  OBVIOUS
<1> USE DEF TypeOK, PermitMatchesStage
<1>1. CASE SetLimit
  BY <1>1 DEF SetLimit
<1>2. ASSUME NEW r \in Run, RunStep(r) PROVE PermitMatchesStage'
  <2>1. CASE Dispatch(r)
    BY <2>1 DEF Dispatch, GoTo
  <2>2. CASE Join(r)
    BY <2>2 DEF Join, GoTo
  <2>3. CASE Acquire(r)
    BY <2>3 DEF Acquire, GoTo
  <2>4. CASE Yield(r)
    BY <2>4 DEF Yield, GoTo
  <2>5. CASE ReleaseSlot(r)
    BY <2>5 DEF ReleaseSlot
  <2>6. CASE YieldReturns(r)
    BY <2>6 DEF YieldReturns, GoTo
  <2>7. CASE Return(r)
    BY <2>7 DEF Return, GoTo
  <2>8. CASE Finish(r)
    BY <2>8 DEF Finish, GoTo
  <2>9. CASE Cancel(r)
    BY <2>9 DEF Cancel
  <2>10. CASE Interrupted(r)
    BY <2>10 DEF Interrupted, GoTo
  <2>11. CASE GiveBack(r)
    BY <2>11 DEF GiveBack
  <2>12. CASE Leave(r)
    BY <2>12 DEF Leave, GoTo
  <2> QED
    BY <1>2, <2>1, <2>2, <2>3, <2>4, <2>5, <2>6, <2>7, <2>8, <2>9, <2>10, <2>11, <2>12
       DEF RunStep
<1> QED
  BY <1>1, <1>2 DEF Next, vars

(***************************************************************************)
(* Each step moves at most one run into or out of one of the two sets, and *)
(* the counter of that set by one.                                         *)
(***************************************************************************)
Same == Holders' = Holders /\ Members' = Members /\ active' = active /\ inflight' = inflight

PoolMove(r) ==
    \/ /\ r \notin Members /\ Members' = Members \cup {r} /\ inflight' = inflight + 1
       /\ inflight < InflightLimit /\ UNCHANGED <<active, limit>> /\ Holders' = Holders
    \/ /\ r \in Members \ Holders /\ Members' = Members \ {r} /\ inflight' = inflight - 1
       /\ UNCHANGED <<active, limit>> /\ Holders' = Holders
    \/ /\ r \in Members \ Holders /\ Holders' = Holders \cup {r} /\ active' = active + 1
       /\ active < limit /\ UNCHANGED <<inflight, limit>> /\ Members' = Members
    \/ /\ r \in Holders /\ Holders' = Holders \ {r} /\ active' = active - 1
       /\ UNCHANGED <<inflight, limit>> /\ Members' = Members

LEMMA RunMoves ==
  ASSUME TypeOK, PermitMatchesStage, NEW r \in Run, RunStep(r)
  PROVE  (Same /\ limit' = limit) \/ PoolMove(r)
<1> USE DEF TypeOK, PermitMatchesStage, Holders, Members, Same, PoolMove, GoTo
<1>1. CASE Dispatch(r)
  BY <1>1 DEF Dispatch
<1>2. CASE Join(r)
  BY <1>2 DEF Join
<1>3. CASE Acquire(r)
  BY <1>3 DEF Acquire
<1>4. CASE Yield(r)
  BY <1>4 DEF Yield
<1>5. CASE ReleaseSlot(r)
  BY <1>5 DEF ReleaseSlot
<1>6. CASE YieldReturns(r)
  BY <1>6 DEF YieldReturns
<1>7. CASE Return(r)
  BY <1>7 DEF Return
<1>8. CASE Finish(r)
  BY <1>8 DEF Finish
<1>9. CASE Cancel(r)
  BY <1>9 DEF Cancel
<1>10. CASE Interrupted(r)
  BY <1>10 DEF Interrupted
<1>11. CASE GiveBack(r)
  BY <1>11 DEF GiveBack
<1>12. CASE Leave(r)
  BY <1>12 DEF Leave
<1> QED
  BY <1>1, <1>2, <1>3, <1>4, <1>5, <1>6, <1>7, <1>8, <1>9, <1>10, <1>11, <1>12
     DEF RunStep

LEMMA SetsAreFinite ==
  /\ IsFiniteSet(Holders) /\ IsFiniteSet(Members)
  /\ Cardinality(Holders) \in Nat /\ Cardinality(Members) \in Nat
BY PermitsAssumption, FS_Subset, FS_CardinalityType DEF Holders, Members

LEMMA CountsStep ==
  TypeOK /\ PermitMatchesStage /\ CountsAreExact /\ [Next]_vars => CountsAreExact'
<1> SUFFICES ASSUME TypeOK, PermitMatchesStage, CountsAreExact, [Next]_vars
             PROVE  CountsAreExact'
  OBVIOUS
<1>1. CASE Same
  BY <1>1 DEF Same, CountsAreExact
<1>2. SetLimit \/ UNCHANGED vars => Same
  BY DEF SetLimit, vars, Same, Holders, Members
<1>3. ASSUME NEW r \in Run, PoolMove(r) PROVE CountsAreExact'
  BY <1>3, SetsAreFinite, FS_AddElement, FS_RemoveElement DEF PoolMove, CountsAreExact
<1> QED
  BY <1>1, <1>2, <1>3, RunMoves DEF Next

LEMMA PermitInit == Init => PermitInvariant
<1> SUFFICES ASSUME Init PROVE PermitInvariant
  OBVIOUS
<1>1. TypeOK
  BY PermitsAssumption DEF Init, TypeOK, Stage
<1>2. PermitMatchesStage
  BY DEF Init, PermitMatchesStage
<1>3. Holders = {} /\ Members = {}
  BY DEF Init, Holders, Members
<1> QED
  BY <1>1, <1>2, <1>3, FS_EmptySet DEF PermitInvariant, CountsAreExact, Init

LEMMA PermitStep == PermitInvariant /\ [Next]_vars => PermitInvariant'
  BY TypeStep, StageStep, CountsStep DEF PermitInvariant

(* Every reachable state of the dispatcher's limits is well formed.        *)
THEOREM PermitTypeCorrect == Spec => []TypeOK
<1>1. PermitInvariant => TypeOK
  BY DEF PermitInvariant
<1> QED
  BY <1>1, PermitInit, PermitStep, PTL DEF Spec

(* No interleaving of yields, releases and cancellations leaks a slot or   *)
(* gives one back twice, for any number of runs and any limits.            *)
THEOREM CountersAreExact == Spec => []CountsAreExact
<1>1. PermitInvariant => CountsAreExact
  BY DEF PermitInvariant
<1> QED
  BY <1>1, PermitInit, PermitStep, PTL DEF Spec

(* Local work is done under a counted permit.                              *)
THEOREM WorkersHoldPermits == Spec => []WorkIsUnderPermit
<1>1. PermitInvariant => WorkIsUnderPermit
  BY DEF PermitInvariant, PermitMatchesStage, WorkIsUnderPermit, Holders
<1> QED
  BY <1>1, PermitInit, PermitStep, PTL DEF Spec

(* The instance's Cardinality is the one of FiniteSets. *)
LEMMA SameCardinality == \A S : Pool!Cardinality(S) = Cardinality(S)
  BY DEF Pool!Cardinality, Cardinality

(* The counters and flags of the dispatcher implement the two bounded sets *)
(* of PermitPool.                                                          *)
THEOREM PermitsImplementPool == Spec => ImplementsPool
<1>1. Init => Pool!Init
  <2> SUFFICES ASSUME Init PROVE Pool!Init
    OBVIOUS
  <2>1. limit \in Nat /\ InflightLimit \in Nat
    BY PermitsAssumption DEF Init, InflightLimit
  <2> QED
    BY <2>1 DEF Init, Pool!Init, Holders, Members
<1>2. ASSUME PermitInvariant, [Next]_vars PROVE [Pool!Next]_(Pool!vars)
  <2>1. TypeOK /\ PermitMatchesStage /\ CountsAreExact /\ TypeOK'
    BY <1>2, PermitStep DEF PermitInvariant
  <2>2. /\ active = Cardinality(Holders) /\ inflight = Cardinality(Members)
    BY <2>1 DEF CountsAreExact
  <2>3. CASE SetLimit
    <3>1. limit' \in Nat
      BY <2>3, PermitsAssumption DEF SetLimit
    <3>2. InflightLimit' \in Nat
      <4>1. \A m, n \in Nat : m * n \in Nat
        OBVIOUS
      <4> QED
        BY <3>1, <4>1, PermitsAssumption DEF InflightLimit
    <3> QED
      BY <2>3, <3>1, <3>2 DEF SetLimit, Holders, Members, Pool!Resize, Pool!Next
  <2>4. CASE Same /\ limit' = limit
    BY <2>4 DEF Same, Pool!vars, InflightLimit
  <2>5. ASSUME NEW r \in Run, PoolMove(r) PROVE Pool!Next
    BY <2>2, <2>5, SameCardinality DEF PoolMove, InflightLimit, Members, Pool!Join, Pool!Take,
       Pool!Give, Pool!Leave, Pool!Next
  <2>6. CASE UNCHANGED vars
    BY <2>6 DEF vars, Pool!vars, InflightLimit, Holders, Members
  <2> QED
    BY <1>2, <2>1, <2>3, <2>4, <2>5, <2>6, RunMoves DEF Next
<1>3. PermitInvariant /\ [Next]_vars => [Pool!Next]_(Pool!vars)
  BY <1>2
<1> QED
  BY <1>1, <1>3, PermitInit, PermitStep, PTL DEF Spec, ImplementsPool, Pool!Spec
=============================================================================
