----------------------- MODULE DiscographyBatch_proofs -----------------------
(***************************************************************************)
(* Theorems about DiscographyBatch, for any batches, items, albums and     *)
(* tracks and any limits.                                                  *)
(***************************************************************************)
EXTENDS DiscographyBatch, TLAPS

-----------------------------------------------------------------------------
(* What the operators for new jobs do.                                     *)

LEMMA NumberingsAreNew ==
    ASSUME NEW T, NEW new \in Numberings(T)
    PROVE  /\ new \in [T -> Absent]
           /\ \A t, u \in T : new[t] = new[u] => t = u
  BY DEF Numberings

(* A job after new ones were inserted: as it was, or one of the new.       *)
LEMMA InsertEffect ==
    ASSUME NEW T, NEW new \in Numberings(T), NEW parent, NEW attempt,
           Insert(TrackRows(new, parent, attempt))
    PROVE  /\ \A t \in T : /\ new[t] \in Absent
                           /\ row'[new[t]] = TrackRow(t, parent, attempt)
                           /\ status'[new[t]] = "pending"
           /\ \A j \in JobId : \/ row'[j] = row[j] /\ status'[j] = status[j]
                               \/ \E t \in T : j = new[t]
           /\ status' = [j \in JobId |-> status'[j]] /\ row' = [j \in JobId |-> row'[j]]
<1>1. \A t \in T : new[t] \in Absent /\ new[t] \in JobId
  BY NumberingsAreNew DEF Absent
<1>2. /\ DOMAIN TrackRows(new, parent, attempt) = {new[t] : t \in T}
      /\ \A t \in T : TrackRows(new, parent, attempt)[new[t]] = TrackRow(t, parent, attempt)
  <2>1. DOMAIN new = T
    BY NumberingsAreNew
  <2>2. ASSUME NEW t \in T
        PROVE  TrackRows(new, parent, attempt)[new[t]] = TrackRow(t, parent, attempt)
    <3>1. (CHOOSE u \in DOMAIN new : new[u] = new[t]) = t
      BY <2>1, NumberingsAreNew
    <3> QED
      BY <2>1, <3>1 DEF TrackRows
  <2> QED
    BY <2>1, <2>2 DEF TrackRows
<1> DEFINE rows == TrackRows(new, parent, attempt)
<1>3. DOMAIN rows = {new[t] : t \in T} /\ \A t \in T : rows[new[t]] = TrackRow(t, parent, attempt)
  BY <1>2
<1>4. /\ status' = [j \in JobId |-> IF j \in DOMAIN rows THEN "pending" ELSE status[j]]
      /\ row' = [j \in JobId |-> IF j \in DOMAIN rows THEN rows[j] ELSE row[j]]
  BY DEF Insert
<1> DEFINE S(j) == IF j \in DOMAIN rows THEN "pending" ELSE status[j]
           R(j) == IF j \in DOMAIN rows THEN rows[j] ELSE row[j]
<1>a. \A j \in JobId : j \notin DOMAIN rows => S(j) = status[j] /\ R(j) = row[j]
  OBVIOUS
<1>b. \A j \in JobId : j \in DOMAIN rows => S(j) = "pending" /\ R(j) = rows[j]
  OBVIOUS
<1>c. status' = [j \in JobId |-> S(j)] /\ row' = [j \in JobId |-> R(j)]
  BY <1>4
<1> HIDE DEF rows, S, R
<1>5. \A t \in T : row'[new[t]] = TrackRow(t, parent, attempt) /\ status'[new[t]] = "pending"
  BY <1>1, <1>b, <1>c, <1>3
<1>6. \A j \in JobId : \/ row'[j] = row[j] /\ status'[j] = status[j]
                       \/ \E t \in T : j = new[t]
  BY <1>a, <1>c, <1>3
<1>7. status' = [j \in JobId |-> status'[j]] /\ row' = [j \in JobId |-> row'[j]]
  BY <1>c
<1> QED
  BY <1>1, <1>5, <1>6, <1>7

LEMMA InsertRootEffect ==
    ASSUME NEW j \in Absent, NEW a, Insert([k \in {j} |-> RootRow(a)])
    PROVE  /\ row'[j] = RootRow(a) /\ status'[j] = "pending"
           /\ \A k \in JobId : k # j => row'[k] = row[k] /\ status'[k] = status[k]
           /\ status' = [k \in JobId |-> status'[k]] /\ row' = [k \in JobId |-> row'[k]]
  BY DEF Insert, Absent

-----------------------------------------------------------------------------
(* Types.                                                                  *)

LEMMA TrackJobsTyped ==
    ASSUME ClaimsTypeOK, NEW T \in SUBSET Track, NEW new \in Numberings(T),
           NEW parent \in JobId \cup {None}, NEW attempt \in Nat,
           Insert(TrackRows(new, parent, attempt))
    PROVE  /\ status' \in [JobId -> Active \cup Terminal \cup {None}]
           /\ row' \in [JobId -> Row \cup {None}]
           /\ \A j \in JobId : row'[j] = None <=> status'[j] = None
           /\ \A t \in Track, j \in JobId :
                  row'[j] # None /\ row'[j].track = t => row'[j].album = AlbumOf[t]
<1>1. \A t \in T : /\ TrackRow(t, parent, attempt) \in Row
                   /\ TrackRow(t, parent, attempt).track = t
                   /\ TrackRow(t, parent, attempt).album = AlbumOf[t]
  BY ClaimsAssumption DEF TrackRow, Row
<1>2. None \notin Row /\ None # "pending" /\ "pending" \in Active
  BY ClaimsAssumption DEF Active
<1> QED
  BY <1>1, <1>2, InsertEffect DEF ClaimsTypeOK, Active

LEMMA ClaimsTypeFacts ==
    ASSUME ClaimsTypeOK
    PROVE  /\ \A j \in JobId : row[j] # None => row[j] \in Row
           /\ \A j \in JobId : status[j] # None => row[j] \in Row
           /\ None \notin Active \cup Terminal
           /\ \A j : IsActive(j) => j # None
  BY ClaimsAssumption DEF ClaimsTypeOK, IsActive

LEMMA ContinueTyped ==
    ASSUME TypeOK, NEW p \in JobId, NEW T \in SUBSET Track, ~SpawnsNothing(p), Continue(p, T)
    PROVE  /\ status' \in [JobId -> Active \cup Terminal \cup {None}]
           /\ row' \in [JobId -> Row \cup {None}]
           /\ \A j \in JobId : row'[j] = None <=> status'[j] = None
           /\ \A t \in Track, j \in JobId :
                  row'[j] # None /\ row'[j].track = t => row'[j].album = AlbumOf[t]
           /\ trackClaim' \in [Track -> JobId \cup {None}]
           /\ links' \in SUBSET Link
<1>1. row[p] \in Row
  BY ClaimsTypeFacts, ClaimsAssumption DEF TypeOK, SpawnsNothing, Terminal
<1>2. row[p].attempt + 1 \in Nat
  BY <1>1 DEF Row
<1>3. PICK heir \in [T -> JobId] :
          LET fresh == {t \in T : Heirs(p, t) = {}}
              new == [t \in fresh |-> heir[t]]
          IN  /\ \A t \in T \ fresh : IsHeir(heir[t], p, t)
              /\ new \in Numberings(fresh)
              /\ Insert(TrackRows(new, p, row[p].attempt + 1))
              /\ trackClaim' = [t \in Track |-> IF t \in T THEN heir[t] ELSE trackClaim[t]]
              /\ links' = SpawnedLinks(p, T, heir, fresh)
  BY DEF Continue
<1> DEFINE fresh == {t \in T : Heirs(p, t) = {}}
<1>4. fresh \in SUBSET Track
  OBVIOUS
<1>5. ClaimsTypeOK
  BY DEF TypeOK
<1>6. /\ status' \in [JobId -> Active \cup Terminal \cup {None}]
      /\ row' \in [JobId -> Row \cup {None}]
      /\ \A j \in JobId : row'[j] = None <=> status'[j] = None
      /\ \A t \in Track, j \in JobId :
             row'[j] # None /\ row'[j].track = t => row'[j].album = AlbumOf[t]
  BY <1>2, <1>3, <1>4, <1>5, TrackJobsTyped
<1>7. trackClaim' \in [Track -> JobId \cup {None}]
  BY <1>3, <1>5 DEF ClaimsTypeOK
<1>8. links' \in SUBSET Link
  <2>1. links' = SpawnedLinks(p, T, heir, fresh)
    BY <1>3
  <2>2. OpenContexts(p) \subseteq links /\ links \subseteq Link
    BY DEF OpenContexts, Contexts, TypeOK, BatchTypeOK
  <2>3. ASSUME NEW l \in OpenContexts(p), NEW t \in T
        PROVE  [item |-> l.item, generation |-> l.generation, role |-> "track_fallback",
                track |-> t, job |-> heir[t],
                created |-> t \in fresh /\ l.created] \in Link
    BY <2>2 DEF Link, Role
  <2> HIDE DEF fresh
  <2> QED
    BY <2>1, <2>2, <2>3 DEF SpawnedLinks
<1> QED
  BY <1>6, <1>7, <1>8

LEMMA JobStepTyped ==
    ASSUME ClaimsTypeOK, NEW j \in JobId, JobStep(j)
    PROVE  ClaimsTypeOK'
<1> USE DEF ClaimsTypeOK
<1>1. None \notin Active \cup Terminal /\ "pending" \in Active /\ "running" \in Active
      /\ {"done", "partial", "failed", "cancelled"} \subseteq Terminal
  BY ClaimsAssumption DEF Active, Terminal
<1>2. CASE Begin(j)
  BY <1>1, <1>2 DEF Begin
<1>3. CASE Admit(j)
  BY <1>1, <1>3 DEF Admit
<1>4. CASE Close(j)
  <2>1. PICK got \in SUBSET Targets(row[j].album) : \E imported \in SUBSET got :
            /\ status' = [k \in JobId |->
                   IF k = j THEN IF Missing(j, got) = {} THEN "done" ELSE "partial"
                   ELSE IF /\ Missing(j, got) = {}
                           /\ TracksOf(row[j].album) \subseteq owned \cup got
                           /\ status[k] = "partial" /\ row[k].album = row[j].album
                        THEN "done" ELSE status[k]]
            /\ asks' = [asks EXCEPT ![j] =
                   IF row[j].attempt < MaxAttempts THEN Missing(j, got) ELSE {}]
            /\ owned' = owned \cup imported
    BY <1>4, Zenon DEF Close
  <2>2. working' = working \ {j}
        /\ UNCHANGED <<row, rootClaim, trackClaim, manifest, bypassed, events>>
    BY <1>4 DEF Close
  <2>3. owned' \subseteq owned \cup got
    BY <2>1
  <2>4. got \subseteq Track /\ j \in JobId /\ status[j] # None
    BY <1>1, <1>4 DEF Close, Targets, TracksOf
  <2>5. row[j] \in Row
    BY <2>4, ClaimsTypeFacts
  <2>6. Missing(j, got) \subseteq Track
    BY <2>5, ClaimsAssumption DEF Missing, Wanted, Row, TracksOf
  <2>7. /\ status' \in [JobId -> Active \cup Terminal \cup {None}]
        /\ \A k \in JobId : status'[k] = None <=> status[k] = None
    BY <1>1, <2>1, <2>4
  <2>8. asks' \in [JobId -> SUBSET Track] /\ owned' \in SUBSET Track
    BY <2>1, <2>3, <2>4, <2>6
  <2> QED
    BY <2>2, <2>7, <2>8
<1>5. CASE Requeue(j)
  BY <1>1, <1>5 DEF Requeue, Event
<1>6. CASE RetryJob(j)
  BY <1>1, <1>6 DEF RetryJob, Event
<1>7. CASE JobFails(j)
  BY <1>1, <1>7 DEF JobFails
<1>8. CASE CancelJob(j)
  BY <1>1, <1>8 DEF CancelJob, Event
<1> QED
  BY <1>2, <1>3, <1>4, <1>5, <1>6, <1>7, <1>8 DEF JobStep

LEMMA RequestTyped ==
    ASSUME ClaimsTypeOK, Request
    PROVE  ClaimsTypeOK'
<1>1. ASSUME NEW a \in Album, OrdinaryRequest(a) PROVE ClaimsTypeOK'
  <2>1. PICK T \in SUBSET FreeTracks(a) : \E new \in Numberings(T) :
            /\ Insert(TrackRows(new, None, 0))
            /\ trackClaim' = [t \in Track |-> IF t \in T THEN new[t] ELSE trackClaim[t]]
    BY <1>1 DEF OrdinaryRequest
  <2>2. PICK new \in Numberings(T) :
            /\ Insert(TrackRows(new, None, 0))
            /\ trackClaim' = [t \in Track |-> IF t \in T THEN new[t] ELSE trackClaim[t]]
    BY <2>1
  <2>3. T \in SUBSET Track
    BY DEF FreeTracks, Targets, TracksOf
  <2>4. /\ status' \in [JobId -> Active \cup Terminal \cup {None}]
        /\ row' \in [JobId -> Row \cup {None}]
        /\ \A j \in JobId : row'[j] = None <=> status'[j] = None
        /\ \A t \in Track, j \in JobId :
               row'[j] # None /\ row'[j].track = t => row'[j].album = AlbumOf[t]
    BY <2>2, <2>3, TrackJobsTyped
  <2>5. \A t \in T : new[t] \in JobId
    BY NumberingsAreNew DEF Absent
  <2>6. trackClaim' \in [Track -> JobId \cup {None}]
    BY <2>2, <2>5 DEF ClaimsTypeOK
  <2> QED
    BY <1>1, <2>4, <2>6 DEF OrdinaryRequest, Event, ClaimsTypeOK
<1>2. ASSUME NEW a \in Album, MonitorRequest(a) PROVE ClaimsTypeOK'
  <2>1. PICK new \in JobId : Insert([k \in {new} |-> RootRow(a)])
    BY <1>2 DEF MonitorRequest, NextFree, Absent
  <2>2. RootRow(a) \in Row /\ RootRow(a).track = None
    BY DEF RootRow, Row
  <2>3. None \notin Track /\ None \notin Row /\ None # "pending" /\ "pending" \in Active
    BY ClaimsAssumption DEF Active
  <2>4. /\ status' = [j \in JobId |-> IF j \in {new} THEN "pending" ELSE status[j]]
        /\ row' = [j \in JobId |-> IF j \in {new} THEN RootRow(a) ELSE row[j]]
    BY <2>1 DEF Insert
  <2> QED
    BY <1>2, <2>2, <2>3, <2>4 DEF MonitorRequest, Event, ClaimsTypeOK
<1>3. ASSUME NEW t \in Track, NEW parent \in JobId \cup {None}, DirectRequest(t, parent)
      PROVE  ClaimsTypeOK'
  <2> DEFINE attempt == IF parent = None THEN 0 ELSE row[parent].attempt + 1
  <2>1. PICK new \in Numberings({t}) : Insert(TrackRows(new, parent, attempt))
    BY <1>3 DEF DirectRequest
  <2>2. attempt \in Nat
    <3>1. parent # None => row[parent] \in Row
      BY <1>3, ClaimsTypeFacts, ClaimsAssumption DEF DirectRequest
    <3> QED
      BY <3>1 DEF Row
  <2>3. /\ status' \in [JobId -> Active \cup Terminal \cup {None}]
        /\ row' \in [JobId -> Row \cup {None}]
        /\ \A j \in JobId : row'[j] = None <=> status'[j] = None
        /\ \A u \in Track, j \in JobId :
               row'[j] # None /\ row'[j].track = u => row'[j].album = AlbumOf[u]
    BY <2>1, <2>2, TrackJobsTyped
  <2> QED
    BY <1>3, <2>3 DEF DirectRequest, Event, ClaimsTypeOK
<1>4. CASE CatalogChanges
  <2>1. owned' \in SUBSET Track /\ manifest' \in [Album -> BOOLEAN]
    BY <1>4 DEF CatalogChanges, ClaimsTypeOK
  <2>2. events' \in Nat /\ UNCHANGED <<jobVars, bypassed>>
    BY <1>4 DEF CatalogChanges, Event, ClaimsTypeOK
  <2> QED
    BY <2>1, <2>2 DEF jobVars, ClaimsTypeOK
<1> QED
  BY <1>1, <1>2, <1>3, <1>4 DEF Request

LEMMA SpawnTyped ==
    ASSUME TypeOK, NEW p \in JobId, NEW T \in SUBSET Track, SpawnContinuations(p, T),
           UNCHANGED <<working, rootClaim, owned, manifest, bypassed, events>>,
           asks' \in [JobId -> SUBSET Track]
    PROVE  ClaimsTypeOK' /\ links' \in SUBSET Link
<1>1. CASE UNCHANGED <<status, row, trackClaim, links>>
  BY <1>1 DEF TypeOK, ClaimsTypeOK, BatchTypeOK
<1>2. CASE ~SpawnsNothing(p) /\ Continue(p, T)
  <2>1. /\ status' \in [JobId -> Active \cup Terminal \cup {None}]
        /\ row' \in [JobId -> Row \cup {None}]
        /\ \A j \in JobId : row'[j] = None <=> status'[j] = None
        /\ \A t \in Track, j \in JobId :
               row'[j] # None /\ row'[j].track = t => row'[j].album = AlbumOf[t]
        /\ trackClaim' \in [Track -> JobId \cup {None}]
        /\ links' \in SUBSET Link
    BY <1>2, ContinueTyped
  <2> QED
    BY <2>1 DEF TypeOK, ClaimsTypeOK
<1> QED
  BY <1>1, <1>2 DEF SpawnContinuations

LEMMA ClaimsTypeKept ==
    ASSUME ClaimsTypeOK, UNCHANGED claimVars PROVE ClaimsTypeOK'
  BY DEF claimVars, jobVars, ClaimsTypeOK

LEMMA ReserveTyped ==
    ASSUME TypeOK, NEW i \in Item, UNCHANGED <<working, asks, trackClaim, owned, manifest, bypassed, events>>,
           ReserveCreates(i)
    PROVE  ClaimsTypeOK' /\ links' \in SUBSET Link
<1> DEFINE a == AlbumOfItem[i]
<1>1. PICK j \in JobId :
          /\ j \in Absent
          /\ Insert([k \in {j} |-> RootRow(a)])
          /\ rootClaim' = [rootClaim EXCEPT ![a] = j]
          /\ links' = links \cup {RootLink(i, j, TRUE)}
  BY DEF ReserveCreates, NextFree, Absent
<1>2. a \in Album
  BY BatchAssumption
<1> HIDE DEF a
<1>3. RootRow(a) \in Row /\ RootRow(a).track = None
  BY <1>2 DEF RootRow, Row
<1>4. None \notin Track /\ None \notin Row /\ None # "pending" /\ "pending" \in Active
  BY ClaimsAssumption DEF Active
<1>5. /\ row'[j] = RootRow(a) /\ status'[j] = "pending"
      /\ \A k \in JobId : k # j => row'[k] = row[k] /\ status'[k] = status[k]
      /\ status' = [k \in JobId |-> status'[k]] /\ row' = [k \in JobId |-> row'[k]]
  BY <1>1, InsertRootEffect
<1>6. RootLink(i, j, TRUE) \in Link
  BY BatchAssumption DEF RootLink, Link, Role, TypeOK, BatchTypeOK, ItemRow
<1>7. rootClaim' \in [Album -> JobId \cup {None}]
  BY <1>1 DEF TypeOK, ClaimsTypeOK
<1>8. /\ status' \in [JobId -> Active \cup Terminal \cup {None}]
      /\ row' \in [JobId -> Row \cup {None}]
  BY <1>3, <1>4, <1>5 DEF TypeOK, ClaimsTypeOK
<1>9. /\ \A k \in JobId : row'[k] = None <=> status'[k] = None
      /\ \A t \in Track, k \in JobId :
             row'[k] # None /\ row'[k].track = t => row'[k].album = AlbumOf[t]
  BY <1>3, <1>4, <1>5 DEF TypeOK, ClaimsTypeOK
<1> QED
  BY <1>1, <1>6, <1>7, <1>8, <1>9 DEF TypeOK, ClaimsTypeOK, BatchTypeOK

LEMMA RowsTyped ==
    /\ NewItem \in ItemRow
    /\ \A i \in Item : BatchTypeOK => item[i] \in ItemRow
    /\ \A current, read, new \in ItemRow : Merge(current, read, new) \in ItemRow
  BY DEF NewItem, ItemRow, Open, Closed, Working, BatchTypeOK, Merge

LEMMA IdleTyped == IdleRunner \in Runner
  BY DEF IdleRunner, Runner, Phase

RunnerOK ==
    /\ runner \in Runner
    /\ runner.phase \notin {"idle", "inspect"} => runner.item \in Item
    /\ runner.phase = "record" => {runner.read, runner.verdict} \subseteq ItemRow

LEMMA IdleRunnerOK == runner' = IdleRunner => RunnerOK'
  BY IdleTyped DEF RunnerOK, IdleRunner

LEMMA ProceedOK ==
    ASSUME RunnerOK, runner.item \in Item, NEW p \in Phase \ {"record"}, Proceed(p)
    PROVE  RunnerOK'
  BY DEF RunnerOK, Proceed, Runner

LEMMA ToRecordOK ==
    ASSUME RunnerOK, NEW i \in Item, NEW v \in ItemRow, item[i] \in ItemRow, ToRecord(i, v)
    PROVE  RunnerOK'
  BY DEF RunnerOK, ToRecord, Runner, Phase

LEMMA InspectingOK ==
    ASSUME NEW todo \in SUBSET Item, runner' = Inspecting(todo)
    PROVE  RunnerOK'
<1>1. Inspecting(todo) \in Runner /\ Inspecting(todo).phase \in {"idle", "inspect"}
  BY IdleTyped DEF Inspecting, IdleRunner, Runner, Phase
<1> QED
  BY <1>1 DEF RunnerOK

LEMMA FinishedTyped ==
    ASSUME BatchTypeOK, NEW b \in Batch, NEW rows
    PROVE  Finished(b, rows) \in BatchState
  BY DEF Finished, BatchState, Running, BatchTypeOK

LEMMA VerdictTyped ==
    ASSUME BatchTypeOK, NEW i \in Item
    PROVE  Verdict(i) \in ItemRow
<1>1. item[i].generation \in Nat
  BY DEF BatchTypeOK, ItemRow
<1>2. \A L, targets : JudgedByTracks(L, targets) \in Open \cup Closed
  BY DEF JudgedByTracks, Open, Closed
<1>3. \A L, targets : JudgedByRoles(L, targets) \in Open \cup Closed
  BY DEF JudgedByRoles, Open, Closed
<1> QED
  BY <1>1, <1>2, <1>3 DEF Verdict, ItemRow, Open, Closed

RequestOK ==
    request = None \/
        /\ request.batch \in Batch /\ {request.from, request.to} \subseteq BatchState
        /\ DOMAIN request.read = DOMAIN request.new /\ DOMAIN request.read \subseteq Item
        /\ \A i \in DOMAIN request.read : {request.read[i], request.new[i]} \subseteq ItemRow

LEMMA BatchTypeParts ==
    BatchTypeOK <=> /\ batch \in [Batch -> BatchState]
                    /\ item \in [Item -> ItemRow]
                    /\ links \in SUBSET Link
                    /\ RunnerOK
                    /\ RequestOK
  BY DEF BatchTypeOK, RunnerOK, RequestOK

LEMMA RequestsTyped ==
    ASSUME BatchTypeOK, NEW b \in Batch, NEW to \in BatchState, NEW D \in SUBSET Item,
           NEW new \in [D -> ItemRow], Requests(b, to, new)
    PROVE  RequestOK'
<1>1. /\ request' = [batch |-> b, from |-> batch[b], to |-> to,
                     read |-> [i \in DOMAIN new |-> item[i]], new |-> new]
  BY DEF Requests
<1>2. DOMAIN new = D /\ \A i \in D : item[i] \in ItemRow /\ new[i] \in ItemRow
  BY DEF BatchTypeOK
<1> QED
  BY <1>1, <1>2 DEF RequestOK, BatchTypeOK

LEMMA RunnerStepTyped ==
    ASSUME TypeOK, RunnerStep
    PROVE  TypeOK'
<1> USE DEF TypeOK
<1>a. /\ batch \in [Batch -> BatchState] /\ item \in [Item -> ItemRow] /\ links \in SUBSET Link
      /\ RunnerOK /\ RequestOK /\ runner \in Runner
  BY BatchTypeParts DEF RunnerOK
<1>b. (UNCHANGED request) => RequestOK'
  BY <1>a DEF RequestOK
<1>c. (UNCHANGED claimVars) => ClaimsTypeOK'
  BY ClaimsTypeKept
<1>1. CASE SelectPending
  <2>1. PICK i \in Pending :
            runner' = [IdleRunner EXCEPT !.phase = "claim", !.item = i,
                                         !.hydrate = item[i].reason = "manifest"]
    BY <1>1 DEF SelectPending
  <2>2. RunnerOK'
    BY <2>1, IdleTyped DEF RunnerOK, IdleRunner, Runner, Phase, Pending
  <2> QED
    BY <1>1, <1>a, <1>b, <1>c, <2>2 DEF RunnerOK, RequestOK, BatchTypeOK, SelectPending
<1>2. CASE Claim
  <2>1. runner.item \in Item
    BY <1>2, <1>a DEF RunnerOK, Claim
  <2>2. RunnerOK'
    <3>1. CASE item[runner.item].state = "pending"
      BY <1>2, <1>a, <2>1, <3>1, ProceedOK DEF Claim, Phase
    <3> QED
      BY <1>2, <3>1, IdleRunnerOK DEF Claim
  <2>3. batch' \in [Batch -> BatchState] /\ item' \in [Item -> ItemRow]
    <3> DEFINE i == runner.item
               to == IF runner.hydrate THEN "hydrating" ELSE "expanding"
    <3>1. to \in Open
      BY DEF Open, Working
    <3>2. \/ item' = [item EXCEPT ![i].state = to, ![i].leased = TRUE]
          \/ UNCHANGED item
      BY <1>2 DEF Claim
    <3>3. \/ batch' = [batch EXCEPT ![BatchOf[i]] = IF @ = "queued" THEN "running" ELSE @]
          \/ UNCHANGED batch
      BY <1>2 DEF Claim
    <3>4. BatchOf[i] \in Batch /\ "running" \in BatchState
      BY <2>1, BatchAssumption DEF BatchState, Running
    <3> HIDE DEF to
    <3>5. item' \in [Item -> ItemRow]
      BY <1>a, <2>1, <3>1, <3>2 DEF ItemRow
    <3>6. batch' \in [Batch -> BatchState]
      BY <1>a, <3>3, <3>4
    <3> QED
      BY <3>5, <3>6
  <2> QED
    BY <1>2, <1>a, <1>b, <1>c, <2>2, <2>3 DEF RunnerOK, RequestOK, BatchTypeOK, Claim
<1>3. CASE Hydrate
  <2>1. runner.item \in Item
    BY <1>3, <1>a DEF RunnerOK, Hydrate
  <2>2. RunnerOK'
    BY <1>3, <1>a, <2>1, ProceedOK DEF Hydrate, Phase
  <2>3. manifest' \in [Album -> BOOLEAN]
    BY <1>3, <2>1 DEF Hydrate, ClaimsTypeOK
  <2>4. ClaimsTypeOK'
    BY <1>3, <2>3 DEF Hydrate, ClaimsTypeOK, jobVars
  <2> QED
    BY <1>3, <1>a, <1>b, <2>2, <2>4 DEF RunnerOK, RequestOK, BatchTypeOK, Hydrate
<1>4. CASE Hydrated
  <2>1. runner.item \in Item
    BY <1>4, <1>a DEF RunnerOK, Hydrated
  <2>2. RunnerOK'
    <3>1. CASE HoldsLease(runner.item, {"hydrating"})
      BY <1>4, <1>a, <2>1, <3>1, ProceedOK DEF Hydrated, Phase
    <3> QED
      BY <1>4, <3>1, IdleRunnerOK DEF Hydrated
  <2>3. item' \in [Item -> ItemRow]
    BY <1>4, <1>a, <2>1 DEF Hydrated, ItemRow, Open, Working
  <2> QED
    BY <1>4, <1>a, <1>b, <1>c, <2>2, <2>3 DEF RunnerOK, RequestOK, BatchTypeOK, Hydrated
<1>5. CASE Project
  <2>1. runner.item \in Item
    BY <1>5, <1>a DEF RunnerOK, Project
  <2>2. Evidence(runner.item) \in SUBSET Track
    BY DEF Evidence, TracksOf
  <2>3. RunnerOK'
    <3>1. CASE HoldsLease(runner.item, {"expanding"})
      BY <1>5, <1>a, <2>1, <2>2, <3>1 DEF Project, RunnerOK, Runner, Phase
    <3> QED
      BY <1>5, <3>1, IdleRunnerOK DEF Project
  <2> QED
    BY <1>5, <1>a, <1>b, <1>c, <2>3 DEF RunnerOK, RequestOK, BatchTypeOK, Project
<1>6. CASE Reserve
  <2>1. runner.item \in Item
    BY <1>6, <1>a DEF RunnerOK, Reserve
  <2> DEFINE i == runner.item
  <2>2. UNCHANGED <<working, asks, trackClaim, owned, manifest, bypassed, events, batch, item, request>>
    BY <1>6 DEF Reserve
  <2>3. CASE ReserveRefused(i)
    <3>1. RunnerOK'
      <4>1. CASE ~HoldsLease(i, {"expanding"})
        BY <2>3, <4>1, IdleRunnerOK DEF ReserveRefused
      <4>2. CASE HoldsLease(i, {"expanding"})
        <5>1. \/ runner' = [runner EXCEPT !.phase = "project", !.tries = @ + 1]
              \/ runner' = [runner EXCEPT !.phase = "fail"]
          BY <2>3, <4>2 DEF ReserveRefused
        <5>2. runner.item \in Item /\ runner.tries + 1 \in Nat
          BY <2>1, <1>a DEF Runner
        <5>3. CASE runner' = [runner EXCEPT !.phase = "project", !.tries = runner.tries + 1]
          <6>1. runner'.phase = "project" /\ runner'.item = runner.item
            BY <5>3, <1>a DEF Runner
          <6>2. runner' \in Runner
            BY <5>2, <5>3, <1>a DEF Runner, Phase
          <6> QED
            BY <5>2, <6>1, <6>2 DEF RunnerOK
        <5>4. CASE runner' = [runner EXCEPT !.phase = "fail"]
          BY <5>2, <5>4, <1>a DEF RunnerOK, Runner, Phase
        <5> QED
          BY <5>1, <5>3, <5>4
      <4> QED
        BY <4>1, <4>2
    <3> QED
      BY <2>2, <2>3, <3>1, <1>a, <1>b DEF RunnerOK, RequestOK, BatchTypeOK, ReserveRefused, ClaimsTypeOK
  <2>4. CASE ReserveObserves(i)
    <3>1. RunnerOK'
      BY <2>1, <2>4, <1>a, ProceedOK DEF ReserveObserves, Phase
    <3>2. ASSUME IsActive(rootClaim[AlbumOfItem[i]])
          PROVE  RootLink(i, rootClaim[AlbumOfItem[i]], FALSE) \in Link
      <4>1. AlbumOfItem[i] \in Album /\ item[i] \in ItemRow
        BY <2>1, <1>a, BatchAssumption
      <4>2. rootClaim[AlbumOfItem[i]] \in JobId
        BY <3>2, <4>1 DEF IsActive, ClaimsTypeOK
      <4> QED
        BY <2>1, <4>1, <4>2 DEF RootLink, Link, Role, ItemRow
    <3>3. links' \in SUBSET Link
      BY <2>4, <3>2, <1>a DEF ReserveObserves
    <3> QED
      BY <2>2, <2>4, <3>1, <3>3, <1>a, <1>b DEF RunnerOK, RequestOK, BatchTypeOK, ReserveObserves, ClaimsTypeOK
  <2>5. CASE ReserveCreates(i)
    <3>1. RunnerOK'
      BY <2>1, <2>5, <1>a, ProceedOK DEF ReserveCreates, Phase
    <3>2. ClaimsTypeOK' /\ links' \in SUBSET Link
      BY <2>1, <2>2, <2>5, ReserveTyped
    <3> QED
      BY <2>2, <3>1, <3>2, <1>a, <1>b DEF RunnerOK, RequestOK, BatchTypeOK
  <2> QED
    BY <1>6, <2>3, <2>4, <2>5 DEF Reserve
<1>7. CASE Notify
  <2>1. runner.item \in Item
    BY <1>7, <1>a DEF RunnerOK, Notify
  <2>2. RunnerOK'
    BY <1>7, <1>a, <2>1, ProceedOK DEF Notify, Phase
  <2>3. item' \in [Item -> ItemRow]
    BY <1>7, <1>a, <2>1 DEF Notify, ItemRow, Open
  <2> QED
    BY <1>7, <1>a, <1>b, <1>c, <2>2, <2>3 DEF RunnerOK, RequestOK, BatchTypeOK, Notify
<1>8. CASE Judge
  <2>1. runner.item \in Item
    BY <1>8, <1>a DEF RunnerOK, Judge
  <2>2. RunnerOK'
    <3>1. CASE HoldsLease(runner.item, Working)
      BY <1>8, <1>a, <2>1, <3>1, VerdictTyped, ToRecordOK DEF Judge
    <3> QED
      BY <1>8, <3>1, IdleRunnerOK DEF Judge
  <2> QED
    BY <1>8, <1>a, <1>b, <1>c, <2>2 DEF RunnerOK, RequestOK, BatchTypeOK, Judge
<1>9. CASE Fail
  <2>1. runner.item \in Item
    BY <1>9, <1>a DEF RunnerOK, Fail
  <2>2. [item[runner.item] EXCEPT !.state = "failed", !.leased = FALSE, !.reason = "none"] \in ItemRow
    BY <1>a, <2>1 DEF ItemRow, Closed
  <2>3. RunnerOK'
    <3>1. CASE HoldsLease(runner.item, Working)
      BY <1>9, <1>a, <2>1, <2>2, <3>1, ToRecordOK DEF Fail
    <3> QED
      BY <1>9, <3>1, IdleRunnerOK DEF Fail
  <2> QED
    BY <1>9, <1>a, <1>b, <1>c, <2>3 DEF RunnerOK, RequestOK, BatchTypeOK, Fail
<1>10. CASE Record
  <2>1. runner.item \in Item /\ runner.read \in ItemRow /\ runner.verdict \in ItemRow
        /\ runner.todo \in SUBSET Item
    BY <1>10, <1>a DEF RunnerOK, Record, Runner
  <2> DEFINE rows == [item EXCEPT ![runner.item] = Merge(@, runner.read, runner.verdict)]
  <2>2. rows \in [Item -> ItemRow]
    BY <1>a, <2>1, RowsTyped
  <2>3. item' = rows
    BY <1>10 DEF Record
  <2>4. batch' \in [Batch -> BatchState]
    <3>1. \/ batch' = [batch EXCEPT ![BatchOf[runner.item]] = Finished(BatchOf[runner.item], rows)]
          \/ UNCHANGED batch
      BY <1>10 DEF Record
    <3>2. BatchOf[runner.item] \in Batch
      BY <2>1, BatchAssumption
    <3> HIDE DEF rows
    <3> QED
      BY <1>a, <3>1, <3>2, FinishedTyped
  <2>5. RunnerOK'
    BY <1>10, <2>1, InspectingOK DEF Record
  <2> HIDE DEF rows
  <2> QED
    BY <1>10, <1>a, <1>b, <1>c, <2>2, <2>3, <2>4, <2>5 DEF RunnerOK, RequestOK, BatchTypeOK, Record
<1>11. CASE SelectWaiting
  <2>1. RunnerOK'
    BY <1>11, InspectingOK DEF SelectWaiting, Waiting
  <2> QED
    BY <1>11, <2>1, <1>a, <1>b, <1>c DEF RunnerOK, RequestOK, BatchTypeOK, SelectWaiting
<1>12. CASE JudgeWaiting
  <2>1. runner.item \in Item /\ runner.todo \in SUBSET Item
    BY <1>12, <1>a DEF RunnerOK, JudgeWaiting, Runner
  <2>2. RunnerOK'
    <3>1. CASE IsRunning(runner.item)
      BY <1>12, <1>a, <2>1, <3>1, VerdictTyped, ToRecordOK DEF JudgeWaiting
    <3> QED
      BY <1>12, <2>1, <3>1, InspectingOK DEF JudgeWaiting
  <2> QED
    BY <1>12, <2>2, <1>a, <1>b, <1>c DEF RunnerOK, RequestOK, BatchTypeOK, JudgeWaiting
<1>13. ASSUME NEW i \in Item, Inspect(i) PROVE TypeOK'
  <2>1. Repairs(i) \in SUBSET Spawn
    <3>1. \A l \in LinksOf(i) : l \in Link
      BY <1>a DEF LinksOf
    <3>2. \A T \in SUBSET Track, l \in LinksOf(i) : [parent |-> l.job, tracks |-> T] \in Spawn
      BY <3>1 DEF Link, Spawn
    <3>3. Targets(AlbumOfItem[i]) \subseteq Track
      BY DEF Targets, TracksOf
    <3> DEFINE fallbacks == InRole(LinksOf(i), "track_fallback")
               targets == Targets(AlbumOfItem[i])
               untried == targets \ TracksIn(fallbacks)
               A == {[parent |-> l.job, tracks |-> untried] :
                        l \in {m \in RootLinksOf(i) : untried # {} /\ MayContinue(m.job)}}
               B == {[parent |-> l.job, tracks |-> {l.track}] :
                        l \in {m \in fallbacks : m.track \in targets /\ MayContinue(m.job)}}
    <3>4. RootLinksOf(i) \subseteq LinksOf(i) /\ fallbacks \subseteq LinksOf(i)
      BY DEF RootLinksOf, InRole
    <3>5. untried \in SUBSET Track
      BY <3>3
    <3>6. Repairs(i) = A \cup B \/ Repairs(i) = {}
      BY DEF Repairs
    <3> HIDE DEF untried, fallbacks
    <3>7. A \subseteq Spawn
      BY <3>2, <3>4, <3>5
    <3>8. \A l \in fallbacks : l.track \in targets => {l.track} \in SUBSET Track
      BY <3>3
    <3> HIDE DEF targets
    <3>9. B \subseteq Spawn
      BY <3>2, <3>4, <3>8
    <3> HIDE DEF A, B
    <3> QED
      BY <3>6, <3>7, <3>9
  <2>2. RunnerOK'
    BY <1>13, <1>a, <2>1 DEF Inspect, RunnerOK, Runner, Phase
  <2> QED
    BY <1>13, <2>2, <1>a, <1>b, <1>c DEF RunnerOK, RequestOK, BatchTypeOK, Inspect
<1>14. ASSUME NEW s \in runner.spawns, Repair(s) PROVE TypeOK'
  <2>1. s.parent \in JobId /\ s.tracks \in SUBSET Track
    BY <1>a DEF Runner, Spawn
  <2>2. ClaimsTypeOK' /\ links' \in SUBSET Link
    <3>1. UNCHANGED <<working, rootClaim, owned, manifest, bypassed, events>> /\ UNCHANGED asks
      BY <1>14 DEF Repair
    <3>2. asks' \in [JobId -> SUBSET Track]
      BY <3>1 DEF ClaimsTypeOK
    <3>3. SpawnContinuations(s.parent, s.tracks)
      BY <1>14 DEF Repair
    <3> QED
      BY <2>1, <3>1, <3>2, <3>3, SpawnTyped
  <2>3. RunnerOK'
    <3>1. runner' = IdleRunner \/ runner' = [runner EXCEPT !.spawns = @ \ {s}]
      BY <1>14 DEF Repair
    <3>2. CASE runner' = [runner EXCEPT !.spawns = @ \ {s}]
      BY <3>2, <1>a DEF RunnerOK, Runner
    <3> QED
      BY <3>1, <3>2, IdleRunnerOK
  <2> QED
    BY <1>14, <2>2, <2>3, <1>a, <1>b DEF RunnerOK, RequestOK, BatchTypeOK, Repair
<1>15. ASSUME NEW b \in Batch, FinishIdleBatch(b) PROVE TypeOK'
  <2>1. batch' \in [Batch -> BatchState]
    BY <1>15, <1>a, FinishedTyped DEF FinishIdleBatch
  <2>2. RunnerOK'
    BY <1>15, <1>a DEF RunnerOK, FinishIdleBatch
  <2> QED
    BY <1>15, <2>1, <2>2, <1>a, <1>b, <1>c DEF RunnerOK, RequestOK, BatchTypeOK, FinishIdleBatch
<1> QED
  BY <1>1, <1>2, <1>3, <1>4, <1>5, <1>6, <1>7, <1>8, <1>9, <1>10, <1>11, <1>12, <1>13, <1>14, <1>15
     DEF RunnerStep

LEMMA UserStepTyped ==
    ASSUME TypeOK, UserStep
    PROVE  TypeOK'
<1> USE DEF TypeOK
<1>a. /\ batch \in [Batch -> BatchState] /\ item \in [Item -> ItemRow] /\ links \in SUBSET Link
      /\ RunnerOK /\ RequestOK /\ runner \in Runner
  BY BatchTypeParts DEF RunnerOK
<1>b. ASSUME NEW b \in Batch, NEW to \in BatchState, NEW D \in SUBSET Item,
             NEW new \in [D -> ItemRow], Requests(b, to, new)
      PROVE  TypeOK'
  <2>1. RequestOK'
    BY <1>b, RequestsTyped
  <2>2. ClaimsTypeOK'
    BY <1>b DEF Requests, Event, jobVars, ClaimsTypeOK
  <2> QED
    BY <1>a, <1>b, <2>1, <2>2 DEF Requests, RunnerOK, RequestOK, BatchTypeOK
<1>1. ASSUME NEW b \in Batch, QueueBatch(b) PROVE TypeOK'
  <2>1. ClaimsTypeOK'
    BY <1>1 DEF QueueBatch, Event, jobVars, ClaimsTypeOK
  <2>2. \A i \in Item : Queued(i) \in ItemRow
    BY DEF Queued, NewItem, ItemRow, Open, Closed
  <2>3. item' \in [Item -> ItemRow]
    BY <1>1, <1>a, <2>2 DEF QueueBatch
  <2>4. ASSUME NEW i \in Item PROVE ObservedLinks(i) \subseteq Link
    <3>1. \A t \in Targets(AlbumOfItem[i]) : t \in Track
      BY DEF Targets, TracksOf
    <3>2. \A t \in Track : IsActive(trackClaim[t]) => trackClaim[t] \in JobId
      BY DEF IsActive, ClaimsTypeOK
    <3>3. \A t \in Track, j \in JobId :
              [item |-> i, generation |-> NewItem.generation, role |-> "legacy_track", track |-> t,
               job |-> j, created |-> FALSE] \in Link
      BY DEF Link, Role, NewItem
    <3> QED
      BY <3>1, <3>2, <3>3 DEF ObservedLinks
  <2>5. links' \in SUBSET Link
    BY <1>1, <1>a, <2>4 DEF QueueBatch, ItemsOf
  <2>6. batch' \in [Batch -> BatchState]
    BY <1>1, <1>a DEF QueueBatch, BatchState, Running
  <2> QED
    BY <1>1, <1>a, <2>1, <2>3, <2>5, <2>6 DEF QueueBatch, RunnerOK, RequestOK, BatchTypeOK
<1>2. ASSUME NEW b \in Batch, Pause(b) PROVE TypeOK'
  <2>1. NoItems \in [{} -> ItemRow] /\ "paused" \in BatchState
    BY DEF NoItems, BatchState
  <2> QED
    BY <1>2, <2>1, <1>b DEF Pause
<1>3. ASSUME NEW b \in Batch, Resume(b) PROVE TypeOK'
  <2> DEFINE D == {k \in ItemsOf(b) : item[k].state \notin {"complete", "skipped"}}
  <2>1. D \in SUBSET Item
    BY DEF ItemsOf
  <2>2. \A i \in Item : Resumed(i) \in ItemRow
    BY <1>a, ZenonT(60) DEF Resumed, ItemRow, Open, Closed
  <2>3. [i \in D |-> Resumed(i)] \in [D -> ItemRow]
    BY <2>1, <2>2
  <2>4. "queued" \in BatchState
    BY DEF BatchState, Running
  <2>5. Requests(b, "queued", [i \in D |-> Resumed(i)])
    BY <1>3 DEF Resume
  <2> HIDE DEF D
  <2> QED
    BY <2>1, <2>3, <2>4, <2>5, <1>b
<1>4. ASSUME NEW b \in Batch, NEW S \in SUBSET ItemsOf(b), RetryItems(b, S) PROVE TypeOK'
  <2> DEFINE new == [i \in S |-> [state |-> "pending", leased |-> FALSE,
                                  generation |-> item[i].generation + 1,
                                  reason |-> IF item[i].reason = "manifest" THEN "manifest"
                                             ELSE "none"]]
  <2>1. S \in SUBSET Item
    BY DEF ItemsOf
  <2>2. \A i \in Item : item[i].generation + 1 \in Nat
    BY <1>a DEF ItemRow
  <2>3. new \in [S -> ItemRow]
    BY <2>1, <2>2 DEF ItemRow, Open
  <2>4. "queued" \in BatchState
    BY DEF BatchState, Running
  <2>5. Requests(b, "queued", new)
    BY <1>4 DEF RetryItems
  <2> HIDE DEF new
  <2> QED
    BY <2>1, <2>3, <2>4, <2>5, <1>b
<1>5. CASE WriteRequest
  <2>1. /\ request.batch \in Batch /\ request.to \in BatchState
        /\ DOMAIN request.read = DOMAIN request.new
        /\ \A i \in DOMAIN request.read : request.read[i] \in ItemRow /\ request.new[i] \in ItemRow
    BY <1>5, <1>a DEF WriteRequest, RequestOK
  <2>2. \A i \in Item : i \in DOMAIN request.new =>
            Merge(item[i], request.read[i], request.new[i]) \in ItemRow
    BY <2>1, <1>a, RowsTyped
  <2>3. item' \in [Item -> ItemRow]
    BY <1>5, <2>2, <1>a DEF WriteRequest
  <2>4. batch' \in [Batch -> BatchState]
    BY <1>5, <2>1, <1>a DEF WriteRequest
  <2>5. ClaimsTypeOK'
    BY <1>5, ClaimsTypeKept DEF WriteRequest
  <2> QED
    BY <1>5, <1>a, <2>3, <2>4, <2>5 DEF WriteRequest, RunnerOK, RequestOK, BatchTypeOK
<1>6. ASSUME NEW b \in Batch, CancelBatch(b) PROVE TypeOK'
  <2>1. ClaimsTypeOK'
    <3>1. PICK cancelled \in SUBSET JobId :
              status' = [j \in JobId |-> IF status[j] = "pending" /\ j \in cancelled
                                         THEN "cancelled" ELSE status[j]]
      <4> DEFINE created == {l.job : l \in {m \in CreatedLinks(b) : Observers(m) = {}}}
                 chosen == {j \in JobId : Lineage(j) \cap created # {}}
      <4>1. status' = [j \in JobId |-> IF status[j] = "pending" /\ Lineage(j) \cap created # {}
                                       THEN "cancelled" ELSE status[j]]
        BY <1>6 DEF CancelBatch
      <4>2. \A j \in JobId : Lineage(j) \cap created # {} <=> j \in chosen
        OBVIOUS
      <4> HIDE DEF created, chosen
      <4>3. status' = [j \in JobId |-> IF status[j] = "pending" /\ j \in chosen
                                       THEN "cancelled" ELSE status[j]]
        BY <4>1, <4>2
      <4>4. chosen \in SUBSET JobId
        BY DEF chosen
      <4> QED
        BY <4>3, <4>4
    <3>2. None # "pending" /\ None # "cancelled" /\ "cancelled" \in Terminal
      BY ClaimsAssumption DEF Active, Terminal
    <3>3. UNCHANGED <<row, working, asks, rootClaim, trackClaim, owned, manifest, bypassed>>
          /\ Event
      BY <1>6, Zenon DEF CancelBatch
    <3>4. events' \in Nat
      BY <3>3 DEF Event, ClaimsTypeOK
    <3> QED
      BY <3>1, <3>2, <3>3, <3>4 DEF ClaimsTypeOK
  <2>2. links' \in SUBSET Link
    <3>1. PICK taker \in [{l \in CreatedLinks(b) : Observers(l) # {}} -> links] :
              links' = Transferred(b, taker)
      BY <1>6 DEF CancelBatch
    <3>2. \A l \in Link, c \in BOOLEAN : [l EXCEPT !.created = c] \in Link
      BY DEF Link
    <3> DEFINE given == {l \in CreatedLinks(b) : Observers(l) # {}}
               taken == {taker[l] : l \in given}
    <3>3. given \subseteq Link /\ taken \subseteq Link
      BY <1>a, <3>1 DEF CreatedLinks
    <3>4. links' = (links \ (given \cup taken)) \cup {[l EXCEPT !.created = FALSE] : l \in given}
                                                \cup {[l EXCEPT !.created = TRUE] : l \in taken}
      BY <3>1 DEF Transferred
    <3> HIDE DEF given, taken
    <3> QED
      BY <1>a, <3>2, <3>3, <3>4
  <2>3. item' \in [Item -> ItemRow]
    BY <1>6, <1>a, ZenonT(60) DEF CancelBatch, ItemRow, Open, Closed
  <2>4. batch' \in [Batch -> BatchState]
    BY <1>6, <1>a DEF CancelBatch, BatchState
  <2> QED
    BY <1>6, <1>a, <2>1, <2>2, <2>3, <2>4 DEF CancelBatch, RunnerOK, RequestOK, BatchTypeOK
<1> QED
  BY <1>1, <1>2, <1>3, <1>4, <1>5, <1>6 DEF UserStep

LEMMA TypeStep == TypeOK /\ [Next]_vars => TypeOK'
<1> SUFFICES ASSUME TypeOK, [Next]_vars PROVE TypeOK'
  OBVIOUS
<1> USE DEF TypeOK
<1>a. /\ batch \in [Batch -> BatchState] /\ item \in [Item -> ItemRow] /\ links \in SUBSET Link
      /\ RunnerOK /\ RequestOK
  BY BatchTypeParts
<1>b. (UNCHANGED batchVars) => BatchTypeOK'
  BY DEF batchVars, BatchTypeOK
<1>1. ASSUME NEW i \in Item, RecoverExpired(i) PROVE TypeOK'
  <2>1. ClaimsTypeOK'
    BY <1>1, ClaimsTypeKept DEF RecoverExpired
  <2>2. item' \in [Item -> ItemRow]
    BY <1>1, <1>a, ZenonT(60) DEF RecoverExpired, ItemRow, Open
  <2> QED
    BY <1>1, <1>a, <2>1, <2>2 DEF RecoverExpired, RunnerOK, RequestOK, BatchTypeOK
<1>2. ASSUME NEW j \in JobId, JobStep(j) /\ UNCHANGED batchVars PROVE TypeOK'
  BY <1>2, <1>b, JobStepTyped
<1>3. CASE Request /\ UNCHANGED batchVars
  BY <1>3, <1>b, RequestTyped
<1>4. ASSUME NEW p \in JobId, SpawnFromRun(p) PROVE TypeOK'
  <2>1. asks[p] \in SUBSET Track /\ asks' \in [JobId -> SUBSET Track]
    BY <1>4 DEF SpawnFromRun, ClaimsTypeOK
  <2>2. ClaimsTypeOK' /\ links' \in SUBSET Link
    <3>1. UNCHANGED <<working, rootClaim, owned, manifest, bypassed, events>>
          /\ SpawnContinuations(p, asks[p])
      BY <1>4 DEF SpawnFromRun
    <3> QED
      BY <2>1, <3>1, SpawnTyped
  <2> QED
    BY <1>4, <1>a, <2>2 DEF SpawnFromRun, RunnerOK, RequestOK, BatchTypeOK
<1>5. CASE Restart
  <2>1. None # "running" /\ None # "pending" /\ "pending" \in Active
    BY ClaimsAssumption DEF Active
  <2>2. ClaimsTypeOK'
    BY <1>5, <2>1 DEF Restart, Event, ClaimsTypeOK
  <2>3. RunnerOK' /\ RequestOK'
    BY <1>5, IdleRunnerOK DEF Restart, RequestOK
  <2> QED
    BY <1>5, <1>a, <2>2, <2>3 DEF Restart, RunnerOK, RequestOK, BatchTypeOK
<1>6. CASE UNCHANGED vars
  BY <1>6, <1>b, ClaimsTypeKept DEF vars, batchVars
<1> QED
  BY <1>1, <1>2, <1>3, <1>4, <1>5, <1>6, RunnerStepTyped, UserStepTyped DEF Next

LEMMA TypeInit == Init => TypeOK
<1> SUFFICES ASSUME Init PROVE TypeOK
  OBVIOUS
<1>1. ClaimsTypeOK
  BY ClaimsAssumption DEF Init, ClaimsInit, ClaimsTypeOK
<1>2. BatchTypeOK
  BY IdleTyped, RowsTyped DEF Init, BatchTypeOK, BatchState, IdleRunner
<1> QED
  BY <1>1, <1>2 DEF TypeOK

(* Every variable keeps its type; in particular the runner has an item     *)
(* whenever its phase needs one, and a verdict when it records one.        *)
THEOREM BatchTypeCorrect == Spec => []TypeOK
  BY TypeInit, TypeStep, PTL DEF Spec

-----------------------------------------------------------------------------
(* Steps.                                                                  *)

(* A step that concerns neither jobs nor claims nor links.                 *)
Bystanding ==
    /\ UNCHANGED <<status, row, working, rootClaim, trackClaim, bypassed, links>>
    /\ \A j \in JobId : asks'[j] \subseteq asks[j]
    /\ runner'.spawns \subseteq runner.spawns

AskedFor(p, T) == T = asks[p] \/ \E s \in runner.spawns : p = s.parent /\ T = s.tracks

Continues(p, T) ==
    /\ AskedFor(p, T) /\ T \in SUBSET Track
    /\ ~SpawnsNothing(p) /\ Continue(p, T)
    /\ UNCHANGED <<working, rootClaim, bypassed, batch, item>>
    /\ \A j \in JobId : asks'[j] \subseteq asks[j]
    /\ runner'.spawns \subseteq runner.spawns

Reserves(i) ==
    /\ ReserveCreates(i) /\ HoldsLease(i, {"expanding"})
    /\ UNCHANGED <<working, asks, trackClaim, bypassed, batch, item>>
    /\ runner'.spawns = runner.spawns

Observes(i) ==
    /\ \/ UNCHANGED links
       \/ /\ IsActive(rootClaim[AlbumOfItem[i]])
          /\ links' = links \cup {RootLink(i, rootClaim[AlbumOfItem[i]], FALSE)}
    /\ UNCHANGED <<jobVars, bypassed>>
    /\ runner'.spawns = runner.spawns

Joins(b) ==
    /\ links' = links \cup UNION {ObservedLinks(i) : i \in ItemsOf(b)}
    /\ UNCHANGED <<jobVars, bypassed, runner>>

Inspects(i) == UNCHANGED <<jobVars, bypassed, links>> /\ runner'.spawns = Repairs(i)

JobStepTaken(j) == JobStep(j) /\ UNCHANGED batchVars

RequestMade ==
    /\ UNCHANGED batchVars
    /\ \/ \E a \in Album : OrdinaryRequest(a) \/ MonitorRequest(a)
       \/ \E t \in Track, parent \in JobId \cup {None} : DirectRequest(t, parent)

StepKinds ==
    \/ Bystanding
    \/ \E p \in JobId : \E T : Continues(p, T)
    \/ \E i \in Item : Reserves(i) \/ Observes(i) \/ Inspects(i)
    \/ \E b \in Batch : Joins(b) \/ CancelBatch(b)
    \/ \E j \in JobId : JobStepTaken(j)
    \/ RequestMade
    \/ Restart

LEMMA SpawnKinds ==
    ASSUME TypeOK, NEW p \in JobId, NEW T \in SUBSET Track, AskedFor(p, T), SpawnContinuations(p, T),
           UNCHANGED <<working, rootClaim, bypassed, batch, item>>,
           \A j \in JobId : asks'[j] \subseteq asks[j],
           runner'.spawns \subseteq runner.spawns
    PROVE  StepKinds
<1>1. CASE UNCHANGED <<status, row, trackClaim, links>>
  BY <1>1 DEF StepKinds, Bystanding
<1>2. CASE ~SpawnsNothing(p) /\ Continue(p, T)
  BY <1>2 DEF StepKinds, Continues
<1> QED
  BY <1>1, <1>2 DEF SpawnContinuations

LEMMA RunnerStepKinds == TypeOK /\ RunnerStep => StepKinds
<1> SUFFICES ASSUME TypeOK, RunnerStep PROVE StepKinds
  OBVIOUS
<1>a. runner \in Runner /\ (runner.phase \notin {"idle", "inspect"} => runner.item \in Item)
  BY DEF TypeOK, BatchTypeOK
<1>b. ASSUME UNCHANGED <<claimVars, links>>, runner'.spawns \subseteq runner.spawns
      PROVE  StepKinds
  <2>1. Bystanding
    BY <1>b DEF claimVars, jobVars, Bystanding
  <2> QED
    BY <2>1 DEF StepKinds
<1>c. \A p : Proceed(p) => runner'.spawns = runner.spawns
  BY <1>a DEF Proceed, Runner
<1>d. IdleRunner.spawns = {} /\ \A todo : Inspecting(todo).spawns = {}
  BY DEF Inspecting, IdleRunner
<1>e. \A i, v : ToRecord(i, v) => runner'.spawns = runner.spawns
  BY <1>a DEF ToRecord, Runner
<1>1. CASE SelectPending
  BY <1>1, <1>b, <1>d DEF SelectPending, IdleRunner
<1>2. CASE Claim
  <2>1. runner'.spawns \subseteq runner.spawns /\ UNCHANGED <<claimVars, links>>
    BY <1>2, <1>c, <1>d DEF Claim
  <2> QED
    BY <2>1, <1>b
<1>3. CASE Hydrate
  <2>1. Bystanding
    BY <1>3, <1>c DEF Hydrate, Bystanding, jobVars
  <2> QED
    BY <2>1 DEF StepKinds
<1>4. CASE Hydrated
  <2>1. runner'.spawns \subseteq runner.spawns /\ UNCHANGED <<claimVars, links>>
    BY <1>4, <1>c, <1>d DEF Hydrated
  <2> QED
    BY <2>1, <1>b
<1>5. CASE Project
  <2>1. runner'.spawns \subseteq runner.spawns /\ UNCHANGED <<claimVars, links>>
    BY <1>5, <1>a, <1>d DEF Project, Runner
  <2> QED
    BY <2>1, <1>b
<1>6. CASE Reserve
  <2> DEFINE i == runner.item
  <2>1. i \in Item
    BY <1>6, <1>a DEF Reserve
  <2>2. UNCHANGED <<working, asks, trackClaim, owned, manifest, bypassed, events>>
        /\ UNCHANGED <<batch, item, request>>
    BY <1>6 DEF Reserve
  <2>3. CASE ReserveRefused(i)
    <3>1. runner'.spawns \subseteq runner.spawns /\ UNCHANGED <<status, row, rootClaim, links>>
      BY <2>3, <1>a, <1>d DEF ReserveRefused, Runner
    <3>2. Bystanding
      BY <2>2, <3>1 DEF Bystanding
    <3> QED
      BY <3>2 DEF StepKinds
  <2>4. CASE ReserveObserves(i)
    <3>1. runner'.spawns = runner.spawns
      BY <2>4, <1>c DEF ReserveObserves
    <3>2. /\ UNCHANGED <<status, row, rootClaim>>
          /\ \/ UNCHANGED links
             \/ /\ IsActive(rootClaim[AlbumOfItem[i]])
                /\ links' = links \cup {RootLink(i, rootClaim[AlbumOfItem[i]], FALSE)}
      BY <2>4 DEF ReserveObserves
    <3>3. Observes(i)
      BY <2>2, <3>1, <3>2 DEF Observes, jobVars
    <3> QED
      BY <2>1, <3>3 DEF StepKinds
  <2>5. CASE ReserveCreates(i)
    <3>1. runner'.spawns = runner.spawns /\ HoldsLease(i, {"expanding"})
      BY <2>5, <1>c DEF ReserveCreates, Refused
    <3>2. Reserves(i)
      BY <2>2, <2>5, <3>1 DEF Reserves
    <3> QED
      BY <2>1, <3>2 DEF StepKinds
  <2> QED
    BY <1>6, <2>3, <2>4, <2>5 DEF Reserve
<1>7. CASE Notify
  BY <1>7, <1>b, <1>c DEF Notify
<1>8. CASE Judge
  <2>1. runner'.spawns \subseteq runner.spawns /\ UNCHANGED <<claimVars, links>>
    BY <1>8, <1>d, <1>e DEF Judge
  <2> QED
    BY <2>1, <1>b
<1>9. CASE Fail
  <2>1. runner'.spawns \subseteq runner.spawns /\ UNCHANGED <<claimVars, links>>
    BY <1>9, <1>d, <1>e DEF Fail
  <2> QED
    BY <2>1, <1>b
<1>10. CASE Record
  BY <1>10, <1>b, <1>d DEF Record
<1>11. CASE SelectWaiting
  BY <1>11, <1>b, <1>d DEF SelectWaiting
<1>12. CASE JudgeWaiting
  <2>1. runner'.spawns \subseteq runner.spawns /\ UNCHANGED <<claimVars, links>>
    BY <1>12, <1>d, <1>e DEF JudgeWaiting
  <2> QED
    BY <2>1, <1>b
<1>13. ASSUME NEW i \in Item, Inspect(i) PROVE StepKinds
  <2>1. runner'.spawns = Repairs(i)
    BY <1>13, <1>a DEF Inspect, Runner
  <2>2. Inspects(i)
    BY <1>13, <2>1 DEF Inspect, Inspects, claimVars
  <2> QED
    BY <2>2 DEF StepKinds
<1>14. ASSUME NEW s \in runner.spawns, Repair(s) PROVE StepKinds
  <2>1. s.parent \in JobId /\ s.tracks \in SUBSET Track
    BY <1>a DEF Runner, Spawn
  <2>2. runner'.spawns \subseteq runner.spawns
    BY <1>14, <1>a, <1>d DEF Repair, Runner
  <2>3. SpawnContinuations(s.parent, s.tracks)
        /\ UNCHANGED <<working, asks, rootClaim, bypassed, batch, item>>
    BY <1>14 DEF Repair
  <2>4. AskedFor(s.parent, s.tracks) /\ \A j \in JobId : asks'[j] \subseteq asks[j]
    BY <2>3 DEF AskedFor
  <2> QED
    BY <2>1, <2>2, <2>3, <2>4, SpawnKinds
<1>15. ASSUME NEW b \in Batch, FinishIdleBatch(b) PROVE StepKinds
  BY <1>15, <1>b DEF FinishIdleBatch
<1> QED
  BY <1>1, <1>2, <1>3, <1>4, <1>5, <1>6, <1>7, <1>8, <1>9, <1>10, <1>11, <1>12, <1>13, <1>14, <1>15
     DEF RunnerStep

LEMMA NextKinds == TypeOK /\ [Next]_vars => StepKinds
<1> SUFFICES ASSUME TypeOK, [Next]_vars PROVE StepKinds
  OBVIOUS
<1>b. Bystanding => StepKinds
  BY DEF StepKinds
<1>1. CASE RunnerStep
  BY <1>1, RunnerStepKinds
<1>2. ASSUME NEW i \in Item, RecoverExpired(i) PROVE StepKinds
  BY <1>2, <1>b DEF RecoverExpired, Bystanding, claimVars, jobVars
<1>3. CASE UserStep
  <2>1. ASSUME NEW b \in Batch, QueueBatch(b) PROVE StepKinds
    <3>1. Joins(b)
      BY <2>1 DEF QueueBatch, Joins
    <3> QED
      BY <3>1 DEF StepKinds
  <2>2. ASSUME NEW b, NEW to, NEW new, Requests(b, to, new) PROVE StepKinds
    BY <2>2, <1>b DEF Requests, Bystanding, jobVars
  <2>3. ASSUME NEW b \in Batch, CancelBatch(b) PROVE StepKinds
    BY <2>3 DEF StepKinds
  <2>4. CASE WriteRequest
    BY <2>4, <1>b DEF WriteRequest, Bystanding, claimVars, jobVars
  <2> QED
    BY <1>3, <2>1, <2>2, <2>3, <2>4 DEF UserStep, Pause, Resume, RetryItems
<1>4. ASSUME NEW j \in JobId, JobStep(j) /\ UNCHANGED batchVars PROVE StepKinds
  BY <1>4 DEF StepKinds, JobStepTaken
<1>5. CASE Request /\ UNCHANGED batchVars
  <2>1. CASE CatalogChanges
    BY <1>5, <2>1, <1>b DEF CatalogChanges, Bystanding, jobVars, batchVars
  <2>2. CASE RequestMade
    BY <2>2 DEF StepKinds
  <2> QED
    BY <1>5, <2>1, <2>2 DEF Request, RequestMade
<1>6. ASSUME NEW p \in JobId, SpawnFromRun(p) PROVE StepKinds
  <2>1. /\ SpawnContinuations(p, asks[p])
        /\ asks' = [asks EXCEPT ![p] = {}]
        /\ UNCHANGED <<working, rootClaim, bypassed, batch, item, runner>>
    BY <1>6 DEF SpawnFromRun
  <2>2. asks[p] \in SUBSET Track /\ \A j \in JobId : asks'[j] \subseteq asks[j]
    BY <2>1 DEF TypeOK, ClaimsTypeOK
  <2>3. AskedFor(p, asks[p])
    BY DEF AskedFor
  <2> QED
    BY <2>1, <2>2, <2>3, SpawnKinds
<1>7. CASE Restart
  BY <1>7 DEF StepKinds
<1>8. CASE UNCHANGED vars
  BY <1>8, <1>b DEF vars, claimVars, jobVars, batchVars, Bystanding
<1> QED
  BY <1>1, <1>2, <1>3, <1>4, <1>5, <1>6, <1>7, <1>8 DEF Next

-----------------------------------------------------------------------------
(* The inductive invariant.                                                *)

(* A claim names a job of its album or track, a link a job of its item.    *)
ClaimsFit ==
    /\ \A a \in Album : rootClaim[a] # None =>
           /\ row[rootClaim[a]] # None
           /\ row[rootClaim[a]].album = a /\ row[rootClaim[a]].track = None
    /\ \A t \in Track : trackClaim[t] # None =>
           row[trackClaim[t]] # None /\ row[trackClaim[t]].track = t

LinksFit ==
    \A l \in links : /\ row[l.job] # None
                     /\ row[l.job].album = AlbumOfItem[l.item]
                     /\ row[l.job].track = l.track

(* Continuations are asked for within the limit and the parent's album.    *)
MayAsk(p, T) ==
    T # {} => /\ row[p] # None /\ row[p].attempt < MaxAttempts
              /\ \A t \in T : AlbumOf[t] = row[p].album

AsksFit ==
    /\ \A p \in JobId : MayAsk(p, asks[p])
    /\ \A s \in runner.spawns : MayAsk(s.parent, s.tracks)

ParentsExist ==
    \A j \in JobId : row[j] # None /\ row[j].parent # None => row[row[j].parent] # None

Shape == ClaimsFit /\ LinksFit /\ AsksFit /\ ParentsExist

(* A job at work runs, and owns its track.                                 *)
WorkersOwn ==
    \A j \in working : /\ status[j] = "running"
                       /\ row[j].track # None => trackClaim[row[j].track] = j

(* Where requests take claims, an active job is the owner, of the album or *)
(* of its track; and if of the album, no track has an active owner.        *)
ActiveJobsOwn ==
    \A j \in JobId : status[j] \in Active /\ row[j].album \notin bypassed =>
        IF row[j].track = None THEN rootClaim[row[j].album] = j
        ELSE trackClaim[row[j].track] = j

RootsExclude ==
    \A a \in Album, t \in Track :
        AlbumOf[t] = a /\ a \notin bypassed =>
            ~(IsActive(rootClaim[a]) /\ IsActive(trackClaim[t]))

-----------------------------------------------------------------------------
(* What the steps that create jobs do.                                     *)

Continued(p, T, heir, fresh) ==
    /\ fresh \subseteq T
    /\ \A t \in fresh : /\ heir[t] \in Absent
                        /\ row'[heir[t]] = TrackRow(t, p, row[p].attempt + 1)
                        /\ status'[heir[t]] = "pending"
                        /\ ~IsActive(trackClaim[t])
                        /\ \A u \in fresh : heir[t] = heir[u] => t = u
    /\ \A t \in T \ fresh : /\ row[heir[t]] # None /\ row[heir[t]].track = t
                            /\ IsActive(trackClaim[t]) => heir[t] = trackClaim[t]
    /\ \A j \in JobId : \/ row'[j] = row[j] /\ status'[j] = status[j]
                        \/ \E t \in fresh : j = heir[t]
    /\ trackClaim' = [t \in Track |-> IF t \in T THEN heir[t] ELSE trackClaim[t]]
    /\ links' = SpawnedLinks(p, T, heir, fresh)

LEMMA ContinueEffect ==
    ASSUME TypeOK, ClaimsFit, NEW p \in JobId, NEW T \in SUBSET Track, Continue(p, T)
    PROVE  \E heir \in [T -> JobId], fresh \in SUBSET T : Continued(p, T, heir, fresh)
<1>1. PICK heir \in [T -> JobId] :
          LET fresh == {t \in T : Heirs(p, t) = {}}
              new == [t \in fresh |-> heir[t]]
          IN  /\ \A t \in T \ fresh : IsHeir(heir[t], p, t)
              /\ new \in Numberings(fresh)
              /\ Insert(TrackRows(new, p, row[p].attempt + 1))
              /\ trackClaim' = [t \in Track |-> IF t \in T THEN heir[t] ELSE trackClaim[t]]
              /\ links' = SpawnedLinks(p, T, heir, fresh)
  BY DEF Continue
<1> DEFINE fresh == {t \in T : Heirs(p, t) = {}}
           new == [t \in fresh |-> heir[t]]
<1>2. /\ \A t \in T \ fresh : IsHeir(heir[t], p, t)
      /\ new \in Numberings(fresh)
      /\ Insert(TrackRows(new, p, row[p].attempt + 1))
      /\ trackClaim' = [t \in Track |-> IF t \in T THEN heir[t] ELSE trackClaim[t]]
      /\ links' = SpawnedLinks(p, T, heir, fresh)
  BY <1>1
<1>3. fresh \in SUBSET T
  OBVIOUS
<1>4. \A t \in fresh : ~IsActive(trackClaim[t])
  BY DEF Heirs
<1>5. \A t \in fresh : new[t] = heir[t]
  OBVIOUS
<1>6. ASSUME NEW t \in T \ fresh
      PROVE  /\ row[heir[t]] # None /\ row[heir[t]].track = t
             /\ IsActive(trackClaim[t]) => heir[t] = trackClaim[t]
  <2>1. heir[t] \in Heirs(p, t) /\ t \in Track
    BY <1>2, <1>6 DEF IsHeir
  <2> QED
    BY <2>1 DEF Heirs, ClaimsFit, IsActive
<1> HIDE DEF fresh, new
<1>7. /\ \A t \in fresh : /\ new[t] \in Absent
                          /\ row'[new[t]] = TrackRow(t, p, row[p].attempt + 1)
                          /\ status'[new[t]] = "pending"
      /\ \A j \in JobId : \/ row'[j] = row[j] /\ status'[j] = status[j]
                          \/ \E t \in fresh : j = new[t]
  BY <1>2, InsertEffect
<1>8. \A t, u \in fresh : new[t] = new[u] => t = u
  BY <1>2, NumberingsAreNew
<1>9. Continued(p, T, heir, fresh)
  BY <1>2, <1>3, <1>4, <1>5, <1>6, <1>7, <1>8 DEF Continued
<1> QED
  BY <1>3, <1>9

(* A request for a set of tracks.                                          *)
Requested(a, T, new) ==
    /\ T \subseteq FreeTracks(a) /\ T # {}
    /\ \A t \in T : /\ new[t] \in Absent /\ row'[new[t]] = TrackRow(t, None, 0)
                    /\ status'[new[t]] = "pending"
                    /\ \A u \in T : new[t] = new[u] => t = u
    /\ \A j \in JobId : \/ row'[j] = row[j] /\ status'[j] = status[j]
                        \/ \E t \in T : j = new[t]
    /\ trackClaim' = [t \in Track |-> IF t \in T THEN new[t] ELSE trackClaim[t]]
    /\ UNCHANGED <<working, asks, rootClaim, bypassed>>

LEMMA OrdinaryEffect ==
    ASSUME TypeOK, NEW a \in Album, OrdinaryRequest(a)
    PROVE  \E T \in SUBSET Track : \E new : Requested(a, T, new)
<1>1. PICK T \in SUBSET FreeTracks(a) :
          /\ T # {}
          /\ \E new \in Numberings(T) :
                 /\ Insert(TrackRows(new, None, 0))
                 /\ trackClaim' = [t \in Track |-> IF t \in T THEN new[t] ELSE trackClaim[t]]
  BY DEF OrdinaryRequest
<1>2. PICK new \in Numberings(T) :
          /\ Insert(TrackRows(new, None, 0))
          /\ trackClaim' = [t \in Track |-> IF t \in T THEN new[t] ELSE trackClaim[t]]
  BY <1>1
<1>3. T \in SUBSET Track
  BY DEF FreeTracks, Targets, TracksOf
<1>4. /\ \A t \in T : /\ new[t] \in Absent /\ row'[new[t]] = TrackRow(t, None, 0)
                      /\ status'[new[t]] = "pending"
      /\ \A j \in JobId : \/ row'[j] = row[j] /\ status'[j] = status[j]
                          \/ \E t \in T : j = new[t]
  BY <1>2, InsertEffect
<1>5. \A t, u \in T : new[t] = new[u] => t = u
  BY NumberingsAreNew
<1>6. UNCHANGED <<working, asks, rootClaim, bypassed>>
  BY DEF OrdinaryRequest
<1>7. Requested(a, T, new)
  BY <1>1, <1>2, <1>4, <1>5, <1>6 DEF Requested
<1> QED
  BY <1>3, <1>7

(* A new job that takes no claim.                                          *)
Intrudes(j) ==
    /\ j \in Absent /\ status'[j] = "pending"
    /\ row'[j] # None /\ row'[j].album \in bypassed
    /\ row'[j].parent # None => row'[j].parent \in JobId /\ row[row'[j].parent] # None
    /\ \A k \in JobId : k # j => row'[k] = row[k] /\ status'[k] = status[k]
    /\ UNCHANGED <<working, asks, rootClaim, trackClaim, bypassed>>

LEMMA DirectEffect ==
    ASSUME TypeOK, NEW t \in Track, NEW parent \in JobId \cup {None}, DirectRequest(t, parent)
    PROVE  \E j \in JobId : Intrudes(j)
<1> DEFINE attempt == IF parent = None THEN 0 ELSE row[parent].attempt + 1
<1>1. PICK new \in Numberings({t}) : Insert(TrackRows(new, parent, attempt))
  BY DEF DirectRequest
<1> HIDE DEF attempt
<1>2. /\ new[t] \in Absent /\ row'[new[t]] = TrackRow(t, parent, attempt)
      /\ status'[new[t]] = "pending"
      /\ \A j \in JobId : \/ row'[j] = row[j] /\ status'[j] = status[j]
                          \/ j = new[t]
  BY <1>1, InsertEffect
<1>3. /\ AlbumOf[t] \in bypassed /\ (parent # None => status[parent] \in Terminal)
      /\ UNCHANGED <<working, asks, rootClaim, trackClaim, bypassed>>
  BY DEF DirectRequest
<1>4. parent # None => row[parent] # None
  BY <1>3, ClaimsTypeFacts, ClaimsAssumption DEF TypeOK, ClaimsTypeOK
<1>5. TrackRow(t, parent, attempt) \in [album : {AlbumOf[t]}, track : {t}, parent : {parent}, attempt : {attempt}]
      /\ AlbumOf[t] \in Album /\ parent \in JobId \cup {None}
  BY ClaimsAssumption DEF TrackRow
<1>6. new[t] \in JobId
  BY <1>2 DEF Absent
<1>7. row'[new[t]] # None
  <2>1. attempt \in Nat
    BY <1>4, ClaimsTypeFacts DEF attempt, TypeOK, Row
  <2>2. TrackRow(t, parent, attempt) \in Row
    BY <2>1, ClaimsAssumption DEF TrackRow, Row
  <2> QED
    BY <1>2, <2>2, ClaimsAssumption
<1>8. Intrudes(new[t])
  BY <1>2, <1>3, <1>4, <1>5, <1>6, <1>7 DEF Intrudes
<1> QED
  BY <1>6, <1>8

LEMMA MonitorEffect ==
    ASSUME TypeOK, NEW a \in Album, MonitorRequest(a)
    PROVE  \E j \in JobId : Intrudes(j)
<1>1. PICK j \in Absent : Insert([k \in {j} |-> RootRow(a)])
  BY DEF MonitorRequest, NextFree
<1>2. /\ row'[j] = RootRow(a) /\ status'[j] = "pending"
      /\ \A k \in JobId : k # j => row'[k] = row[k] /\ status'[k] = status[k]
  BY <1>1, InsertRootEffect
<1>3. RootRow(a) # None /\ RootRow(a).album = a /\ RootRow(a).parent = None
  BY ClaimsAssumption DEF RootRow, Row
<1>4. a \in bypassed /\ UNCHANGED <<working, asks, rootClaim, trackClaim, bypassed>>
  BY DEF MonitorRequest
<1>5. Intrudes(j)
  BY <1>1, <1>2, <1>3, <1>4 DEF Intrudes
<1> QED
  BY <1>1, <1>5 DEF Absent

Reserved(i, j) ==
    /\ j \in Absent /\ row'[j] = RootRow(AlbumOfItem[i]) /\ status'[j] = "pending"
    /\ \A k \in JobId : k # j => row'[k] = row[k] /\ status'[k] = status[k]
    /\ rootClaim' = [rootClaim EXCEPT ![AlbumOfItem[i]] = j]
    /\ links' = links \cup {RootLink(i, j, TRUE)}
    /\ ~Occupied(i) /\ HoldsLease(i, {"expanding"})
    /\ UNCHANGED <<working, asks, trackClaim, bypassed, batch, item>>
    /\ runner'.spawns = runner.spawns

LEMMA ReserveEffect ==
    ASSUME TypeOK, NEW i \in Item, Reserves(i)
    PROVE  \E j \in JobId : Reserved(i, j)
<1>1. PICK j \in Absent :
          /\ Insert([k \in {j} |-> RootRow(AlbumOfItem[i])])
          /\ rootClaim' = [rootClaim EXCEPT ![AlbumOfItem[i]] = j]
          /\ links' = links \cup {RootLink(i, j, TRUE)}
  BY DEF Reserves, ReserveCreates, NextFree
<1>2. /\ row'[j] = RootRow(AlbumOfItem[i]) /\ status'[j] = "pending"
      /\ \A k \in JobId : k # j => row'[k] = row[k] /\ status'[k] = status[k]
  BY <1>1, InsertRootEffect
<1>3. ~Occupied(i)
  BY DEF Reserves, ReserveCreates
<1>4. Reserved(i, j)
  BY <1>1, <1>2, <1>3 DEF Reserves, Reserved
<1> QED
  BY <1>1, <1>4 DEF Absent

LEMMA NewRowsTyped ==
    /\ \A a : RootRow(a) = [album |-> a, track |-> None, parent |-> None, attempt |-> 0]
    /\ \A a \in Album : RootRow(a) # None
    /\ \A t \in Track, p \in JobId \cup {None}, n \in Nat :
           /\ TrackRow(t, p, n) # None
           /\ TrackRow(t, p, n).track = t /\ TrackRow(t, p, n).album = AlbumOf[t]
           /\ TrackRow(t, p, n).parent = p /\ TrackRow(t, p, n).attempt = n
<1>1. \A a \in Album : RootRow(a) \in Row
  BY DEF RootRow, Row
<1>2. \A t \in Track, p \in JobId \cup {None}, n \in Nat : TrackRow(t, p, n) \in Row
  BY ClaimsAssumption DEF TrackRow, Row
<1> QED
  BY <1>1, <1>2, ClaimsAssumption DEF RootRow, TrackRow

(* A step that leaves rows, claims and links alone.                        *)
LEMMA ShapeKept ==
    ASSUME Shape, UNCHANGED <<row, rootClaim, trackClaim, links>>,
           \A j \in JobId : asks'[j] \subseteq asks[j],
           runner'.spawns \subseteq runner.spawns
    PROVE  Shape'
<1>1. ClaimsFit' /\ LinksFit' /\ ParentsExist'
  BY DEF Shape, ClaimsFit, LinksFit, ParentsExist
<1>2. AsksFit'
  BY DEF Shape, AsksFit, MayAsk
<1> QED
  BY <1>1, <1>2 DEF Shape

LEMMA ContinueAsked ==
    ASSUME TypeOK, Shape, NEW p \in JobId, NEW T, Continues(p, T)
    PROVE  /\ MayAsk(p, T) /\ row[p] # None
           /\ row[p].attempt \in Nat
<1>1. MayAsk(p, T)
  BY DEF Continues, AskedFor, Shape, AsksFit
<1>2. row[p] \in Row
  BY ClaimsTypeFacts, ClaimsAssumption DEF TypeOK, Continues, SpawnsNothing, Terminal
<1> QED
  BY <1>1, <1>2, ClaimsAssumption DEF Row

LEMMA ShapeContinues ==
    ASSUME TypeOK, Shape, NEW p \in JobId, NEW T, Continues(p, T)
    PROVE  Shape'
<1>1. /\ T \in SUBSET Track /\ Continue(p, T)
      /\ UNCHANGED <<working, rootClaim, bypassed, batch, item>>
      /\ \A j \in JobId : asks'[j] \subseteq asks[j]
      /\ runner'.spawns \subseteq runner.spawns
  BY DEF Continues
<1>2. PICK heir \in [T -> JobId], fresh \in SUBSET T : Continued(p, T, heir, fresh)
  BY <1>1, ContinueEffect DEF Shape
<1>3. MayAsk(p, T) /\ row[p] # None /\ row[p].attempt \in Nat
  BY ContinueAsked
<1>4. \A t \in fresh : /\ row'[heir[t]] # None /\ row'[heir[t]].track = t
                       /\ row'[heir[t]].album = AlbumOf[t] /\ row'[heir[t]].parent = p
  BY <1>1, <1>2, <1>3, NewRowsTyped DEF Continued
<1>5. \A j \in JobId : row[j] # None => row'[j] = row[j]
  BY <1>2 DEF Continued, Absent
<1>6. \A t \in T : row'[heir[t]] # None /\ row'[heir[t]].track = t
  BY <1>1, <1>2, <1>4, <1>5 DEF Continued
<1>7. \A t \in T : row'[heir[t]].album = AlbumOf[t]
  <2>1. \A t \in T \ fresh : row[heir[t]].album = AlbumOf[t]
    BY <1>1, <1>2 DEF Continued, TypeOK, ClaimsTypeOK
  <2> QED
    BY <1>2, <1>4, <1>5, <2>1 DEF Continued
<1>8. ClaimsFit'
  <2>1. \A a \in Album : rootClaim[a] # None => rootClaim[a] \in JobId
    BY DEF TypeOK, ClaimsTypeOK
  <2>2. \A t \in Track : trackClaim[t] # None => trackClaim[t] \in JobId
    BY DEF TypeOK, ClaimsTypeOK
  <2>3. \A t \in Track : trackClaim'[t] = IF t \in T THEN heir[t] ELSE trackClaim[t]
    BY <1>2 DEF Continued
  <2> QED
    BY <1>1, <1>5, <1>6, <2>1, <2>2, <2>3 DEF Shape, ClaimsFit
<1>9. LinksFit'
  <2>1. ASSUME NEW m \in links'
        PROVE  \/ m \in links
               \/ \E l \in OpenContexts(p), t \in T :
                      m.item = l.item /\ m.track = t /\ m.job = heir[t]
    BY <1>2, <2>1 DEF Continued, SpawnedLinks
  <2>2. \A l \in OpenContexts(p) : l \in links /\ l.job = p
    BY DEF OpenContexts, Contexts
  <2>3. \A m \in links : m.job \in JobId
    BY DEF TypeOK, BatchTypeOK, Link
  <2>4. \A l \in OpenContexts(p), t \in T : AlbumOf[t] = AlbumOfItem[l.item]
    BY <1>3, <2>2 DEF MayAsk, Shape, LinksFit
  <2>5. ASSUME NEW m \in links'
        PROVE  row'[m.job] # None /\ row'[m.job].album = AlbumOfItem[m.item]
               /\ row'[m.job].track = m.track
    <3>1. CASE m \in links
      BY <1>5, <2>3, <3>1 DEF Shape, LinksFit
    <3>2. CASE m \notin links
      BY <1>6, <1>7, <2>1, <2>4, <3>2
    <3> QED
      BY <3>1, <3>2
  <2> QED
    BY <2>5 DEF LinksFit
<1>10. AsksFit'
  <2>1. \A s \in runner.spawns : s.parent \in JobId
    BY DEF TypeOK, BatchTypeOK, Runner, Spawn
  <2> QED
    BY <1>1, <1>5, <2>1 DEF Shape, AsksFit, MayAsk
<1>11. ParentsExist'
  <2>1. ASSUME NEW j \in JobId, row'[j] # None, row'[j].parent # None
        PROVE  row'[row'[j].parent] # None
    <3>1. CASE \E t \in fresh : j = heir[t]
      BY <1>3, <1>4, <1>5, <3>1
    <3>2. CASE row'[j] = row[j]
      <4>1. row[j] \in Row
        BY <2>1, <3>2, ClaimsTypeFacts DEF TypeOK
      <4>2. row[j].parent \in JobId
        BY <2>1, <3>2, <4>1 DEF Row
      <4> QED
        BY <1>5, <2>1, <3>2, <4>2 DEF Shape, ParentsExist
    <3> QED
      BY <1>2, <3>1, <3>2 DEF Continued
  <2> QED
    BY <2>1 DEF ParentsExist
<1> QED
  BY <1>8, <1>9, <1>10, <1>11 DEF Shape

(* New jobs, and what they are linked to, change nothing for the others.   *)
LEMMA RowsGrow ==
    ASSUME TypeOK, Shape, \A j \in JobId : row[j] # None => row'[j] = row[j],
           \A j \in JobId : asks'[j] \subseteq asks[j],
           runner'.spawns \subseteq runner.spawns
    PROVE  /\ AsksFit'
           /\ \A m \in links : /\ row'[m.job] # None
                               /\ row'[m.job].album = AlbumOfItem[m.item]
                               /\ row'[m.job].track = m.track
           /\ \A a \in Album : rootClaim[a] # None =>
                  /\ row'[rootClaim[a]] # None
                  /\ row'[rootClaim[a]].album = a /\ row'[rootClaim[a]].track = None
           /\ \A t \in Track : trackClaim[t] # None =>
                  row'[trackClaim[t]] # None /\ row'[trackClaim[t]].track = t
           /\ \A j \in JobId : row[j] # None /\ row[j].parent # None => row'[row[j].parent] # None
<1>1. \A s \in runner.spawns : s.parent \in JobId
  BY DEF TypeOK, BatchTypeOK, Runner, Spawn
<1>2. AsksFit'
  BY <1>1 DEF Shape, AsksFit, MayAsk
<1>3. \A m \in links : m.job \in JobId
  BY DEF TypeOK, BatchTypeOK, Link
<1>4. \A a \in Album : rootClaim[a] # None => rootClaim[a] \in JobId
  BY DEF TypeOK, ClaimsTypeOK
<1>5. \A t \in Track : trackClaim[t] # None => trackClaim[t] \in JobId
  BY DEF TypeOK, ClaimsTypeOK
<1>6. \A j \in JobId : row[j] # None /\ row[j].parent # None => row[j].parent \in JobId
  BY ClaimsTypeFacts DEF TypeOK, Row
<1> QED
  BY <1>2, <1>3, <1>4, <1>5, <1>6 DEF Shape, LinksFit, ClaimsFit, ParentsExist

LEMMA ShapeReserves ==
    ASSUME TypeOK, Shape, NEW i \in Item, Reserves(i)
    PROVE  Shape'
<1>1. PICK j \in JobId : Reserved(i, j)
  BY ReserveEffect
<1> DEFINE a == AlbumOfItem[i]
<1>2. a \in Album
  BY BatchAssumption
<1>3. /\ row'[j] # None /\ row'[j].album = a /\ row'[j].track = None /\ row'[j].parent = None
  BY <1>1, <1>2, NewRowsTyped DEF Reserved
<1>4. \A k \in JobId : row[k] # None => row'[k] = row[k]
  BY <1>1 DEF Reserved, Absent
<1>5. /\ UNCHANGED <<asks, trackClaim>> /\ runner'.spawns = runner.spawns
      /\ rootClaim' = [rootClaim EXCEPT ![a] = j]
      /\ links' = links \cup {RootLink(i, j, TRUE)}
      /\ \A k \in JobId : k # j => row'[k] = row[k]
  BY <1>1 DEF Reserved
<1>6. /\ AsksFit'
      /\ \A m \in links : /\ row'[m.job] # None
                          /\ row'[m.job].album = AlbumOfItem[m.item]
                          /\ row'[m.job].track = m.track
      /\ \A b \in Album : rootClaim[b] # None =>
             /\ row'[rootClaim[b]] # None
             /\ row'[rootClaim[b]].album = b /\ row'[rootClaim[b]].track = None
      /\ \A t \in Track : trackClaim[t] # None =>
             row'[trackClaim[t]] # None /\ row'[trackClaim[t]].track = t
      /\ \A k \in JobId : row[k] # None /\ row[k].parent # None => row'[row[k].parent] # None
  BY <1>4, <1>5, RowsGrow
<1>7. ClaimsFit'
  <2>1. \A b \in Album : rootClaim'[b] = IF b = a THEN j ELSE rootClaim[b]
    BY <1>2, <1>5 DEF TypeOK, ClaimsTypeOK
  <2> QED
    BY <1>3, <1>5, <1>6, <2>1 DEF ClaimsFit
<1>8. LinksFit'
  <2>1. RootLink(i, j, TRUE).job = j /\ RootLink(i, j, TRUE).item = i
        /\ RootLink(i, j, TRUE).track = None
    BY DEF RootLink
  <2> QED
    BY <1>3, <1>5, <1>6, <2>1 DEF LinksFit
<1>9. ParentsExist'
  BY <1>3, <1>5, <1>6 DEF ParentsExist
<1> QED
  BY <1>6, <1>7, <1>8, <1>9 DEF Shape

LEMMA ShapeRequest ==
    ASSUME TypeOK, Shape, RequestMade
    PROVE  Shape'
<1>1. UNCHANGED <<links, runner>>
  BY DEF RequestMade, batchVars
<1>2. ASSUME NEW j \in JobId, Intrudes(j) PROVE Shape'
  <2>1. \A k \in JobId : row[k] # None => row'[k] = row[k]
    BY <1>2 DEF Intrudes, Absent
  <2>2. UNCHANGED <<asks, rootClaim, trackClaim>>
        /\ (\A k \in JobId : k # j => row'[k] = row[k])
        /\ (row'[j].parent # None => row[row'[j].parent] # None)
    BY <1>2 DEF Intrudes
  <2>3. /\ AsksFit'
        /\ \A m \in links : /\ row'[m.job] # None
                            /\ row'[m.job].album = AlbumOfItem[m.item]
                            /\ row'[m.job].track = m.track
        /\ \A b \in Album : rootClaim[b] # None =>
               /\ row'[rootClaim[b]] # None
               /\ row'[rootClaim[b]].album = b /\ row'[rootClaim[b]].track = None
        /\ \A t \in Track : trackClaim[t] # None =>
               row'[trackClaim[t]] # None /\ row'[trackClaim[t]].track = t
        /\ \A k \in JobId : row[k] # None /\ row[k].parent # None => row'[row[k].parent] # None
    BY <1>1, <2>1, <2>2, RowsGrow
  <2>4. row'[j].parent # None => row'[j].parent \in JobId
    BY <1>2 DEF Intrudes
  <2>5. ParentsExist'
    BY <2>1, <2>2, <2>3, <2>4 DEF ParentsExist
  <2>6. ClaimsFit' /\ LinksFit'
    BY <1>1, <2>2, <2>3 DEF ClaimsFit, LinksFit
  <2> QED
    BY <2>3, <2>5, <2>6 DEF Shape
<1>3. ASSUME NEW a \in Album, OrdinaryRequest(a) PROVE Shape'
  <2>1. PICK T \in SUBSET Track : \E new : Requested(a, T, new)
    BY <1>3, OrdinaryEffect
  <2>2. PICK new : Requested(a, T, new)
    BY <2>1
  <2>3. \A t \in T : /\ row'[new[t]] # None /\ row'[new[t]].track = t
                     /\ row'[new[t]].parent = None
    <3>1. \A t \in Track : /\ TrackRow(t, None, 0) # None
                            /\ TrackRow(t, None, 0).track = t /\ TrackRow(t, None, 0).parent = None
      BY NewRowsTyped
    <3> QED
      BY <2>2, <3>1 DEF Requested
  <2>4. \A k \in JobId : row[k] # None => row'[k] = row[k]
    BY <2>2 DEF Requested, Absent
  <2>5. /\ UNCHANGED <<asks, rootClaim>>
        /\ trackClaim' = [t \in Track |-> IF t \in T THEN new[t] ELSE trackClaim[t]]
        /\ \A j \in JobId : row'[j] = row[j] \/ \E t \in T : j = new[t]
    BY <2>2 DEF Requested
  <2>6. /\ AsksFit'
        /\ \A m \in links : /\ row'[m.job] # None
                            /\ row'[m.job].album = AlbumOfItem[m.item]
                            /\ row'[m.job].track = m.track
        /\ \A b \in Album : rootClaim[b] # None =>
               /\ row'[rootClaim[b]] # None
               /\ row'[rootClaim[b]].album = b /\ row'[rootClaim[b]].track = None
        /\ \A t \in Track : trackClaim[t] # None =>
               row'[trackClaim[t]] # None /\ row'[trackClaim[t]].track = t
        /\ \A k \in JobId : row[k] # None /\ row[k].parent # None => row'[row[k].parent] # None
    BY <1>1, <2>4, <2>5, RowsGrow
  <2>7. ClaimsFit' /\ LinksFit' /\ ParentsExist'
    BY <1>1, <2>3, <2>5, <2>6 DEF ClaimsFit, LinksFit, ParentsExist
  <2> QED
    BY <2>6, <2>7 DEF Shape
<1> QED
  BY <1>2, <1>3, DirectEffect, MonitorEffect DEF RequestMade

LEMMA ShapeLinks ==
    ASSUME TypeOK, Shape, UNCHANGED <<row, rootClaim, trackClaim>>,
           \A j \in JobId : asks'[j] \subseteq asks[j],
           runner'.spawns \subseteq runner.spawns,
           \A m \in links' : \/ m \in links
                             \/ /\ row[m.job] # None
                                /\ row[m.job].album = AlbumOfItem[m.item]
                                /\ row[m.job].track = m.track
    PROVE  Shape'
<1>1. ClaimsFit' /\ ParentsExist'
  BY DEF Shape, ClaimsFit, ParentsExist
<1>2. AsksFit'
  BY DEF Shape, AsksFit, MayAsk
<1>3. LinksFit'
  BY DEF Shape, LinksFit
<1> QED
  BY <1>1, <1>2, <1>3 DEF Shape

LEMMA ShapeObserves ==
    ASSUME TypeOK, Shape, NEW i \in Item, Observes(i)
    PROVE  Shape'
<1>1. AlbumOfItem[i] \in Album
  BY BatchAssumption
<1>2. ASSUME NEW j, j = rootClaim[AlbumOfItem[i]], IsActive(j)
      PROVE  /\ row[RootLink(i, j, FALSE).job] # None
             /\ row[RootLink(i, j, FALSE).job].album = AlbumOfItem[RootLink(i, j, FALSE).item]
             /\ row[RootLink(i, j, FALSE).job].track = RootLink(i, j, FALSE).track
  BY <1>1, <1>2 DEF RootLink, IsActive, Shape, ClaimsFit
<1>3. \A m \in links' : \/ m \in links
                        \/ /\ row[m.job] # None
                           /\ row[m.job].album = AlbumOfItem[m.item]
                           /\ row[m.job].track = m.track
  BY <1>2 DEF Observes
<1>4. UNCHANGED <<row, rootClaim, trackClaim, asks>> /\ runner'.spawns = runner.spawns
  BY DEF Observes, jobVars
<1> QED
  BY <1>3, <1>4, ShapeLinks

LEMMA ShapeJoins ==
    ASSUME TypeOK, Shape, NEW b \in Batch, Joins(b)
    PROVE  Shape'
<1>1. ASSUME NEW i \in Item, NEW m \in ObservedLinks(i)
      PROVE  /\ row[m.job] # None
             /\ row[m.job].album = AlbumOfItem[m.item]
             /\ row[m.job].track = m.track
  <2>1. PICK t \in Targets(AlbumOfItem[i]) :
            /\ IsActive(trackClaim[t])
            /\ m.item = i /\ m.track = t /\ m.job = trackClaim[t]
    BY <1>1 DEF ObservedLinks
  <2>2. t \in Track /\ AlbumOf[t] = AlbumOfItem[i] /\ m.job \in JobId
    BY <2>1 DEF Targets, TracksOf, IsActive, TypeOK, ClaimsTypeOK
  <2>3. row[m.job] # None /\ row[m.job].track = t
    BY <2>1, <2>2 DEF IsActive, Shape, ClaimsFit
  <2>4. row[m.job].album = AlbumOf[t]
    BY <2>2, <2>3 DEF TypeOK, ClaimsTypeOK
  <2> QED
    BY <2>1, <2>2, <2>3, <2>4
<1>2. \A m \in links' : \/ m \in links
                        \/ /\ row[m.job] # None
                           /\ row[m.job].album = AlbumOfItem[m.item]
                           /\ row[m.job].track = m.track
  BY <1>1 DEF Joins, ItemsOf
<1>3. UNCHANGED <<row, rootClaim, trackClaim, asks, runner>>
  BY DEF Joins, jobVars
<1> QED
  BY <1>2, <1>3, ShapeLinks

LEMMA CancelEffect ==
    ASSUME NEW b \in Batch, CancelBatch(b)
    PROVE  /\ UNCHANGED <<row, working, asks, rootClaim, trackClaim, bypassed, runner>>
           /\ \A j \in JobId : \/ status'[j] = status[j]
                               \/ status[j] = "pending" /\ status'[j] = "cancelled"
           /\ \E taker \in [{l \in CreatedLinks(b) : Observers(l) # {}} -> links] :
                  /\ \A l \in DOMAIN taker : taker[l] \in Observers(l)
                  /\ links' = Transferred(b, taker)
<1>1. UNCHANGED <<row, working, asks, rootClaim, trackClaim, bypassed, runner>>
  BY DEF CancelBatch
<1>2. \A j \in JobId : \/ status'[j] = status[j]
                       \/ status[j] = "pending" /\ status'[j] = "cancelled"
  <2> DEFINE created == {l.job : l \in {m \in CreatedLinks(b) : Observers(m) = {}}}
  <2>1. status' = [j \in JobId |-> IF status[j] = "pending" /\ Lineage(j) \cap created # {}
                                   THEN "cancelled" ELSE status[j]]
    BY DEF CancelBatch
  <2> DEFINE chosen == {j \in JobId : Lineage(j) \cap created # {}}
  <2>2. \A j \in JobId : Lineage(j) \cap created # {} <=> j \in chosen
    OBVIOUS
  <2> HIDE DEF created, chosen
  <2>3. status' = [j \in JobId |-> IF status[j] = "pending" /\ j \in chosen
                                   THEN "cancelled" ELSE status[j]]
    BY <2>1, <2>2
  <2>4. ASSUME NEW j \in JobId
        PROVE  \/ status'[j] = status[j]
               \/ status[j] = "pending" /\ status'[j] = "cancelled"
    BY <2>3
  <2> QED
    BY <2>4
<1> QED
  BY <1>1, <1>2 DEF CancelBatch

LEMMA ShapeCancel ==
    ASSUME TypeOK, Shape, NEW b \in Batch, CancelBatch(b)
    PROVE  Shape'
<1>1. PICK taker \in [{l \in CreatedLinks(b) : Observers(l) # {}} -> links] :
          links' = Transferred(b, taker)
  BY CancelEffect
<1> DEFINE given == {l \in CreatedLinks(b) : Observers(l) # {}}
           taken == {taker[l] : l \in given}
<1>2. given \subseteq links /\ taken \subseteq links
  BY <1>1 DEF CreatedLinks
<1>3. links' = (links \ (given \cup taken)) \cup {[l EXCEPT !.created = FALSE] : l \in given}
                                            \cup {[l EXCEPT !.created = TRUE] : l \in taken}
  BY <1>1 DEF Transferred
<1>4. ASSUME NEW l \in links, NEW c \in BOOLEAN, NEW m, m = [l EXCEPT !.created = c]
      PROVE  m.job = l.job /\ m.item = l.item /\ m.track = l.track
  BY <1>4 DEF TypeOK, BatchTypeOK, Link
<1> HIDE DEF given, taken
<1>5. ASSUME NEW m \in links'
      PROVE  \E l \in links : m.job = l.job /\ m.item = l.item /\ m.track = l.track
  <2>1. \/ m \in links
        \/ \E l \in given : m = [l EXCEPT !.created = FALSE]
        \/ \E l \in taken : m = [l EXCEPT !.created = TRUE]
    BY <1>3
  <2> QED
    BY <1>2, <1>4, <2>1
<1>6. \A m \in links' : /\ row[m.job] # None
                        /\ row[m.job].album = AlbumOfItem[m.item]
                        /\ row[m.job].track = m.track
  BY <1>5 DEF Shape, LinksFit
<1>7. UNCHANGED <<row, rootClaim, trackClaim, asks, runner>>
  BY CancelEffect
<1> QED
  BY <1>6, <1>7, ShapeLinks

LEMMA ShapeInspects ==
    ASSUME TypeOK, Shape, NEW i \in Item, Inspects(i)
    PROVE  Shape'
<1>1. UNCHANGED <<row, asks, rootClaim, trackClaim, links>> /\ runner'.spawns = Repairs(i)
  BY DEF Inspects, jobVars
<1>2. ClaimsFit' /\ LinksFit' /\ ParentsExist'
  BY <1>1 DEF Shape, ClaimsFit, LinksFit, ParentsExist
<1> DEFINE fallbacks == InRole(LinksOf(i), "track_fallback")
           targets == Targets(AlbumOfItem[i])
           untried == targets \ TracksIn(fallbacks)
           A == {[parent |-> l.job, tracks |-> untried] :
                    l \in {m \in RootLinksOf(i) : untried # {} /\ MayContinue(m.job)}}
           B == {[parent |-> l.job, tracks |-> {l.track}] :
                    l \in {m \in fallbacks : m.track \in targets /\ MayContinue(m.job)}}
<1>3. /\ \A l \in RootLinksOf(i) : l \in links /\ l.item = i
      /\ \A l \in fallbacks : l \in links /\ l.item = i
  BY DEF RootLinksOf, InRole, LinksOf
<1>4. \A t \in targets : AlbumOf[t] = AlbumOfItem[i]
  BY DEF Targets, TracksOf
<1>5. untried \subseteq targets
  OBVIOUS
<1>6. Repairs(i) = A \cup B \/ Repairs(i) = {}
  BY DEF Repairs
<1>7. \A l \in links : row[l.job] # None /\ row[l.job].album = AlbumOfItem[l.item]
  BY DEF Shape, LinksFit
<1> HIDE DEF fallbacks, targets, untried
<1>8. ASSUME NEW s \in A PROVE MayAsk(s.parent, s.tracks)
  BY <1>3, <1>4, <1>5, <1>7, <1>8 DEF MayAsk, MayContinue
<1>9. ASSUME NEW s \in B PROVE MayAsk(s.parent, s.tracks)
  BY <1>3, <1>4, <1>7, <1>9 DEF MayAsk, MayContinue
<1> HIDE DEF A, B
<1>10. \A s \in Repairs(i) : MayAsk(s.parent, s.tracks)
  BY <1>6, <1>8, <1>9
<1>11. AsksFit'
  BY <1>1, <1>10 DEF Shape, AsksFit, MayAsk
<1> QED
  BY <1>2, <1>11 DEF Shape

LEMMA ShapeJobStep ==
    ASSUME TypeOK, Shape, NEW j \in JobId, JobStepTaken(j)
    PROVE  Shape'
<1>a. UNCHANGED <<row, rootClaim, bypassed>> /\ UNCHANGED <<links, runner>>
  BY DEF JobStepTaken, JobStep, Begin, Admit, Close, Requeue, RetryJob, JobFails, CancelJob, batchVars
<1>1. CASE Close(j)
  <2>1. PICK got \in SUBSET Targets(row[j].album) :
            asks' = [asks EXCEPT ![j] = IF row[j].attempt < MaxAttempts THEN Missing(j, got) ELSE {}]
    BY <1>1 DEF Close
  <2>2. status[j] # None /\ UNCHANGED trackClaim
    BY <1>1, ClaimsAssumption DEF Close, Active
  <2>3. row[j] # None /\ row[j] \in Row
    BY <2>2, ClaimsTypeFacts DEF TypeOK, ClaimsTypeOK
  <2>4. \A t \in Missing(j, got) : AlbumOf[t] = row[j].album
    BY <2>3 DEF Missing, Wanted, TracksOf, Row, TypeOK, ClaimsTypeOK
  <2>5. \A p \in JobId : p # j => asks'[p] = asks[p]
    BY <2>1 DEF TypeOK, ClaimsTypeOK
  <2>6. asks'[j] = IF row[j].attempt < MaxAttempts THEN Missing(j, got) ELSE {}
    BY <2>1 DEF TypeOK, ClaimsTypeOK
  <2>7. AsksFit'
    BY <1>a, <2>3, <2>4, <2>5, <2>6 DEF Shape, AsksFit, MayAsk
  <2>8. ClaimsFit' /\ LinksFit' /\ ParentsExist'
    BY <1>a, <2>2 DEF Shape, ClaimsFit, LinksFit, ParentsExist
  <2> QED
    BY <2>7, <2>8 DEF Shape
<1>2. CASE Admit(j)
  <2>1. UNCHANGED asks
    BY <1>2 DEF Admit
  <2>2. status[j] # None
    BY <1>2, ClaimsAssumption DEF Admit, Active
  <2>3. row[j] # None
    BY <2>2 DEF TypeOK, ClaimsTypeOK
  <2>4. \A t \in Track : \/ trackClaim'[t] = trackClaim[t]
                         \/ t = row[j].track /\ trackClaim'[t] = j
    <3>1. \/ UNCHANGED trackClaim
          \/ trackClaim' = [u \in Track |-> IF u = row[j].track THEN j ELSE trackClaim[u]]
      BY <1>2 DEF Admit
    <3>2. CASE trackClaim' = [u \in Track |-> IF u = row[j].track THEN j ELSE trackClaim[u]]
      BY <3>2
    <3>3. CASE UNCHANGED trackClaim
      BY <3>3
    <3> QED
      BY <3>1, <3>2, <3>3
  <2>5. ClaimsFit'
    BY <1>a, <2>3, <2>4 DEF Shape, ClaimsFit
  <2>6. LinksFit' /\ ParentsExist' /\ AsksFit'
    BY <1>a, <2>1 DEF Shape, LinksFit, ParentsExist, AsksFit, MayAsk
  <2> QED
    BY <2>5, <2>6 DEF Shape
<1>3. CASE ~Close(j) /\ ~Admit(j)
  <2>1. UNCHANGED trackClaim
    BY <1>3 DEF JobStepTaken, JobStep, Begin, Requeue, RetryJob, JobFails, CancelJob
  <2>2. \A p \in JobId : asks'[p] \subseteq asks[p]
    BY <1>3 DEF JobStepTaken, JobStep, Begin, Requeue, RetryJob, JobFails, CancelJob,
                TypeOK, ClaimsTypeOK
  <2> QED
    BY <1>a, <2>1, <2>2, ShapeKept
<1> QED
  BY <1>1, <1>2, <1>3

LEMMA ShapeStep == TypeOK /\ Shape /\ [Next]_vars => Shape'
<1> SUFFICES ASSUME TypeOK, Shape, [Next]_vars PROVE Shape'
  OBVIOUS
<1>1. CASE Bystanding
  BY <1>1, ShapeKept DEF Bystanding
<1>2. CASE Restart
  <2>1. /\ UNCHANGED <<row, rootClaim, trackClaim, links>>
        /\ asks' = [j \in JobId |-> {}] /\ runner' = IdleRunner
    BY <1>2 DEF Restart
  <2> QED
    BY <2>1, ShapeKept DEF IdleRunner
<1> QED
  BY <1>1, <1>2, NextKinds, ShapeContinues, ShapeReserves, ShapeObserves, ShapeInspects, ShapeJoins,
     ShapeCancel, ShapeJobStep, ShapeRequest DEF StepKinds

LEMMA ShapeInit == Init => Shape
  BY DEF Init, ClaimsInit, Shape, ClaimsFit, LinksFit, AsksFit, MayAsk, ParentsExist, IdleRunner

-----------------------------------------------------------------------------
(* Who works.                                                              *)

LEMMA WorkersTyped ==
    ASSUME TypeOK, WorkersOwn, NEW k \in working
    PROVE  /\ k \in JobId /\ status[k] = "running" /\ row[k] # None /\ row[k] \in Row
           /\ IsActive(k) /\ k \notin Absent
           /\ row[k].track # None => row[k].track \in Track /\ trackClaim[row[k].track] = k
<1>1. k \in JobId /\ status[k] = "running"
  BY DEF TypeOK, ClaimsTypeOK, WorkersOwn
<1>2. None # "running" /\ "running" \in Active
  BY ClaimsAssumption DEF Active
<1>3. row[k] \in Row /\ row[k] # None
  BY <1>1, <1>2, ClaimsTypeFacts DEF TypeOK, ClaimsTypeOK
<1>4. IsActive(k) /\ k \notin Absent
  BY <1>1, <1>2, <1>3, ClaimsAssumption DEF IsActive, Absent, JobId
<1> QED
  BY <1>1, <1>3, <1>4 DEF WorkersOwn, Row

LEMMA WorkersKept ==
    ASSUME TypeOK, WorkersOwn, UNCHANGED <<row, trackClaim>>, working' \subseteq working,
           \A k \in working' : status[k] = "running" => status'[k] = "running"
    PROVE  WorkersOwn'
  BY DEF WorkersOwn

LEMMA WorkersStep == TypeOK /\ Shape /\ WorkersOwn /\ [Next]_vars => WorkersOwn'
<1> SUFFICES ASSUME TypeOK, Shape, WorkersOwn, [Next]_vars PROVE WorkersOwn'
  OBVIOUS
<1>1. CASE Bystanding
  BY <1>1, WorkersKept DEF Bystanding
<1>2. ASSUME NEW p \in JobId, NEW T, Continues(p, T) PROVE WorkersOwn'
  <2>1. T \in SUBSET Track /\ Continue(p, T) /\ UNCHANGED working
    BY <1>2 DEF Continues
  <2>2. PICK heir \in [T -> JobId], fresh \in SUBSET T : Continued(p, T, heir, fresh)
    BY <2>1, ContinueEffect DEF Shape
  <2>3. ASSUME NEW k \in working
        PROVE  status'[k] = "running" /\ (row'[k].track # None => trackClaim'[row'[k].track] = k)
    <3>1. status'[k] = status[k] /\ row'[k] = row[k]
      BY <2>2, WorkersTyped DEF Continued
    <3>2. ASSUME row[k].track \in T PROVE trackClaim'[row[k].track] = k
      BY <2>1, <2>2, <3>2, WorkersTyped, ClaimsAssumption DEF Continued
    <3>3. ASSUME row[k].track \in Track \ T PROVE trackClaim'[row[k].track] = trackClaim[row[k].track]
      BY <2>2, <3>3 DEF Continued
    <3> QED
      BY <3>1, <3>2, <3>3, WorkersTyped
  <2> QED
    BY <2>1, <2>3 DEF WorkersOwn
<1>3. ASSUME NEW i \in Item, Reserves(i) PROVE WorkersOwn'
  <2>1. PICK j \in JobId : Reserved(i, j)
    BY <1>3, ReserveEffect
  <2>2. \A k \in working : status'[k] = status[k] /\ row'[k] = row[k]
    BY <2>1, WorkersTyped DEF Reserved
  <2> QED
    BY <2>1, <2>2 DEF Reserved, WorkersOwn
<1>4. ASSUME NEW i \in Item, Observes(i) \/ Inspects(i) PROVE WorkersOwn'
  BY <1>4, WorkersKept DEF Observes, Inspects, jobVars
<1>5. ASSUME NEW b \in Batch, Joins(b) PROVE WorkersOwn'
  BY <1>5, WorkersKept DEF Joins, jobVars
<1>6. ASSUME NEW b \in Batch, CancelBatch(b) PROVE WorkersOwn'
  <2>1. \A k \in working : status'[k] = "running"
    BY <1>6, CancelEffect, WorkersTyped
  <2> QED
    BY <1>6, <2>1, CancelEffect, WorkersKept
<1>7. ASSUME NEW j \in JobId, JobStepTaken(j) PROVE WorkersOwn'
  <2>1. CASE Begin(j)
    BY <2>1, WorkersKept DEF Begin, TypeOK, ClaimsTypeOK
  <2>2. CASE Admit(j)
    <3>1. status[j] = "running" /\ j \notin working /\ UNCHANGED row
      BY <2>2 DEF Admit
    <3>2. CASE UNCHANGED <<working, trackClaim>>
      <4>1. \A k \in JobId : k # j => status'[k] = status[k]
        BY <2>2 DEF Admit, TypeOK, ClaimsTypeOK
      <4> QED
        BY <3>1, <3>2, <4>1, WorkersTyped DEF WorkersOwn
    <3>3. CASE ~UNCHANGED <<working, trackClaim>>
      <4>1. /\ working' = working \cup {j} /\ UNCHANGED status
            /\ trackClaim' = [u \in Track |-> IF u = row[j].track THEN j ELSE trackClaim[u]]
        BY <2>2, <3>3 DEF Admit
      <4>2. row[j].track # None =>
                ~(trackClaim[row[j].track] # j /\ IsActive(trackClaim[row[j].track]))
        BY <2>2, <3>3 DEF Admit
      <4>3. status[j] # None /\ row[j] \in Row
        BY <3>1, ClaimsTypeFacts, ClaimsAssumption DEF TypeOK, Active
      <4>4. row[j].track # None => row[j].track \in Track /\ trackClaim'[row[j].track] = j
        BY <4>1, <4>3 DEF Row
      <4>5. ASSUME NEW k \in working, row[k].track # None
            PROVE  trackClaim'[row[k].track] = k
        <5>1. row[k].track # row[j].track
          BY <3>1, <4>2, <4>5, WorkersTyped
        <5> QED
          BY <4>1, <4>5, <5>1, WorkersTyped
      <4> QED
        BY <3>1, <4>1, <4>4, <4>5, WorkersTyped DEF WorkersOwn
    <3> QED
      BY <3>2, <3>3
  <2>3. CASE Close(j)
    <3>1. PICK got \in SUBSET Targets(row[j].album) :
              status' = [k \in JobId |->
                  IF k = j THEN IF Missing(j, got) = {} THEN "done" ELSE "partial"
                  ELSE IF /\ Missing(j, got) = {}
                          /\ TracksOf(row[j].album) \subseteq owned \cup got
                          /\ status[k] = "partial" /\ row[k].album = row[j].album
                       THEN "done" ELSE status[k]]
      BY <2>3 DEF Close
    <3>2. \A k \in JobId : k # j /\ status[k] = "running" => status'[k] = "running"
      BY <3>1
    <3>3. working' = working \ {j} /\ UNCHANGED <<row, trackClaim>>
      BY <2>3 DEF Close
    <3> QED
      BY <3>2, <3>3, WorkersTyped, WorkersKept
  <2>4. CASE Requeue(j) \/ JobFails(j) \/ CancelJob(j)
    <3>1. working' = working \ {j} /\ UNCHANGED <<row, trackClaim>>
      BY <2>4 DEF Requeue, JobFails, CancelJob
    <3>2. \A k \in JobId : k # j => status'[k] = status[k]
      BY <2>4 DEF Requeue, JobFails, CancelJob, TypeOK, ClaimsTypeOK
    <3> QED
      BY <3>1, <3>2, WorkersTyped, WorkersKept
  <2>5. CASE RetryJob(j)
    <3>1. status[j] # "running" /\ UNCHANGED <<row, working, trackClaim>>
      BY <2>5 DEF RetryJob
    <3>2. \A k \in JobId : k # j => status'[k] = status[k]
      BY <2>5 DEF RetryJob, TypeOK, ClaimsTypeOK
    <3> QED
      BY <3>1, <3>2, WorkersTyped, WorkersKept
  <2> QED
    BY <1>7, <2>1, <2>2, <2>3, <2>4, <2>5 DEF JobStepTaken, JobStep
<1>8. CASE RequestMade
  <2>1. ASSUME NEW j \in JobId, Intrudes(j) PROVE WorkersOwn'
    <3>1. \A k \in working : status'[k] = status[k] /\ row'[k] = row[k]
      BY <2>1, WorkersTyped DEF Intrudes
    <3> QED
      BY <2>1, <3>1 DEF Intrudes, WorkersOwn
  <2>2. ASSUME NEW a \in Album, OrdinaryRequest(a) PROVE WorkersOwn'
    <3>1. PICK T \in SUBSET Track : \E new : Requested(a, T, new)
      BY <2>2, OrdinaryEffect
    <3>2. PICK new : Requested(a, T, new)
      BY <3>1
    <3>3. \A k \in working : status'[k] = status[k] /\ row'[k] = row[k]
      BY <3>2, WorkersTyped DEF Requested
    <3>4. \A t \in T : ~IsActive(trackClaim[t])
      BY <3>2 DEF Requested, FreeTracks
    <3>5. \A k \in working : row[k].track # None => trackClaim'[row[k].track] = k
      BY <3>2, <3>4, WorkersTyped DEF Requested
    <3> QED
      BY <3>2, <3>3, <3>5, WorkersTyped DEF Requested, WorkersOwn
  <2> QED
    BY <1>8, <2>1, <2>2, DirectEffect, MonitorEffect DEF RequestMade
<1>9. CASE Restart
  BY <1>9 DEF Restart, WorkersOwn
<1> QED
  BY <1>1, <1>2, <1>3, <1>4, <1>5, <1>6, <1>7, <1>8, <1>9, NextKinds DEF StepKinds

LEMMA WorkersInit == Init => WorkersOwn
  BY DEF Init, ClaimsInit, WorkersOwn

LEMMA WorkersExclude ==
    ASSUME TypeOK, WorkersOwn PROVE OneWorkerPerTrack
  BY WorkersTyped DEF OneWorkerPerTrack, IsTrackJob

(* No two jobs work on one track, however the jobs came to be and whoever  *)
(* took over the claim meanwhile.                                          *)
THEOREM OneJobWorksOnATrack == Spec => []OneWorkerPerTrack
<1> DEFINE I == TypeOK /\ Shape /\ WorkersOwn
<1>1. Init => I
  BY TypeInit, ShapeInit, WorkersInit
<1>2. I /\ [Next]_vars => I'
  BY TypeStep, ShapeStep, WorkersStep
<1>3. I => OneWorkerPerTrack
  BY WorkersExclude
<1> QED
  BY <1>1, <1>2, <1>3, PTL DEF Spec

-----------------------------------------------------------------------------
(* Who is active: where requests take claims, the owner.                   *)

Owners == ActiveJobsOwn /\ RootsExclude

LEMMA ActiveTyped ==
    ASSUME TypeOK, NEW j \in JobId, status[j] \in Active
    PROVE  /\ row[j] \in Row /\ row[j] # None /\ IsActive(j) /\ j \notin Absent
           /\ row[j].album \in Album
           /\ row[j].track # None =>
                  row[j].track \in Track /\ AlbumOf[row[j].track] = row[j].album
<1>1. row[j] \in Row /\ row[j] # None
  BY ClaimsTypeFacts, ClaimsAssumption DEF TypeOK, ClaimsTypeOK
<1>2. IsActive(j) /\ j \notin Absent
  BY <1>1, ClaimsAssumption DEF IsActive, Absent, JobId
<1> QED
  BY <1>1, <1>2 DEF Row, TypeOK, ClaimsTypeOK

(* A claimed job exists, and is of its claim's album.                      *)
LEMMA ClaimedTyped ==
    ASSUME TypeOK, Shape
    PROVE  /\ \A a \in Album : rootClaim[a] # None =>
                  /\ rootClaim[a] \in JobId \ Absent
                  /\ row[rootClaim[a]].album = a
           /\ \A t \in Track : trackClaim[t] # None =>
                  /\ trackClaim[t] \in JobId \ Absent
                  /\ row[trackClaim[t]].album = AlbumOf[t]
<1>1. ASSUME NEW a \in Album, rootClaim[a] # None
      PROVE  rootClaim[a] \in JobId \ Absent /\ row[rootClaim[a]].album = a
  BY <1>1 DEF TypeOK, ClaimsTypeOK, Shape, ClaimsFit, Absent
<1>2. ASSUME NEW t \in Track, trackClaim[t] # None
      PROVE  trackClaim[t] \in JobId \ Absent /\ row[trackClaim[t]].album = AlbumOf[t]
  BY <1>2 DEF TypeOK, ClaimsTypeOK, Shape, ClaimsFit, Absent
<1> QED
  BY <1>1, <1>2

(* A step that makes no job active and moves no claim, where claims count. *)
LEMMA OwnersKept ==
    ASSUME TypeOK, Shape, Owners, UNCHANGED <<row, rootClaim, bypassed>>,
           \A t \in Track : AlbumOf[t] \notin bypassed => trackClaim'[t] = trackClaim[t],
           \A j \in JobId : status'[j] \in Active =>
               status[j] \in Active \/ (row[j] # None /\ row[j].album \in bypassed)
    PROVE  Owners'
<1>1. ASSUME NEW j \in JobId, status'[j] \in Active, row[j].album \notin bypassed
      PROVE  IF row[j].track = None THEN rootClaim[row[j].album] = j
             ELSE trackClaim'[row[j].track] = j
  <2>1. status[j] \in Active
    BY <1>1
  <2> QED
    BY <1>1, <2>1, ActiveTyped DEF Owners, ActiveJobsOwn
<1>2. ASSUME NEW a \in Album, NEW t \in Track, AlbumOf[t] = a, a \notin bypassed,
             IsActive(rootClaim[a])', IsActive(trackClaim[t])'
      PROVE  FALSE
  <2>1. trackClaim'[t] = trackClaim[t] /\ rootClaim'[a] = rootClaim[a]
    BY <1>2
  <2>2. /\ rootClaim[a] # None /\ status'[rootClaim[a]] \in Active
        /\ trackClaim[t] # None /\ status'[trackClaim[t]] \in Active
    BY <1>2, <2>1 DEF IsActive
  <2>3. status[rootClaim[a]] \in Active /\ status[trackClaim[t]] \in Active
    BY <1>2, <2>2, ClaimedTyped
  <2> QED
    BY <1>2, <2>2, <2>3 DEF IsActive, Owners, RootsExclude
<1>3. ActiveJobsOwn'
  BY <1>1 DEF ActiveJobsOwn
<1>4. RootsExclude'
  BY <1>2 DEF RootsExclude
<1> QED
  BY <1>3, <1>4 DEF Owners

(* The tracks of T of an album without an active root job go to the jobs   *)
(* heir names, of which those of fresh are new.                            *)
Handover(T, fresh, heir, a) ==
    /\ \A t \in T : AlbumOf[t] = a /\ ~IsActive(rootClaim[a])
    /\ \A t \in fresh : heir[t] \in Absent /\ row'[heir[t]].track = t
    /\ \A t \in T \ fresh : IsActive(trackClaim[t]) => heir[t] = trackClaim[t]
    /\ \A t \in fresh : ~IsActive(trackClaim[t])
    /\ \A j \in JobId : \/ row'[j] = row[j] /\ status'[j] = status[j]
                        \/ \E t \in fresh : j = heir[t]
    /\ \A t \in T : trackClaim'[t] = heir[t]
    /\ \A t \in Track \ T : trackClaim'[t] = trackClaim[t]
    /\ UNCHANGED <<rootClaim, bypassed>>

LEMMA OwnersTracks ==
    ASSUME TypeOK, Shape, Owners, NEW T \in SUBSET Track, NEW fresh \in SUBSET T,
           NEW heir, NEW a \in Album, Handover(T, fresh, heir, a)
    PROVE  Owners'
<1>1. ASSUME NEW j \in JobId, status'[j] \in Active, row'[j].album \notin bypassed
      PROVE  IF row'[j].track = None THEN rootClaim[row'[j].album] = j
             ELSE trackClaim'[row'[j].track] = j
  <2>1. ASSUME NEW t \in fresh, j = heir[t]
        PROVE  trackClaim'[row'[j].track] = j /\ row'[j].track # None
    BY <2>1, ClaimsAssumption DEF Handover
  <2>2. CASE row'[j] = row[j] /\ status'[j] = status[j]
    <3>1. IF row[j].track = None THEN rootClaim[row[j].album] = j
          ELSE trackClaim[row[j].track] = j
      BY <1>1, <2>2 DEF Handover, Owners, ActiveJobsOwn
    <3>2. IsActive(j) /\ (row[j].track # None => row[j].track \in Track)
      BY <1>1, <2>2, ActiveTyped
    <3>3. ASSUME row[j].track # None PROVE trackClaim'[row[j].track] = j
      BY <3>1, <3>2, <3>3 DEF Handover
    <3> QED
      BY <2>2, <3>1, <3>3 DEF Handover
  <2> QED
    BY <2>1, <2>2 DEF Handover
<1>2. \A j \in JobId \ Absent : status'[j] = status[j]
  BY DEF Handover
<1>3. ASSUME NEW b \in Album, NEW t \in Track, AlbumOf[t] = b, b \notin bypassed,
             IsActive(rootClaim[b])', IsActive(trackClaim[t])'
      PROVE  FALSE
  <2>1. rootClaim[b] # None /\ status'[rootClaim[b]] \in Active
    BY <1>3 DEF IsActive, Handover
  <2>2. IsActive(rootClaim[b])
    BY <1>2, <2>1, ClaimedTyped DEF IsActive
  <2>3. t \notin T
    BY <1>3, <2>2, ClaimedTyped DEF Handover
  <2>4. trackClaim'[t] = trackClaim[t]
    BY <2>3 DEF Handover
  <2>5. trackClaim[t] # None /\ status'[trackClaim[t]] \in Active
    BY <1>3, <2>4 DEF IsActive
  <2>6. IsActive(trackClaim[t])
    BY <1>2, <2>5, ClaimedTyped DEF IsActive
  <2> QED
    BY <1>3, <2>2, <2>6 DEF Owners, RootsExclude
<1>4. ActiveJobsOwn'
  BY <1>1 DEF ActiveJobsOwn, Handover
<1>5. RootsExclude'
  BY <1>3 DEF RootsExclude, Handover
<1> QED
  BY <1>4, <1>5 DEF Owners

LEMMA OwnersReserves ==
    ASSUME TypeOK, Shape, Owners, NEW i \in Item, Reserves(i)
    PROVE  Owners'
<1>1. PICK j \in JobId : Reserved(i, j)
  BY ReserveEffect
<1> DEFINE a == AlbumOfItem[i]
<1>2. a \in Album /\ row'[j].track = None /\ row'[j].album = a
  BY <1>1, BatchAssumption DEF Reserved, RootRow
<1>3. /\ \A b \in Album : rootClaim'[b] = IF b = a THEN j ELSE rootClaim[b]
      /\ \A k \in JobId : k # j => row'[k] = row[k] /\ status'[k] = status[k]
      /\ j \in Absent /\ UNCHANGED <<trackClaim, bypassed>>
  BY <1>1, <1>2 DEF Reserved, TypeOK, ClaimsTypeOK
<1>4. /\ ~IsActive(rootClaim[a])
      /\ \A t \in Track : AlbumOf[t] = a => ~IsActive(trackClaim[t])
  BY <1>1 DEF Reserved, Occupied, TrackOwnersOf, TracksOf
<1> HIDE DEF a
<1>5. ASSUME NEW k \in JobId, status'[k] \in Active, row'[k].album \notin bypassed
      PROVE  IF row'[k].track = None THEN rootClaim'[row'[k].album] = k
             ELSE trackClaim[row'[k].track] = k
  <2>1. CASE k = j
    BY <1>2, <1>3, <2>1
  <2>2. CASE k # j
    <3>1. /\ row'[k] = row[k] /\ status[k] \in Active
          /\ row[k].album \in Album /\ IsActive(k)
      BY <1>3, <1>5, <2>2, ActiveTyped
    <3>2. IF row[k].track = None THEN rootClaim[row[k].album] = k
          ELSE trackClaim[row[k].track] = k
      BY <1>5, <3>1 DEF Owners, ActiveJobsOwn
    <3> QED
      BY <1>3, <1>4, <3>1, <3>2
  <2> QED
    BY <2>1, <2>2
<1>6. ASSUME NEW b \in Album, NEW t \in Track, AlbumOf[t] = b, b \notin bypassed,
             IsActive(rootClaim[b])', IsActive(trackClaim[t])'
      PROVE  FALSE
  <2>1. trackClaim[t] # None /\ status'[trackClaim[t]] \in Active
    BY <1>3, <1>6 DEF IsActive
  <2>2. IsActive(trackClaim[t])
    BY <1>3, <2>1, ClaimedTyped DEF IsActive
  <2>3. b # a
    BY <1>4, <1>6, <2>2
  <2>4. rootClaim[b] # None /\ status'[rootClaim[b]] \in Active
    BY <1>3, <1>6, <2>3 DEF IsActive
  <2>5. IsActive(rootClaim[b])
    BY <1>3, <2>4, ClaimedTyped DEF IsActive
  <2> QED
    BY <1>6, <2>2, <2>5 DEF Owners, RootsExclude
<1>7. ActiveJobsOwn'
  BY <1>3, <1>5 DEF ActiveJobsOwn
<1>8. RootsExclude'
  BY <1>6, <1>3 DEF RootsExclude
<1> QED
  BY <1>7, <1>8 DEF Owners

LEMMA OwnersRequest ==
    ASSUME TypeOK, Shape, Owners, RequestMade
    PROVE  Owners'
<1>1. ASSUME NEW j \in JobId, Intrudes(j) PROVE Owners'
  <2>1. /\ j \in Absent /\ row'[j].album \in bypassed
        /\ \A k \in JobId : k # j => row'[k] = row[k] /\ status'[k] = status[k]
        /\ UNCHANGED <<rootClaim, trackClaim, bypassed>>
    BY <1>1 DEF Intrudes
  <2>2. ActiveJobsOwn'
    BY <2>1 DEF Owners, ActiveJobsOwn
  <2>3. \A a \in Album : IsActive(rootClaim[a])' => IsActive(rootClaim[a])
    BY <2>1, ClaimedTyped DEF IsActive
  <2>4. \A t \in Track : IsActive(trackClaim[t])' => IsActive(trackClaim[t])
    BY <2>1, ClaimedTyped DEF IsActive
  <2>5. RootsExclude'
    BY <2>1, <2>3, <2>4 DEF Owners, RootsExclude
  <2> QED
    BY <2>2, <2>5 DEF Owners
<1>2. ASSUME NEW a \in Album, OrdinaryRequest(a) PROVE Owners'
  <2>1. PICK T \in SUBSET Track : \E new : Requested(a, T, new)
    BY <1>2, OrdinaryEffect
  <2>2. PICK new : Requested(a, T, new)
    BY <2>1
  <2>3. \A t \in T : AlbumOf[t] = a /\ ~IsActive(rootClaim[a]) /\ ~IsActive(trackClaim[t])
    BY <2>2 DEF Requested, FreeTracks, Targets, TracksOf
  <2>4. \A t \in T : row'[new[t]].track = t
    <3>1. \A t \in Track : TrackRow(t, None, 0).track = t
      BY NewRowsTyped
    <3> QED
      BY <2>2, <3>1 DEF Requested
  <2>5. /\ \A t \in T : new[t] \in Absent
        /\ \A j \in JobId : \/ row'[j] = row[j] /\ status'[j] = status[j]
                            \/ \E t \in T : j = new[t]
        /\ \A t \in T : trackClaim'[t] = new[t]
        /\ \A t \in Track \ T : trackClaim'[t] = trackClaim[t]
        /\ rootClaim' = rootClaim /\ bypassed' = bypassed
    BY <2>2 DEF Requested
  <2>6. Handover(T, T, new, a)
    BY <2>3, <2>4, <2>5 DEF Handover
  <2> QED
    BY <2>6, OwnersTracks
<1> QED
  BY <1>1, <1>2, DirectEffect, MonitorEffect DEF RequestMade

LEMMA OwnersContinues ==
    ASSUME TypeOK, Shape, Owners, NEW p \in JobId, NEW T, Continues(p, T)
    PROVE  Owners'
<1>1. /\ T \in SUBSET Track /\ Continue(p, T) /\ ~SpawnsNothing(p)
      /\ rootClaim' = rootClaim /\ bypassed' = bypassed
  BY DEF Continues
<1>2. PICK heir \in [T -> JobId], fresh \in SUBSET T : Continued(p, T, heir, fresh)
  BY <1>1, ContinueEffect DEF Shape
<1>3. MayAsk(p, T) /\ row[p] # None /\ row[p].attempt \in Nat /\ row[p].album \in Album
  BY ContinueAsked, ClaimsTypeFacts DEF TypeOK, Row
<1>4. \A t \in T : AlbumOf[t] = row[p].album /\ ~IsActive(rootClaim[row[p].album])
  BY <1>1, <1>3 DEF MayAsk, SpawnsNothing
<1>5. \A t \in fresh : row'[heir[t]].track = t
  <2>1. \A t \in Track : TrackRow(t, p, row[p].attempt + 1).track = t
    BY <1>3, NewRowsTyped
  <2> QED
    BY <1>1, <1>2, <2>1 DEF Continued
<1>6. /\ \A t \in fresh : heir[t] \in Absent /\ ~IsActive(trackClaim[t])
      /\ \A t \in T \ fresh : IsActive(trackClaim[t]) => heir[t] = trackClaim[t]
      /\ \A j \in JobId : \/ row'[j] = row[j] /\ status'[j] = status[j]
                          \/ \E t \in fresh : j = heir[t]
      /\ \A t \in T : trackClaim'[t] = heir[t]
      /\ \A t \in Track \ T : trackClaim'[t] = trackClaim[t]
  BY <1>1, <1>2 DEF Continued
<1>7. Handover(T, fresh, heir, row[p].album)
  BY <1>1, <1>4, <1>5, <1>6 DEF Handover
<1> QED
  BY <1>1, <1>2, <1>3, <1>7, OwnersTracks

LEMMA OwnersJobStep ==
    ASSUME TypeOK, Shape, Owners, NEW j \in JobId, JobStepTaken(j)
    PROVE  Owners'
<1>a. UNCHANGED <<row, rootClaim, bypassed>>
  BY DEF JobStepTaken, JobStep, Begin, Admit, Close, Requeue, RetryJob, JobFails, CancelJob
<1>b. "pending" \in Active /\ "running" \in Active
      /\ "done" \notin Active /\ "partial" \notin Active /\ "failed" \notin Active
      /\ "cancelled" \notin Active
  BY DEF Active
<1>1. ASSUME NEW t \in Track, AlbumOf[t] \notin bypassed
      PROVE  trackClaim'[t] = trackClaim[t]
  <2>1. CASE Admit(j)
    <3>1. \/ trackClaim' = trackClaim
          \/ trackClaim' = [u \in Track |-> IF u = row[j].track THEN j ELSE trackClaim[u]]
      BY <2>1 DEF Admit
    <3>2. ASSUME t = row[j].track PROVE trackClaim[t] = j
      <4>1. status[j] \in Active
        BY <2>1, <1>b DEF Admit
      <4>2. row[j].track # None /\ row[j].album = AlbumOf[t]
        BY <3>2, <4>1, ActiveTyped, ClaimsAssumption
      <4> QED
        BY <1>1, <3>2, <4>1, <4>2 DEF Owners, ActiveJobsOwn
    <3> QED
      BY <3>1, <3>2
  <2>2. CASE ~Admit(j)
    BY <2>2 DEF JobStepTaken, JobStep, Begin, Close, Requeue, RetryJob, JobFails, CancelJob
  <2> QED
    BY <2>1, <2>2
<1>2. ASSUME NEW k \in JobId, status'[k] \in Active
      PROVE  status[k] \in Active \/ (row[k] # None /\ row[k].album \in bypassed)
  <2>1. CASE Close(j)
    <3>1. PICK got \in SUBSET Targets(row[j].album) :
              status' = [n \in JobId |->
                  IF n = j THEN IF Missing(j, got) = {} THEN "done" ELSE "partial"
                  ELSE IF /\ Missing(j, got) = {}
                          /\ TracksOf(row[j].album) \subseteq owned \cup got
                          /\ status[n] = "partial" /\ row[n].album = row[j].album
                       THEN "done" ELSE status[n]]
      BY <2>1 DEF Close
    <3> QED
      BY <1>b, <1>2, <3>1
  <2>2. CASE RetryJob(j)
    <3>1. status[j] \in Terminal /\ row[j].album \in bypassed
          /\ status' = [status EXCEPT ![j] = "pending"]
      BY <2>2 DEF RetryJob, Terminal
    <3>2. row[j] # None
      BY <3>1, ClaimsTypeFacts, ClaimsAssumption DEF TypeOK, ClaimsTypeOK
    <3>3. k # j => status'[k] = status[k]
      BY <3>1 DEF TypeOK, ClaimsTypeOK
    <3> QED
      BY <1>2, <3>1, <3>2, <3>3
  <2>3. CASE Begin(j) \/ Admit(j) \/ Requeue(j) \/ JobFails(j) \/ CancelJob(j)
    <3>1. status[j] \in Active
      BY <2>3, <1>b DEF Begin, Admit, Requeue, JobFails, CancelJob
    <3>2. k # j => status'[k] = status[k]
      BY <2>3 DEF Begin, Admit, Requeue, JobFails, CancelJob, TypeOK, ClaimsTypeOK
    <3> QED
      BY <1>2, <3>1, <3>2
  <2> QED
    BY <2>1, <2>2, <2>3 DEF JobStepTaken, JobStep
<1> QED
  BY <1>a, <1>1, <1>2, OwnersKept

LEMMA OwnersStep == TypeOK /\ Shape /\ Owners /\ [Next]_vars => Owners'
<1> SUFFICES ASSUME TypeOK, Shape, Owners, [Next]_vars PROVE Owners'
  OBVIOUS
<1>1. CASE Bystanding
  BY <1>1, OwnersKept DEF Bystanding
<1>2. ASSUME NEW i \in Item, Observes(i) \/ Inspects(i) PROVE Owners'
  BY <1>2, OwnersKept DEF Observes, Inspects, jobVars
<1>3. ASSUME NEW b \in Batch, Joins(b) PROVE Owners'
  BY <1>3, OwnersKept DEF Joins, jobVars
<1>4. ASSUME NEW b \in Batch, CancelBatch(b) PROVE Owners'
  <2>1. UNCHANGED <<row, rootClaim, trackClaim, bypassed>>
    BY <1>4 DEF CancelBatch
  <2>2. \A j \in JobId : status'[j] \in Active => status[j] \in Active
    BY <1>4, CancelEffect DEF Active
  <2> QED
    BY <2>1, <2>2, OwnersKept
<1>5. CASE Restart
  <2>1. UNCHANGED <<row, rootClaim, trackClaim, bypassed>>
    BY <1>5 DEF Restart
  <2>2. \A j \in JobId : status'[j] \in Active => status[j] \in Active
    BY <1>5 DEF Restart, Active
  <2> QED
    BY <2>1, <2>2, OwnersKept
<1> QED
  BY <1>1, <1>2, <1>3, <1>4, <1>5, NextKinds, OwnersContinues, OwnersReserves, OwnersJobStep,
     OwnersRequest DEF StepKinds

LEMMA OwnersInit == Init => Owners
  BY ClaimsAssumption DEF Init, ClaimsInit, Owners, ActiveJobsOwn, RootsExclude, IsActive

LEMMA OwnersAreExclusive ==
    ASSUME TypeOK, Shape, Owners PROVE AlbumWorkIsExclusive
<1>1. ASSUME NEW j \in JobId, NEW k \in JobId, IsActive(j), IsActive(k), j # k,
             row[j].album = row[k].album, row[j].album \notin bypassed
      PROVE  IsTrackJob(j) /\ IsTrackJob(k) /\ row[j].track # row[k].track
  <2>1. /\ status[j] \in Active /\ row[j] # None /\ row[j].album \in Album
        /\ row[j].track # None => row[j].track \in Track /\ AlbumOf[row[j].track] = row[j].album
    BY <1>1, ActiveTyped DEF IsActive
  <2>2. /\ status[k] \in Active /\ row[k] # None
        /\ row[k].track # None => row[k].track \in Track /\ AlbumOf[row[k].track] = row[k].album
    BY <1>1, ActiveTyped DEF IsActive
  <2>3. /\ IF row[j].track = None THEN rootClaim[row[j].album] = j ELSE trackClaim[row[j].track] = j
        /\ IF row[k].track = None THEN rootClaim[row[j].album] = k ELSE trackClaim[row[k].track] = k
    BY <1>1, <2>1, <2>2 DEF Owners, ActiveJobsOwn
  <2>4. row[j].track = None => row[k].track = None
    BY <1>1, <2>1, <2>2, <2>3 DEF Owners, RootsExclude
  <2>5. row[k].track = None => row[j].track = None
    BY <1>1, <2>1, <2>2, <2>3 DEF Owners, RootsExclude
  <2> QED
    BY <1>1, <2>1, <2>2, <2>3, <2>4, <2>5 DEF IsTrackJob
<1> QED
  BY <1>1 DEF AlbumWorkIsExclusive

(* An album is worked on as a whole or track by track, never both, and a   *)
(* track by one job, wherever every request takes its claim.               *)
THEOREM AlbumsAreWorkedOnOnce == Spec => []AlbumWorkIsExclusive
<1> DEFINE I == TypeOK /\ Shape /\ Owners
<1>1. Init => I
  BY TypeInit, ShapeInit, OwnersInit
<1>2. I /\ [Next]_vars => I'
  BY TypeStep, ShapeStep, OwnersStep
<1>3. I => AlbumWorkIsExclusive
  BY OwnersAreExclusive
<1> QED
  BY <1>1, <1>2, <1>3, PTL DEF Spec

-----------------------------------------------------------------------------
(* Chains of continuations, and who owns the jobs of a batch.              *)

(* The steps that create jobs are these three.                             *)
LEMMA OthersCreateNoJob ==
    ASSUME TypeOK, Shape, [Next]_vars
    PROVE  \/ UNCHANGED <<row, bypassed>>
           \/ \E p \in JobId : \E T : Continues(p, T)
           \/ \E i \in Item : Reserves(i)
           \/ RequestMade
<1>1. \A i \in Item : Observes(i) \/ Inspects(i) => UNCHANGED <<row, bypassed>>
  BY DEF Observes, Inspects, jobVars
<1>2. \A b \in Batch : Joins(b) \/ CancelBatch(b) => UNCHANGED <<row, bypassed>>
  BY DEF Joins, CancelBatch, jobVars
<1>3. \A j \in JobId : JobStepTaken(j) => UNCHANGED <<row, bypassed>>
  BY DEF JobStepTaken, JobStep, Begin, Admit, Close, Requeue, RetryJob, JobFails, CancelJob
<1>4. Bystanding \/ Restart => UNCHANGED <<row, bypassed>>
  BY DEF Bystanding, Restart
<1> QED
  BY <1>1, <1>2, <1>3, <1>4, NextKinds DEF StepKinds

(* The row of a job that is new, where requests take claims: either it     *)
(* continues another, within the limit, or it comes first.                 *)
LEMMA NewJobs ==
    ASSUME TypeOK, Shape, [Next]_vars
    PROVE  /\ bypassed' = bypassed
           /\ \A j \in JobId : row[j] # None => row'[j] = row[j]
           /\ \A j \in JobId : row[j] = None /\ row'[j] # None /\ row'[j].album \notin bypassed =>
                  \/ row'[j].parent = None /\ row'[j].attempt = 0
                  \/ \E p \in JobId : /\ row'[j].parent = p /\ row[p] # None
                                      /\ row[p].attempt \in Nat /\ row[p].attempt < MaxAttempts
                                      /\ row'[j].attempt = row[p].attempt + 1
<1>1. CASE UNCHANGED <<row, bypassed>>
  BY <1>1
<1>2. ASSUME NEW p \in JobId, NEW T, Continues(p, T)
      PROVE  /\ bypassed' = bypassed
             /\ \A j \in JobId : row[j] # None => row'[j] = row[j]
             /\ \A j \in JobId : row[j] = None /\ row'[j] # None =>
                    /\ row'[j].parent = p /\ row[p] # None
                    /\ row[p].attempt \in Nat /\ row[p].attempt < MaxAttempts
                    /\ row'[j].attempt = row[p].attempt + 1
  <2>1. T \in SUBSET Track /\ Continue(p, T) /\ bypassed' = bypassed
    BY <1>2 DEF Continues
  <2>2. PICK heir \in [T -> JobId], fresh \in SUBSET T : Continued(p, T, heir, fresh)
    BY <2>1, ContinueEffect DEF Shape
  <2>3. row[p] # None /\ row[p].attempt \in Nat /\ (T # {} => row[p].attempt < MaxAttempts)
    BY <1>2, ContinueAsked DEF MayAsk
  <2>4. \A t \in fresh : /\ row'[heir[t]].parent = p
                         /\ row'[heir[t]].attempt = row[p].attempt + 1
    <3>1. \A t \in Track : /\ TrackRow(t, p, row[p].attempt + 1).parent = p
                           /\ TrackRow(t, p, row[p].attempt + 1).attempt = row[p].attempt + 1
      BY <2>3, NewRowsTyped
    <3> QED
      BY <2>1, <2>2, <3>1 DEF Continued
  <2>5. /\ \A t \in fresh : heir[t] \in Absent
        /\ \A j \in JobId : row'[j] = row[j] \/ \E t \in fresh : j = heir[t]
    BY <2>2 DEF Continued
  <2> QED
    BY <2>1, <2>3, <2>4, <2>5 DEF Absent
<1>3. ASSUME NEW i \in Item, Reserves(i)
      PROVE  /\ bypassed' = bypassed
             /\ \A j \in JobId : row[j] # None => row'[j] = row[j]
             /\ \A j \in JobId : row[j] = None /\ row'[j] # None =>
                    row'[j].parent = None /\ row'[j].attempt = 0
  <2>1. PICK j \in JobId : Reserved(i, j)
    BY <1>3, ReserveEffect
  <2> QED
    BY <2>1 DEF Reserved, RootRow, Absent
<1>4. ASSUME NEW j \in JobId, Intrudes(j)
      PROVE  /\ bypassed' = bypassed
             /\ \A k \in JobId : row[k] # None => row'[k] = row[k]
             /\ \A k \in JobId : row[k] = None /\ row'[k] # None => row'[k].album \in bypassed
  BY <1>4 DEF Intrudes, Absent
<1>5. ASSUME NEW a \in Album, OrdinaryRequest(a)
      PROVE  /\ bypassed' = bypassed
             /\ \A j \in JobId : row[j] # None => row'[j] = row[j]
             /\ \A j \in JobId : row[j] = None /\ row'[j] # None =>
                    row'[j].parent = None /\ row'[j].attempt = 0
  <2>1. PICK T \in SUBSET Track : \E new : Requested(a, T, new)
    BY <1>5, OrdinaryEffect
  <2>2. PICK new : Requested(a, T, new)
    BY <2>1
  <2>3. \A t \in T : row'[new[t]].parent = None /\ row'[new[t]].attempt = 0
    <3>1. \A t \in Track : TrackRow(t, None, 0).parent = None /\ TrackRow(t, None, 0).attempt = 0
      BY NewRowsTyped
    <3> QED
      BY <2>2, <3>1 DEF Requested
  <2>4. /\ \A t \in T : new[t] \in Absent
        /\ \A j \in JobId : row'[j] = row[j] \/ \E t \in T : j = new[t]
        /\ bypassed' = bypassed
    BY <2>2 DEF Requested
  <2> QED
    BY <2>3, <2>4 DEF Absent
<1>6. CASE RequestMade
  <2>1. ASSUME NEW a \in Album, MonitorRequest(a) PROVE \E j \in JobId : Intrudes(j)
    BY <2>1, MonitorEffect
  <2>2. ASSUME NEW t \in Track, NEW q \in JobId \cup {None}, DirectRequest(t, q)
        PROVE  \E j \in JobId : Intrudes(j)
    BY <2>2, DirectEffect
  <2>3. (\E j \in JobId : Intrudes(j)) \/ (\E a \in Album : OrdinaryRequest(a))
    BY <1>6, <2>1, <2>2 DEF RequestMade
  <2>4. ASSUME NEW j \in JobId, Intrudes(j)
        PROVE  /\ bypassed' = bypassed
               /\ \A k \in JobId : row[k] # None => row'[k] = row[k]
               /\ \A k \in JobId : row[k] = None /\ row'[k] # None => row'[k].album \in bypassed
    BY <1>4, <2>4
  <2> QED
    BY <1>5, <2>3, <2>4
<1> QED
  BY <1>1, <1>2, <1>3, <1>6, OthersCreateNoJob

LEMMA BoundStep == TypeOK /\ Shape /\ ContinuationsAreBounded /\ [Next]_vars
                   => ContinuationsAreBounded'
<1> SUFFICES ASSUME TypeOK, Shape, ContinuationsAreBounded, [Next]_vars,
                    NEW j \in JobId, row'[j] # None, row'[j].album \notin bypassed'
             PROVE  /\ row'[j].attempt <= MaxAttempts
                    /\ row'[j].attempt = IF row'[j].parent = None THEN 0
                                         ELSE row'[row'[j].parent].attempt + 1
  BY DEF ContinuationsAreBounded
<1>1. /\ bypassed' = bypassed
      /\ \A k \in JobId : row[k] # None => row'[k] = row[k]
      /\ row[j] = None => 
                  \/ row'[j].parent = None /\ row'[j].attempt = 0
                  \/ \E p \in JobId : /\ row'[j].parent = p /\ row[p] # None
                                      /\ row[p].attempt \in Nat /\ row[p].attempt < MaxAttempts
                                      /\ row'[j].attempt = row[p].attempt + 1
  BY NewJobs
<1>2. None \notin JobId /\ MaxAttempts \in Nat
  BY ClaimsAssumption DEF JobId
<1>3. CASE row[j] # None
  <2>1. row'[j] = row[j] /\ row[j] \in Row
    BY <1>1, <1>3, ClaimsTypeFacts DEF TypeOK
  <2>2. /\ row[j].attempt <= MaxAttempts
        /\ row[j].attempt = IF row[j].parent = None THEN 0 ELSE row[row[j].parent].attempt + 1
    BY <1>1, <1>3, <2>1 DEF ContinuationsAreBounded
  <2>3. row[j].parent # None => row'[row[j].parent] = row[row[j].parent]
    BY <1>1, <1>3, <2>1 DEF Shape, ParentsExist, Row
  <2> QED
    BY <2>1, <2>2, <2>3
<1>4. CASE row[j] = None
  BY <1>1, <1>2, <1>4
<1> QED
  BY <1>3, <1>4

LEMMA BoundInit == Init => ContinuationsAreBounded
  BY DEF Init, ClaimsInit, ContinuationsAreBounded

(* No chain of continuations is longer than the limit.                     *)
THEOREM ChainsEnd == Spec => []ContinuationsAreBounded
<1> DEFINE I == TypeOK /\ Shape /\ ContinuationsAreBounded
<1>1. Init => I
  BY TypeInit, ShapeInit, BoundInit
<1>2. I /\ [Next]_vars => I'
  BY TypeStep, ShapeStep, BoundStep
<1>3. I => ContinuationsAreBounded
  OBVIOUS
<1> QED
  BY <1>1, <1>2, <1>3, PTL DEF Spec

LEMMA NoLinksToAbsentJobs == ASSUME TypeOK, Shape, NEW l \in links PROVE l.job \in JobId \ Absent
  BY DEF TypeOK, BatchTypeOK, Link, Shape, LinksFit, Absent

(* A link that a continuation adds as created.                             *)
LEMMA ContinuedLinks ==
    ASSUME TypeOK, Shape, NEW p \in JobId, NEW T, NEW heir \in [T -> JobId], NEW fresh \in SUBSET T,
           Continued(p, T, heir, fresh), NEW m \in links', m.created
    PROVE  \/ m \in links
           \/ \E l \in OpenContexts(p), t \in fresh :
                  /\ l \in links /\ l.job = p /\ l.created
                  /\ m = [item |-> l.item, generation |-> l.generation, role |-> "track_fallback",
                          track |-> t, job |-> heir[t], created |-> TRUE]
<1>1. \/ m \in links
      \/ \E l \in OpenContexts(p), t \in T :
             m = [item |-> l.item, generation |-> l.generation, role |-> "track_fallback",
                  track |-> t, job |-> heir[t], created |-> t \in fresh /\ l.created]
  BY DEF Continued, SpawnedLinks
<1>2. \A l \in OpenContexts(p) : l \in links /\ l.job = p
  BY DEF OpenContexts, Contexts
<1>3. ASSUME NEW l \in OpenContexts(p), NEW t \in T,
             m = [item |-> l.item, generation |-> l.generation, role |-> "track_fallback",
                  track |-> t, job |-> heir[t], created |-> t \in fresh /\ l.created]
      PROVE  /\ t \in fresh /\ l \in links /\ l.job = p /\ l.created
             /\ m = [item |-> l.item, generation |-> l.generation, role |-> "track_fallback",
                     track |-> t, job |-> heir[t], created |-> TRUE]
  <2>1. m.created = (t \in fresh /\ l.created)
    BY <1>3
  <2>2. t \in fresh /\ l.created
    BY <2>1
  <2>3. (t \in fresh /\ l.created) = TRUE
    BY <2>2
  <2> QED
    BY <1>2, <1>3, <2>2, <2>3
<1> QED
  BY <1>1, <1>3

LEMMA OwnedOnceContinues ==
    ASSUME TypeOK, Shape, OneBatchOwnsAJob, NEW p \in JobId, NEW T, Continues(p, T)
    PROVE  OneBatchOwnsAJob'
<1>1. T \in SUBSET Track /\ Continue(p, T)
  BY DEF Continues
<1>2. PICK heir \in [T -> JobId], fresh \in SUBSET T : Continued(p, T, heir, fresh)
  BY <1>1, ContinueEffect DEF Shape
<1>3. \A t, u \in fresh : heir[t] \in Absent /\ (heir[t] = heir[u] => t = u)
  BY <1>2 DEF Continued
<1> SUFFICES ASSUME NEW l \in links', NEW m \in links', l.created, m.created, l.job = m.job
             PROVE  l = m
  BY DEF OneBatchOwnsAJob
<1>4. CASE l \in links /\ m \in links
  BY <1>4 DEF OneBatchOwnsAJob
<1>5. ASSUME NEW c \in links, NEW t \in fresh,
             m = [item |-> c.item, generation |-> c.generation, role |-> "track_fallback",
                  track |-> t, job |-> heir[t], created |-> TRUE]
      PROVE  l \notin links
  BY <1>3, <1>5, NoLinksToAbsentJobs
<1>6. ASSUME NEW c \in links, NEW t \in fresh,
             l = [item |-> c.item, generation |-> c.generation, role |-> "track_fallback",
                  track |-> t, job |-> heir[t], created |-> TRUE]
      PROVE  m \notin links
  BY <1>3, <1>6, NoLinksToAbsentJobs
<1>7. ASSUME NEW c \in links, NEW t \in fresh, NEW d \in links, NEW u \in fresh,
             c.created, d.created, c.job = p, d.job = p,
             l = [item |-> c.item, generation |-> c.generation, role |-> "track_fallback",
                  track |-> t, job |-> heir[t], created |-> TRUE],
             m = [item |-> d.item, generation |-> d.generation, role |-> "track_fallback",
                  track |-> u, job |-> heir[u], created |-> TRUE]
      PROVE  l = m
  <2>1. c = d
    BY <1>7 DEF OneBatchOwnsAJob
  <2>2. heir[t] = heir[u]
    BY <1>7
  <2> QED
    BY <1>3, <1>7, <2>1, <2>2
<1>8. /\ \/ l \in links
         \/ \E c \in links, t \in fresh :
                /\ c.job = p /\ c.created
                /\ l = [item |-> c.item, generation |-> c.generation, role |-> "track_fallback",
                        track |-> t, job |-> heir[t], created |-> TRUE]
      /\ \/ m \in links
         \/ \E c \in links, t \in fresh :
                /\ c.job = p /\ c.created
                /\ m = [item |-> c.item, generation |-> c.generation, role |-> "track_fallback",
                        track |-> t, job |-> heir[t], created |-> TRUE]
  BY <1>2, ContinuedLinks
<1> QED
  BY <1>4, <1>5, <1>6, <1>7, <1>8

LEMMA OwnedOnceCancel ==
    ASSUME TypeOK, Shape, OneBatchOwnsAJob, NEW b \in Batch, CancelBatch(b)
    PROVE  OneBatchOwnsAJob'
<1>1. PICK taker \in [{l \in CreatedLinks(b) : Observers(l) # {}} -> links] :
          /\ \A l \in DOMAIN taker : taker[l] \in Observers(l)
          /\ links' = Transferred(b, taker)
  BY DEF CancelBatch
<1> DEFINE given == {l \in CreatedLinks(b) : Observers(l) # {}}
           taken == {taker[l] : l \in given}
<1>2. given \subseteq links /\ \A l \in given : l.created
  BY DEF CreatedLinks
<1>3. \A g \in given : taker[g] \in links /\ taker[g].job = g.job
  BY <1>1 DEF Observers
<1>4. links' = (links \ (given \cup taken)) \cup {[l EXCEPT !.created = FALSE] : l \in given}
                                            \cup {[l EXCEPT !.created = TRUE] : l \in taken}
  BY <1>1 DEF Transferred
<1>5. \A x \in taken : \E g \in given : x = taker[g]
  OBVIOUS
<1>6. \A l \in links : /\ [l EXCEPT !.created = FALSE].created = FALSE
                       /\ [l EXCEPT !.created = TRUE].job = l.job
  BY DEF TypeOK, BatchTypeOK, Link
<1> HIDE DEF given, taken
<1>7. ASSUME NEW m \in links', m.created
      PROVE  \/ m \in links \ given
             \/ \E g \in given : m = [taker[g] EXCEPT !.created = TRUE] /\ m.job = g.job
  <2>1. \/ m \in links \ given
        \/ \E l \in given : m = [l EXCEPT !.created = FALSE]
        \/ \E l \in taken : m = [l EXCEPT !.created = TRUE]
    BY <1>4
  <2>2. ~\E l \in given : m = [l EXCEPT !.created = FALSE]
    BY <1>2, <1>6, <1>7
  <2>3. ASSUME NEW l \in taken, m = [l EXCEPT !.created = TRUE]
        PROVE  \E g \in given : m = [taker[g] EXCEPT !.created = TRUE] /\ m.job = g.job
    <3>1. PICK g \in given : l = taker[g]
      BY <1>5
    <3> QED
      BY <1>3, <1>6, <2>3, <3>1
  <2> QED
    BY <2>1, <2>2, <2>3
<1> SUFFICES ASSUME NEW l \in links', NEW m \in links', l.created, m.created, l.job = m.job
             PROVE  l = m
  BY DEF OneBatchOwnsAJob
<1>8. \A x, y \in links : x.created /\ y.created /\ x.job = y.job => x = y
  BY DEF OneBatchOwnsAJob
<1>9. CASE l \in links \ given /\ m \in links \ given
  BY <1>8, <1>9
<1>10. ASSUME NEW g \in given, m.job = g.job \/ l.job = g.job PROVE l \notin links \ given /\ m \notin links \ given
  BY <1>2, <1>8, <1>10
<1>11. ASSUME NEW g \in given, l = [taker[g] EXCEPT !.created = TRUE], l.job = g.job,
              NEW h \in given, m = [taker[h] EXCEPT !.created = TRUE], m.job = h.job
       PROVE  l = m
  <2>1. g = h
    BY <1>2, <1>8, <1>11
  <2> QED
    BY <1>11, <2>1
<1> QED
  BY <1>7, <1>9, <1>10, <1>11

LEMMA OwnedOnceStep == TypeOK /\ Shape /\ OneBatchOwnsAJob /\ [Next]_vars => OneBatchOwnsAJob'
<1> SUFFICES ASSUME TypeOK, Shape, OneBatchOwnsAJob, [Next]_vars PROVE OneBatchOwnsAJob'
  OBVIOUS
<1>a. UNCHANGED links => OneBatchOwnsAJob'
  BY DEF OneBatchOwnsAJob
<1>1. CASE Bystanding
  BY <1>1, <1>a DEF Bystanding
<1>2. ASSUME NEW i \in Item, Reserves(i) PROVE OneBatchOwnsAJob'
  <2>1. PICK j \in JobId : Reserved(i, j)
    BY <1>2, ReserveEffect
  <2>2. links' = links \cup {RootLink(i, j, TRUE)} /\ j \in Absent
        /\ RootLink(i, j, TRUE).job = j
    BY <2>1 DEF Reserved, RootLink
  <2>3. \A l, m \in links : l.created /\ m.created /\ l.job = m.job => l = m
    BY DEF OneBatchOwnsAJob
  <2>4. \A l \in links : l.job # j
    BY <2>2, NoLinksToAbsentJobs
  <2> QED
    BY <2>2, <2>3, <2>4, ZenonT(60) DEF OneBatchOwnsAJob
<1>3. ASSUME NEW i \in Item, Observes(i) PROVE OneBatchOwnsAJob'
  <2>1. ~RootLink(i, rootClaim[AlbumOfItem[i]], FALSE).created
    BY DEF RootLink
  <2>2. \A m \in links' : m \in links \/ ~m.created
    BY <1>3, <2>1 DEF Observes
  <2> QED
    BY <2>2 DEF OneBatchOwnsAJob
<1>4. ASSUME NEW i \in Item, Inspects(i) PROVE OneBatchOwnsAJob'
  BY <1>4, <1>a DEF Inspects
<1>5. ASSUME NEW b \in Batch, Joins(b) PROVE OneBatchOwnsAJob'
  <2>1. \A i \in Item : \A m \in ObservedLinks(i) : ~m.created
    BY DEF ObservedLinks
  <2>2. \A m \in links' : m \in links \/ ~m.created
    BY <1>5, <2>1 DEF Joins, ItemsOf
  <2> QED
    BY <2>2 DEF OneBatchOwnsAJob
<1>6. ASSUME NEW j \in JobId, JobStepTaken(j) PROVE OneBatchOwnsAJob'
  BY <1>6, <1>a DEF JobStepTaken, batchVars
<1>7. CASE RequestMade
  BY <1>7, <1>a DEF RequestMade, batchVars
<1>8. CASE Restart
  BY <1>8, <1>a DEF Restart
<1> QED
  BY <1>1, <1>2, <1>3, <1>4, <1>5, <1>6, <1>7, <1>8, NextKinds, OwnedOnceContinues, OwnedOnceCancel
     DEF StepKinds

LEMMA OwnedOnceInit == Init => OneBatchOwnsAJob
  BY DEF Init, OneBatchOwnsAJob

(* However often observed work changes hands, a job is one batch's own.    *)
THEOREM JobsAreOwnedOnce == Spec => []OneBatchOwnsAJob
<1> DEFINE I == TypeOK /\ Shape /\ OneBatchOwnsAJob
<1>1. Init => I
  BY TypeInit, ShapeInit, OwnedOnceInit
<1>2. I /\ [Next]_vars => I'
  BY TypeStep, ShapeStep, OwnedOnceStep
<1>3. I => OneBatchOwnsAJob
  OBVIOUS
<1> QED
  BY <1>1, <1>2, <1>3, PTL DEF Spec

(* What CancelledBatchesStartNothing says of a step.                       *)
StartsNothingForCancelled ==
    \A j \in JobId : row[j] = None /\ row'[j] # None /\ row'[j].album \notin bypassed =>
        \A b \in Batch : batch'[b] = "cancelled" =>
            ~\E l \in links' : l.created /\ BatchOf[l.item] = b
                               /\ (l.job = j \/ l.job = row'[j].parent)

LEMMA ContinuesStartNothing ==
    ASSUME TypeOK, Shape, NEW p \in JobId, NEW T, Continues(p, T)
    PROVE  StartsNothingForCancelled
<1>1. T \in SUBSET Track /\ Continue(p, T) /\ ~Disowned(p) /\ UNCHANGED <<batch, item>>
  BY DEF Continues, SpawnsNothing
<1>2. PICK heir \in [T -> JobId], fresh \in SUBSET T : Continued(p, T, heir, fresh)
  BY <1>1, ContinueEffect DEF Shape
<1> SUFFICES ASSUME NEW j \in JobId, row[j] = None, row'[j] # None,
                    NEW b \in Batch, batch[b] = "cancelled",
                    NEW l \in links', l.created, BatchOf[l.item] = b,
                    l.job = j \/ l.job = row'[j].parent
             PROVE  FALSE
  BY <1>1 DEF StartsNothingForCancelled
<1>3. row'[j].parent = p
  <2>1. PICK t \in fresh : j = heir[t]
    BY <1>2 DEF Continued
  <2>2. row'[j] = TrackRow(t, p, row[p].attempt + 1)
    BY <1>2, <2>1 DEF Continued
  <2>3. row[p].attempt + 1 \in Nat
    BY ContinueAsked
  <2> QED
    BY <1>1, <2>2, <2>3, NewRowsTyped
<1>4. CASE l \in links
  <2>1. l.job = p
    BY <1>3, <1>4, NoLinksToAbsentJobs DEF Absent
  <2>2. p \in Lineage(p) /\ p \in CreatedBy(b)
    BY <1>4, <2>1 DEF Lineage, CreatedBy
  <2> QED
    BY <1>1, <2>2 DEF Disowned
<1>5. CASE l \notin links
  <2>1. PICK c \in OpenContexts(p) : l.item = c.item
    BY <1>2, <1>5, ContinuedLinks
  <2>2. IsRunning(c.item)
    BY DEF OpenContexts
  <2> QED
    BY <2>1, <2>2 DEF IsRunning, Running
<1> QED
  BY <1>4, <1>5

LEMMA StartsNothingStep == TypeOK /\ Shape /\ [Next]_vars => StartsNothingForCancelled
<1> SUFFICES ASSUME TypeOK, Shape, [Next]_vars PROVE StartsNothingForCancelled
  OBVIOUS
<1>a. None \notin JobId
  BY ClaimsAssumption DEF JobId
<1>1. CASE UNCHANGED <<row, bypassed>>
  BY <1>1 DEF StartsNothingForCancelled
<1>2. ASSUME NEW i \in Item, Reserves(i) PROVE StartsNothingForCancelled
  <2>1. PICK k \in JobId : Reserved(i, k)
    BY <1>2, ReserveEffect
  <2>2. /\ row'[k].parent = None /\ IsRunning(i) /\ UNCHANGED batch
        /\ \A j \in JobId : j # k => row'[j] = row[j]
        /\ links' = links \cup {RootLink(i, k, TRUE)}
        /\ RootLink(i, k, TRUE).item = i
    BY <2>1 DEF Reserved, RootRow, HoldsLease, RootLink
  <2>3. ASSUME NEW j \in JobId, row[j] = None, row'[j] # None,
               NEW b \in Batch, batch'[b] = "cancelled",
               NEW l \in links', l.created, BatchOf[l.item] = b,
               l.job = j \/ l.job = row'[j].parent
        PROVE  FALSE
    <3>1. j = k
      BY <2>2, <2>3
    <3>2. l \notin links
      BY <1>a, <2>2, <2>3, <3>1, NoLinksToAbsentJobs DEF Absent
    <3>3. l.item = i
      BY <2>2, <3>2
    <3> QED
      BY <2>2, <2>3, <3>3 DEF IsRunning, Running
  <2> QED
    BY <2>3 DEF StartsNothingForCancelled
<1>3. CASE RequestMade
  <2>1. UNCHANGED links
    BY <1>3 DEF RequestMade, batchVars
  <2>2. ASSUME NEW j \in JobId, row[j] = None, row'[j] # None, row'[j].album \notin bypassed
        PROVE  row'[j].parent = None
    <3>1. ASSUME NEW k \in JobId, Intrudes(k) PROVE FALSE
      BY <2>2, <3>1 DEF Intrudes
    <3>2. PICK a \in Album : OrdinaryRequest(a)
      BY <1>3, <3>1, DirectEffect, MonitorEffect DEF RequestMade
    <3>3. PICK T \in SUBSET Track : \E new : Requested(a, T, new)
      BY <3>2, OrdinaryEffect
    <3>4. PICK new : Requested(a, T, new)
      BY <3>3
    <3>5. PICK t \in T : j = new[t]
      BY <2>2, <3>4 DEF Requested
    <3>6. row'[j] = TrackRow(t, None, 0)
      BY <3>4, <3>5 DEF Requested
    <3> QED
      BY <3>3, <3>5, <3>6, NewRowsTyped
  <2> QED
    BY <1>a, <2>1, <2>2, NoLinksToAbsentJobs DEF StartsNothingForCancelled, Absent
<1> QED
  BY <1>1, <1>2, <1>3, OthersCreateNoJob, ContinuesStartNothing

(* However late a run or the runner asks, a cancelled batch gets no more   *)
(* jobs.                                                                   *)
THEOREM CancelledStayQuiet == Spec => CancelledBatchesStartNothing
<1> DEFINE I == TypeOK /\ Shape
<1>1. Init => I
  BY TypeInit, ShapeInit
<1>2. I /\ [Next]_vars => I'
  BY TypeStep, ShapeStep
<1>3. I /\ [Next]_vars => [StartsNothingForCancelled]_vars
  BY StartsNothingStep
<1>4. Spec => [][StartsNothingForCancelled]_vars
  BY <1>1, <1>2, <1>3, PTL DEF Spec
<1> QED
  BY <1>4 DEF CancelledBatchesStartNothing, StartsNothingForCancelled
=============================================================================
