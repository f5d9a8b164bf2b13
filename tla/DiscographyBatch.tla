-------------------------- MODULE DiscographyBatch --------------------------
(***************************************************************************)
(* Discography batches (app/services/discography_batches.py, _runner.py,   *)
(* release_admission.py): a durable list of releases to acquire.  A serial *)
(* runner leases one item after another, lets the album's track list be    *)
(* completed, reserves a root job for it, and later judges the item by the *)
(* jobs linked to it.  A root job that closes partial is continued by one  *)
(* job for every missing track (_spawn_continuation_jobs in jobs/runner.py)*)
(* and these by another, up to a limit.  Meanwhile the user queues, pauses,*)
(* resumes, retries and cancels batches.                                   *)
(*                                                                         *)
(* A transaction that reserves the writer first is one step.  The others   *)
(* read, and later write by primary key the columns that differ from what  *)
(* they read: two steps, between which anything may commit.                *)
(*                                                                         *)
(* Previews, releases without an album and equal scopes are left out.      *)
(***************************************************************************)
EXTENDS AcquisitionClaims

CONSTANTS
    Batch, Item,
    BatchOf, AlbumOfItem,
    Unhydratable,   \* items without an exact provider release
    MaxGeneration   \* execution_generation, bounded

ItemsOf(b) == {i \in Item : BatchOf[i] = b}

ASSUME BatchAssumption ==
    /\ Item \subseteq Nat /\ IsFiniteSet(Item)
    /\ None \notin Batch \cup Item
    /\ BatchOf \in [Item -> Batch] /\ AlbumOfItem \in [Item -> Album]
    /\ \A i, k \in Item :
           BatchOf[i] = BatchOf[k] /\ AlbumOfItem[i] = AlbumOfItem[k] => i = k
    /\ Unhydratable \subseteq Item
    /\ MaxGeneration \in Nat

VARIABLES
    batch,    \* the state of every batch
    item,     \* the rows of discography_batch_items
    links,    \* discography_batch_item_jobs
    runner,   \* what DiscographyBatchRunner is doing
    request   \* a user's request that has read and not yet written

batchVars == <<batch, item, links, runner, request>>
vars == <<claimVars, batchVars>>

-----------------------------------------------------------------------------
(* State.                                                                  *)

Running == {"queued", "running"}
Working == {"hydrating", "expanding"}
Open == Working \cup {"pending", "waiting"}
Closed == {"complete", "skipped", "failed", "cancelled"}

BatchState == Running \cup {"none", "paused", "cancelled", "completed", "completed_with_failures"}

(* reason: of the reason codes only what the code reads back, a track list *)
(* to be completed and the mark that resume leaves.                        *)
(* leased: the lease token and the heartbeat are set.                      *)
ItemRow == [state : Open \cup Closed \cup {"none"}, reason : {"none", "manifest", "resume"},
            leased : BOOLEAN, generation : Nat]

Role == {"release_root", "track_fallback", "legacy_track"}

Link == [item : Item, generation : Nat, role : Role, track : Track \cup {None},
         job : JobId, created : BOOLEAN]

Spawn == [parent : JobId, tracks : SUBSET Track]

Phase == {"idle", "claim", "hydrate", "hydrated", "project", "reserve", "notify",
          "judge", "fail", "inspect", "spawn", "record"}

(* seen:     the library evidence behind the projection; tries: how often  *)
(*           it was projected before.                                      *)
(* resumed:  the item carried resume's mark; hydrate: claimed to complete  *)
(*           its track list.                                               *)
(* read:     the row that was read, and verdict: the one to be written.    *)
(* todo:     waiting items still to be inspected; spawns: continuations    *)
(*           to be repaired for the one under inspection.                  *)
Runner == [phase : Phase, item : Item \cup {None}, hydrate : BOOLEAN, resumed : BOOLEAN,
           seen : SUBSET Track, tries : Nat, read : ItemRow \cup {None},
           verdict : ItemRow \cup {None}, todo : SUBSET Item, spawns : SUBSET Spawn]

IdleRunner == [phase |-> "idle", item |-> None, hydrate |-> FALSE, resumed |-> FALSE,
               seen |-> {}, tries |-> 0, read |-> None, verdict |-> None,
               todo |-> {}, spawns |-> {}]

NewItem == [state |-> "none", reason |-> "none", leased |-> FALSE, generation |-> 1]

BatchTypeOK ==
    /\ batch \in [Batch -> BatchState]
    /\ item \in [Item -> ItemRow]
    /\ links \in SUBSET Link
    /\ runner \in Runner
    /\ runner.phase \notin {"idle", "inspect"} => runner.item \in Item
    /\ runner.phase = "record" => {runner.read, runner.verdict} \subseteq ItemRow
    /\ request = None \/
           /\ request.batch \in Batch /\ {request.from, request.to} \subseteq BatchState
           /\ DOMAIN request.read = DOMAIN request.new /\ DOMAIN request.read \subseteq Item
           /\ \A i \in DOMAIN request.read : {request.read[i], request.new[i]} \subseteq ItemRow

TypeOK == ClaimsTypeOK /\ BatchTypeOK

Init ==
    /\ ClaimsInit
    /\ batch = [b \in Batch |-> "none"]
    /\ item = [i \in Item |-> NewItem]
    /\ links = {}
    /\ runner = IdleRunner
    /\ request = None

IsRunning(i) == batch[BatchOf[i]] \in Running
LinksOf(i) == {l \in links : l.item = i /\ l.generation = item[i].generation}
InRole(L, role) == {l \in L : l.role = role}
TracksIn(L) == {l.track : l \in L}

(* A row as the ORM writes it: only the columns that differ from those it  *)
(* read, over whatever the row holds by now.                               *)
Merge(current, read, new) ==
    [state |-> IF new.state = read.state THEN current.state ELSE new.state,
     reason |-> IF new.reason = read.reason THEN current.reason ELSE new.reason,
     leased |-> IF new.leased = read.leased THEN current.leased ELSE new.leased,
     generation |-> IF new.generation = read.generation THEN current.generation
                    ELSE new.generation]

\* Mutant: a batch with a failed item fails itself.
FinishedFailed(b, rows) ==
    LET states == {rows[i].state : i \in ItemsOf(b)}
    IN  IF batch[b] \in {"paused", "cancelled"} THEN batch[b]
        ELSE IF states \subseteq Closed
             THEN IF states \cap {"failed", "cancelled"} = {} THEN "completed" ELSE "failed"
        ELSE IF states \cap (Working \cup {"waiting"}) # {} THEN "running"
        ELSE batch[b]

(* _finish_batch.                                                          *)
Finished(b, rows) ==
    LET states == {rows[i].state : i \in ItemsOf(b)}
    IN  IF batch[b] \in {"paused", "cancelled"} THEN batch[b]
        ELSE IF states \subseteq Closed
             THEN IF states \cap {"failed", "cancelled"} = {} THEN "completed"
                  ELSE "completed_with_failures"
        ELSE IF states \cap (Working \cup {"waiting"}) # {} THEN "running"
        ELSE batch[b]

-----------------------------------------------------------------------------
(* Continuations.                                                          *)

(* The jobs a job continues, and itself.  A parent is older than its child.*)
Ancestors[j \in JobId] ==
    IF row[j] = None \/ row[j].parent = None \/ row[j].parent >= j THEN {}
    ELSE {row[j].parent} \cup Ancestors[row[j].parent]

Lineage(j) == {j} \cup Ancestors[j]

CreatedBy(b) == {l.job : l \in {m \in links : m.created /\ BatchOf[m.item] = b}}

(* _cancelled_batch_owns_job_ancestor.                                     *)
Disowned(j) == \E b \in Batch : batch[b] = "cancelled" /\ Lineage(j) \cap CreatedBy(b) # {}

Contexts(p) == {l \in links : /\ l.job = p
                              /\ l.role = IF IsRoot(p) THEN "release_root" ELSE "track_fallback"}

OpenContexts(p) == {l \in Contexts(p) : /\ l.generation = item[l.item].generation
                                        /\ IsRunning(l.item) /\ item[l.item].state \in Open}

\* Mutant: whose batch it is is not asked again.
SpawnsNothingUnasked(p) == status[p] # "partial" \/ IsActive(rootClaim[row[p].album])

(* Nothing is spawned: the parent is no longer what the caller saw, another*)
(* root job has the album, or the batch moved on.                          *)
SpawnsNothing(p) ==
    \/ Disowned(p)
    \/ status[p] # "partial"
    \/ IsActive(rootClaim[row[p].album])
    \/ Contexts(p) # {} /\ OpenContexts(p) = {}

(* The link an item already has for a track, in this generation.           *)
LinksFor(l, t) == {m \in LinksOf(l.item) : m.track = t}

(* The whole transaction is refused (ValueError).                          *)
SpawnRefused(p, T) ==
    \E l \in OpenContexts(p), t \in T :
        \/ \E m \in LinksFor(l, t) :
               m.role # "track_fallback" \/ (IsTrackJob(p) /\ m.job # p)
        \/ IsTrackJob(p) /\ LinksFor(l, t) = {}

(* An existing job that can serve as the continuation: the owner of the    *)
(* claim, or else the oldest of those spawned before or active.            *)
Heirs(p, t) ==
    IF IsActive(trackClaim[t]) THEN {trackClaim[t]}
    ELSE {j \in JobId : /\ row[j] # None /\ row[j].track = t
                        /\ \/ row[j].parent = p /\ row[j].attempt = row[p].attempt + 1
                           \/ IsActive(j)}

IsHeir(j, p, t) == j \in Heirs(p, t) /\ \A k \in Heirs(p, t) : j <= k

(* The links to the continuations: added for a root job's item, moved on   *)
(* from the parent for a track job's.                                      *)
SpawnedLinks(p, T, heir, fresh) ==
    LET moved == {m \in links : /\ IsTrackJob(p) /\ m.job = p /\ m.track \in T
                                /\ \E l \in OpenContexts(p) : m \in LinksFor(l, m.track)}
        targets == {lt \in OpenContexts(p) \X T : IsTrackJob(p) \/ LinksFor(lt[1], lt[2]) = {}}
    IN  (links \ moved) \cup
        {[item |-> lt[1].item, generation |-> lt[1].generation, role |-> "track_fallback",
          track |-> lt[2], job |-> heir[lt[2]],
          created |-> lt[2] \in fresh /\ lt[1].created] : lt \in targets}

Continue(p, T) ==
    \E heir \in [T -> JobId] :
        LET fresh == {t \in T : Heirs(p, t) = {}}
            new == [t \in fresh |-> heir[t]]
        IN  /\ \A t \in T \ fresh : IsHeir(heir[t], p, t)
            /\ new \in Numberings(fresh)
            /\ Insert(TrackRows(new, p, row[p].attempt + 1))
            /\ trackClaim' = [t \in Track |-> IF t \in T THEN heir[t] ELSE trackClaim[t]]
            /\ links' = SpawnedLinks(p, T, heir, fresh)

(* _spawn_continuation_jobs.                                               *)
SpawnContinuations(p, T) ==
    IF SpawnsNothing(p) \/ SpawnRefused(p, T)
    THEN UNCHANGED <<status, row, trackClaim, links>>
    ELSE Continue(p, T)

(* The run that closed the parent, in a transaction after the terminal one.*)
SpawnFromRun(p) ==
    /\ asks[p] # {}
    /\ SpawnContinuations(p, asks[p])
    /\ asks' = [asks EXCEPT ![p] = {}]
    /\ UNCHANGED <<working, rootClaim, owned, manifest, bypassed, events>>
    /\ UNCHANGED <<batch, item, runner, request>>

-----------------------------------------------------------------------------
(* The runner: leasing an item, completing its track list.                 *)

Pending == {i \in Item : item[i].state = "pending" /\ IsRunning(i)}
Waiting == {i \in Item : item[i].state = "waiting" /\ IsRunning(i)}

HoldsLease(i, states) == item[i].leased /\ item[i].state \in states /\ IsRunning(i)

Proceed(p) == runner' = [runner EXCEPT !.phase = p]

\* Mutant: only the hydrating items are recovered.
RecoverHydrating(i) ==
    /\ runner.phase = "idle"
    /\ HoldsLease(i, {"hydrating"})
    /\ item' = [item EXCEPT ![i].state = "pending", ![i].leased = FALSE]
    /\ UNCHANGED <<claimVars, batch, links, runner, request>>

(* _recover_expired, once the lease of a run that broke off has expired.   *)
RecoverExpired(i) ==
    /\ runner.phase = "idle"
    /\ HoldsLease(i, Working)
    /\ item' = [item EXCEPT ![i].state = "pending", ![i].leased = FALSE]
    /\ UNCHANGED <<claimVars, batch, links, runner, request>>

(* _claim_pending reads the oldest pending item and its reason ...         *)
SelectPending ==
    /\ runner.phase = "idle"
    /\ \E i \in Pending :
           /\ \A k \in Pending : i <= k
           /\ runner' = [IdleRunner EXCEPT !.phase = "claim", !.item = i,
                                           !.hydrate = item[i].reason = "manifest"]
    /\ UNCHANGED <<claimVars, batch, item, links, request>>

(* ... and leases it by compare-and-set, on the item's state alone.        *)
Claim ==
    /\ runner.phase = "claim"
    /\ LET i == runner.item
           to == IF runner.hydrate THEN "hydrating" ELSE "expanding"
       IN  IF item[i].state = "pending"
           THEN /\ item' = [item EXCEPT ![i].state = to, ![i].leased = TRUE]
                /\ batch' = [batch EXCEPT ![BatchOf[i]] = IF @ = "queued" THEN "running" ELSE @]
                /\ Proceed(IF runner.hydrate THEN "hydrate" ELSE "project")
           ELSE runner' = IdleRunner /\ UNCHANGED <<item, batch>>
    /\ UNCHANGED <<claimVars, links, request>>

(* hydrate_discography_batch_item: the provider is asked outside of any    *)
(* transaction, and the answer stored behind the lease.                    *)
Hydrate ==
    /\ runner.phase = "hydrate"
    /\ \/ /\ HoldsLease(runner.item, {"hydrating"})
          /\ manifest' = [manifest EXCEPT ![AlbumOfItem[runner.item]] = TRUE]
          /\ Proceed("hydrated")
       \/ Proceed("fail") /\ UNCHANGED manifest
    /\ UNCHANGED <<jobVars, owned, bypassed, events>>
    /\ UNCHANGED <<batch, item, links, request>>

Hydrated ==
    /\ runner.phase = "hydrated"
    /\ LET i == runner.item
       IN  IF HoldsLease(i, {"hydrating"})
           THEN /\ item' = [item EXCEPT ![i].state = "expanding", ![i].reason = "none"]
                /\ Proceed("project")
           ELSE runner' = IdleRunner /\ UNCHANGED item
    /\ UNCHANGED <<claimVars, batch, links, request>>

-----------------------------------------------------------------------------
(* The runner: reserving a root job (materialize_batch_release_root_job).  *)

Evidence(i) == TracksOf(AlbumOfItem[i]) \cap owned

(* What the library holds is looked up before the writer is reserved.      *)
Project ==
    /\ runner.phase = "project"
    /\ LET i == runner.item
       IN  runner' = IF HoldsLease(i, {"expanding"})
                     THEN [runner EXCEPT !.phase = "reserve", !.seen = Evidence(i),
                               !.resumed = IF runner.tries = 0 THEN item[i].reason = "resume"
                                           ELSE @]
                     ELSE IdleRunner
    /\ UNCHANGED <<claimVars, batch, item, links, request>>

RootLinksOf(i) == InRole(LinksOf(i), "release_root")
TrackOwnersOf(a) == {trackClaim[t] : t \in TracksOf(a)}

RootLink(i, j, created) ==
    [item |-> i, generation |-> item[i].generation, role |-> "release_root",
     track |-> None, job |-> j, created |-> created]

Refused(i) ==
    LET a == AlbumOfItem[i]
    IN  \/ ~HoldsLease(i, {"expanding"})
        \/ Evidence(i) # runner.seen
        \/ ~manifest[a]
        \/ IsActive(rootClaim[a]) /\ \E j \in TrackOwnersOf(a) : IsActive(j)

Occupied(i) ==
    LET a == AlbumOfItem[i]
    IN  \/ RootLinksOf(i) # {} \/ Targets(a) = {}
        \/ IsActive(rootClaim[a]) \/ \E j \in TrackOwnersOf(a) : IsActive(j)

(* The lease is lost, the evidence changed while it was looked at (up to   *)
(* three times), or the track list or the claims do not fit.               *)
ReserveRefused(i) ==
    /\ Refused(i)
    /\ runner' = IF ~HoldsLease(i, {"expanding"}) THEN IdleRunner
                 ELSE IF Evidence(i) # runner.seen /\ runner.tries < 2
                 THEN [runner EXCEPT !.phase = "project", !.tries = @ + 1]
                 ELSE [runner EXCEPT !.phase = "fail"]
    /\ UNCHANGED <<status, row, rootClaim, links>>

(* The item has its root job, or needs none, or it observes the active one *)
(* of the album, or it waits for track jobs.                               *)
ReserveObserves(i) ==
    /\ ~Refused(i) /\ Occupied(i)
    /\ LET a == AlbumOfItem[i]
           adopted == RootLinksOf(i) = {} /\ Targets(a) # {} /\ IsActive(rootClaim[a])
       IN  /\ links' = links \cup IF adopted THEN {RootLink(i, rootClaim[a], FALSE)} ELSE {}
           /\ Proceed(IF runner.resumed /\ (adopted \/ RootLinksOf(i) # {})
                      THEN "notify" ELSE "judge")
    /\ UNCHANGED <<status, row, rootClaim>>

ReserveCreates(i) ==
    /\ ~Refused(i) /\ ~Occupied(i)
    /\ \E j \in NextFree :
           /\ Insert([k \in {j} |-> RootRow(AlbumOfItem[i])])
           /\ rootClaim' = [rootClaim EXCEPT ![AlbumOfItem[i]] = j]
           /\ links' = links \cup {RootLink(i, j, TRUE)}
    /\ Proceed("notify")

Reserve ==
    /\ runner.phase = "reserve"
    /\ \/ ReserveRefused(runner.item)
       \/ ReserveObserves(runner.item)
       \/ ReserveCreates(runner.item)
    /\ UNCHANGED <<working, asks, trackClaim, owned, manifest, bypassed, events>>
    /\ UNCHANGED <<batch, item, request>>

(* _may_dispatch: of the job only the notice is at stake, but an item whose*)
(* batch was paused goes back to pending.                                  *)
Notify ==
    /\ runner.phase = "notify"
    /\ LET i == runner.item
       IN  item' = IF item[i].leased /\ item[i].state \in {"expanding", "waiting"}
                      /\ batch[BatchOf[i]] = "paused"
                   THEN [item EXCEPT ![i].state = "pending", ![i].leased = FALSE]
                   ELSE item
    /\ Proceed("judge")
    /\ UNCHANGED <<claimVars, batch, links, request>>

-----------------------------------------------------------------------------
(* The runner: judging an item by its jobs (_reconcile_item).              *)

(* The root job decides while it is active; then its continuations do.     *)
JudgedByRoles(L, targets) ==
    LET roots == InRole(L, "release_root")
        fallbacks == InRole(L, "track_fallback")
        rooted == \E l \in roots : IsActive(l.job)
    IN  IF \/ InRole(L, "legacy_track") # {} \/ Cardinality(roots) # 1
           \/ rooted /\ fallbacks # {} THEN "failed"
        ELSE IF rooted THEN "waiting"
        ELSE IF targets = {} THEN "complete"
        ELSE IF \E l \in fallbacks : l.track \in targets /\ IsActive(l.job) THEN "waiting"
        ELSE "failed"

(* Only jobs found active when the batch was queued are linked, if any.    *)
JudgedByTracks(L, targets) ==
    IF targets = {} THEN "complete"
    ELSE IF ~(targets \subseteq TracksIn(L)) THEN "pending"
    ELSE IF \E l \in L : l.track \in targets /\ IsActive(l.job) THEN "waiting"
    ELSE "failed"

Verdict(i) ==
    LET L == LinksOf(i)
        targets == Targets(AlbumOfItem[i])
        state == IF ~manifest[AlbumOfItem[i]] THEN "failed"
                 ELSE IF InRole(L, "legacy_track") = L THEN JudgedByTracks(L, targets)
                 ELSE JudgedByRoles(L, targets)
    IN  [state |-> state, leased |-> FALSE, generation |-> item[i].generation,
         reason |-> IF manifest[AlbumOfItem[i]] THEN "none" ELSE "manifest"]

ToRecord(i, verdict) ==
    runner' = [runner EXCEPT !.phase = "record", !.item = i,
                             !.read = item[i], !.verdict = verdict]

(* The item the runner has leased.                                         *)
Judge ==
    /\ runner.phase = "judge"
    /\ IF HoldsLease(runner.item, Working) THEN ToRecord(runner.item, Verdict(runner.item))
       ELSE runner' = IdleRunner
    /\ UNCHANGED <<claimVars, batch, item, links, request>>

(* The except branch of run_once.                                          *)
Fail ==
    /\ runner.phase = "fail"
    /\ IF HoldsLease(runner.item, Working)
       THEN ToRecord(runner.item, [item[runner.item] EXCEPT !.state = "failed", !.leased = FALSE,
                                                            !.reason = "none"])
       ELSE runner' = IdleRunner
    /\ UNCHANGED <<claimVars, batch, item, links, request>>

Inspecting(todo) ==
    IF todo = {} THEN IdleRunner ELSE [IdleRunner EXCEPT !.phase = "inspect", !.todo = todo]

(* The verdict is written, and with it the state of the batch, unless not  *)
(* a column (of more than there are here) differs.                         *)
Record ==
    /\ runner.phase = "record"
    /\ LET i == runner.item
           rows == [item EXCEPT ![i] = Merge(@, runner.read, runner.verdict)]
       IN  /\ item' = rows
           /\ \/ batch' = [batch EXCEPT ![BatchOf[i]] = Finished(BatchOf[i], rows)]
              \/ runner.verdict = runner.read /\ UNCHANGED batch
    /\ runner' = Inspecting(runner.todo)
    /\ UNCHANGED <<claimVars, links, request>>

(* Nothing is pending: all waiting items are inspected.                    *)
SelectWaiting ==
    /\ runner.phase = "idle"
    /\ Pending = {} /\ Waiting # {}
    /\ runner' = Inspecting(Waiting)
    /\ UNCHANGED <<claimVars, batch, item, links, request>>

\* Mutant: any partial job is continued.
MayContinueAlways(j) == status[j] = "partial"

MayContinue(j) == status[j] = "partial" /\ row[j].attempt < MaxAttempts

(* What _repair_partial_release_fallbacks finds missing: continuations of  *)
(* the item's root job, and of the continuations that closed partial.      *)
Repairs(i) ==
    LET roots == RootLinksOf(i)
        fallbacks == InRole(LinksOf(i), "track_fallback")
        targets == Targets(AlbumOfItem[i])
        untried == targets \ TracksIn(fallbacks)
    IN  IF /\ item[i].state = "waiting" /\ IsRunning(i)
           /\ Cardinality(roots) = 1 /\ \A l \in roots : status[l.job] = "partial"
        THEN {[parent |-> l.job, tracks |-> untried] :
                  l \in {m \in roots : untried # {} /\ MayContinue(m.job)}}
             \cup {[parent |-> l.job, tracks |-> {l.track}] :
                  l \in {m \in fallbacks : m.track \in targets /\ MayContinue(m.job)}}
        ELSE {}

Inspect(i) ==
    /\ runner.phase = "inspect" /\ i \in runner.todo
    /\ runner' = [runner EXCEPT !.phase = "spawn", !.item = i, !.todo = @ \ {i},
                                !.spawns = Repairs(i)]
    /\ UNCHANGED <<claimVars, batch, item, links, request>>

(* Each in a transaction of its own.  That the parent has not closed anew  *)
(* is told by its updated_at; here by its status.  A refusal ends the      *)
(* whole pass.                                                             *)
Repair(s) ==
    /\ runner.phase = "spawn" /\ s \in runner.spawns
    /\ SpawnContinuations(s.parent, s.tracks)
    /\ runner' = IF ~SpawnsNothing(s.parent) /\ SpawnRefused(s.parent, s.tracks) THEN IdleRunner
                 ELSE [runner EXCEPT !.spawns = @ \ {s}]
    /\ UNCHANGED <<working, asks, rootClaim, owned, manifest, bypassed, events>>
    /\ UNCHANGED <<batch, item, request>>

JudgeWaiting ==
    /\ runner.phase = "spawn" /\ runner.spawns = {}
    /\ IF IsRunning(runner.item) THEN ToRecord(runner.item, Verdict(runner.item))
       ELSE runner' = Inspecting(runner.todo)
    /\ UNCHANGED <<claimVars, batch, item, links, request>>

(* _reconcile_idle_batch.                                                  *)
FinishIdleBatch(b) ==
    /\ runner.phase = "idle"
    /\ Pending = {} /\ Waiting = {}
    /\ batch[b] \in Running /\ \A i \in ItemsOf(b) : item[i].state \in Closed
    /\ batch' = [batch EXCEPT ![b] = Finished(b, item)]
    /\ UNCHANGED <<claimVars, item, links, runner, request>>

RunnerStep ==
    \/ SelectPending \/ Claim \/ Hydrate \/ Hydrated \/ Project \/ Reserve \/ Notify
    \/ Judge \/ Fail \/ Record \/ SelectWaiting \/ JudgeWaiting
    \/ \E i \in Item : Inspect(i)
    \/ \E s \in runner.spawns : Repair(s)
    \/ \E b \in Batch : FinishIdleBatch(b)

-----------------------------------------------------------------------------
(* Requests of the user.                                                   *)

(* queue_discography_batch, or a preview confirmed at once: an item waits  *)
(* if others already work on all it needs, and their jobs are linked.      *)
Queued(i) ==
    LET a == AlbumOfItem[i]
        busy == {t \in Targets(a) : IsActive(trackClaim[t])}
        state == IF ~manifest[a] THEN IF i \in Unhydratable THEN "skipped" ELSE "pending"
                 ELSE IF Targets(a) = {} THEN "complete"
                 ELSE IF busy = Targets(a) THEN "waiting"
                 ELSE "pending"
    IN  [NewItem EXCEPT !.state = state,
             !.reason = IF state = "pending" /\ ~manifest[a] THEN "manifest" ELSE "none"]

ObservedLinks(i) ==
    {[item |-> i, generation |-> NewItem.generation, role |-> "legacy_track", track |-> t,
      job |-> trackClaim[t], created |-> FALSE] :
        t \in {u \in Targets(AlbumOfItem[i]) : manifest[AlbumOfItem[i]] /\ IsActive(trackClaim[u])}}

QueueBatch(b) ==
    /\ batch[b] = "none"
    /\ Event
    /\ item' = [i \in Item |-> IF BatchOf[i] = b THEN Queued(i) ELSE item[i]]
    /\ links' = links \cup UNION {ObservedLinks(i) : i \in ItemsOf(b)}
    /\ batch' = [batch EXCEPT ![b] =
           IF \A i \in ItemsOf(b) : Queued(i).state \in Closed THEN "completed" ELSE "queued"]
    /\ UNCHANGED <<jobVars, owned, manifest, bypassed, runner, request>>

(* What a request read of a batch and of its items, and will write.        *)
Requests(b, to, new) ==
    /\ request = None
    /\ Event
    /\ request' = [batch |-> b, from |-> batch[b], to |-> to,
                   read |-> [i \in DOMAIN new |-> item[i]], new |-> new]
    /\ UNCHANGED <<jobVars, owned, manifest, bypassed, batch, item, links, runner>>

NoItems == [i \in {} |-> NewItem]

Pause(b) ==
    /\ batch[b] \in Running
    /\ Requests(b, "paused", NoItems)

(* An item goes on where its jobs are: to be claimed again if any of them  *)
(* still has to be dispatched, waiting if they run.                        *)
Resumed(i) ==
    LET a == AlbumOfItem[i]
        targets == Targets(a)
        owners == {trackClaim[t] : t \in targets}
        fallbacks == {l.job : l \in {m \in InRole(LinksOf(i), "track_fallback") : m.track \in targets}}
        undispatched == \E j \in owners \cup fallbacks \cup {rootClaim[a]} :
                            j # None /\ status[j] = "pending"
        state == IF undispatched THEN "pending"
                 ELSE IF IsActive(rootClaim[a]) THEN "waiting"
                 ELSE IF targets = {} THEN "complete"
                 ELSE IF \E j \in owners : IsActive(j) THEN "waiting"
                 ELSE "pending"
    IN  IF ~manifest[a] THEN [item[i] EXCEPT !.state = "pending", !.reason = "manifest"]
        ELSE [item[i] EXCEPT !.state = state, !.leased = FALSE,
                             !.reason = IF undispatched THEN "resume" ELSE "none"]

Resume(b) ==
    /\ batch[b] = "paused"
    /\ Requests(b, "queued",
           [i \in {k \in ItemsOf(b) : item[k].state \notin {"complete", "skipped"}} |-> Resumed(i)])

(* A new generation for failed and cancelled items, whatever the batch's   *)
(* state.                                                                  *)
RetryItems(b, S) ==
    /\ S # {}
    /\ \A i \in S : item[i].state \in {"failed", "cancelled"} /\ item[i].generation < MaxGeneration
    /\ Requests(b, "queued",
           [i \in S |-> [state |-> "pending", leased |-> FALSE,
                         generation |-> item[i].generation + 1,
                         reason |-> IF item[i].reason = "manifest" THEN "manifest" ELSE "none"]])

WriteRequest ==
    /\ request # None
    /\ item' = [i \in Item |-> IF i \in DOMAIN request.new
                               THEN Merge(item[i], request.read[i], request.new[i]) ELSE item[i]]
    /\ batch' = [batch EXCEPT ![request.batch] = IF request.to = request.from THEN @ ELSE request.to]
    /\ request' = None
    /\ UNCHANGED <<claimVars, links, runner>>

(* _batch_job_link_shape_valid; the columns a link always shares with its  *)
(* job are left out.                                                       *)
Current(l) == l.generation = item[l.item].generation

Observers(l) ==
    {m \in links : /\ m.job = l.job /\ m # l
                   /\ item[m.item].state \in Open
                   /\ batch[BatchOf[m.item]] \in Running \cup {"paused"}
                   /\ BatchOf[m.item] # BatchOf[l.item]}

CreatedLinks(b) == {l \in links : l.created /\ BatchOf[l.item] = b}

CancelRefused(b) ==
    \E l \in CreatedLinks(b) :
        \/ ~Current(l)
        \/ \E m \in Observers(l) : m.created \/ m.role # l.role \/ m.track # l.track \/ ~Current(m)

\* Mutant: the job stays the giver's, too.
TransferredShared(b, taker) ==
    LET taken == {taker[l] : l \in {m \in CreatedLinks(b) : Observers(m) # {}}}
    IN  (links \ taken) \cup {[l EXCEPT !.created = TRUE] : l \in taken}

(* _transfer_shared_created_job_ownership: what others observe becomes     *)
(* theirs; of several observers, the one that came first.                  *)
Transferred(b, taker) ==
    LET given == {l \in CreatedLinks(b) : Observers(l) # {}}
        taken == {taker[l] : l \in given}
    IN  (links \ (given \cup taken)) \cup {[l EXCEPT !.created = FALSE] : l \in given}
                                     \cup {[l EXCEPT !.created = TRUE] : l \in taken}

(* cancel_discography_batch, in one writer transaction: the pending jobs   *)
(* the batch created, and those that descend from them, are cancelled.     *)
CancelBatch(b) ==
    /\ batch[b] \in Running \cup {"paused"}
    /\ Event
    /\ ~CancelRefused(b)
    /\ \E taker \in [{l \in CreatedLinks(b) : Observers(l) # {}} -> links] :
           /\ \A l \in DOMAIN taker : taker[l] \in Observers(l)
           /\ links' = Transferred(b, taker)
    /\ LET created == {l.job : l \in {m \in CreatedLinks(b) : Observers(m) = {}}}
       IN  status' = [j \in JobId |-> IF status[j] = "pending" /\ Lineage(j) \cap created # {}
                                      THEN "cancelled" ELSE status[j]]
    /\ item' = [i \in Item |->
           IF BatchOf[i] = b /\ item[i].state \in Open
           THEN [item[i] EXCEPT !.state = "cancelled", !.reason = "none", !.leased = FALSE]
           ELSE item[i]]
    /\ batch' = [batch EXCEPT ![b] = "cancelled"]
    /\ UNCHANGED <<row, working, asks, rootClaim, trackClaim, owned, manifest, bypassed>>
    /\ UNCHANGED <<runner, request>>

UserStep ==
    \/ \E b \in Batch : QueueBatch(b) \/ Pause(b) \/ Resume(b) \/ CancelBatch(b)
    \/ \E b \in Batch : \E S \in SUBSET ItemsOf(b) : RetryItems(b, S)
    \/ WriteRequest

(* The process stops and starts again: what it was doing is lost, and its  *)
(* running jobs are queued again once their leases expire.                 *)
Restart ==
    /\ Event
    /\ status' = [j \in JobId |-> IF status[j] = "running" THEN "pending" ELSE status[j]]
    /\ working' = {}
    /\ asks' = [j \in JobId |-> {}]
    /\ runner' = IdleRunner
    /\ request' = None
    /\ UNCHANGED <<row, rootClaim, trackClaim, owned, manifest, bypassed>>
    /\ UNCHANGED <<batch, item, links>>

Next ==
    \/ RunnerStep
    \/ \E i \in Item : RecoverExpired(i)
    \/ UserStep
    \/ \E j \in JobId : JobStep(j) /\ UNCHANGED batchVars
    \/ Request /\ UNCHANGED batchVars
    \/ \E p \in JobId : SpawnFromRun(p)
    \/ Restart

Spec == Init /\ [][Next]_vars

JobProgress(j) ==
    /\ Begin(j) \/ Admit(j) \/ Close(j)
    /\ UNCHANGED batchVars

(* The runner loops for ever, the watchdog dispatches every pending job,   *)
(* a run ends in bounded time, and a transaction once begun is finished.   *)
Fairness ==
    /\ WF_vars(RunnerStep)
    /\ \A i \in Item : WF_vars(RecoverExpired(i))
    /\ \A j \in JobId : WF_vars(JobProgress(j)) /\ WF_vars(SpawnFromRun(j))
    /\ WF_vars(WriteRequest)

FairSpec == Spec /\ Fairness

-----------------------------------------------------------------------------
(* Properties.                                                             *)

(* A job is some batch's own at most once, so that one cancellation, and   *)
(* only one, decides on it (_transfer_shared_created_job_ownership).       *)
OneBatchOwnsAJob ==
    \A l, m \in links : l.created /\ m.created /\ l.job = m.job => l = m

(* No job is created for a batch that is cancelled, nor to continue one of *)
(* its jobs, however late the run that asks for it; a request of the review*)
(* queue alone may.                                                        *)
CancelledBatchesStartNothing ==
    [][\A j \in JobId : row[j] = None /\ row'[j] # None /\ row'[j].album \notin bypassed =>
          \A b \in Batch : batch'[b] = "cancelled" =>
              ~\E l \in links' : l.created /\ BatchOf[l.item] = b
                                 /\ (l.job = j \/ l.job = row'[j].parent)]_vars

(* A chain of continuations ends: a job is one attempt further than its    *)
(* parent, and never further than the limit, unless the user asked for it. *)
ContinuationsAreBounded ==
    \A j \in JobId : row[j] # None /\ row[j].album \notin bypassed =>
        /\ row[j].attempt <= MaxAttempts
        /\ row[j].attempt = IF row[j].parent = None THEN 0 ELSE row[row[j].parent].attempt + 1

(* The runner does not lose sight of an item of a batch that goes on.      *)
OpenItemsClose ==
    \A i \in Item : (item[i].state \in Open /\ IsRunning(i))
                    ~> (item[i].state \in Closed \/ ~IsRunning(i))
=============================================================================
