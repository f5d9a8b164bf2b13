------------------------- MODULE AcquisitionClaims -------------------------
(***************************************************************************)
(* Who may work on a catalogue album.  A root job acquires a release as a  *)
(* whole, a track job one track of it; a claim row names the one job that  *)
(* may do so, for the album (CatalogReleaseAcquisitionClaim) and for every *)
(* track (AcquisitionDispatchClaim), and passes to another job only once   *)
(* its owner is terminal.                                                  *)
(*                                                                         *)
(* Here are the jobs, the claims and the steps of a job and of an ordinary *)
(* request.  Admission of root jobs and continuations involve batches:     *)
(* DiscographyBatch has them, and the specification.                       *)
(*                                                                         *)
(* A pending job may start at any time (dispatch, watchdog and start-up    *)
(* all start it), and one run works for it (JobExecution is about that).   *)
(* Quality upgrades are left out: a track with a library file is no target.*)
(***************************************************************************)
EXTENDS Naturals, FiniteSets

CONSTANTS
    Album, Track, None,
    AlbumOf,       \* the album of a track
    MaxJob,        \* jobs ever created
    MaxAttempts,   \* max_partial_attempts
    Bypassable,    \* albums on which requests without a claim may be made
    MaxNewJobs,    \* track jobs one ordinary request may create: 25
    MaxEvents      \* what the users and the world do: requests, changes, restarts

VARIABLES
    status,      \* of every job
    row,         \* what it is for, where it comes from; None: no such job
    working,     \* the running jobs that passed the ownership checks
    asks,        \* the tracks a closed run is about to spawn continuations for
    rootClaim,   \* album |-> job
    trackClaim,  \* track |-> job
    owned,       \* the tracks with a committed library file
    manifest,    \* whether an album's track list is complete
    bypassed,    \* albums on which requests that take no claim are made
    events       \* how many of them there were

jobVars == <<status, row, working, asks, rootClaim, trackClaim>>
claimVars == <<jobVars, owned, manifest, bypassed, events>>

JobId == 1 .. MaxJob
Active == {"pending", "running"}
Terminal == {"done", "partial", "failed", "cancelled"}
Row == [album : Album, track : Track \cup {None}, parent : JobId \cup {None}, attempt : Nat]

ASSUME ClaimsAssumption ==
    /\ None \notin Album \cup Track \cup Nat \cup Active \cup Terminal \cup Row
    /\ AlbumOf \in [Track -> Album]
    /\ Bypassable \subseteq Album
    /\ {MaxJob, MaxAttempts, MaxNewJobs, MaxEvents} \subseteq Nat

TracksOf(a) == {t \in Track : AlbumOf[t] = a}
Targets(a) == TracksOf(a) \ owned
IsActive(j) == j # None /\ status[j] \in Active
Absent == {j \in JobId : row[j] = None}
IsRoot(j) == row[j] # None /\ row[j].track = None
IsTrackJob(j) == row[j] # None /\ row[j].track # None

ClaimsTypeOK ==
    /\ status \in [JobId -> Active \cup Terminal \cup {None}]
    /\ row \in [JobId -> Row \cup {None}]
    /\ \A j \in JobId : row[j] = None <=> status[j] = None
    /\ \A t \in Track, j \in JobId :
           row[j] # None /\ row[j].track = t => row[j].album = AlbumOf[t]
    /\ working \in SUBSET JobId
    /\ asks \in [JobId -> SUBSET Track]
    /\ rootClaim \in [Album -> JobId \cup {None}]
    /\ trackClaim \in [Track -> JobId \cup {None}]
    /\ owned \in SUBSET Track
    /\ manifest \in [Album -> BOOLEAN]
    /\ bypassed \in SUBSET Album
    /\ events \in Nat

ClaimsInit ==
    /\ status = [j \in JobId |-> None]
    /\ row = [j \in JobId |-> None]
    /\ working = {}
    /\ asks = [j \in JobId |-> {}]
    /\ rootClaim = [a \in Album |-> None]
    /\ trackClaim = [t \in Track |-> None]
    /\ owned \in SUBSET Track
    /\ manifest \in [Album -> BOOLEAN]
    /\ bypassed \in SUBSET Bypassable
    /\ events = 0

(* The bound on what the users and the world may do.                       *)
Event == events < MaxEvents /\ events' = events + 1

-----------------------------------------------------------------------------
(* New jobs: the rows of those whose identifiers are in DOMAIN rows.  They *)
(* are numbered from the first free identifier.                            *)
Insert(rows) ==
    /\ status' = [j \in JobId |-> IF j \in DOMAIN rows THEN "pending" ELSE status[j]]
    /\ row' = [j \in JobId |-> IF j \in DOMAIN rows THEN rows[j] ELSE row[j]]

NextFree == {j \in Absent : \A k \in Absent : j <= k}

FirstFree(n) == {S \in SUBSET Absent : /\ Cardinality(S) = n
                                       /\ \A j \in S, k \in Absent \ S : j < k}

Numberings(T) == {new \in [T -> Absent] : /\ \A t, u \in T : new[t] = new[u] => t = u
                                          /\ {new[t] : t \in T} \in FirstFree(Cardinality(T))}

TrackRow(t, parent, attempt) ==
    [album |-> AlbumOf[t], track |-> t, parent |-> parent, attempt |-> attempt]

RootRow(a) == [album |-> a, track |-> None, parent |-> None, attempt |-> 0]

(* The rows of track jobs numbered by new.                                 *)
TrackRows(new, parent, attempt) ==
    [j \in {new[t] : t \in DOMAIN new} |->
        TrackRow(CHOOSE t \in DOMAIN new : new[t] = j, parent, attempt)]

-----------------------------------------------------------------------------
(* A job.                                                                  *)

(* _claim_execution_lease.                                                 *)
Begin(j) ==
    /\ status[j] = "pending"
    /\ status' = [status EXCEPT ![j] = "running"]
    /\ UNCHANGED <<row, working, asks, rootClaim, trackClaim, owned, manifest, bypassed, events>>

\* Mutant: the owner of the track is not looked at.
AdmitUnasked(j) ==
    /\ status[j] = "running" /\ j \notin working
    /\ IF row[j].track \in owned
       THEN status' = [status EXCEPT ![j] = "done"] /\ UNCHANGED <<working, trackClaim>>
       ELSE /\ working' = working \cup {j}
            /\ trackClaim' = [u \in Track |-> IF u = row[j].track THEN j ELSE trackClaim[u]]
            /\ UNCHANGED status
    /\ UNCHANGED <<row, asks, rootClaim, owned, manifest, bypassed, events>>

(* The start of _run_job_in_session.  A track job with a library file is   *)
(* done; one whose track another active job owns is cancelled and hidden;  *)
(* any other takes the claim.  A root job makes no check.                  *)
Admit(j) ==
    /\ status[j] = "running" /\ j \notin working
    /\ LET t == row[j].track
           other == t # None /\ trackClaim[t] # j /\ t \notin owned /\ IsActive(trackClaim[t])
       IN  IF t # None /\ (t \in owned \/ other)
           THEN /\ status' = [status EXCEPT ![j] = IF other THEN "cancelled" ELSE "done"]
                /\ UNCHANGED <<working, trackClaim>>
           ELSE /\ working' = working \cup {j}
                /\ trackClaim' = [u \in Track |-> IF u = t THEN j ELSE trackClaim[u]]
                /\ UNCHANGED status
    /\ UNCHANGED <<row, asks, rootClaim, owned, manifest, bypassed, events>>

Wanted(j) == IF row[j].track = None THEN TracksOf(row[j].album) ELSE {row[j].track}
Missing(j, got) == Wanted(j) \ (owned \cup got)

(* The end of _run_job_in_session.  The files of got are downloaded, those *)
(* of imported also placed in the library.  What is still missing makes    *)
(* the job partial and, up to the limit, asks for continuations; if        *)
(* nothing is missing on the whole album its partial jobs are done.        *)
Close(j) ==
    /\ status[j] = "running" /\ j \in working
    /\ \E got \in SUBSET Targets(row[j].album) : \E imported \in SUBSET got :
           /\ status' = [k \in JobId |->
                  IF k = j THEN IF Missing(j, got) = {} THEN "done" ELSE "partial"
                  ELSE IF /\ Missing(j, got) = {}
                          /\ TracksOf(row[j].album) \subseteq owned \cup got
                          /\ status[k] = "partial" /\ row[k].album = row[j].album
                       THEN "done" ELSE status[k]]
           /\ asks' = [asks EXCEPT ![j] =
                  IF row[j].attempt < MaxAttempts THEN Missing(j, got) ELSE {}]
           /\ owned' = owned \cup imported
    /\ working' = working \ {j}
    /\ UNCHANGED <<row, rootClaim, trackClaim, manifest, bypassed, events>>

(* A run that fails, in the pipeline or outside of it.                     *)
JobFails(j) ==
    /\ status[j] = "running"
    /\ status' = [status EXCEPT ![j] = "failed"]
    /\ working' = working \ {j}
    /\ UNCHANGED <<row, asks, rootClaim, trackClaim, owned, manifest, bypassed, events>>

(* The user cancels it.                                                    *)
CancelJob(j) ==
    /\ status[j] \in Active
    /\ Event
    /\ status' = [status EXCEPT ![j] = "cancelled"]
    /\ working' = working \ {j}
    /\ UNCHANGED <<row, asks, rootClaim, trackClaim, owned, manifest, bypassed>>

(* The watchdog takes a run whose lease has expired back into the queue.   *)
Requeue(j) ==
    /\ status[j] = "running"
    /\ Event
    /\ status' = [status EXCEPT ![j] = "pending"]
    /\ working' = working \ {j}
    /\ UNCHANGED <<row, asks, rootClaim, trackClaim, owned, manifest, bypassed>>

-----------------------------------------------------------------------------
(* Requests.                                                               *)

\* Mutant: the claim on the whole album is not looked at.
FreeTracksOfRoots(a) == {t \in Targets(a) : ~IsActive(trackClaim[t])}

(* The missing tracks nobody works on; none if a root job has the album.   *)
FreeTracks(a) ==
    {t \in Targets(a) : ~IsActive(trackClaim[t]) /\ ~IsActive(rootClaim[a])}

(* expand_catalog_album_missing_track_jobs, without a batch: in one writer *)
(* transaction a job and a claim for each of them, up to the limit.        *)
OrdinaryRequest(a) ==
    /\ Event
    /\ manifest[a]
    /\ \E T \in SUBSET FreeTracks(a) :
           /\ T # {}
           /\ T = FreeTracks(a) \/ Cardinality(T) = MaxNewJobs
           /\ Cardinality(T) <= MaxNewJobs
           /\ \E new \in Numberings(T) :
                  /\ Insert(TrackRows(new, None, 0))
                  /\ trackClaim' = [t \in Track |-> IF t \in T THEN new[t] ELSE trackClaim[t]]
    /\ UNCHANGED <<working, asks, rootClaim, owned, manifest, bypassed>>

(* download_catalog_track, and the continuations of the review queue's     *)
(* deny and reacquire: a track job without a claim.                        *)
DirectRequest(t, parent) ==
    /\ Event
    /\ AlbumOf[t] \in bypassed
    /\ parent # None => status[parent] \in Terminal /\ row[parent].album = AlbumOf[t]
    /\ \E new \in Numberings({t}) :
           Insert(TrackRows(new, parent, IF parent = None THEN 0 ELSE row[parent].attempt + 1))
    /\ UNCHANGED <<working, asks, rootClaim, trackClaim, owned, manifest, bypassed>>

(* queue_wanted_artist_releases: a root job without a claim, if no job is  *)
(* active on the album.                                                    *)
MonitorRequest(a) ==
    /\ Event
    /\ a \in bypassed
    /\ \A j \in JobId : status[j] \in Active => row[j].album # a
    /\ \E j \in NextFree : Insert([k \in {j} |-> RootRow(a)])
    /\ UNCHANGED <<working, asks, rootClaim, trackClaim, owned, manifest, bypassed>>

(* JobDispatcher.retry: back into the queue, whoever holds the claim now.  *)
(* The result the ask was made from is gone.                               *)
RetryJob(j) ==
    /\ Event
    /\ status[j] \in {"failed", "partial", "cancelled"}
    /\ row[j].album \in bypassed
    /\ status' = [status EXCEPT ![j] = "pending"]
    /\ asks' = [asks EXCEPT ![j] = {}]
    /\ UNCHANGED <<row, working, rootClaim, trackClaim, owned, manifest, bypassed>>

(* A library file appears or goes, or a track list grows, by other means.  *)
CatalogChanges ==
    /\ Event
    /\ \/ \E t \in Track : /\ owned' = IF t \in owned THEN owned \ {t} ELSE owned \cup {t}
                           /\ UNCHANGED manifest
       \/ \E a \in Album : /\ manifest[a]
                           /\ manifest' = [manifest EXCEPT ![a] = FALSE]
                           /\ UNCHANGED owned
    /\ UNCHANGED <<jobVars, bypassed>>

JobStep(j) ==
    \/ Begin(j) \/ Admit(j) \/ Close(j) \/ Requeue(j) \/ RetryJob(j) \/ JobFails(j) \/ CancelJob(j)

Request ==
    \/ \E a \in Album : OrdinaryRequest(a) \/ MonitorRequest(a)
    \/ \E t \in Track, parent \in JobId \cup {None} : DirectRequest(t, parent)
    \/ CatalogChanges

-----------------------------------------------------------------------------
(* No two jobs work on one track: the check of a job that starts keeps out *)
(* what requests without a claim let in (claim_catalog_acquisition).       *)
OneWorkerPerTrack ==
    \A j, k \in working : IsTrackJob(j) /\ row[k].track = row[j].track => j = k

(* Where every request takes its claim, an active job is the owner, and an *)
(* album is worked on as a whole or track by track, never both at once     *)
(* (the fence that admission, ordinary requests and continuations share).  *)
AlbumWorkIsExclusive ==
    \A j, k \in JobId :
        (/\ IsActive(j) /\ IsActive(k) /\ j # k
         /\ row[j].album = row[k].album /\ row[j].album \notin bypassed)
        => IsTrackJob(j) /\ IsTrackJob(k) /\ row[j].track # row[k].track
=============================================================================
