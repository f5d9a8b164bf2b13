----------------------------- MODULE LibraryFiles -----------------------------
(***************************************************************************)
(* The files of one album folder, and the rows that claim them.            *)
(*                                                                         *)
(* A row of import_plans claims that a track's file lies under a name.     *)
(* Five parts change rows and files with no lock in common: the imports    *)
(* (app/services/library_import.py), the elimination of duplicates         *)
(* (quality_upgrade.py), re-tagging (library_import.py), the removals      *)
(* (library_removal.py), and the adoption of files that are there already  *)
(* (library_adoption.py).  A sweep (library_reconciliation.py) brings the  *)
(* rows up to date with what users do to the folder.                       *)
(*                                                                         *)
(* SQLite's transactions are atomic, files move between them; what the     *)
(* event loop runs without an await is one step of an import, while a      *)
(* removal and a re-tagging take each file in steps of their own, in       *)
(* threads.  The tracks are rows of one catalogue track, all of whose      *)
(* files are therefore duplicates.  A batch of the sweep holds one row,    *)
(* a scan one candidate.  Inodes are not reused while anybody recalls one. *)
(***************************************************************************)
EXTENDS Naturals, FiniteSets

CONSTANTS
    Track,        \* primary keys of tracks
    Plan,         \* and of import_plans
    Removal,      \* groups of the deletion journal
    Name,         \* in the folder
    File,         \* inodes
    HomeOf,       \* the name an import gives to a track's file
    CanonicalOf,  \* the name re-tagging gives to it
    Rank,         \* the quality of the files under a name
    None,
    MaxChanges,   \* what users do to the folder
    MaxCrashes

ASSUME LibraryAssumption ==
    /\ Plan \subseteq Nat \ {0} /\ Track \subseteq Plan /\ File \subseteq Nat
    /\ HomeOf \in [Track -> Name] /\ CanonicalOf \in [Track -> Name]
    /\ \A t, u \in Track : t # u => {HomeOf[t], CanonicalOf[t]} \cap {HomeOf[u], CanonicalOf[u]} = {}
    /\ Rank \in [Name -> Nat] /\ MaxChanges \in Nat /\ MaxCrashes \in Nat
    /\ None \notin Plan \cup Name \cup File \cup Removal

VARIABLES
    claim,       \* the rows of import_plans
    owned,       \* the tracks whose import_state is "imported"
    journal,     \* the groups of deletion_operations that are not finalized
    dir,         \* what lies under the names
    hidden,      \* what removals have put under names of their own
    backup,      \* what re-tagging has
    placed,      \* files of imports that have not committed
    retag,       \* a re-tagging of the album
    dedupe,      \* an elimination of duplicates
    removal,     \* the removals at work
    sweep,       \* the sweep's batch
    scan,        \* a row of library_adoption_scans that has not ended
    recovering,  \* the groups that start-up has still to look at
    changes,     \* how many
    crashes

rows == <<claim, owned, journal>>
files == <<dir, hidden, backup>>
actors == <<placed, retag, dedupe, removal, sweep, scan, recovering>>
counters == <<changes, crashes>>
vars == <<rows, files, actors, counters>>

-----------------------------------------------------------------------------
(* State.                                                                  *)

Claim == [track : Track, name : Name,
          status : {"ready", "needs_review", "imported", "failed", "rolled_back", "removed"},
          file : {"unknown", "present", "missing", "removed"}, adopted : BOOLEAN]

(* A row of deletion_operations: the file it has found, if any.            *)
Target == [plan : Plan, name : Name, file : File \cup {None}]

Journal == [state : {"prepared", "committed"}, targets : SUBSET Target]

ASSUME NoneIsNoRow == None \notin Claim \cup Journal

(* done: the targets the present step has been through.                    *)
RemovalState == [step : {"read", "stage", "erase"}, targets : SUBSET Target,
                 done : SUBSET Target, failed : BOOLEAN]

(* saved: the backups that a rollback puts back; next: a file withdrawn    *)
(* and not published yet.                                                  *)
Move == [plan : Plan, from : Name, to : Name, file : File \cup {None}]
Saved == [name : Name, file : File]
Retag == [step : {"read", "work"}, todo : SUBSET Move, next : Move \cup {None},
          made : SUBSET Move, saved : SUBSET Saved]

Candidate == [name : Name, file : File, track : Track]
Scan == [state : {"queued", "running", "orphaned"}, claimed : SUBSET Name,
         candidate : Candidate \cup {None}]

Types ==
    /\ claim \in [Plan -> Claim \cup {None}]
    /\ owned \subseteq Track
    /\ journal \in [Removal -> Journal \cup {None}]
    /\ dir \in [Name -> File \cup {None}]
    /\ hidden \in [Removal -> [Name -> File \cup {None}]]
    /\ backup \subseteq Saved
    /\ placed \in [Track -> [plan : Plan, file : File] \cup {None}]
    /\ retag \in Retag \cup {None}
    /\ dedupe \in [losers : SUBSET (Plan \X Name), tied : SUBSET Plan] \cup {None}
    /\ removal \in [Removal -> RemovalState \cup {None}]
    /\ sweep \in [plan : Plan, name : Name, seen : {"nothing", "present", "missing"}] \cup {None}
    /\ scan \in Scan \cup {None}
    /\ recovering \subseteq Removal
    /\ changes \in Nat /\ crashes \in Nat

(* A file is moved, never copied: it lies in one place.                    *)
EachInOnePlace ==
    /\ \A m, n \in Name : dir[m] # None /\ dir[m] = dir[n] => m = n
    /\ \A m, n \in Name, r, q \in Removal :
           hidden[r][n] # None => /\ hidden[r][n] # dir[m]
                                  /\ hidden[r][n] = hidden[q][m] => r = q /\ n = m
    /\ \A b, c \in backup : b.file = c.file => b = c
    /\ \A b \in backup, n \in Name : /\ b.file # dir[n]
                                     /\ \A r \in Removal : b.file # hidden[r][n]

LibraryTypeOK == Types /\ EachInOnePlace

(* Rows of imports that are over, some from before file states were        *)
(* recorded, each with its file.                                           *)
LibraryInit ==
    \E old \in SUBSET Track : \E swept \in SUBSET old :
        /\ owned = old
        /\ claim = [p \in Plan |-> IF p \in old THEN [track |-> p, name |-> HomeOf[p],
                        status |-> "imported", file |-> IF p \in swept THEN "present" ELSE "unknown",
                        adopted |-> FALSE] ELSE None]
        /\ \E f \in [old -> File] :
            /\ \A t, u \in old : t < u => f[t] < f[u]
            /\ dir = [n \in Name |-> IF \E t \in old : HomeOf[t] = n
                                     THEN f[CHOOSE t \in old : HomeOf[t] = n] ELSE None]
        /\ journal = [r \in Removal |-> None]
        /\ hidden = [r \in Removal |-> [n \in Name |-> None]] /\ backup = {}
        /\ placed = [t \in Track |-> None] /\ retag = None /\ dedupe = None
        /\ removal = [r \in Removal |-> None] /\ sweep = None /\ scan = None
        /\ recovering = {} /\ changes = 0 /\ crashes = 0

(* main.py: nothing else starts before the journal has been gone through.  *)
Serving == recovering = {}

Rows == {p \in Plan : claim[p] # None}
Taken == {n \in Name : dir[n] # None}
Hidden == {hidden[r][n] : r \in Removal, n \in Name}
Existing == ({dir[n] : n \in Name} \cup Hidden \cup {b.file : b \in backup}) \ {None}

(* The inodes that somebody has noted.                                     *)
Recalled ==
    {x.file : x \in UNION ({journal[r].targets : r \in {q \in Removal : journal[q] # None}}
                     \cup {removal[r].targets : r \in {q \in Removal : removal[q] # None}})}
    \cup {placed[t].file : t \in {u \in Track : placed[u] # None}}
    \cup (IF retag = None THEN {} ELSE {x.file : x \in retag.todo \cup retag.made})
    \cup (IF scan = None \/ scan.candidate = None THEN {} ELSE {scan.candidate.file})

Unused == File \ (Existing \cup Recalled)
NewFile == {f \in Unused : \A g \in Unused : f <= g}

(* SQLite gives a new row the key after the greatest.                      *)
NewKey(c) == {p \in Plan : /\ \A q \in Plan : c[q] # None => q < p
                           /\ p = 1 \/ p - 1 \in {q \in Plan : c[q] # None}}

Active(c) == \/ c.status = "ready" /\ c.file # "removed"
             \/ c.status = "imported" /\ c.file = "present"

IsPresent(c) == c.status = "imported" /\ c.file = "present"

\* Mutant: the triggers compare the names only.
RefusedByName(c, p) ==
    /\ Active(c[p])
    /\ \E q \in Plan \ {p} : /\ c[q] # None /\ Active(c[q]) /\ c[q].name = c[p].name
                             /\ c[q].adopted \/ c[p].adopted

(* trg_import_plans_adoption_claim_insert and _update, for the row p.      *)
Refused(c, p) ==
    /\ Active(c[p])
    /\ \E q \in Plan \ {p} :
        /\ c[q] # None /\ Active(c[q])
        /\ c[q].name = c[p].name \/ c[q].track = c[p].track
        /\ c[q].adopted \/ c[p].adopted

(* The tracks left with a present file after a change of the rows c.       *)
StillOwned(c, tracks) ==
    {t \in tracks : \E p \in Plan : c[p] # None /\ c[p].track = t /\ IsPresent(c[p])}

-----------------------------------------------------------------------------
(* Imports.                                                                *)

(* plan_release_import: the track's plans that were not imported are       *)
(* deleted, their rows of the deletion journal with them.                  *)
PlanImport(t) ==
    LET gone == {p \in Rows : claim[p].track = t /\ claim[p].status # "imported"}
        kept == [p \in Plan |-> IF p \in gone THEN None ELSE claim[p]]
        left(j) == {x \in j.targets : x.plan \notin gone}
    IN
    /\ Serving /\ t \notin owned /\ placed[t] = None
    /\ \E p \in NewKey(kept) :
        /\ claim' = [kept EXCEPT ![p] =
                [track |-> t, name |-> HomeOf[t], file |-> "unknown", adopted |-> FALSE,
                 status |-> IF dir[HomeOf[t]] = None THEN "ready" ELSE "needs_review"]]
        /\ ~Refused(claim', p)
    /\ journal' = [r \in Removal |-> IF journal[r] = None \/ left(journal[r]) = {} THEN None
                                     ELSE [journal[r] EXCEPT !.targets = left(journal[r])]]
    /\ UNCHANGED <<owned, files, actors, counters>>

(* execute_release_import, up to its flush.                                *)
PlaceImport(t, p) ==
    /\ Serving /\ placed[t] = None
    /\ p \in Rows /\ claim[p].track = t /\ claim[p].status = "ready"
    /\ dir[claim[p].name] = None
    /\ \E f \in NewFile : /\ dir' = [dir EXCEPT ![claim[p].name] = f]
                          /\ placed' = [placed EXCEPT ![t] = [plan |-> p, file |-> f]]
    /\ UNCHANGED <<rows, hidden, backup, retag, dedupe, removal, sweep, scan, recovering, counters>>

(* reconcile_album_quality_duplicates: what to do with the rows whose      *)
(* files are there.                                                        *)
Duplicated(c, o) ==
    LET there == {p \in Plan : /\ c[p] # None /\ c[p].status = "imported"
                               /\ c[p].track \in o /\ dir[c[p].name] # None}
        best == {p \in there : \A q \in there : Rank[c[q].name] <= Rank[c[p].name]}
    IN  [losers |-> IF Cardinality(best) = 1
                    THEN {<<p, c[p].name>> : p \in there \ best} ELSE {},
         tied |-> IF Cardinality(best) > 1 THEN there ELSE {}]

Losers(d) == {x[1] : x \in d.losers}

Demoted(c, d) ==
    [p \in Plan |-> IF p \in Losers(d) THEN [c[p] EXCEPT !.status = "rolled_back"]
                    ELSE IF p \in d.tied THEN [c[p] EXCEPT !.status = "needs_review"]
                    ELSE c[p]]

Disowned(c, d) == {c[p].track : p \in Losers(d) \cup d.tied}

(* _delete_paths, by name.                                                 *)
WithoutLosers(d) == [n \in Name |-> IF \E x \in d.losers : x[2] = n THEN None ELSE dir[n]]

(* The transaction holds the writer's lock from its flush to its commit.   *)
CommitImport(t) ==
    LET p == placed[t].plan
        c == [claim EXCEPT ![p].status = "imported", ![p].file = "present"]
        d == Duplicated(c, owned \cup {t})
    IN
    /\ placed[t] # None /\ p \in Rows /\ ~Refused(c, p)
    /\ claim' = Demoted(c, d)
    /\ owned' = (owned \cup {t}) \ Disowned(c, d)
    /\ dir' = WithoutLosers(d)
    /\ placed' = [placed EXCEPT ![t] = None]
    /\ UNCHANGED <<journal, hidden, backup, retag, dedupe, removal, sweep, scan, recovering, counters>>

(* _rollback_pinned_filesystem unlinks by name; record_failure_state may   *)
(* itself fail, and does not run for a cancelled import.                   *)
RollBackImport(t, recorded) ==
    LET p == placed[t].plan IN
    /\ placed[t] # None
    /\ dir' = [dir EXCEPT ![HomeOf[t]] = None]
    /\ claim' = IF recorded /\ p \in Rows THEN [claim EXCEPT ![p].status = "rolled_back"] ELSE claim
    /\ placed' = [placed EXCEPT ![t] = None]
    /\ UNCHANGED <<owned, journal, hidden, backup, retag, dedupe, removal, sweep, scan,
                   recovering, counters>>

(* The source cannot be read, or the name is taken.                        *)
FailImport(p) ==
    /\ Serving /\ p \in Rows /\ claim[p].status = "ready" /\ placed[claim[p].track] = None
    /\ claim' = [claim EXCEPT ![p].status = "failed"]
    /\ UNCHANGED <<owned, journal, files, actors, counters>>

(* A request to eliminate the duplicates: it reads without a lock, ...     *)
FindDuplicates ==
    /\ Serving /\ dedupe = None
    /\ LET d == Duplicated(claim, owned) IN
        /\ d.losers # {} \/ Cardinality(d.tied) > 1
        /\ dedupe' = d
    /\ UNCHANGED <<rows, files, placed, retag, removal, sweep, scan, recovering, counters>>

(* ... and writes once it has one; a vanished row fails it.                *)
DropDuplicates ==
    /\ dedupe # None
    /\ IF Losers(dedupe) \cup dedupe.tied \subseteq Rows
       THEN /\ claim' = Demoted(claim, dedupe)
            /\ owned' = owned \ Disowned(claim, dedupe)
            /\ dir' = WithoutLosers(dedupe)
       ELSE UNCHANGED <<claim, owned, dir>>
    /\ dedupe' = None
    /\ UNCHANGED <<journal, hidden, backup, placed, retag, removal, sweep, scan, recovering, counters>>

-----------------------------------------------------------------------------
(* Re-tagging the album.                                                   *)

(* retag_catalog_album: a track's present claim, or else its single claim  *)
(* from before file states; two present claims refuse the album.           *)
Claims(t, state) == {p \in Rows : /\ claim[p].track = t /\ claim[p].status = "imported"
                                  /\ claim[p].file = state}

Current(t) == IF Claims(t, "present") # {} THEN Claims(t, "present") ELSE Claims(t, "unknown")

ReadRetag ==
    LET plans == UNION {Current(t) : t \in owned} IN
    /\ Serving /\ retag = None
    /\ plans # {} /\ \A t \in owned : Cardinality(Current(t)) <= 1
    /\ retag' = [step |-> "read", next |-> None, made |-> {}, saved |-> {},
                 todo |-> {[plan |-> p, from |-> claim[p].name, file |-> None,
                            to |-> CanonicalOf[claim[p].track]] : p \in plans}]
    /\ UNCHANGED <<rows, files, placed, dedupe, removal, sweep, scan, recovering, counters>>

(* _retag_catalog_album_files: the folder must hold the claimed files and  *)
(* no other; copies of them are tagged.                                    *)
PrepareRetag ==
    /\ retag # None /\ retag.step = "read"
    /\ Taken = {x.from : x \in retag.todo}
    /\ retag' = [retag EXCEPT !.step = "work",
                     !.todo = {[x EXCEPT !.file = dir[x.from]] : x \in retag.todo}]
    /\ UNCHANGED <<rows, files, placed, dedupe, removal, sweep, scan, recovering, counters>>

Todo == IF retag = None THEN {} ELSE retag.todo

(* backup_existing, for a file that is as it was read.                     *)
WithdrawFile(x) ==
    /\ retag.step = "work" /\ retag.next = None
    /\ dir[x.from] = x.file
    /\ x.to # x.from => dir[x.to] = None
    /\ dir' = [dir EXCEPT ![x.from] = None]
    /\ backup' = backup \cup {[name |-> x.from, file |-> x.file]}
    /\ retag' = [retag EXCEPT !.todo = @ \ {x}, !.next = x,
                              !.saved = @ \cup {[name |-> x.from, file |-> x.file]}]
    /\ UNCHANGED <<rows, hidden, placed, dedupe, removal, sweep, scan, recovering, counters>>

(* replace: whatever has come to lie under the name is gone.               *)
PublishFile ==
    /\ retag # None /\ retag.next # None
    /\ \E f \in NewFile :
        /\ dir' = [dir EXCEPT ![retag.next.to] = f]
        /\ retag' = [retag EXCEPT !.made = @ \cup {[retag.next EXCEPT !.file = f]}, !.next = None]
    /\ UNCHANGED <<rows, hidden, backup, placed, dedupe, removal, sweep, scan, recovering, counters>>

(* The commit renames the claims, if their rows are still there, and the   *)
(* backups are erased after it.                                            *)
CommitRetag ==
    LET renamed == {x \in retag.made : x.to # x.from}
        c == [p \in Plan |-> IF \E x \in renamed : x.plan = p
                             THEN [claim[p] EXCEPT !.name = (CHOOSE x \in renamed : x.plan = p).to]
                             ELSE claim[p]]
    IN
    /\ retag # None /\ retag.step = "work" /\ retag.todo = {} /\ retag.next = None
    /\ \A x \in renamed : x.plan \in Rows /\ ~Refused(c, x.plan)
    /\ claim' = c
    /\ backup' = backup \ retag.saved
    /\ retag' = None
    /\ UNCHANGED <<owned, journal, dir, hidden, placed, dedupe, removal, sweep, scan, recovering,
                   counters>>

(* A check, a copy or the commit fails: what was published is unlinked by  *)
(* name, and the backups replace what lies under theirs.                   *)
RollBackRetag ==
    LET restored == {b \in retag.saved : b \in backup} IN
    /\ retag # None
    /\ dir' = [n \in Name |-> IF \E b \in restored : b.name = n
                              THEN (CHOOSE b \in restored : b.name = n).file
                              ELSE IF \E x \in retag.made : x.to = n THEN None ELSE dir[n]]
    /\ backup' = backup \ restored
    /\ retag' = None
    /\ UNCHANGED <<rows, hidden, placed, dedupe, removal, sweep, scan, recovering, counters>>

-----------------------------------------------------------------------------
(* Removals.                                                               *)

Removable == {p \in Rows : IsPresent(claim[p])}

Latest(t) == {p \in Removable : /\ claim[p].track = t
                                /\ \A q \in Removable : claim[q].track = t => q <= p}

(* remove_imported_track, or one of the two that remove an album.          *)
ReadRemoval(r, plans) ==
    /\ Serving /\ removal[r] = None /\ journal[r] = None /\ \A n \in Name : hidden[r][n] = None
    /\ plans \in {Removable} \cup {Latest(t) : t \in Track} /\ plans # {}
    /\ removal' = [removal EXCEPT ![r] = [step |-> "read", done |-> {}, failed |-> FALSE,
            targets |-> {[plan |-> p, name |-> claim[p].name, file |-> None] : p \in plans}]]
    /\ UNCHANGED <<rows, files, placed, retag, dedupe, sweep, scan, recovering, counters>>

Step(r, step) == removal[r] # None /\ removal[r].step = step
PlansOf(r) == {x.plan : x \in removal[r].targets}
Ended(r) == [removal EXCEPT ![r] = None]

(* _remove_plans, under the locks of its plans: the files are looked up    *)
(* and the journal is committed.                                           *)
OpenRemoval(r) ==
    LET found == {[x EXCEPT !.file = dir[x.name]] : x \in removal[r].targets} IN
    /\ Step(r, "read")
    /\ \A q \in Removal : removal[q] # None /\ removal[q].step # "read" => PlansOf(q) \cap PlansOf(r) = {}
    /\ PlansOf(r) \subseteq Rows
    /\ \A x, y \in found : x # y => x.name # y.name
    /\ journal' = [journal EXCEPT ![r] = [state |-> "prepared", targets |-> found]]
    /\ removal' = [removal EXCEPT ![r].step = "stage", ![r].targets = found]
    /\ UNCHANGED <<claim, owned, files, placed, retag, dedupe, sweep, scan, recovering, counters>>

(* The rows have gone, two claim one name, or the folder is unsafe.        *)
RefuseRemoval(r) ==
    /\ Step(r, "read")
    /\ removal' = Ended(r)
    /\ UNCHANGED <<rows, files, placed, retag, dedupe, sweep, scan, recovering, counters>>

(* The targets are taken in the order of the plans.                        *)
Left(r) == IF removal[r] = None THEN {} ELSE removal[r].targets \ removal[r].done
IsNext(r, x) == \A y \in Left(r) : x.plan <= y.plan

(* _stage_target                                                           *)
Stage(r, x) ==
    /\ Step(r, "stage") /\ IsNext(r, x)
    /\ x.file # None => dir[x.name] = x.file
    /\ dir' = IF x.file = None THEN dir ELSE [dir EXCEPT ![x.name] = None]
    /\ hidden' = [hidden EXCEPT ![r][x.name] = x.file]
    /\ removal' = [removal EXCEPT ![r].done = @ \cup {x}]
    /\ UNCHANGED <<rows, backup, placed, retag, dedupe, sweep, scan, recovering, counters>>

\* Mutant: a file is put back over what has taken its name.
RestoredOver(xs) == {x \in xs : x.file # None}

(* _restore_target for the targets xs: under its own name, if that is free.*)
Restored(xs) == {x \in xs : x.file # None /\ dir[x.name] = None}
WithRestored(xs) == [n \in Name |-> IF \E x \in Restored(xs) : x.name = n
                                    THEN (CHOOSE x \in Restored(xs) : x.name = n).file ELSE dir[n]]

\* Mutant: the file is linked to its old name, and stays under the other one.
WithoutRestoredLinked(r, xs) == hidden

WithoutRestored(r, xs) ==
    [hidden EXCEPT ![r] = [n \in Name |-> IF \E x \in Restored(xs) : x.name = n THEN None ELSE @[n]]]

(* The file is another one, or cannot be moved; the journal stays as it    *)
(* is.                                                                     *)
FailStage(r, x) ==
    /\ Step(r, "stage") /\ IsNext(r, x) /\ x.file # None
    /\ dir' = WithRestored(removal[r].done)
    /\ hidden' = WithoutRestored(r, removal[r].done)
    /\ removal' = Ended(r)
    /\ UNCHANGED <<rows, backup, placed, retag, dedupe, sweep, scan, recovering, counters>>

(* The file is moved but its directory is not synced: the removal fails    *)
(* and does not count it as staged.                                        *)
FailSync(r, x) ==
    /\ Step(r, "stage") /\ IsNext(r, x) /\ x.file # None /\ dir[x.name] = x.file
    /\ dir' = [WithRestored(removal[r].done) EXCEPT ![x.name] = None]
    /\ hidden' = [WithoutRestored(r, removal[r].done) EXCEPT ![r][x.name] = x.file]
    /\ removal' = Ended(r)
    /\ UNCHANGED <<rows, backup, placed, retag, dedupe, sweep, scan, recovering, counters>>

(* _recompute_database_truth, in the transaction that commits the journal. *)
Removed(plans) == [p \in Plan |-> IF p \in plans
                       THEN [claim[p] EXCEPT !.status = "removed", !.file = "removed"] ELSE claim[p]]

IsWhole(r) == journal[r] # None /\ journal[r].targets = removal[r].targets

DecideRemoval(r) ==
    LET plans == PlansOf(r)
        tracks == {claim[p].track : p \in plans}
    IN
    /\ Step(r, "stage") /\ removal[r].done = removal[r].targets
    /\ \A p \in plans : p \in Rows /\ IsPresent(claim[p])
    /\ IsWhole(r)
    /\ claim' = Removed(plans)
    /\ owned' = (owned \ tracks) \cup StillOwned(claim', tracks)
    /\ journal' = [journal EXCEPT ![r].state = "committed"]
    /\ UNCHANGED <<files, placed, retag, dedupe, sweep, scan, recovering, counters>>

CommitRemoval(r) ==
    /\ DecideRemoval(r)
    /\ removal' = [removal EXCEPT ![r].step = "erase", ![r].done = {}]

(* The commit succeeds and its acknowledgement is lost: the journal shows  *)
(* that nothing may be restored.                                           *)
LoseAcknowledgement(r) ==
    /\ DecideRemoval(r)
    /\ removal' = Ended(r)

\* Mutant: the journal is closed whether or not every file is back.
FailRemovalClosed(r, noted) ==
    LET xs == removal[r].targets
        safe == IsWhole(r)
    IN
    /\ Step(r, "stage") /\ removal[r].done = xs
    /\ dir' = IF safe THEN WithRestored(xs) ELSE dir
    /\ hidden' = IF safe THEN WithoutRestored(r, xs) ELSE hidden
    /\ journal' = IF safe /\ noted THEN [journal EXCEPT ![r] = None] ELSE journal
    /\ removal' = Ended(r)
    /\ UNCHANGED <<claim, owned, backup, placed, retag, dedupe, sweep, scan, recovering, counters>>

(* The claims have changed, or the transaction fails.  Only a journal      *)
(* found whole and prepared lets the files return.                         *)
FailRemoval(r, noted) ==
    LET xs == removal[r].targets
        safe == IsWhole(r)
        back == {x \in xs : x.file # None} = Restored(xs)
    IN
    /\ Step(r, "stage") /\ removal[r].done = xs
    /\ dir' = IF safe THEN WithRestored(xs) ELSE dir
    /\ hidden' = IF safe THEN WithoutRestored(r, xs) ELSE hidden
    /\ journal' = IF safe /\ back /\ noted THEN [journal EXCEPT ![r] = None] ELSE journal
    /\ removal' = Ended(r)
    /\ UNCHANGED <<claim, owned, backup, placed, retag, dedupe, sweep, scan, recovering, counters>>

(* _unlink_target                                                          *)
Erase(r, x) ==
    /\ Step(r, "erase") /\ IsNext(r, x)
    /\ hidden' = [hidden EXCEPT ![r][x.name] = None]
    /\ removal' = [removal EXCEPT ![r].done = @ \cup {x}]
    /\ UNCHANGED <<rows, dir, backup, placed, retag, dedupe, sweep, scan, recovering, counters>>

FailErase(r, x) ==
    /\ Step(r, "erase") /\ IsNext(r, x) /\ x.file # None
    /\ removal' = [removal EXCEPT ![r].done = @ \cup {x}, ![r].failed = TRUE]
    /\ UNCHANGED <<rows, files, placed, retag, dedupe, sweep, scan, recovering, counters>>

(* _mark_finalized, which may fail as well.                                *)
FinishRemoval(r, noted) ==
    /\ Step(r, "erase") /\ removal[r].done = removal[r].targets
    /\ journal' = IF noted /\ ~removal[r].failed THEN [journal EXCEPT ![r] = None] ELSE journal
    /\ removal' = Ended(r)
    /\ UNCHANGED <<claim, owned, files, placed, retag, dedupe, sweep, scan, recovering, counters>>

\* Mutant: a committed group is put back like any other.
RestoreGroupAlways(r) ==
    LET xs == {x \in journal[r].targets : x.file # None /\ hidden[r][x.name] = x.file} IN
    /\ r \in recovering
    /\ dir' = WithRestored(xs)
    /\ hidden' = WithoutRestored(r, xs)
    /\ journal' = [journal EXCEPT ![r] = None]
    /\ recovering' = recovering \ {r}
    /\ UNCHANGED <<claim, owned, backup, placed, retag, dedupe, removal, sweep, scan, counters>>

(* recover_deletion_operations, for one prepared group: in reverse order,  *)
(* up to a target that is neither here nor there.                          *)
RestoreGroup(r) ==
    LET xs == journal[r].targets
        moved == {x \in xs : x.file # None /\ hidden[r][x.name] = x.file}
        stuck == {x \in moved : dir[x.name] # None}
                 \cup {x \in xs \ moved : x.file # None /\ dir[x.name] # x.file}
        back == {x \in moved : \A y \in stuck : y.plan < x.plan}
    IN
    /\ r \in recovering /\ journal[r].state = "prepared"
    /\ dir' = WithRestored(back)
    /\ hidden' = WithoutRestored(r, back)
    /\ journal' = IF stuck = {} THEN [journal EXCEPT ![r] = None] ELSE journal
    /\ recovering' = recovering \ {r}
    /\ UNCHANGED <<claim, owned, backup, placed, retag, dedupe, removal, sweep, scan, counters>>

(* The same for a committed group; an unlink that fails ends it.           *)
EraseGroup(r, failed) ==
    LET xs == {x \in journal[r].targets : x.file # None}
        here == {x \in xs : dir[x.name] = x.file}
        erased == {x \in xs : \A y \in failed : x.plan < y.plan}
        pending == {x \in xs \ here : /\ hidden[r][x.name] # x.file
                                      /\ dir[x.name] # None \/ hidden[r][x.name] # None}
    IN
    /\ r \in recovering /\ journal[r].state = "committed"
    /\ \A x \in failed : x \in xs /\ (x \in here \/ hidden[r][x.name] = x.file)
    /\ dir' = [n \in Name |-> IF \E x \in here \cap erased : x.name = n THEN None ELSE dir[n]]
    /\ hidden' = [hidden EXCEPT ![r] = [n \in Name |-> IF \E x \in erased : x.name = n /\ x.file = @[n]
                                                       THEN None ELSE @[n]]]
    /\ journal' = IF pending \cup failed = {} THEN [journal EXCEPT ![r] = None] ELSE journal
    /\ recovering' = recovering \ {r}
    /\ UNCHANGED <<claim, owned, backup, placed, retag, dedupe, removal, sweep, scan, counters>>

-----------------------------------------------------------------------------
(* The sweep, and the watcher: LibraryReconciliationService.               *)

Eligible(p) == /\ p \in Rows /\ claim[p].status = "imported" /\ claim[p].file # "removed"
               /\ \A r \in Removal : journal[r] # None => \A x \in journal[r].targets : x.plan # p

ReadSweep(p) ==
    /\ Serving /\ sweep = None /\ Eligible(p)
    /\ sweep' = [plan |-> p, name |-> claim[p].name, seen |-> "nothing"]
    /\ UNCHANGED <<rows, files, placed, retag, dedupe, removal, scan, recovering, counters>>

(* _inspect_library_path, in a thread.                                     *)
InspectSweep ==
    /\ sweep # None /\ sweep.seen = "nothing"
    /\ sweep' = [sweep EXCEPT !.seen = IF dir[sweep.name] = None THEN "missing" ELSE "present"]
    /\ UNCHANGED <<rows, files, placed, retag, dedupe, removal, scan, recovering, counters>>

(* _apply: a row that has changed meanwhile is passed over; a trigger      *)
(* undoes it all.                                                          *)
ApplySweep ==
    LET p == sweep.plan
        c == [claim EXCEPT ![p].file = sweep.seen]
        t == claim[p].track
    IN
    /\ sweep # None /\ sweep.seen # "nothing"
    /\ IF Eligible(p) /\ claim[p].name = sweep.name /\ ~Refused(c, p)
       THEN /\ claim' = c
            /\ owned' = (owned \ {t}) \cup StillOwned(c, {t})
       ELSE UNCHANGED <<claim, owned>>
    /\ sweep' = None
    /\ UNCHANGED <<journal, files, placed, retag, dedupe, removal, scan, recovering, counters>>

-----------------------------------------------------------------------------
(* Adopting files that no row claims.                                      *)

(* enqueue_library_adoption_scan: one of a scope at a time.                *)
RequestScan ==
    /\ Serving /\ scan = None
    /\ scan' = [state |-> "queued", claimed |-> {}, candidate |-> None]
    /\ UNCHANGED <<rows, files, placed, retag, dedupe, removal, sweep, recovering, counters>>

(* run_library_adoption_scan: the lease, and the claimed names.            *)
StartScan ==
    /\ Serving /\ scan # None /\ scan.state = "queued"
    /\ scan' = [scan EXCEPT !.state = "running",
                            !.claimed = {claim[p].name : p \in {q \in Rows : Active(claim[q])}}]
    /\ UNCHANGED <<rows, files, placed, retag, dedupe, removal, sweep, recovering, counters>>

(* discover_audio_files, and the match of one of the files with a track.   *)
Discover(n, t) ==
    /\ scan # None /\ scan.state = "running" /\ scan.candidate = None
    /\ n \in Taken \ scan.claimed
    /\ scan' = [scan EXCEPT !.candidate = [name |-> n, file |-> dir[n], track |-> t]]
    /\ UNCHANGED <<rows, files, placed, retag, dedupe, removal, sweep, recovering, counters>>

(* _adopt_candidate: the file is as it was found, and nobody claims its    *)
(* name, or another file of the track.                                     *)
IsAdoptable(x) ==
    /\ dir[x.name] = x.file
    /\ \A p \in Rows : Active(claim[p]) => claim[p].name # x.name /\ claim[p].track # x.track

(* Under the writer's lock, with a lease that still holds.                 *)
Adopt ==
    LET x == scan.candidate IN
    /\ scan # None /\ scan.state = "running" /\ x # None
    /\ IsAdoptable(x)
    /\ \E p \in NewKey(claim) :
        /\ claim' = [claim EXCEPT ![p] = [track |-> x.track, name |-> x.name, status |-> "imported",
                                          file |-> "present", adopted |-> TRUE]]
        /\ ~Refused(claim', p)
    /\ owned' = owned \cup {x.track}
    /\ scan' = None
    /\ UNCHANGED <<journal, files, placed, retag, dedupe, removal, sweep, recovering, counters>>

(* Nothing is found, or the file is left for review, or the scan fails.    *)
EndScan ==
    /\ scan # None /\ scan.state = "running"
    /\ scan' = None
    /\ UNCHANGED <<rows, files, placed, retag, dedupe, removal, sweep, recovering, counters>>

(* Shut down or busy: to be resumed with the candidates it has recorded, ...*)
RequeueScan ==
    /\ scan # None /\ scan.state = "running"
    /\ scan' = [scan EXCEPT !.state = "queued", !.claimed = {}]
    /\ UNCHANGED <<rows, files, placed, retag, dedupe, removal, sweep, recovering, counters>>

(* ... like one that a crash has left.                                     *)
RecoverScan ==
    /\ Serving /\ scan # None /\ scan.state = "orphaned"
    /\ scan' = [scan EXCEPT !.state = "queued", !.claimed = {}]
    /\ UNCHANGED <<rows, files, placed, retag, dedupe, removal, sweep, recovering, counters>>

-----------------------------------------------------------------------------
(* The world.                                                              *)

UserDeletes(n) ==
    /\ changes < MaxChanges /\ changes' = changes + 1
    /\ dir[n] # None /\ dir' = [dir EXCEPT ![n] = None]
    /\ UNCHANGED <<rows, hidden, backup, actors, crashes>>

UserAdds(n) ==
    /\ changes < MaxChanges /\ changes' = changes + 1
    /\ dir[n] = None /\ \E f \in NewFile : dir' = [dir EXCEPT ![n] = f]
    /\ UNCHANGED <<rows, hidden, backup, actors, crashes>>

(* Rows and files stay as they are.                                        *)
Crash ==
    /\ crashes < MaxCrashes /\ crashes' = crashes + 1
    /\ placed' = [t \in Track |-> None] /\ retag' = None /\ dedupe' = None
    /\ removal' = [r \in Removal |-> None] /\ sweep' = None
    /\ scan' = IF scan # None /\ scan.state = "running" THEN [scan EXCEPT !.state = "orphaned"] ELSE scan
    /\ recovering' = {r \in Removal : journal[r] # None}
    /\ UNCHANGED <<rows, files, changes>>

Recover == \E r \in recovering :
    \/ RestoreGroup(r)
    \/ \E failed \in {{}} \cup {{x} : x \in journal[r].targets} : EraseGroup(r, failed)

ImportStep ==
    \/ \E t \in Track : PlanImport(t)
    \/ \E t \in Track, p \in Plan : PlaceImport(t, p)
    \/ \E t \in Track : CommitImport(t)
    \/ \E t \in Track, recorded \in BOOLEAN : RollBackImport(t, recorded)
    \/ \E p \in Plan : FailImport(p)

DedupeStep == FindDuplicates \/ DropDuplicates

RetagStep ==
    \/ ReadRetag
    \/ PrepareRetag
    \/ \E x \in Todo : WithdrawFile(x)
    \/ PublishFile
    \/ CommitRetag
    \/ RollBackRetag

RemovalStep == \E r \in Removal :
    \/ \E plans \in SUBSET Plan : ReadRemoval(r, plans)
    \/ OpenRemoval(r)
    \/ RefuseRemoval(r)
    \/ \E x \in Left(r) : Stage(r, x)
    \/ \E x \in Left(r) : FailStage(r, x)
    \/ \E x \in Left(r) : FailSync(r, x)
    \/ CommitRemoval(r)
    \/ LoseAcknowledgement(r)
    \/ \E noted \in BOOLEAN : FailRemoval(r, noted)
    \/ \E x \in Left(r) : Erase(r, x)
    \/ \E x \in Left(r) : FailErase(r, x)
    \/ \E noted \in BOOLEAN : FinishRemoval(r, noted)

SweepStep == (\E p \in Plan : ReadSweep(p)) \/ InspectSweep \/ ApplySweep

ScanStep ==
    \/ RequestScan
    \/ StartScan
    \/ \E n \in Name, t \in Track : Discover(n, t)
    \/ Adopt
    \/ EndScan
    \/ RequeueScan
    \/ RecoverScan

WorldStep ==
    \/ \E n \in Name : UserDeletes(n)
    \/ \E n \in Name : UserAdds(n)
    \/ Crash
    \/ Recover

LibraryNext ==
    ImportStep \/ DedupeStep \/ RetagStep \/ RemovalStep \/ SweepStep \/ ScanStep \/ WorldStep

LibrarySpec == LibraryInit /\ [][LibraryNext]_vars

-----------------------------------------------------------------------------
(* Properties.                                                             *)

(* A file that a removal has moved out of sight is recorded, in a group    *)
(* that start-up will look at, until it is erased or back.  What forgets   *)
(* it is to plan an import of the same track anew, before or after it is   *)
(* moved: the rows of the journal go with those of the plans.              *)
IsRecorded(r, n) == journal[r] # None
                    /\ \E x \in journal[r].targets : x.name = n /\ x.file = hidden[r][n]
IsLost(r, n) == hidden[r][n] # None /\ ~IsRecorded(r, n)
IsForgotten(r) == removal[r] # None /\ removal[r].step # "read" /\ ~IsWhole(r)

HiddenFilesStayRecorded ==
    [][\A r \in Removal, n \in Name : IsLost(r, n)' =>
            IsLost(r, n) \/ IsForgotten(r) \/ \E t \in Track : PlanImport(t)]_vars

(* A removal that has committed is carried through: no step puts back a    *)
(* file it has recorded, or makes a claim of one it has marked, and its    *)
(* journal is not closed before the file is gone.                          *)
Condemned == {x.file : x \in UNION {journal[r].targets :
                    r \in {q \in Removal : journal[q] # None /\ journal[q].state = "committed"}}}

RemovalsAreCarriedThrough ==
    [][/\ \A n \in Name : dir'[n] # dir[n] => dir'[n] \notin Condemned \ {None}
       /\ \A f \in Condemned \ {None} : f \notin Condemned' /\ f \in Existing'
                                        => \E t \in Track : PlanImport(t)
       /\ \A p \in Rows : claim[p].status = "removed" /\ claim'[p] # None
                          => claim'[p].status # "imported"]_vars

(* The program destroys a file only for a reason it can name: a removal    *)
(* has condemned it; a better copy of the song lies beside it when its     *)
(* import commits; or it is in the hands of a part that goes by names: the *)
(* elimination of duplicates, an import that is taken back, a re-tagging.  *)
(* So a removal that fails, is interrupted or is recovered destroys no     *)
(* file but those of a committed group, whoever has taken their names      *)
(* since, and no sweep, scan or planning destroys one                      *)
(* (library_removal.py, _restore_target and recover_deletion_operations).  *)
Decided == Condemned \cup UNION {{x.file : x \in removal[r].targets} : r \in {q \in Removal : Step(q, "erase")}}

Outranked == {dir[claim[p].name] : p \in {q \in Rows : \E w \in Rows :
                  dir[claim[w].name] # None /\ Rank[claim[q].name] < Rank[claim[w].name]}}

GoneByName ==
    {dir[HomeOf[t]] : t \in {u \in Track : placed[u] # None}}
    \cup (IF dedupe = None THEN {} ELSE {dir[x[2]] : x \in dedupe.losers})
    \cup (IF retag = None THEN {}
          ELSE {dir[x.to] : x \in retag.made \cup ({retag.next} \ {None})}
               \cup {dir[b.name] : b \in retag.saved} \cup {b.file : b \in retag.saved})

FilesPerishForAReason ==
    [][changes' = changes => \A f \in Existing : f \notin Existing' =>
          \/ f \in Decided \cup GoneByName
          \/ f \in Outranked /\ \E t \in Track : CommitImport(t)]_vars

(* An adopted file is claimed once, and its track has no other file.       *)
AdoptedFilesAreClaimedOnce ==
    \A p, q \in Rows : /\ p # q /\ claim[p].adopted /\ Active(claim[p]) /\ Active(claim[q])
                       => claim[p].name # claim[q].name /\ claim[p].track # claim[q].track

-----------------------------------------------------------------------------
(* What the repository says of itself and the code does not do.            *)

Copies == Existing \ ({placed[t].file : t \in {u \in Track : placed[u] # None}} \cup Decided)

(* "permanently removes only clear same-folder lower-quality duplicates"   *)
(* (CHANGELOG.md): when an elimination of duplicates deletes files, a copy *)
(* of the song is left that no removal has condemned.                      *)
OnlyDuplicatesAreDropped ==
    [][dedupe # None /\ dedupe' = None /\ dir' # dir => Copies' # {}]_vars
===============================================================================
