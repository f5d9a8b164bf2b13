------------------------- MODULE LibraryFiles_proofs -------------------------
(***************************************************************************)
(* Theorems about LibraryFiles, for any tracks, plans, removals, names and *)
(* files, and any number of changes by users and of crashes.               *)
(***************************************************************************)
EXTENDS LibraryFiles, TLAPS

USE LibraryAssumption

-----------------------------------------------------------------------------
(* Types.                                                                  *)

ClaimsTyped == claim \in [Plan -> Claim \cup {None}]

(* What a re-tagging has still to withdraw are files that it has seen.     *)
RetagShape ==
    retag # None /\ retag.step = "work" => \A x \in retag.todo : x.file # None

(* The plan of a file that waits for its commit is neither imported nor    *)
(* removed meanwhile.                                                      *)
PlacedShape ==
    \A t \in Track : placed[t] # None =>
        /\ claim[placed[t].plan] # None /\ claim[placed[t].plan].track = t
        /\ claim[placed[t].plan].status \in {"ready", "needs_review", "failed", "rolled_back"}

(* How far a removal has come.                                             *)
HasStaged(r) == \A x \in removal[r].done : x.file # None => hidden[r][x.name] = x.file
HasErased(r) == \A x \in removal[r].done : hidden[r][x.name] = None
IsUntouched(r) == /\ journal[r] = None /\ removal[r].done = {}
                  /\ \A n \in Name : hidden[r][n] = None
IsOpen(r) ==
    /\ \A x, y \in removal[r].targets : x # y => x.name # y.name
    /\ journal[r] # None => /\ journal[r].targets \subseteq removal[r].targets
                            /\ removal[r].step = "stage" <=> journal[r].state = "prepared"

ShapeOf(r) ==
    removal[r] # None =>
        /\ recovering = {} /\ removal[r].done \subseteq removal[r].targets
        /\ removal[r].step = "read" => IsUntouched(r)
        /\ removal[r].step # "read" => IsOpen(r)
        /\ removal[r].step = "stage" => HasStaged(r)
        /\ removal[r].step = "erase" /\ ~removal[r].failed => HasErased(r)

RemovalShape == \A r \in Removal : ShapeOf(r)

(* start-up goes through groups that are there.                            *)
RecoveryShape == \A r \in recovering : journal[r] # None

(* The file f is nowhere but where the group r has put what was under n.   *)
IsGone(d, h, b, r, f, n) ==
    /\ \A m \in Name : d[m] # f
    /\ \A x \in b : x.file # f
    /\ \A q \in Removal, m \in Name : h[q][m] = f => q = r /\ m = n

IsCommitted(r) == journal[r] # None /\ journal[r].state = "committed"

CondemnedAreGone ==
    \A r \in Removal : IsCommitted(r) =>
        \A x \in journal[r].targets : x.file # None => IsGone(dir, hidden, backup, r, x.file, x.name)

LibInv ==
    /\ Types /\ EachInOnePlace /\ RetagShape /\ PlacedShape /\ RemovalShape /\ RecoveryShape
    /\ CondemnedAreGone

(* The two forms that most changes of a row have.                          *)
LEMMA WithStatus ==
    ASSUME NEW c \in [Plan -> Claim \cup {None}], NEW p \in Plan, c[p] # None,
           NEW s \in {"ready", "needs_review", "imported", "failed", "rolled_back", "removed"}
    PROVE  [c EXCEPT ![p].status = s] \in [Plan -> Claim \cup {None}]
  BY DEF Claim

LEMMA WithFile ==
    ASSUME NEW c \in [Plan -> Claim \cup {None}], NEW p \in Plan, c[p] # None,
           NEW f \in {"unknown", "present", "missing", "removed"}
    PROVE  [c EXCEPT ![p].file = f] \in [Plan -> Claim \cup {None}]
  BY DEF Claim

LEMMA DuplicatedIsTyped ==
    ASSUME NEW c \in [Plan -> Claim \cup {None}], NEW o
    PROVE  /\ Duplicated(c, o) \in [losers : SUBSET (Plan \X Name), tied : SUBSET Plan]
           /\ \A p \in Losers(Duplicated(c, o)) \cup Duplicated(c, o).tied :
                  p \in Plan /\ c[p] # None /\ c[p].status = "imported"
<1> DEFINE there == {p \in Plan : /\ c[p] # None /\ c[p].status = "imported"
                                  /\ c[p].track \in o /\ dir[c[p].name] # None}
           best == {p \in there : \A q \in there : Rank[c[q].name] <= Rank[c[p].name]}
           losers == IF Cardinality(best) = 1
                     THEN {<<p, c[p].name>> : p \in there \ best} ELSE {}
           tied == IF Cardinality(best) > 1 THEN there ELSE {}
<1>1. Duplicated(c, o) = [losers |-> losers, tied |-> tied]
  BY DEF Duplicated
<1>2. \A p \in there : p \in Plan /\ c[p] # None /\ c[p].status = "imported" /\ c[p].name \in Name
  BY DEF Claim
<1>3. losers \subseteq {<<p, c[p].name>> : p \in there} /\ tied \subseteq there
  OBVIOUS
<1>4. losers \in SUBSET (Plan \X Name) /\ tied \in SUBSET Plan
  BY <1>2, <1>3
<1>5. \A x \in losers : x[1] \in there
  <2>1. \A x \in losers : \E p \in there : x = <<p, c[p].name>>
    OBVIOUS
  <2>2. \A p : <<p, c[p].name>>[1] = p
    OBVIOUS
  <2> HIDE DEF losers, there
  <2> QED
    BY <2>1, <2>2
<1> HIDE DEF losers, tied, there, best
<1>6. Losers(Duplicated(c, o)) = {x[1] : x \in losers} /\ Duplicated(c, o).tied = tied
  BY <1>1 DEF Losers
<1>7. Duplicated(c, o) \in [losers : SUBSET (Plan \X Name), tied : SUBSET Plan]
  BY <1>1, <1>4
<1> QED
  BY <1>2, <1>3, <1>5, <1>6, <1>7

LEMMA DemotedIsTyped ==
    ASSUME NEW c \in [Plan -> Claim \cup {None}],
           NEW d \in [losers : SUBSET (Plan \X Name), tied : SUBSET Plan],
           \A p \in Losers(d) \cup d.tied : c[p] # None
    PROVE  Demoted(c, d) \in [Plan -> Claim \cup {None}]
<1>1. ASSUME NEW p \in Plan, p \in Losers(d) \cup d.tied
      PROVE  /\ [c[p] EXCEPT !.status = "rolled_back"] \in Claim
             /\ [c[p] EXCEPT !.status = "needs_review"] \in Claim
  BY <1>1 DEF Claim
<1> QED
  BY <1>1 DEF Demoted

LEMMA RemovedIsTyped ==
    ASSUME ClaimsTyped, NEW plans \in SUBSET Rows
    PROVE  Removed(plans) \in [Plan -> Claim \cup {None}]
<1>1. ASSUME NEW p \in plans
      PROVE  [claim[p] EXCEPT !.status = "removed", !.file = "removed"] \in Claim
  <2>1. claim[p] \in Claim
    BY <1>1 DEF Rows, ClaimsTyped
  <2> QED
    BY <2>1 DEF Claim
<1> QED
  BY <1>1 DEF Removed, Rows, ClaimsTyped

LEMMA ImportStepTyped ==
    ASSUME Types, ImportStep
    PROVE  Types'
<1> USE DEF rows, files, actors, counters
<1>1. ASSUME NEW t \in Track, PlanImport(t)
      PROVE  Types'
  <2> DEFINE gone == {p \in Rows : claim[p].track = t /\ claim[p].status # "imported"}
             kept == [p \in Plan |-> IF p \in gone THEN None ELSE claim[p]]
             left(j) == {x \in j.targets : x.plan \notin gone}
  <2>1. claim' \in [Plan -> Claim \cup {None}]
    <3>1. PICK p \in NewKey(kept) : claim' = [kept EXCEPT ![p] =
            [track |-> t, name |-> HomeOf[t], file |-> "unknown", adopted |-> FALSE,
             status |-> IF dir[HomeOf[t]] = None THEN "ready" ELSE "needs_review"]]
      BY <1>1 DEF PlanImport
    <3>2. kept \in [Plan -> Claim \cup {None}]
      BY DEF Types
    <3>3. p \in Plan
      BY <3>1 DEF NewKey
    <3>4. \A s \in {"ready", "needs_review"} : [track |-> t, name |-> HomeOf[t], file |-> "unknown",
                                              adopted |-> FALSE, status |-> s] \in Claim
      BY DEF Claim
    <3> HIDE DEF kept
    <3> QED
      BY <3>1, <3>2, <3>3, <3>4
  <2>2. journal' \in [Removal -> Journal \cup {None}]
    <3>1. journal' = [r \in Removal |-> IF journal[r] = None \/ left(journal[r]) = {} THEN None
                                        ELSE [journal[r] EXCEPT !.targets = left(journal[r])]]
      BY <1>1 DEF PlanImport
    <3>2. ASSUME NEW r \in Removal, journal[r] # None
          PROVE  [journal[r] EXCEPT !.targets = left(journal[r])] \in Journal
      BY <3>2 DEF Types, Journal
    <3> HIDE DEF left
    <3> QED
      BY <3>1, <3>2
  <2> QED
    BY <1>1, <2>1, <2>2 DEF PlanImport, Types
<1>2. ASSUME NEW t \in Track, NEW p \in Plan, PlaceImport(t, p)
      PROVE  Types'
  <2>1. PICK f \in NewFile : /\ dir' = [dir EXCEPT ![claim[p].name] = f]
                            /\ placed' = [placed EXCEPT ![t] = [plan |-> p, file |-> f]]
    BY <1>2 DEF PlaceImport
  <2>2. f \in File
    BY DEF NewFile, Unused
  <2>3. dir' \in [Name -> File \cup {None}]
    BY <2>1, <2>2 DEF Types
  <2>4. placed' \in [Track -> [plan : Plan, file : File] \cup {None}]
    BY <2>1, <2>2 DEF Types
  <2> QED
    BY <1>2, <2>3, <2>4 DEF PlaceImport, Types
<1>3. ASSUME NEW t \in Track, CommitImport(t)
      PROVE  Types'
  <2> DEFINE p == placed[t].plan
             c == [claim EXCEPT ![p].status = "imported", ![p].file = "present"]
             d == Duplicated(c, owned \cup {t})
  <2>1. p \in Plan /\ claim[p] # None
    BY <1>3 DEF CommitImport, Types, Rows
  <2>2. c \in [Plan -> Claim \cup {None}]
    <3>3. claim[p] \in Claim
      BY <2>1 DEF Types
    <3>1. [claim[p] EXCEPT !.status = "imported", !.file = "present"] \in Claim
      BY <3>3 DEF Claim
    <3>2. c = [claim EXCEPT ![p] = [claim[p] EXCEPT !.status = "imported", !.file = "present"]]
      BY <2>1 DEF Types
    <3> HIDE DEF p, c
    <3> QED
      BY <2>1, <3>1, <3>2 DEF Types
  <2>3. Demoted(c, d) \in [Plan -> Claim \cup {None}] /\ d.losers \subseteq Plan \X Name
    <3> HIDE DEF c
    <3>1. /\ d \in [losers : SUBSET (Plan \X Name), tied : SUBSET Plan]
          /\ \A q \in Losers(d) \cup d.tied : c[q] # None
      BY <2>2, DuplicatedIsTyped
    <3> HIDE DEF d
    <3> QED
      BY <2>2, <3>1, DemotedIsTyped
  <2>4. /\ claim' = Demoted(c, d) /\ owned' = (owned \cup {t}) \ Disowned(c, d)
        /\ dir' = WithoutLosers(d) /\ placed' = [placed EXCEPT ![t] = None]
        /\ UNCHANGED <<journal, hidden, backup, retag, dedupe, removal, sweep, scan, recovering,
                       counters>>
    BY <1>3 DEF CommitImport
  <2> HIDE DEF c, d
  <2>5. dir' \in [Name -> File \cup {None}]
    BY <2>4 DEF WithoutLosers, Types
  <2> QED
    BY <2>3, <2>4, <2>5 DEF Types
<1>4. ASSUME NEW t \in Track, NEW recorded \in BOOLEAN, RollBackImport(t, recorded)
      PROVE  Types'
  <2>1. claim' \in [Plan -> Claim \cup {None}]
    BY <1>4, WithStatus DEF RollBackImport, Types, Rows
  <2> QED
    BY <1>4, <2>1 DEF RollBackImport, Types
<1>5. ASSUME NEW p \in Plan, FailImport(p)
      PROVE  Types'
  <2>1. claim' \in [Plan -> Claim \cup {None}]
    BY <1>5, WithStatus DEF FailImport, Types, Rows
  <2> QED
    BY <1>5, <2>1 DEF FailImport, Types
<1> QED
  BY <1>1, <1>2, <1>3, <1>4, <1>5 DEF ImportStep

LEMMA DedupeStepTyped ==
    ASSUME Types, DedupeStep
    PROVE  Types'
<1> USE DEF rows, files, actors, counters
<1>1. ASSUME FindDuplicates
      PROVE  Types'
  <2>1. Duplicated(claim, owned) \in [losers : SUBSET (Plan \X Name), tied : SUBSET Plan]
    BY DuplicatedIsTyped DEF Types
  <2> QED
    BY <1>1, <2>1 DEF FindDuplicates, Types
<1>2. ASSUME DropDuplicates
      PROVE  Types'
  <2>1. claim' \in [Plan -> Claim \cup {None}]
    <3>1. CASE Losers(dedupe) \cup dedupe.tied \subseteq Rows
      <4>1. Demoted(claim, dedupe) \in [Plan -> Claim \cup {None}]
        BY <1>2, <3>1, DemotedIsTyped DEF DropDuplicates, Types, Rows
      <4> QED
        BY <1>2, <3>1, <4>1 DEF DropDuplicates
    <3> QED
      BY <1>2, <3>1 DEF DropDuplicates, Types
  <2>2. dir' \in [Name -> File \cup {None}] /\ owned' \subseteq Track
    <3>1. WithoutLosers(dedupe) \in [Name -> File \cup {None}]
      BY DEF WithoutLosers, Types
    <3>2. owned \ Disowned(claim, dedupe) \subseteq Track
      BY DEF Types
    <3> QED
      BY <1>2, <3>1, <3>2 DEF DropDuplicates, Types
  <2> QED
    BY <1>2, <2>1, <2>2 DEF DropDuplicates, Types
<1> QED
  BY <1>1, <1>2 DEF DedupeStep

LEMMA RetagStepTyped ==
    ASSUME Types, RetagShape, RetagStep
    PROVE  Types'
<1> USE DEF rows, files, actors, counters
<1>1. ASSUME ReadRetag
      PROVE  Types'
  <2> DEFINE plans == UNION {Current(t) : t \in owned}
             todo == {[plan |-> p, from |-> claim[p].name, file |-> None,
                       to |-> CanonicalOf[claim[p].track]] : p \in plans}
  <2>1. \A p \in plans : p \in Rows
    BY DEF Current, Claims
  <2>4. ASSUME NEW p \in plans
        PROVE  [plan |-> p, from |-> claim[p].name, file |-> None,
                to |-> CanonicalOf[claim[p].track]] \in Move
    BY <2>1 DEF Move, Rows, Claim, Types
  <2>2. todo \subseteq Move
    <3> HIDE DEF plans
    <3> QED
      BY <2>4
  <2>3. retag' = [step |-> "read", next |-> None, made |-> {}, saved |-> {}, todo |-> todo]
    BY <1>1 DEF ReadRetag
  <2> HIDE DEF todo
  <2>5. retag' \in Retag
    BY <2>2, <2>3 DEF Retag
  <2> QED
    BY <1>1, <2>5 DEF ReadRetag, Types
<1>2. ASSUME PrepareRetag
      PROVE  Types'
  <2> DEFINE todo == {[x EXCEPT !.file = dir[x.from]] : x \in retag.todo}
  <2>1. todo \subseteq Move
    BY <1>2 DEF PrepareRetag, Types, Retag, Move
  <2>2. retag' = [retag EXCEPT !.step = "work", !.todo = todo] /\ retag # None
    BY <1>2 DEF PrepareRetag
  <2> HIDE DEF todo
  <2> QED
    BY <1>2, <2>1, <2>2 DEF PrepareRetag, Types, Retag
<1>3. ASSUME NEW x \in Todo, WithdrawFile(x)
      PROVE  Types'
  <2>1. retag # None /\ retag \in Retag /\ x \in Move /\ x.file # None
    BY <1>3 DEF Todo, Types, Retag, RetagShape, WithdrawFile
  <2>2. [name |-> x.from, file |-> x.file] \in Saved
    BY <2>1 DEF Move, Saved
  <2>3. retag' = [retag EXCEPT !.todo = @ \ {x}, !.next = x,
                               !.saved = @ \cup {[name |-> x.from, file |-> x.file]}]
    BY <1>3 DEF WithdrawFile
  <2>4. retag' \in Retag
    BY <2>1, <2>2, <2>3 DEF Retag
  <2> QED
    BY <1>3, <2>2, <2>4 DEF WithdrawFile, Types
<1>4. ASSUME PublishFile
      PROVE  Types'
  <2>1. PICK f \in NewFile :
            /\ dir' = [dir EXCEPT ![retag.next.to] = f]
            /\ retag' = [retag EXCEPT !.made = @ \cup {[retag.next EXCEPT !.file = f]}, !.next = None]
    BY <1>4 DEF PublishFile
  <2>2. f \in File
    BY DEF NewFile, Unused
  <2>3. retag \in Retag /\ retag.next \in Move
    BY <1>4 DEF PublishFile, Types, Retag
  <2>4. [retag.next EXCEPT !.file = f] \in Move
    BY <2>2, <2>3 DEF Move
  <2>5. retag' \in Retag
    BY <2>1, <2>3, <2>4 DEF Retag
  <2>6. dir' \in [Name -> File \cup {None}]
    BY <2>1, <2>2 DEF Types
  <2> QED
    BY <1>4, <2>5, <2>6 DEF PublishFile, Types
<1>5. ASSUME CommitRetag
      PROVE  Types'
  <2> DEFINE renamed == {x \in retag.made : x.to # x.from}
             c == [p \in Plan |-> IF \E x \in renamed : x.plan = p
                                  THEN [claim[p] EXCEPT !.name = (CHOOSE x \in renamed : x.plan = p).to]
                                  ELSE claim[p]]
  <2>1. renamed \subseteq Move /\ \A x \in renamed : x.plan \in Plan /\ claim[x.plan] # None
    BY <1>5 DEF CommitRetag, Types, Retag, Rows
  <2>2. ASSUME NEW p \in Plan, NEW x \in renamed, x.plan = p
        PROVE  [claim[p] EXCEPT !.name = (CHOOSE y \in renamed : y.plan = p).to] \in Claim
    <3>1. (CHOOSE y \in renamed : y.plan = p) \in renamed
      BY <2>2
    <3>2. (CHOOSE y \in renamed : y.plan = p).to \in Name
      BY <2>1, <3>1 DEF Move
    <3>3. claim[p] \in Claim
      BY <2>1, <2>2 DEF Types
    <3> QED
      BY <3>2, <3>3 DEF Claim
  <2>3. claim' = c
    BY <1>5 DEF CommitRetag
  <2> HIDE DEF renamed
  <2>4. claim' \in [Plan -> Claim \cup {None}]
    BY <2>2, <2>3 DEF Types
  <2> QED
    BY <1>5, <2>4 DEF CommitRetag, Types
<1>6. ASSUME RollBackRetag
      PROVE  Types'
  <2> DEFINE restored == {b \in retag.saved : b \in backup}
  <2>1. \A n \in Name : (\E b \in restored : b.name = n)
            => (CHOOSE b \in restored : b.name = n).file \in File
    BY DEF Types, Saved
  <2>2. dir' = [n \in Name |-> IF \E b \in restored : b.name = n
                              THEN (CHOOSE b \in restored : b.name = n).file
                              ELSE IF \E x \in retag.made : x.to = n THEN None ELSE dir[n]]
    BY <1>6 DEF RollBackRetag
  <2> HIDE DEF restored
  <2>3. dir' \in [Name -> File \cup {None}]
    BY <2>1, <2>2 DEF Types
  <2> QED
    BY <1>6, <2>3 DEF RollBackRetag, Types
<1> QED
  BY <1>1, <1>2, <1>3, <1>4, <1>5, <1>6 DEF RetagStep

LEMMA RestoredIsTyped ==
    ASSUME Types, NEW r \in Removal, NEW xs \in SUBSET Target
    PROVE  /\ WithRestored(xs) \in [Name -> File \cup {None}]
           /\ WithoutRestored(r, xs) \in [Removal -> [Name -> File \cup {None}]]
<1>1. \A n \in Name : (\E x \in Restored(xs) : x.name = n)
          => (CHOOSE x \in Restored(xs) : x.name = n).file \in File
  BY DEF Restored, Target
<1>2. WithRestored(xs) \in [Name -> File \cup {None}]
  <2> HIDE DEF Restored
  <2> QED
    BY <1>1 DEF WithRestored, Types
<1>3. WithoutRestored(r, xs) \in [Removal -> [Name -> File \cup {None}]]
  <2> DEFINE h == [n \in Name |-> IF \E x \in Restored(xs) : x.name = n THEN None ELSE hidden[r][n]]
  <2>1. h \in [Name -> File \cup {None}]
    BY DEF Types
  <2>2. WithoutRestored(r, xs) = [hidden EXCEPT ![r] = h]
    BY DEF WithoutRestored
  <2> HIDE DEF h
  <2> QED
    BY <2>1, <2>2 DEF Types
<1> QED
  BY <1>2, <1>3

(* A step of the removal r.                                                *)
StepOf(r) ==
    \/ \E plans \in SUBSET Plan : ReadRemoval(r, plans)
    \/ OpenRemoval(r)
    \/ RefuseRemoval(r)
    \/ \E x \in Left(r) : Stage(r, x) \/ FailStage(r, x) \/ FailSync(r, x)
    \/ CommitRemoval(r)
    \/ LoseAcknowledgement(r)
    \/ \E noted \in BOOLEAN : FailRemoval(r, noted) \/ FinishRemoval(r, noted)
    \/ \E x \in Left(r) : Erase(r, x) \/ FailErase(r, x)

LEMMA RemovalStepTyped ==
    ASSUME Types, RemovalStep
    PROVE  Types'
<1> USE DEF rows, files, actors, counters
<1> PICK r \in Removal : StepOf(r)
  BY DEF RemovalStep, StepOf
<1>a. \A x \in Left(r) : x \in Target /\ removal[r] # None
  BY DEF Left, Types, RemovalState
<1>b. removal[r] # None => removal[r] \in RemovalState
  BY DEF Types
<1>c. \A s \in RemovalState : [removal EXCEPT ![r] = s] \in [Removal -> RemovalState \cup {None}]
  BY DEF Types
<1>d. Ended(r) \in [Removal -> RemovalState \cup {None}]
  BY DEF Types, Ended
<1>e. ASSUME NEW x \in Left(r), NEW b \in BOOLEAN
      PROVE  /\ [removal EXCEPT ![r].done = @ \cup {x}] \in [Removal -> RemovalState \cup {None}]
             /\ [removal EXCEPT ![r].done = @ \cup {x}, ![r].failed = b]
                    \in [Removal -> RemovalState \cup {None}]
  <2>1. [removal[r] EXCEPT !.done = @ \cup {x}] \in RemovalState
    BY <1>a, <1>b DEF RemovalState
  <2>2. [removal[r] EXCEPT !.done = @ \cup {x}, !.failed = b] \in RemovalState
    <3>1. [removal[r] EXCEPT !.done = @ \cup {x}, !.failed = b]
              = [[removal[r] EXCEPT !.done = @ \cup {x}] EXCEPT !.failed = b]
      BY <1>a, <1>b DEF RemovalState
    <3> HIDE DEF RemovalState
    <3>2. \A s \in RemovalState : [s EXCEPT !.failed = b] \in RemovalState
      BY DEF RemovalState
    <3> QED
      BY <2>1, <3>1, <3>2
  <2>3. /\ [removal EXCEPT ![r].done = @ \cup {x}]
               = [removal EXCEPT ![r] = [removal[r] EXCEPT !.done = @ \cup {x}]]
        /\ [removal EXCEPT ![r].done = @ \cup {x}, ![r].failed = b]
               = [removal EXCEPT ![r] = [removal[r] EXCEPT !.done = @ \cup {x}, !.failed = b]]
    BY DEF Types
  <2> QED
    BY <1>c, <2>1, <2>2, <2>3
<1>f. ASSUME NEW xs \in SUBSET Target
      PROVE  /\ WithRestored(xs) \in [Name -> File \cup {None}]
             /\ WithoutRestored(r, xs) \in [Removal -> [Name -> File \cup {None}]]
  BY RestoredIsTyped
<1>g. ASSUME NEW h \in [Removal -> [Name -> File \cup {None}]], NEW n \in Name, NEW f \in File \cup {None}
      PROVE  [h EXCEPT ![r][n] = f] \in [Removal -> [Name -> File \cup {None}]]
  BY <1>g
<1>h. removal[r] # None => removal[r].done \in SUBSET Target /\ removal[r].targets \in SUBSET Target
  BY <1>b DEF RemovalState
<1>1. ASSUME NEW plans \in SUBSET Plan, ReadRemoval(r, plans)
      PROVE  Types'
  <2> DEFINE targets == {[plan |-> p, name |-> claim[p].name, file |-> None] : p \in plans}
  <2>1. plans \subseteq Rows
    BY <1>1 DEF ReadRemoval, Removable, Latest
  <2>2. ASSUME NEW p \in plans
        PROVE  [plan |-> p, name |-> claim[p].name, file |-> None] \in Target
    BY <2>1, <2>2 DEF Target, Rows, Types, Claim
  <2>3. targets \in SUBSET Target
    BY <2>2, ZenonT(60)
  <2>4. removal' = [removal EXCEPT ![r] =
                        [step |-> "read", done |-> {}, failed |-> FALSE, targets |-> targets]]
    BY <1>1 DEF ReadRemoval
  <2> HIDE DEF targets
  <2>5. [step |-> "read", done |-> {}, failed |-> FALSE, targets |-> targets] \in RemovalState
    BY <2>3 DEF RemovalState
  <2>6. removal' \in [Removal -> RemovalState \cup {None}]
    BY <1>c, <2>4, <2>5
  <2> QED
    BY <1>1, <2>6 DEF ReadRemoval, Types
<1>2. ASSUME OpenRemoval(r)
      PROVE  Types'
  <2> DEFINE found == {[x EXCEPT !.file = dir[x.name]] : x \in removal[r].targets}
  <2>1. ASSUME NEW x \in removal[r].targets
        PROVE  [x EXCEPT !.file = dir[x.name]] \in Target
    <3>1. x \in Target
      BY <1>2, <1>h, <2>1 DEF OpenRemoval, Step
    <3>2. dir[x.name] \in File \cup {None}
      BY <3>1 DEF Target, Types
    <3> QED
      BY <3>1, <3>2 DEF Target
  <2>2. found \in SUBSET Target
    BY <2>1
  <2>3. /\ journal' = [journal EXCEPT ![r] = [state |-> "prepared", targets |-> found]]
        /\ removal' = [removal EXCEPT ![r].step = "stage", ![r].targets = found]
        /\ removal[r] # None
    BY <1>2 DEF OpenRemoval, Step
  <2> HIDE DEF found
  <2>4. journal' \in [Removal -> Journal \cup {None}]
    BY <2>2, <2>3 DEF Types, Journal
  <2>5. removal' \in [Removal -> RemovalState \cup {None}]
    BY <1>b, <2>2, <2>3 DEF Types, RemovalState
  <2> QED
    BY <1>2, <2>4, <2>5 DEF OpenRemoval, Types
<1>3. ASSUME RefuseRemoval(r)
      PROVE  Types'
  BY <1>3, <1>d DEF RefuseRemoval, Types
<1>4. ASSUME NEW x \in Left(r), Stage(r, x)
      PROVE  Types'
  <2>1. x.name \in Name /\ x.file \in File \cup {None}
    BY <1>a DEF Target
  <2>2. hidden' \in [Removal -> [Name -> File \cup {None}]]
    BY <1>4, <1>g, <2>1 DEF Stage, Types
  <2>3. removal' \in [Removal -> RemovalState \cup {None}]
    BY <1>4, <1>e DEF Stage
  <2> QED
    BY <1>4, <2>1, <2>2, <2>3 DEF Stage, Types
<1>5. ASSUME NEW x \in Left(r), FailStage(r, x)
      PROVE  Types'
  BY <1>5, <1>a, <1>d, <1>f, <1>h DEF FailStage, Types
<1>6. ASSUME NEW x \in Left(r), FailSync(r, x)
      PROVE  Types'
  <2>1. x.name \in Name /\ x.file \in File \cup {None}
    BY <1>a DEF Target
  <2> DEFINE d == WithRestored(removal[r].done)
             h == WithoutRestored(r, removal[r].done)
  <2>2. d \in [Name -> File \cup {None}] /\ h \in [Removal -> [Name -> File \cup {None}]]
    BY <1>6, <1>a, <1>f, <1>h
  <2>3. dir' = [d EXCEPT ![x.name] = None] /\ hidden' = [h EXCEPT ![r][x.name] = x.file]
    BY <1>6 DEF FailSync
  <2> HIDE DEF d, h
  <2>4. dir' \in [Name -> File \cup {None}] /\ hidden' \in [Removal -> [Name -> File \cup {None}]]
    BY <1>g, <2>1, <2>2, <2>3
  <2> QED
    BY <1>6, <1>d, <2>4 DEF FailSync, Types
<1>7. ASSUME DecideRemoval(r), removal' \in [Removal -> RemovalState \cup {None}]
      PROVE  Types'
  <2>1. PlansOf(r) \in SUBSET Rows
    BY <1>7 DEF DecideRemoval
  <2>2. claim' \in [Plan -> Claim \cup {None}]
    BY <1>7, <2>1, RemovedIsTyped DEF DecideRemoval, ClaimsTyped, Types
  <2>3. owned' \subseteq Track
    <3> DEFINE tracks == {claim[p].track : p \in PlansOf(r)}
    <3>1. tracks \subseteq Track
      <4>1. \A p \in Rows : claim[p].track \in Track
        BY DEF Rows, Types, Claim
      <4> QED
        BY <2>1, <4>1
    <3>2. owned' = (owned \ tracks) \cup StillOwned(claim', tracks)
      BY <1>7 DEF DecideRemoval
    <3>3. StillOwned(claim', tracks) \subseteq tracks
      BY DEF StillOwned
    <3> HIDE DEF tracks
    <3> QED
      BY <3>1, <3>2, <3>3 DEF Types
  <2>4. journal' \in [Removal -> Journal \cup {None}]
    BY <1>7 DEF DecideRemoval, IsWhole, Types, Journal
  <2> QED
    BY <1>7, <2>2, <2>3, <2>4 DEF DecideRemoval, Types
<1>8. ASSUME CommitRemoval(r)
      PROVE  Types'
  <2>1. removal[r] # None /\ removal' = [removal EXCEPT ![r].step = "erase", ![r].done = {}]
    BY <1>8 DEF CommitRemoval, DecideRemoval, Step
  <2>2. removal' \in [Removal -> RemovalState \cup {None}]
    BY <1>b, <2>1 DEF Types, RemovalState
  <2> QED
    BY <1>7, <1>8, <2>2 DEF CommitRemoval
<1>9. ASSUME LoseAcknowledgement(r)
      PROVE  Types'
  BY <1>7, <1>9, <1>d DEF LoseAcknowledgement
<1>10. ASSUME NEW noted \in BOOLEAN, FailRemoval(r, noted)
       PROVE  Types'
  <2>1. /\ dir' \in [Name -> File \cup {None}]
        /\ hidden' \in [Removal -> [Name -> File \cup {None}]]
    BY <1>10, <1>f, <1>h DEF FailRemoval, Step, Types
  <2>2. journal' \in [Removal -> Journal \cup {None}]
    BY <1>10 DEF FailRemoval, Types
  <2> QED
    BY <1>10, <1>d, <2>1, <2>2 DEF FailRemoval, Types
<1>11. ASSUME NEW noted \in BOOLEAN, FinishRemoval(r, noted)
       PROVE  Types'
  <2>1. journal' \in [Removal -> Journal \cup {None}]
    BY <1>11 DEF FinishRemoval, Types
  <2> QED
    BY <1>11, <1>d, <2>1 DEF FinishRemoval, Types
<1>12. ASSUME NEW x \in Left(r), Erase(r, x)
       PROVE  Types'
  <2>1. x.name \in Name
    BY <1>a DEF Target
  <2>2. hidden' \in [Removal -> [Name -> File \cup {None}]]
    BY <1>12, <1>g, <2>1 DEF Erase, Types
  <2>3. removal' \in [Removal -> RemovalState \cup {None}]
    BY <1>12, <1>e DEF Erase
  <2> QED
    BY <1>12, <2>2, <2>3 DEF Erase, Types
<1>13. ASSUME NEW x \in Left(r), FailErase(r, x)
       PROVE  Types'
  <2>1. removal' \in [Removal -> RemovalState \cup {None}]
    BY <1>13, <1>e DEF FailErase
  <2> QED
    BY <1>13, <2>1 DEF FailErase, Types
<1> QED
  BY <1>1, <1>2, <1>3, <1>4, <1>5, <1>6, <1>8, <1>9, <1>10, <1>11, <1>12, <1>13 DEF StepOf

(* To erase a group takes files away and moves none.                       *)
LEMMA ErasedAreLost ==
    ASSUME Types, NEW r \in Removal, NEW failed, EraseGroup(r, failed)
    PROVE  /\ dir' \in [Name -> File \cup {None}]
           /\ hidden' \in [Removal -> [Name -> File \cup {None}]]
           /\ \A n \in Name : dir'[n] \in {dir[n], None}
           /\ \A q \in Removal, n \in Name : /\ hidden'[q][n] \in {hidden[q][n], None}
                                             /\ q # r => hidden'[q][n] = hidden[q][n]
<1> DEFINE xs == {x \in journal[r].targets : x.file # None}
           here == {x \in xs : dir[x.name] = x.file}
           erased == {x \in xs : \A y \in failed : x.plan < y.plan}
           h == [n \in Name |-> IF \E x \in erased : x.name = n /\ x.file = hidden[r][n]
                                THEN None ELSE hidden[r][n]]
<1>1. /\ dir' = [n \in Name |-> IF \E x \in here \cap erased : x.name = n THEN None ELSE dir[n]]
      /\ hidden' = [hidden EXCEPT ![r] = h]
  BY DEF EraseGroup
<1>2. \A n \in Name : h[n] \in {hidden[r][n], None}
  OBVIOUS
<1>3. h \in [Name -> File \cup {None}]
  BY DEF Types
<1> HIDE DEF h, here, erased
<1> QED
  BY <1>1, <1>2, <1>3 DEF Types

LEMMA SweepStepTyped ==
    ASSUME Types, SweepStep
    PROVE  Types'
<1> USE DEF rows, files, actors, counters
<1>1. ASSUME NEW p \in Plan, ReadSweep(p)
      PROVE  Types'
  <2>1. claim[p] \in Claim
    BY <1>1 DEF ReadSweep, Eligible, Rows, Types
  <2>2. sweep' \in [plan : Plan, name : Name, seen : {"nothing", "present", "missing"}]
    BY <1>1, <2>1 DEF ReadSweep, Claim
  <2> QED
    BY <1>1, <2>2 DEF ReadSweep, Types
<1>2. ASSUME InspectSweep
      PROVE  Types'
  <2>1. sweep' \in [plan : Plan, name : Name, seen : {"nothing", "present", "missing"}]
    BY <1>2 DEF InspectSweep, Types
  <2> QED
    BY <1>2, <2>1 DEF InspectSweep, Types
<1>3. ASSUME ApplySweep
      PROVE  Types'
  <2>1. sweep.plan \in Plan /\ sweep.seen \in {"present", "missing"}
    BY <1>3 DEF ApplySweep, Types
  <2>2. CASE UNCHANGED <<claim, owned>>
    BY <1>3, <2>2 DEF ApplySweep, Types
  <2>3. CASE ~UNCHANGED <<claim, owned>>
    <3> DEFINE t == claim[sweep.plan].track
    <3>1. /\ sweep.plan \in Rows /\ claim' = [claim EXCEPT ![sweep.plan].file = sweep.seen]
          /\ owned' = (owned \ {t}) \cup StillOwned(claim', {t})
      BY <1>3, <2>3 DEF ApplySweep, Eligible
    <3>2. claim' \in [Plan -> Claim \cup {None}]
      BY <2>1, <3>1, WithFile DEF Rows, Types
    <3>3. t \in Track
      BY <3>1 DEF Rows, Types, Claim
    <3>4. owned' \subseteq Track
      BY <3>1, <3>3 DEF StillOwned, Types
    <3> QED
      BY <1>3, <3>2, <3>4 DEF ApplySweep, Types
  <2> QED
    BY <2>2, <2>3
<1> QED
  BY <1>1, <1>2, <1>3 DEF SweepStep

LEMMA ScanStepTyped ==
    ASSUME Types, ScanStep
    PROVE  Types'
<1> USE DEF rows, files, actors, counters
<1>1. ASSUME RequestScan
      PROVE  Types'
  <2>1. scan' \in Scan
    BY <1>1 DEF RequestScan, Scan
  <2> QED
    BY <1>1, <2>1 DEF RequestScan, Types
<1>2. ASSUME StartScan
      PROVE  Types'
  <2> DEFINE names == {claim[p].name : p \in {q \in Rows : Active(claim[q])}}
  <2>1. names \subseteq Name
    BY DEF Rows, Types, Claim
  <2>2. scan \in Scan /\ scan' = [scan EXCEPT !.state = "running", !.claimed = names]
    BY <1>2 DEF StartScan, Types
  <2> HIDE DEF names
  <2>3. scan' \in Scan
    BY <2>1, <2>2 DEF Scan
  <2> QED
    BY <1>2, <2>3 DEF StartScan, Types
<1>3. ASSUME NEW n \in Name, NEW t \in Track, Discover(n, t)
      PROVE  Types'
  <2>1. [name |-> n, file |-> dir[n], track |-> t] \in Candidate
    BY <1>3 DEF Discover, Taken, Types, Candidate
  <2>2. scan \in Scan
        /\ scan' = [scan EXCEPT !.candidate = [name |-> n, file |-> dir[n], track |-> t]]
    BY <1>3 DEF Discover, Types
  <2>3. scan' \in Scan
    BY <2>1, <2>2 DEF Scan
  <2> QED
    BY <1>3, <2>3 DEF Discover, Types
<1>4. ASSUME Adopt
      PROVE  Types'
  <2>1. scan.candidate \in Candidate
    BY <1>4 DEF Adopt, Types, Scan
  <2> DEFINE row == [track |-> scan.candidate.track, name |-> scan.candidate.name,
                     status |-> "imported", file |-> "present", adopted |-> TRUE]
  <2>2. row \in Claim
    BY <2>1 DEF Candidate, Claim
  <2>3. PICK p \in NewKey(claim) : claim' = [claim EXCEPT ![p] = row]
    BY <1>4 DEF Adopt
  <2> HIDE DEF row
  <2>4. p \in Plan
    BY DEF NewKey
  <2>5. claim' \in [Plan -> Claim \cup {None}]
    BY <2>2, <2>3, <2>4 DEF Types
  <2>6. owned' \subseteq Track
    BY <1>4, <2>1 DEF Adopt, Candidate, Types
  <2> QED
    BY <1>4, <2>5, <2>6 DEF Adopt, Types
<1>5. ASSUME EndScan
      PROVE  Types'
  BY <1>5 DEF EndScan, Types
<1>6. ASSUME RequeueScan \/ RecoverScan
      PROVE  Types'
  <2>1. scan \in Scan /\ scan' = [scan EXCEPT !.state = "queued", !.claimed = {}]
    BY <1>6 DEF RequeueScan, RecoverScan, Types
  <2>2. scan' \in Scan
    BY <2>1 DEF Scan
  <2> QED
    BY <1>6, <2>2 DEF RequeueScan, RecoverScan, Types
<1> QED
  BY <1>1, <1>2, <1>3, <1>4, <1>5, <1>6 DEF ScanStep

LEMMA WorldStepTyped ==
    ASSUME Types, RecoveryShape, WorldStep
    PROVE  Types'
<1> USE DEF rows, files, actors, counters
<1>1. ASSUME NEW n \in Name, UserDeletes(n)
      PROVE  Types'
  <2>1. dir' \in [Name -> File \cup {None}] /\ changes' \in Nat
    BY <1>1 DEF UserDeletes, Types
  <2> QED
    BY <1>1, <2>1 DEF UserDeletes, Types
<1>2. ASSUME NEW n \in Name, UserAdds(n)
      PROVE  Types'
  <2>1. dir' \in [Name -> File \cup {None}] /\ changes' \in Nat
    BY <1>2 DEF UserAdds, Types, NewFile, Unused
  <2> QED
    BY <1>2, <2>1 DEF UserAdds, Types
<1>3. ASSUME Crash
      PROVE  Types'
  <2>1. scan' \in Scan \cup {None}
    <3>1. scan # None => [scan EXCEPT !.state = "orphaned"] \in Scan
      BY DEF Types, Scan
    <3> QED
      BY <1>3, <3>1 DEF Crash, Types
  <2>2. /\ placed' \in [Track -> [plan : Plan, file : File] \cup {None}]
        /\ removal' \in [Removal -> RemovalState \cup {None}]
        /\ recovering' \subseteq Removal /\ crashes' \in Nat
    BY <1>3 DEF Crash, Types
  <2> QED
    BY <1>3, <2>1, <2>2 DEF Crash, Types
<1>4. ASSUME NEW r \in recovering, RestoreGroup(r)
      PROVE  Types'
  <2> DEFINE xs == journal[r].targets
             moved == {x \in xs : x.file # None /\ hidden[r][x.name] = x.file}
             stuck == {x \in moved : dir[x.name] # None}
                      \cup {x \in xs \ moved : x.file # None /\ dir[x.name] # x.file}
             back == {x \in moved : \A y \in stuck : y.plan < x.plan}
  <2>1. r \in Removal /\ xs \in SUBSET Target
    BY <1>4 DEF Types, RecoveryShape, Journal
  <2>2. back \in SUBSET Target
    BY <2>1
  <2>3. /\ dir' = WithRestored(back) /\ hidden' = WithoutRestored(r, back)
        /\ journal' = IF stuck = {} THEN [journal EXCEPT ![r] = None] ELSE journal
        /\ recovering' = recovering \ {r}
        /\ UNCHANGED <<claim, owned, backup, placed, retag, dedupe, removal, sweep, scan, counters>>
    BY <1>4 DEF RestoreGroup
  <2> HIDE DEF back, stuck
  <2>4. dir' \in [Name -> File \cup {None}] /\ hidden' \in [Removal -> [Name -> File \cup {None}]]
    BY <2>1, <2>2, <2>3, RestoredIsTyped
  <2>5. journal' \in [Removal -> Journal \cup {None}] /\ recovering' \subseteq Removal
    BY <2>3 DEF Types
  <2> QED
    BY <2>3, <2>4, <2>5 DEF Types
<1>5. ASSUME NEW r \in recovering, NEW failed, EraseGroup(r, failed)
      PROVE  Types'
  <2>1. r \in Removal
    BY DEF Types
  <2>2. dir' \in [Name -> File \cup {None}] /\ hidden' \in [Removal -> [Name -> File \cup {None}]]
    BY <1>5, <2>1, ErasedAreLost DEF Types
  <2>3. journal' \in [Removal -> Journal \cup {None}] /\ recovering' \subseteq Removal
    BY <1>5 DEF EraseGroup, Types
  <2> QED
    BY <1>5, <2>2, <2>3 DEF EraseGroup, Types
<1> QED
  BY <1>1, <1>2, <1>3, <1>4, <1>5 DEF WorldStep, Recover

-----------------------------------------------------------------------------
(* Where the files are: what each way of moving them keeps, for whatever   *)
(* lies in the folder (d), under names of removals (h) and in backups (b). *)

OnePlace(d, h, b) ==
    /\ \A m, n \in Name : d[m] # None /\ d[m] = d[n] => m = n
    /\ \A m, n \in Name, r, q \in Removal :
           h[r][n] # None => /\ h[r][n] # d[m]
                             /\ h[r][n] = h[q][m] => r = q /\ n = m
    /\ \A x, y \in b : x.file = y.file => x = y
    /\ \A x \in b, n \in Name : x.file # d[n] /\ \A r \in Removal : x.file # h[r][n]

Folder == [Name -> File \cup {None}]
Spaces == [Removal -> Folder]

LEMMA OnePlaceHere == EachInOnePlace <=> OnePlace(dir, hidden, backup)
  BY DEF EachInOnePlace, OnePlace

LEMMA OnePlaceNext == EachInOnePlace' <=> OnePlace(dir', hidden', backup')
  BY DEF EachInOnePlace, OnePlace

(* Files are unlinked.                                                     *)
LEMMA Unlinked ==
    ASSUME NEW d \in Folder, NEW h \in Spaces, NEW b \in SUBSET Saved, OnePlace(d, h, b),
           NEW d2 \in Folder, NEW h2 \in Spaces, NEW b2 \in SUBSET b,
           \A n \in Name : d2[n] \in {d[n], None},
           \A q \in Removal, n \in Name : h2[q][n] \in {h[q][n], None}
    PROVE  /\ OnePlace(d2, h2, b2)
           /\ \A r \in Removal, n \in Name, f \in File :
                  IsGone(d, h, b, r, f, n) => IsGone(d2, h2, b2, r, f, n)
<1>0. None \notin File /\ \A x \in b : x.file \in File
  BY DEF Saved
<1>1. \A m, n \in Name : d2[m] # None /\ d2[m] = d2[n] => m = n
  BY DEF OnePlace
<1>2. \A m, n \in Name, r, q \in Removal :
          h2[r][n] # None => h2[r][n] # d2[m] /\ (h2[r][n] = h2[q][m] => r = q /\ n = m)
  <2> SUFFICES ASSUME NEW m \in Name, NEW n \in Name, NEW r \in Removal, NEW q \in Removal,
                      h2[r][n] # None
               PROVE  h2[r][n] # d2[m] /\ (h2[r][n] = h2[q][m] => r = q /\ n = m)
    OBVIOUS
  <2>1. /\ h2[r][n] = h[r][n] /\ h2[q][m] \in {h[q][m], None} /\ d2[m] \in {d[m], None}
    OBVIOUS
  <2>2. h[r][n] # None => h[r][n] # d[m] /\ (h[r][n] = h[q][m] => r = q /\ n = m)
    BY DEF OnePlace
  <2> QED
    BY <2>1, <2>2
<1>3. \A x, y \in b2 : x.file = y.file => x = y
  BY DEF OnePlace
<1>4. \A x \in b2, n \in Name : x.file # d2[n] /\ \A r \in Removal : x.file # h2[r][n]
  <2> SUFFICES ASSUME NEW x \in b2, NEW n \in Name
               PROVE  x.file # d2[n] /\ \A r \in Removal : x.file # h2[r][n]
    OBVIOUS
  <2>1. x.file # d[n] /\ x.file # None /\ \A r \in Removal : x.file # h[r][n]
    BY <1>0 DEF OnePlace
  <2>2. d2[n] \in {d[n], None} /\ \A r \in Removal : h2[r][n] \in {h[r][n], None}
    OBVIOUS
  <2> QED
    BY <2>1, <2>2
<1>5. ASSUME NEW r \in Removal, NEW n \in Name, NEW f \in File, IsGone(d, h, b, r, f, n)
      PROVE  IsGone(d2, h2, b2, r, f, n)
  <2>1. \A m \in Name : d2[m] # f
    BY <1>0, <1>5 DEF IsGone
  <2>2. \A x \in b2 : x.file # f
    BY <1>5 DEF IsGone
  <2>3. \A q \in Removal, m \in Name : h2[q][m] = f => q = r /\ m = n
    BY <1>0, <1>5 DEF IsGone
  <2> QED
    BY <2>1, <2>2, <2>3 DEF IsGone
<1> QED
  BY <1>1, <1>2, <1>3, <1>4, <1>5 DEF OnePlace

(* A new file appears, or one that lay elsewhere and does not any more.    *)
LEMMA Appeared ==
    ASSUME NEW d \in Folder, NEW h \in Spaces, NEW b \in SUBSET Saved, OnePlace(d, h, b),
           NEW m \in Name, NEW f \in File,
           \A n \in Name : d[n] # f, \A q \in Removal, n \in Name : h[q][n] # f,
           \A x \in b : x.file # f
    PROVE  /\ OnePlace([d EXCEPT ![m] = f], h, b)
           /\ \A r \in Removal, n \in Name, g \in File \ {f} :
                  IsGone(d, h, b, r, g, n) => IsGone([d EXCEPT ![m] = f], h, b, r, g, n)
<1> DEFINE d2 == [d EXCEPT ![m] = f]
<1>1. \A n \in Name : d2[n] = IF n = m THEN f ELSE d[n]
  BY DEF Folder
<1>2. \A k, n \in Name : d2[k] # None /\ d2[k] = d2[n] => k = n
  BY <1>1 DEF OnePlace
<1>3. \A k, n \in Name, r, q \in Removal :
          h[r][n] # None => h[r][n] # d2[k] /\ (h[r][n] = h[q][k] => r = q /\ n = k)
  BY <1>1 DEF OnePlace
<1>4. \A x \in b, n \in Name : x.file # d2[n] /\ \A r \in Removal : x.file # h[r][n]
  BY <1>1 DEF OnePlace
<1>5. ASSUME NEW r \in Removal, NEW n \in Name, NEW g \in File \ {f}, IsGone(d, h, b, r, g, n)
      PROVE  IsGone(d2, h, b, r, g, n)
  BY <1>1, <1>5 DEF IsGone
<1> HIDE DEF d2
<1>6. OnePlace(d2, h, b)
  BY <1>2, <1>3, <1>4 DEF OnePlace
<1> QED
  BY <1>5, <1>6 DEF d2

(* A file of the folder goes out of sight.                                 *)
LEMMA HiddenAway ==
    ASSUME NEW d \in Folder, NEW h \in Spaces, NEW b \in SUBSET Saved, OnePlace(d, h, b),
           NEW m \in Name, d[m] # None, NEW r \in Removal
    PROVE  /\ OnePlace([d EXCEPT ![m] = None], [h EXCEPT ![r][m] = d[m]], b)
           /\ \A q \in Removal, n \in Name, g \in File : IsGone(d, h, b, q, g, n) =>
                  IsGone([d EXCEPT ![m] = None], [h EXCEPT ![r][m] = d[m]], b, q, g, n)
<1> DEFINE d2 == [d EXCEPT ![m] = None]
           h2 == [h EXCEPT ![r][m] = d[m]]
<1>1. \A n \in Name : d2[n] = IF n = m THEN None ELSE d[n]
  BY DEF Folder
<1>2. \A q \in Removal, n \in Name : h2[q][n] = IF q = r /\ n = m THEN d[m] ELSE h[q][n]
  BY DEF Folder, Spaces
<1>3. \A k, n \in Name : d2[k] # None /\ d2[k] = d2[n] => k = n
  BY <1>1 DEF OnePlace
<1> HIDE DEF d2, h2
<1>4. \A k, n \in Name, p, q \in Removal :
          h2[p][n] # None => h2[p][n] # d2[k] /\ (h2[p][n] = h2[q][k] => p = q /\ n = k)
  <2> SUFFICES ASSUME NEW k \in Name, NEW n \in Name, NEW p \in Removal, NEW q \in Removal,
                      h2[p][n] # None
               PROVE  h2[p][n] # d2[k] /\ (h2[p][n] = h2[q][k] => p = q /\ n = k)
    OBVIOUS
  <2>1. CASE p = r /\ n = m
    BY <1>1, <1>2, <2>1 DEF OnePlace
  <2>2. CASE ~(p = r /\ n = m)
    BY <1>1, <1>2, <2>2 DEF OnePlace
  <2> QED
    BY <2>1, <2>2
<1>5. \A x \in b, n \in Name : x.file # d2[n] /\ \A q \in Removal : x.file # h2[q][n]
  BY <1>1, <1>2 DEF OnePlace, Saved
<1>6. ASSUME NEW q \in Removal, NEW n \in Name, NEW g \in File, IsGone(d, h, b, q, g, n)
      PROVE  IsGone(d2, h2, b, q, g, n)
  BY <1>1, <1>2, <1>6 DEF IsGone
<1>7. OnePlace(d2, h2, b)
  BY <1>3, <1>4, <1>5 DEF OnePlace
<1> QED
  BY <1>6, <1>7 DEF d2, h2

(* Re-tagging puts a file of the folder by.                                *)
LEMMA PutBy ==
    ASSUME NEW d \in Folder, NEW h \in Spaces, NEW b \in SUBSET Saved, OnePlace(d, h, b),
           NEW m \in Name, d[m] # None
    PROVE  /\ OnePlace([d EXCEPT ![m] = None], h, b \cup {[name |-> m, file |-> d[m]]})
           /\ \A r \in Removal, n \in Name, g \in File : IsGone(d, h, b, r, g, n) =>
                  IsGone([d EXCEPT ![m] = None], h, b \cup {[name |-> m, file |-> d[m]]}, r, g, n)
<1> DEFINE d2 == [d EXCEPT ![m] = None]
           new == [name |-> m, file |-> d[m]]
           b2 == b \cup {new}
<1>1. \A n \in Name : d2[n] = IF n = m THEN None ELSE d[n]
  BY DEF Folder
<1>2. new.file = d[m] /\ new.file # None
  OBVIOUS
<1>3. \A x \in b : x.file # d[m] /\ x.file # None
  BY DEF OnePlace, Saved
<1>4. \A k, n \in Name : d2[k] # None /\ d2[k] = d2[n] => k = n
  BY <1>1 DEF OnePlace
<1> HIDE DEF d2, new
<1>5. \A k, n \in Name, r, q \in Removal :
          h[r][n] # None => h[r][n] # d2[k] /\ (h[r][n] = h[q][k] => r = q /\ n = k)
  BY <1>1 DEF OnePlace
<1>6. \A x, y \in b2 : x.file = y.file => x = y
  BY <1>2, <1>3 DEF OnePlace
<1>7. \A x \in b2, n \in Name : x.file # d2[n] /\ \A q \in Removal : x.file # h[q][n]
  <2>1. ASSUME NEW x \in b, NEW n \in Name
        PROVE  x.file # d2[n] /\ \A q \in Removal : x.file # h[q][n]
    BY <1>1, <1>3 DEF OnePlace
  <2>2. ASSUME NEW n \in Name
        PROVE  new.file # d2[n] /\ \A q \in Removal : new.file # h[q][n]
    BY <1>1, <1>2 DEF OnePlace
  <2> QED
    BY <2>1, <2>2
<1>8. ASSUME NEW r \in Removal, NEW n \in Name, NEW g \in File, IsGone(d, h, b, r, g, n)
      PROVE  IsGone(d2, h, b2, r, g, n)
  <2>1. \A k \in Name : d2[k] # g
    BY <1>1, <1>8 DEF IsGone
  <2>2. \A x \in b2 : x.file # g
    <3>1. d[m] # g /\ \A x \in b : x.file # g
      BY <1>8 DEF IsGone
    <3> QED
      BY <1>2, <3>1
  <2>3. \A q \in Removal, k \in Name : h[q][k] = g => q = r /\ k = n
    BY <1>8 DEF IsGone
  <2> QED
    BY <2>1, <2>2, <2>3 DEF IsGone
<1> HIDE DEF b2
<1>9. OnePlace(d2, h, b2)
  BY <1>4, <1>5, <1>6, <1>7 DEF OnePlace
<1> QED
  BY <1>8, <1>9 DEF d2, b2, new

(* Files under names of the removal r come back to the names ns.           *)
IsPutBack(d, h, d2, h2, r, ns) ==
    /\ \A n \in ns : d[n] = None /\ h[r][n] # None
    /\ \A n \in Name : d2[n] = IF n \in ns THEN h[r][n] ELSE d[n]
    /\ \A q \in Removal, n \in Name : h2[q][n] = IF q = r /\ n \in ns THEN None ELSE h[q][n]

LEMMA PutBack ==
    ASSUME NEW d \in Folder, NEW h \in Spaces, NEW b \in SUBSET Saved, OnePlace(d, h, b),
           NEW r \in Removal, NEW ns \in SUBSET Name,
           NEW d2 \in Folder, NEW h2 \in Spaces, IsPutBack(d, h, d2, h2, r, ns)
    PROVE  /\ OnePlace(d2, h2, b)
           /\ \A q \in Removal \ {r}, n \in Name, g \in File :
                  IsGone(d, h, b, q, g, n) => IsGone(d2, h2, b, q, g, n)
<1> USE DEF IsPutBack
<1>1. \A k, n \in Name : d2[k] # None /\ d2[k] = d2[n] => k = n
  <2> SUFFICES ASSUME NEW k \in Name, NEW n \in Name, d2[k] # None, d2[k] = d2[n]
               PROVE  k = n
    OBVIOUS
  <2>1. CASE k \in ns
    BY <2>1 DEF OnePlace
  <2>2. CASE n \in ns
    BY <2>2 DEF OnePlace
  <2>3. CASE k \notin ns /\ n \notin ns
    BY <2>3 DEF OnePlace
  <2> QED
    BY <2>1, <2>2, <2>3
<1>2. \A k, n \in Name, p, q \in Removal :
          h2[p][n] # None => h2[p][n] # d2[k] /\ (h2[p][n] = h2[q][k] => p = q /\ n = k)
  <2> SUFFICES ASSUME NEW k \in Name, NEW n \in Name, NEW p \in Removal, NEW q \in Removal,
                      h2[p][n] # None
               PROVE  h2[p][n] # d2[k] /\ (h2[p][n] = h2[q][k] => p = q /\ n = k)
    OBVIOUS
  <2>1. h2[p][n] = h[p][n] /\ ~(p = r /\ n \in ns)
    OBVIOUS
  <2>2. CASE k \in ns
    BY <2>1, <2>2 DEF OnePlace
  <2>3. CASE k \notin ns
    BY <2>1, <2>3 DEF OnePlace
  <2> QED
    BY <2>2, <2>3
<1>3. \A x \in b, n \in Name : x.file # d2[n] /\ \A q \in Removal : x.file # h2[q][n]
  BY DEF OnePlace, Saved
<1>4. ASSUME NEW q \in Removal \ {r}, NEW n \in Name, NEW g \in File, IsGone(d, h, b, q, g, n)
      PROVE  IsGone(d2, h2, b, q, g, n)
  <2>1. \A k \in Name : d2[k] # g
    BY <1>4 DEF IsGone
  <2>2. \A p \in Removal, k \in Name : h2[p][k] = g => p = q /\ k = n
    BY <1>4 DEF IsGone
  <2> QED
    BY <1>4, <2>1, <2>2 DEF IsGone
<1> QED
  BY <1>1, <1>2, <1>3, <1>4 DEF OnePlace

(* The backups that a re-tagging has made come back.                       *)
LEMMA Returned ==
    ASSUME NEW d \in Folder, NEW h \in Spaces, NEW b \in SUBSET Saved, OnePlace(d, h, b),
           NEW back \in SUBSET b, NEW d2 \in Folder,
           \A n \in Name : \/ d2[n] \in {d[n], None}
                           \/ \E x \in back : x.name = n /\ d2[n] = x.file
    PROVE  /\ OnePlace(d2, h, b \ back)
           /\ \A r \in Removal, n \in Name, g \in File :
                  IsGone(d, h, b, r, g, n) => IsGone(d2, h, b \ back, r, g, n)
<1>0. \A x \in b : x.file \in File /\ x.name \in Name /\ x.file # None
  BY DEF Saved
<1>6. /\ \A k, n \in Name : d[k] # None /\ d[k] = d[n] => k = n
      /\ \A x, y \in back : x.file = y.file => x = y
      /\ \A x \in back, n \in Name : x.file # d[n]
  BY DEF OnePlace
<1>1. \A k, n \in Name : d2[k] # None /\ d2[k] = d2[n] => k = n
  <2> SUFFICES ASSUME NEW k \in Name, NEW n \in Name, d2[k] # None, d2[k] = d2[n]
               PROVE  k = n
    OBVIOUS
  <2>1. /\ d2[k] = d[k] \/ \E x \in back : x.name = k /\ d2[k] = x.file
        /\ d2[n] = d[n] \/ \E x \in back : x.name = n /\ d2[n] = x.file
    OBVIOUS
  <2>2. CASE d2[k] = d[k] /\ d2[n] = d[n]
    BY <1>6, <2>2, ZenonT(30)
  <2>3. CASE d2[k] # d[k] \/ d2[n] # d[n]
    <3>1. PICK x \in back, y \in back : x.name = k /\ y.name = n /\ x.file = d2[k] /\ y.file = d2[k]
      BY <1>6, <2>1, <2>3
    <3> QED
      BY <1>6, <3>1
  <2> QED
    BY <2>2, <2>3
<1>2. \A k, n \in Name, p, q \in Removal :
          h[p][n] # None => h[p][n] # d2[k] /\ (h[p][n] = h[q][k] => p = q /\ n = k)
  BY DEF OnePlace
<1>3. \A x \in b \ back, n \in Name : x.file # d2[n] /\ \A q \in Removal : x.file # h[q][n]
  <2> SUFFICES ASSUME NEW x \in b \ back, NEW n \in Name
               PROVE  x.file # d2[n]
    BY DEF OnePlace
  <2>1. x.file # d[n] /\ x.file # None /\ \A y \in back : x.file # y.file
    BY <1>0 DEF OnePlace
  <2> QED
    BY <2>1
<1>4. ASSUME NEW r \in Removal, NEW n \in Name, NEW g \in File, IsGone(d, h, b, r, g, n)
      PROVE  IsGone(d2, h, b \ back, r, g, n)
  <2>1. \A k \in Name : d2[k] # g
    BY <1>4 DEF IsGone
  <2> QED
    BY <1>4, <2>1 DEF IsGone
<1>5. \A x, y \in b \ back : x.file = y.file => x = y
  BY DEF OnePlace
<1> QED
  BY <1>1, <1>2, <1>3, <1>4, <1>5 DEF OnePlace

(* What a new file is not.                                                 *)
LEMMA NewIsNew ==
    ASSUME Types, NEW f \in NewFile
    PROVE  /\ f \in File
           /\ \A n \in Name : dir[n] # f
           /\ \A r \in Removal, n \in Name : hidden[r][n] # f
           /\ \A x \in backup : x.file # f
           /\ \A r \in Removal : journal[r] # None => \A x \in journal[r].targets : x.file # f
<1>1. f \in File /\ f \notin Existing /\ f \notin Recalled /\ f # None
  BY DEF NewFile, Unused
<1>2. \A r \in Removal : journal[r] # None => \A x \in journal[r].targets : x.file # f
  <2>1. \A x \in UNION {journal[r].targets : r \in {q \in Removal : journal[q] # None}} :
            x.file \in Recalled
    BY Zenon DEF Recalled
  <2> QED
    BY <1>1, <2>1
<1>3. /\ \A n \in Name : dir[n] \in Existing \cup {None}
      /\ \A r \in Removal, n \in Name : hidden[r][n] \in Existing \cup {None}
      /\ \A x \in backup : x.file \in Existing \cup {None}
  BY DEF Existing, Hidden
<1> QED
  BY <1>1, <1>2, <1>3

(* When a step moves files, and marks no group as committed.               *)
LEMMA StillGone ==
    ASSUME Types, CondemnedAreGone,
           \A r \in Removal : IsCommitted(r)' =>
               IsCommitted(r) /\ journal'[r].targets \subseteq journal[r].targets,
           \A r \in Removal : IsCommitted(r) => \A x \in journal[r].targets :
               x.file \in File /\ x.name \in Name /\ IsGone(dir, hidden, backup, r, x.file, x.name)
               => IsGone(dir', hidden', backup', r, x.file, x.name)
    PROVE  CondemnedAreGone'
<1>1. ASSUME NEW r \in Removal, IsCommitted(r)', NEW x \in journal'[r].targets, x.file # None
      PROVE  IsGone(dir', hidden', backup', r, x.file, x.name)
  <2>1. IsCommitted(r) /\ x \in journal[r].targets
    BY <1>1
  <2>2. x \in Target
    BY <2>1 DEF IsCommitted, Types, Journal
  <2>3. x.file \in File /\ x.name \in Name
    BY <1>1, <2>2 DEF Target
  <2>4. IsGone(dir, hidden, backup, r, x.file, x.name)
    BY <1>1, <2>1 DEF CondemnedAreGone
  <2> QED
    BY <2>1, <2>3, <2>4
<1> QED
  BY <1>1 DEF CondemnedAreGone

Places == EachInOnePlace /\ CondemnedAreGone

LEMMA SameFiles ==
    ASSUME Places, UNCHANGED <<files, journal>>
    PROVE  Places'
  BY DEF Places, EachInOnePlace, CondemnedAreGone, IsCommitted, IsGone, files

LEMMA TypedPlaces ==
    ASSUME Types
    PROVE  dir \in Folder /\ hidden \in Spaces /\ backup \in SUBSET Saved
  BY DEF Types, Folder, Spaces

(* The same three lemmas for the variables.                                *)
LEMMA UnlinkedHere ==
    ASSUME Types, Types', Places, backup' \subseteq backup,
           \A r \in Removal : IsCommitted(r)' =>
               IsCommitted(r) /\ journal'[r].targets \subseteq journal[r].targets,
           \A n \in Name : dir'[n] \in {dir[n], None},
           \A q \in Removal, n \in Name : hidden'[q][n] \in {hidden[q][n], None}
    PROVE  Places'
<1>1. /\ dir \in Folder /\ hidden \in Spaces /\ backup \in SUBSET Saved
      /\ dir' \in Folder /\ hidden' \in Spaces
  BY DEF Types, Folder, Spaces
<1>2. OnePlace(dir, hidden, backup)
  BY OnePlaceHere DEF Places
<1>3. /\ OnePlace(dir', hidden', backup')
      /\ \A r \in Removal, n \in Name, f \in File :
             IsGone(dir, hidden, backup, r, f, n) => IsGone(dir', hidden', backup', r, f, n)
  BY <1>1, <1>2, Unlinked
<1>4. CondemnedAreGone'
  BY <1>3, StillGone DEF Places
<1> QED
  BY <1>3, <1>4, OnePlaceNext DEF Places

LEMMA AppearedHere ==
    ASSUME Types, Places, NEW f \in NewFile, NEW m \in Name, dir' = [dir EXCEPT ![m] = f],
           UNCHANGED <<hidden, backup>>,
           \A r \in Removal : IsCommitted(r)' =>
               IsCommitted(r) /\ journal'[r].targets \subseteq journal[r].targets
    PROVE  Places'
<1>1. OnePlace(dir, hidden, backup)
  BY OnePlaceHere DEF Places
<1>2. /\ OnePlace(dir', hidden, backup)
      /\ \A r \in Removal, n \in Name, g \in File \ {f} :
             IsGone(dir, hidden, backup, r, g, n) => IsGone(dir', hidden, backup, r, g, n)
  BY <1>1, NewIsNew, TypedPlaces, Appeared
<1>3. ASSUME NEW r \in Removal, IsCommitted(r), NEW x \in journal[r].targets, x.file \in File,
             x.name \in Name, IsGone(dir, hidden, backup, r, x.file, x.name)
      PROVE  IsGone(dir', hidden', backup', r, x.file, x.name)
  <2>1. x.file # f
    BY <1>3, NewIsNew DEF IsCommitted
  <2> QED
    BY <1>2, <1>3, <2>1
<1>4. CondemnedAreGone'
  BY <1>3, StillGone DEF Places
<1> QED
  BY <1>2, <1>4, OnePlaceNext DEF Places

LEMMA ImportStepPlaces ==
    ASSUME Types, Types', Places, ImportStep
    PROVE  Places'
<1> USE DEF files
<1>1. ASSUME NEW t \in Track, PlanImport(t)
      PROVE  Places'
  <2> DEFINE gone == {p \in Rows : claim[p].track = t /\ claim[p].status # "imported"}
             left(j) == {x \in j.targets : x.plan \notin gone}
  <2>1. journal' = [r \in Removal |-> IF journal[r] = None \/ left(journal[r]) = {} THEN None
                                      ELSE [journal[r] EXCEPT !.targets = left(journal[r])]]
    BY <1>1 DEF PlanImport
  <2>2. \A j : left(j) \subseteq j.targets
    OBVIOUS
  <2> HIDE DEF left
  <2>3. ASSUME NEW r \in Removal, IsCommitted(r)'
        PROVE  IsCommitted(r) /\ journal'[r].targets \subseteq journal[r].targets
    <3>1. journal[r] # None /\ journal'[r] = [journal[r] EXCEPT !.targets = left(journal[r])]
      BY <2>1, <2>3 DEF IsCommitted
    <3>2. journal[r] \in Journal
      BY <3>1 DEF Types
    <3> QED
      BY <2>2, <2>3, <3>1, <3>2 DEF IsCommitted, Journal
  <2> QED
    BY <1>1, <2>3, UnlinkedHere DEF PlanImport
<1>2. ASSUME NEW t \in Track, NEW p \in Plan, PlaceImport(t, p)
      PROVE  Places'
  <2>1. claim[p].name \in Name
    BY <1>2 DEF PlaceImport, Rows, Types, Claim
  <2> QED
    BY <1>2, <2>1, AppearedHere DEF PlaceImport, IsCommitted, rows
<1>3. ASSUME NEW t \in Track, CommitImport(t)
      PROVE  Places'
  <2>1. UNCHANGED <<journal, hidden, backup>> /\ \A n \in Name : dir'[n] \in {dir[n], None}
    BY <1>3 DEF CommitImport, WithoutLosers
  <2> QED
    BY <2>1, UnlinkedHere DEF IsCommitted
<1>4. ASSUME NEW t \in Track, NEW recorded \in BOOLEAN, RollBackImport(t, recorded)
      PROVE  Places'
  <2>1. UNCHANGED <<journal, hidden, backup>> /\ \A n \in Name : dir'[n] \in {dir[n], None}
    BY <1>4 DEF RollBackImport, Types
  <2> QED
    BY <2>1, UnlinkedHere DEF IsCommitted
<1>5. ASSUME NEW p \in Plan, FailImport(p)
      PROVE  Places'
  BY <1>5, SameFiles DEF FailImport
<1> QED
  BY <1>1, <1>2, <1>3, <1>4, <1>5 DEF ImportStep

LEMMA DedupeStepPlaces ==
    ASSUME Types, Types', Places, DedupeStep
    PROVE  Places'
<1> USE DEF files, rows
<1>1. CASE FindDuplicates
  BY <1>1, SameFiles DEF FindDuplicates
<1>2. CASE DropDuplicates
  <2>1. UNCHANGED <<journal, hidden, backup>> /\ \A n \in Name : dir'[n] \in {dir[n], None}
    BY <1>2 DEF DropDuplicates, WithoutLosers
  <2> QED
    BY <2>1, UnlinkedHere DEF IsCommitted
<1> QED
  BY <1>1, <1>2 DEF DedupeStep

LEMMA RetagStepPlaces ==
    ASSUME Types, Types', Places, RetagShape, RetagStep
    PROVE  Places'
<1> USE DEF files, rows
<1>0. /\ dir \in Folder /\ hidden \in Spaces /\ backup \in SUBSET Saved
      /\ OnePlace(dir, hidden, backup)
  BY TypedPlaces, OnePlaceHere DEF Places
<1>1. CASE ReadRetag
  BY <1>1, SameFiles DEF ReadRetag
<1>2. CASE PrepareRetag
  BY <1>2, SameFiles DEF PrepareRetag
<1>3. ASSUME NEW x \in Todo, WithdrawFile(x)
      PROVE  Places'
  <2>1. x \in Move /\ x.file # None /\ x.file = dir[x.from] /\ x.from \in Name
    BY <1>3 DEF Todo, Types, Retag, RetagShape, WithdrawFile, Move
  <2>2. /\ dir' = [dir EXCEPT ![x.from] = None] /\ UNCHANGED <<hidden, journal>>
        /\ backup' = backup \cup {[name |-> x.from, file |-> dir[x.from]]}
    BY <1>3, <2>1 DEF WithdrawFile
  <2>3. /\ OnePlace(dir', hidden', backup')
        /\ \A r \in Removal, n \in Name, g \in File :
               IsGone(dir, hidden, backup, r, g, n) => IsGone(dir', hidden', backup', r, g, n)
    BY <1>0, <2>1, <2>2, PutBy
  <2>4. CondemnedAreGone'
    BY <2>2, <2>3, StillGone DEF Places, IsCommitted
  <2> QED
    BY <2>3, <2>4, OnePlaceNext DEF Places
<1>4. CASE PublishFile
  <2>1. retag.next.to \in Name
    BY <1>4 DEF PublishFile, Types, Retag, Move
  <2> QED
    BY <1>4, <2>1, AppearedHere DEF PublishFile, IsCommitted
<1>5. CASE CommitRetag
  <2>1. UNCHANGED <<journal, hidden, dir>> /\ backup' \subseteq backup
    BY <1>5 DEF CommitRetag
  <2> QED
    BY <2>1, UnlinkedHere DEF IsCommitted
<1>6. CASE RollBackRetag
  <2> DEFINE back == {b \in retag.saved : b \in backup}
  <2>1. /\ UNCHANGED <<journal, hidden>> /\ backup' = backup \ back
        /\ dir' = [n \in Name |-> IF \E b \in back : b.name = n
                                  THEN (CHOOSE b \in back : b.name = n).file
                                  ELSE IF \E x \in retag.made : x.to = n THEN None ELSE dir[n]]
    BY <1>6 DEF RollBackRetag
  <2>2. back \in SUBSET backup /\ dir' \in Folder
    BY DEF Types, Folder
  <2> HIDE DEF back
  <2>3. \A n \in Name : \/ dir'[n] \in {dir[n], None}
                        \/ \E x \in back : x.name = n /\ dir'[n] = x.file
    BY <2>1
  <2>4. /\ OnePlace(dir', hidden, backup \ back)
        /\ \A r \in Removal, n \in Name, g \in File :
               IsGone(dir, hidden, backup, r, g, n) => IsGone(dir', hidden, backup \ back, r, g, n)
    BY <1>0, <2>2, <2>3, Returned
  <2>5. CondemnedAreGone'
    BY <2>1, <2>4, StillGone DEF Places, IsCommitted
  <2> QED
    BY <2>1, <2>4, <2>5, OnePlaceNext DEF Places
<1> QED
  BY <1>1, <1>2, <1>3, <1>4, <1>5, <1>6 DEF RetagStep

(* Names to which staged files of the removal r can return.                *)
LEMMA RestoredPlaces ==
    ASSUME Types, Places, NEW r \in Removal, NEW xs \in SUBSET Target,
           \A x \in xs : x.file # None => hidden[r][x.name] = x.file
    PROVE  /\ WithRestored(xs) \in Folder /\ WithoutRestored(r, xs) \in Spaces
           /\ OnePlace(WithRestored(xs), WithoutRestored(r, xs), backup)
           /\ \A q \in Removal \ {r}, n \in Name, g \in File :
                  IsGone(dir, hidden, backup, q, g, n)
                  => IsGone(WithRestored(xs), WithoutRestored(r, xs), backup, q, g, n)
           /\ \A n \in Name : dir[n] # None => WithRestored(xs)[n] = dir[n]
<1> DEFINE ns == {n \in Name : \E x \in Restored(xs) : x.name = n}
           d2 == WithRestored(xs)
           h2 == WithoutRestored(r, xs)
<1>1. d2 \in Folder /\ h2 \in Spaces
  BY RestoredIsTyped DEF Folder, Spaces
<1>2. \A n \in ns : dir[n] = None /\ hidden[r][n] # None
  BY DEF Restored
<1>3. \A n \in Name : d2[n] = IF n \in ns THEN hidden[r][n] ELSE dir[n]
  <2>1. ASSUME NEW n \in ns
        PROVE  (CHOOSE x \in Restored(xs) : x.name = n).file = hidden[r][n]
    <3>1. (CHOOSE x \in Restored(xs) : x.name = n) \in Restored(xs)
          /\ (CHOOSE x \in Restored(xs) : x.name = n).name = n
      OBVIOUS
    <3> QED
      BY <3>1 DEF Restored
  <2> QED
    BY <2>1 DEF WithRestored
<1>4. \A q \in Removal, n \in Name : h2[q][n] = IF q = r /\ n \in ns THEN None ELSE hidden[q][n]
  BY DEF WithoutRestored, Types
<1>5. dir \in Folder /\ hidden \in Spaces /\ backup \in SUBSET Saved /\ OnePlace(dir, hidden, backup)
  BY TypedPlaces, OnePlaceHere DEF Places
<1> HIDE DEF ns, d2, h2
<1>6. ns \in SUBSET Name
  BY DEF ns
<1>7. /\ OnePlace(d2, h2, backup)
      /\ \A q \in Removal \ {r}, n \in Name, g \in File :
             IsGone(dir, hidden, backup, q, g, n) => IsGone(d2, h2, backup, q, g, n)
  <2>1. IsPutBack(dir, hidden, d2, h2, r, ns)
    BY <1>2, <1>3, <1>4 DEF IsPutBack
  <2> QED
    BY <1>1, <1>5, <1>6, <2>1, PutBack
<1>8. \A n \in Name : dir[n] # None => d2[n] = dir[n]
  BY <1>2, <1>3
<1> QED
  BY <1>1, <1>7, <1>8 DEF d2, h2

LEMMA RestoredHere ==
    ASSUME Types, Places, NEW r \in Removal, NEW xs \in SUBSET Target, ~IsCommitted(r),
           \A x \in xs : x.file # None => hidden[r][x.name] = x.file,
           dir' = WithRestored(xs), hidden' = WithoutRestored(r, xs), backup' = backup,
           \A q \in Removal : IsCommitted(q)' =>
               IsCommitted(q) /\ journal'[q].targets \subseteq journal[q].targets
    PROVE  Places'
<1>1. /\ OnePlace(dir', hidden', backup')
      /\ \A q \in Removal \ {r}, n \in Name, g \in File :
             IsGone(dir, hidden, backup, q, g, n) => IsGone(dir', hidden', backup', q, g, n)
  BY RestoredPlaces
<1>2. CondemnedAreGone'
  BY <1>1, StillGone DEF Places
<1> QED
  BY <1>1, <1>2, OnePlaceNext DEF Places

LEMMA RemovalStepPlaces ==
    ASSUME Types, Types', Places, RemovalShape, RemovalStep
    PROVE  Places'
<1> USE DEF files, rows
<1> PICK r \in Removal : StepOf(r)
  BY DEF RemovalStep, StepOf
<1>a. /\ dir \in Folder /\ hidden \in Spaces /\ backup \in SUBSET Saved
      /\ OnePlace(dir, hidden, backup)
  BY TypedPlaces, OnePlaceHere DEF Places
<1>b. \A x \in Left(r) : x \in Target /\ x.name \in Name /\ x.file \in File \cup {None}
  BY DEF Left, Types, RemovalState, Target
<1>c. Step(r, "stage") => /\ ~IsCommitted(r) /\ HasStaged(r) /\ IsOpen(r)
                          /\ removal[r].done \in SUBSET Target
                          /\ removal[r].done \subseteq removal[r].targets
  <2> SUFFICES ASSUME Step(r, "stage")
               PROVE  /\ ~IsCommitted(r) /\ HasStaged(r) /\ IsOpen(r)
                      /\ removal[r].done \in SUBSET Target
                      /\ removal[r].done \subseteq removal[r].targets
    OBVIOUS
  <2>1. ShapeOf(r) /\ removal[r] # None /\ removal[r].step = "stage"
    BY DEF RemovalShape, Step
  <2>2. HasStaged(r) /\ IsOpen(r) /\ removal[r].done \subseteq removal[r].targets
    BY <2>1 DEF ShapeOf
  <2>3. removal[r].done \in SUBSET Target
    BY <2>1 DEF Types, RemovalState
  <2>4. ~IsCommitted(r)
    BY <2>1, <2>2 DEF IsOpen, IsCommitted
  <2> QED
    BY <2>2, <2>3, <2>4
<1>1. ASSUME NEW plans \in SUBSET Plan, ReadRemoval(r, plans)
      PROVE  Places'
  BY <1>1, SameFiles DEF ReadRemoval
<1>2. CASE OpenRemoval(r)
  <2>1. journal[r] = None
    BY <1>2 DEF OpenRemoval, Step, RemovalShape, ShapeOf, IsUntouched
  <2>2. ASSUME NEW q \in Removal, IsCommitted(q)'
        PROVE  IsCommitted(q) /\ journal'[q] = journal[q]
    BY <1>2, <2>1, <2>2 DEF OpenRemoval, IsCommitted, Types
  <2>3. UNCHANGED <<dir, hidden, backup>>
    BY <1>2 DEF OpenRemoval
  <2> QED
    BY <2>2, <2>3, UnlinkedHere
<1>3. CASE RefuseRemoval(r)
  BY <1>3, SameFiles DEF RefuseRemoval
<1>4. ASSUME NEW x \in Left(r), Stage(r, x)
      PROVE  Places'
  <2>1. CASE x.file = None
    <3>1. UNCHANGED <<dir, backup, journal>> /\ hidden' = [hidden EXCEPT ![r][x.name] = None]
      BY <1>4, <2>1 DEF Stage
    <3>2. \A q \in Removal, n \in Name : hidden'[q][n] \in {hidden[q][n], None}
      BY <3>1, <1>a DEF Spaces, Folder
    <3> QED
      BY <3>1, <3>2, UnlinkedHere DEF IsCommitted
  <2>2. CASE x.file # None
    <3>1. /\ dir[x.name] = x.file /\ UNCHANGED <<backup, journal>>
          /\ dir' = [dir EXCEPT ![x.name] = None]
          /\ hidden' = [hidden EXCEPT ![r][x.name] = dir[x.name]]
      BY <1>4, <2>2 DEF Stage
    <3>2. /\ OnePlace(dir', hidden', backup')
          /\ \A q \in Removal, n \in Name, g \in File :
                 IsGone(dir, hidden, backup, q, g, n) => IsGone(dir', hidden', backup', q, g, n)
      BY <1>a, <1>b, <2>2, <3>1, HiddenAway
    <3>3. CondemnedAreGone'
      BY <3>1, <3>2, StillGone DEF Places, IsCommitted
    <3> QED
      BY <3>2, <3>3, OnePlaceNext DEF Places
  <2> QED
    BY <2>1, <2>2
<1>5. ASSUME NEW x \in Left(r), FailStage(r, x)
      PROVE  Places'
  BY <1>5, <1>c, RestoredHere DEF FailStage, HasStaged, IsCommitted
<1>6. ASSUME NEW x \in Left(r), FailSync(r, x)
      PROVE  Places'
  <2> DEFINE d == WithRestored(removal[r].done)
             h == WithoutRestored(r, removal[r].done)
  <2>1. /\ x.file # None /\ dir[x.name] = x.file /\ UNCHANGED <<backup, journal>>
        /\ dir' = [d EXCEPT ![x.name] = None] /\ hidden' = [h EXCEPT ![r][x.name] = x.file]
    BY <1>6 DEF FailSync
  <2>2. ~IsCommitted(r) /\ HasStaged(r) /\ removal[r].done \in SUBSET Target
    BY <1>6, <1>c DEF FailSync
  <2>3. /\ d \in Folder /\ h \in Spaces /\ OnePlace(d, h, backup)
        /\ \A q \in Removal \ {r}, n \in Name, g \in File :
               IsGone(dir, hidden, backup, q, g, n) => IsGone(d, h, backup, q, g, n)
        /\ \A n \in Name : dir[n] # None => d[n] = dir[n]
    BY <2>2, RestoredPlaces DEF HasStaged
  <2> HIDE DEF d, h
  <2>4. x.name \in Name /\ d[x.name] = x.file
    BY <1>b, <2>1, <2>3
  <2>5. /\ OnePlace(dir', hidden', backup')
        /\ \A q \in Removal, n \in Name, g \in File :
               IsGone(d, h, backup, q, g, n) => IsGone(dir', hidden', backup', q, g, n)
    BY <1>a, <2>1, <2>3, <2>4, HiddenAway
  <2>6. CondemnedAreGone'
    BY <2>1, <2>2, <2>3, <2>5, StillGone DEF Places, IsCommitted
  <2> QED
    BY <2>5, <2>6, OnePlaceNext DEF Places
<1>7. ASSUME DecideRemoval(r)
      PROVE  Places'
  <2>1. /\ UNCHANGED <<dir, hidden, backup>> /\ IsWhole(r)
        /\ journal' = [journal EXCEPT ![r].state = "committed"]
        /\ removal[r].done = removal[r].targets /\ Step(r, "stage")
    BY <1>7 DEF DecideRemoval
  <2>2. EachInOnePlace'
    BY <1>a, <2>1, OnePlaceNext
  <2>3. ASSUME NEW q \in Removal, IsCommitted(q)', NEW x \in journal'[q].targets, x.file # None
        PROVE  IsGone(dir, hidden, backup, q, x.file, x.name)
    <3>1. CASE q = r
      <4>1. x \in removal[r].done
        BY <2>1, <2>3, <3>1 DEF IsWhole, Types, Journal
      <4>2. x \in Target /\ hidden[r][x.name] = x.file
        BY <1>c, <2>1, <2>3, <4>1 DEF HasStaged
      <4>3. x.name \in Name
        BY <4>2 DEF Target
      <4> QED
        BY <1>a, <2>3, <3>1, <4>2, <4>3 DEF OnePlace, IsGone
    <3>2. CASE q # r
      <4>1. IsCommitted(q) /\ x \in journal[q].targets
        BY <2>1, <2>3, <3>2 DEF IsCommitted, Types
      <4> QED
        BY <2>3, <4>1 DEF Places, CondemnedAreGone
    <3> QED
      BY <3>1, <3>2
  <2>4. CondemnedAreGone'
    BY <2>1, <2>3 DEF CondemnedAreGone, IsGone
  <2> QED
    BY <2>2, <2>4 DEF Places
<1>8. CASE CommitRemoval(r)
  BY <1>7, <1>8 DEF CommitRemoval
<1>9. CASE LoseAcknowledgement(r)
  BY <1>7, <1>9 DEF LoseAcknowledgement
<1>10. ASSUME NEW noted \in BOOLEAN, FailRemoval(r, noted)
       PROVE  Places'
  <2>1. Step(r, "stage") /\ removal[r].done = removal[r].targets /\ backup' = backup
    BY <1>10 DEF FailRemoval
  <2>2. ~IsCommitted(r) /\ removal[r].targets \in SUBSET Target
        /\ \A x \in removal[r].targets : x.file # None => hidden[r][x.name] = x.file
    BY <1>c, <2>1 DEF HasStaged
  <2>3. ASSUME NEW q \in Removal, IsCommitted(q)'
        PROVE  IsCommitted(q) /\ journal'[q].targets \subseteq journal[q].targets
    <3>1. journal' = [journal EXCEPT ![r] = None] \/ journal' = journal
      BY <1>10 DEF FailRemoval
    <3> QED
      BY <2>3, <3>1 DEF IsCommitted, Types
  <2>4. CASE IsWhole(r)
    <3>1. /\ dir' = WithRestored(removal[r].targets)
          /\ hidden' = WithoutRestored(r, removal[r].targets)
      BY <1>10, <2>4 DEF FailRemoval
    <3> QED
      BY <2>1, <2>2, <2>3, <3>1, RestoredHere
  <2>5. CASE ~IsWhole(r)
    <3>1. UNCHANGED <<dir, hidden, backup>>
      BY <1>10, <2>5 DEF FailRemoval
    <3> QED
      BY <2>3, <3>1, UnlinkedHere
  <2> QED
    BY <2>4, <2>5
<1>11. ASSUME NEW noted \in BOOLEAN, FinishRemoval(r, noted)
       PROVE  Places'
  <2>1. UNCHANGED <<dir, hidden, backup>>
        /\ (journal' = [journal EXCEPT ![r] = None] \/ journal' = journal)
    BY <1>11 DEF FinishRemoval
  <2>2. ASSUME NEW q \in Removal, IsCommitted(q)'
        PROVE  IsCommitted(q) /\ journal'[q].targets \subseteq journal[q].targets
    BY <2>1, <2>2 DEF IsCommitted, Types
  <2> QED
    BY <2>1, <2>2, UnlinkedHere
<1>12. ASSUME NEW x \in Left(r), Erase(r, x)
       PROVE  Places'
  <2>1. UNCHANGED <<dir, backup, journal>> /\ hidden' = [hidden EXCEPT ![r][x.name] = None]
    BY <1>12 DEF Erase
  <2>2. \A q \in Removal, n \in Name : hidden'[q][n] \in {hidden[q][n], None}
    BY <1>a, <2>1 DEF Spaces, Folder
  <2> QED
    BY <2>1, <2>2, UnlinkedHere DEF IsCommitted
<1>13. ASSUME NEW x \in Left(r), FailErase(r, x)
       PROVE  Places'
  BY <1>13, SameFiles DEF FailErase
<1> QED
  BY <1>1, <1>2, <1>3, <1>4, <1>5, <1>6, <1>8, <1>9, <1>10, <1>11, <1>12, <1>13 DEF StepOf

LEMMA WorldStepPlaces ==
    ASSUME Types, Types', Places, RecoveryShape, WorldStep
    PROVE  Places'
<1> USE DEF files, rows
<1>1. ASSUME NEW n \in Name, UserDeletes(n)
      PROVE  Places'
  <2>1. UNCHANGED <<journal, hidden, backup>> /\ \A m \in Name : dir'[m] \in {dir[m], None}
    BY <1>1 DEF UserDeletes, Types
  <2> QED
    BY <2>1, UnlinkedHere DEF IsCommitted
<1>2. ASSUME NEW n \in Name, UserAdds(n)
      PROVE  Places'
  BY <1>2, AppearedHere DEF UserAdds, IsCommitted
<1>3. CASE Crash
  BY <1>3, SameFiles DEF Crash
<1>4. ASSUME NEW r \in recovering, RestoreGroup(r)
      PROVE  Places'
  <2> DEFINE xs == journal[r].targets
             moved == {x \in xs : x.file # None /\ hidden[r][x.name] = x.file}
             stuck == {x \in moved : dir[x.name] # None}
                      \cup {x \in xs \ moved : x.file # None /\ dir[x.name] # x.file}
             back == {x \in moved : \A y \in stuck : y.plan < x.plan}
  <2>1. r \in Removal /\ xs \in SUBSET Target /\ ~IsCommitted(r)
    BY <1>4 DEF Types, RecoveryShape, Journal, RestoreGroup, IsCommitted
  <2>2. back \in SUBSET Target /\ \A x \in back : x.file # None => hidden[r][x.name] = x.file
    BY <2>1
  <2>3. /\ dir' = WithRestored(back) /\ hidden' = WithoutRestored(r, back) /\ backup' = backup
        /\ journal' = IF stuck = {} THEN [journal EXCEPT ![r] = None] ELSE journal
    BY <1>4 DEF RestoreGroup
  <2> HIDE DEF back, stuck
  <2>4. ASSUME NEW q \in Removal, IsCommitted(q)'
        PROVE  IsCommitted(q) /\ journal'[q].targets \subseteq journal[q].targets
    BY <2>3, <2>4 DEF IsCommitted, Types
  <2> QED
    BY <2>1, <2>2, <2>3, <2>4, RestoredHere
<1>5. ASSUME NEW r \in recovering, NEW failed, EraseGroup(r, failed)
      PROVE  Places'
  <2>1. r \in Removal
    BY DEF Types
  <2>2. /\ \A n \in Name : dir'[n] \in {dir[n], None}
        /\ \A q \in Removal, n \in Name : hidden'[q][n] \in {hidden[q][n], None}
    BY <1>5, <2>1, ErasedAreLost
  <2>3. backup' = backup /\ (journal' = [journal EXCEPT ![r] = None] \/ journal' = journal)
    BY <1>5 DEF EraseGroup
  <2>4. ASSUME NEW q \in Removal, IsCommitted(q)'
        PROVE  IsCommitted(q) /\ journal'[q].targets \subseteq journal[q].targets
    BY <2>3, <2>4 DEF IsCommitted, Types
  <2> QED
    BY <2>2, <2>3, <2>4, UnlinkedHere
<1> QED
  BY <1>1, <1>2, <1>3, <1>4, <1>5 DEF WorldStep, Recover

-----------------------------------------------------------------------------
(* What the actors at work rely on.                                        *)

LEMMA RetagShapeKept ==
    ASSUME Types, RetagShape, LibraryNext
    PROVE  RetagShape'
<1> USE DEF actors, RetagShape
<1>1. CASE RetagStep
  <2>1. CASE ReadRetag
    BY <2>1 DEF ReadRetag
  <2>2. CASE PrepareRetag
    <3> DEFINE todo == {[x EXCEPT !.file = dir[x.from]] : x \in retag.todo}
    <3>1. ASSUME NEW x \in retag.todo
          PROVE  [x EXCEPT !.file = dir[x.from]].file # None
      <4>1. x \in Move
        BY <2>2, <3>1 DEF PrepareRetag, Types, Retag
      <4>2. dir[x.from] # None
        BY <2>2, <3>1 DEF PrepareRetag, Taken
      <4> QED
        BY <4>1, <4>2 DEF Move
    <3>2. retag' = [retag EXCEPT !.step = "work", !.todo = todo] /\ retag \in Retag
      BY <2>2 DEF PrepareRetag, Types
    <3>3. retag'.todo = todo
      <4> HIDE DEF todo
      <4> QED
        BY <3>2 DEF Retag
    <3> QED
      BY <3>1, <3>3
  <2>3. ASSUME NEW x \in Todo, WithdrawFile(x)
        PROVE  RetagShape'
    <3>1. retag # None /\ retag \in Retag
      BY DEF Todo, Types
    <3>2. retag.step = "work" /\ retag'.todo = retag.todo \ {x}
      BY <2>3, <3>1 DEF WithdrawFile, Retag
    <3> QED
      BY <3>1, <3>2
  <2>4. CASE PublishFile
    <3>1. retag # None /\ retag \in Retag
      BY <2>4 DEF PublishFile, Types
    <3>2. retag'.step = retag.step /\ retag'.todo = retag.todo
      BY <2>4, <3>1 DEF PublishFile, Retag
    <3> QED
      BY <3>1, <3>2
  <2>5. CASE CommitRetag \/ RollBackRetag
    BY <2>5 DEF CommitRetag, RollBackRetag
  <2> QED
    BY <1>1, <2>1, <2>2, <2>3, <2>4, <2>5 DEF RetagStep
<1>2. CASE ImportStep
  BY <1>2 DEF ImportStep, PlanImport, PlaceImport, CommitImport, RollBackImport, FailImport
<1>3. CASE DedupeStep
  BY <1>3 DEF DedupeStep, FindDuplicates, DropDuplicates
<1>4. CASE RemovalStep
  <2>0. PICK r \in Removal : StepOf(r)
    BY <1>4 DEF RemovalStep, StepOf
  <2>1. retag' = retag
    BY <2>0 DEF StepOf, ReadRemoval, OpenRemoval, RefuseRemoval, Stage, FailStage, FailSync,
                CommitRemoval, LoseAcknowledgement, DecideRemoval, FailRemoval, Erase, FailErase,
                FinishRemoval
  <2> QED
    BY <2>1
<1>5. CASE SweepStep
  BY <1>5 DEF SweepStep, ReadSweep, InspectSweep, ApplySweep
<1>6. CASE ScanStep
  BY <1>6 DEF ScanStep, RequestScan, StartScan, Discover, Adopt, EndScan, RequeueScan, RecoverScan
<1>7. CASE WorldStep
  BY <1>7 DEF WorldStep, UserDeletes, UserAdds, Crash, Recover, RestoreGroup, EraseGroup
<1> QED
  BY <1>1, <1>2, <1>3, <1>4, <1>5, <1>6, <1>7 DEF LibraryNext

Waiting == {"ready", "needs_review", "failed", "rolled_back"}

LEMMA PlacedFrame ==
    ASSUME PlacedShape, \A t \in Track : placed'[t] \in {placed[t], None},
           \A t \in Track : placed'[t] # None =>
               LET p == placed[t].plan IN
               claim[p] # None /\ claim[p].status \in Waiting =>
                   /\ claim'[p] # None /\ claim'[p].track = claim[p].track
                   /\ claim'[p].status \in Waiting
    PROVE  PlacedShape'
  BY DEF PlacedShape, Waiting

(* Eliminating duplicates leaves a waiting row waiting.                    *)
LEMMA DemotedWait ==
    ASSUME NEW c \in [Plan -> Claim \cup {None}], NEW d, NEW p \in Plan, c[p] # None,
           c[p].status \in Waiting
    PROVE  /\ Demoted(c, d)[p] # None /\ Demoted(c, d)[p].track = c[p].track
           /\ Demoted(c, d)[p].status \in Waiting
<1>1. Demoted(c, d)[p] \in {[c[p] EXCEPT !.status = "rolled_back"],
                            [c[p] EXCEPT !.status = "needs_review"], c[p]}
  BY DEF Demoted
<1>2. c[p] \in Claim
  OBVIOUS
<1>3. ASSUME NEW s \in {"rolled_back", "needs_review"}
      PROVE  /\ [c[p] EXCEPT !.status = s] # None /\ [c[p] EXCEPT !.status = s].track = c[p].track
             /\ [c[p] EXCEPT !.status = s].status = s
  <2>1. [c[p] EXCEPT !.status = s] \in Claim
    BY <1>2 DEF Claim
  <2> QED
    BY <1>2, <2>1, NoneIsNoRow DEF Claim
<1> QED
  BY <1>1, <1>3 DEF Waiting

LEMMA RenamedIsTyped ==
    ASSUME NEW c \in Claim, NEW n \in Name
    PROVE  /\ [c EXCEPT !.name = n] \in Claim /\ [c EXCEPT !.name = n] # None
           /\ [c EXCEPT !.name = n].track = c.track /\ [c EXCEPT !.name = n].status = c.status
           /\ [c EXCEPT !.name = n].file = c.file /\ [c EXCEPT !.name = n].name = n
<1>1. [c EXCEPT !.name = n] \in Claim
  BY DEF Claim
<1> QED
  BY <1>1, NoneIsNoRow DEF Claim

LEMMA PlacedShapeKept ==
    ASSUME Types, Types', PlacedShape, LibraryNext
    PROVE  PlacedShape'
<1> USE DEF actors, rows
<1>0. /\ claim \in [Plan -> Claim \cup {None}] /\ claim' \in [Plan -> Claim \cup {None}]
      /\ \A t \in Track : placed[t] # None => placed[t].plan \in Plan
  BY DEF Types
<1>a. ASSUME UNCHANGED <<claim, placed>>
      PROVE  PlacedShape'
  BY <1>a DEF PlacedShape
<1>1. ASSUME NEW t \in Track, PlanImport(t)
      PROVE  PlacedShape'
  <2> DEFINE gone == {p \in Rows : claim[p].track = t /\ claim[p].status # "imported"}
             kept == [p \in Plan |-> IF p \in gone THEN None ELSE claim[p]]
  <2>1. PICK p \in NewKey(kept) : claim' = [kept EXCEPT ![p] =
          [track |-> t, name |-> HomeOf[t], file |-> "unknown", adopted |-> FALSE,
           status |-> IF dir[HomeOf[t]] = None THEN "ready" ELSE "needs_review"]]
    BY <1>1 DEF PlanImport
  <2>2. placed' = placed /\ placed[t] = None
    BY <1>1 DEF PlanImport
  <2>3. ASSUME NEW u \in Track, placed[u] # None
        PROVE  claim'[placed[u].plan] = claim[placed[u].plan]
    <3>1. /\ placed[u].plan \in Plan /\ claim[placed[u].plan] # None
          /\ claim[placed[u].plan].track # t
      BY <1>0, <2>2, <2>3 DEF PlacedShape
    <3>2. kept[placed[u].plan] = claim[placed[u].plan]
      BY <3>1
    <3>3. p # placed[u].plan
      <4>1. kept[placed[u].plan] # None => placed[u].plan < p /\ p \in Nat
        BY <3>1 DEF NewKey
      <4> QED
        BY <3>1, <3>2, <4>1
    <3> HIDE DEF kept
    <3> QED
      BY <2>1, <3>1, <3>2, <3>3 DEF NewKey
  <2> QED
    BY <2>2, <2>3, PlacedFrame
<1>2. ASSUME NEW t \in Track, NEW p \in Plan, PlaceImport(t, p)
      PROVE  PlacedShape'
  <2>1. /\ claim' = claim /\ claim[p] # None /\ claim[p].track = t /\ claim[p].status = "ready"
        /\ \E f : placed' = [placed EXCEPT ![t] = [plan |-> p, file |-> f]]
    BY <1>2 DEF PlaceImport, Rows
  <2>2. \A u \in Track : placed'[u].plan = IF u = t THEN p ELSE placed[u].plan
    BY <2>1 DEF Types
  <2>3. \A u \in Track \ {t} : placed'[u] = placed[u]
    BY <2>1 DEF Types
  <2> QED
    BY <2>1, <2>2, <2>3 DEF PlacedShape
<1>3. ASSUME NEW t \in Track, CommitImport(t)
      PROVE  PlacedShape'
  <2> DEFINE p == placed[t].plan
             c == [claim EXCEPT ![p].status = "imported", ![p].file = "present"]
             d == Duplicated(c, owned \cup {t})
  <2>1. placed[t] # None /\ p \in Rows /\ claim' = Demoted(c, d) /\ placed' = [placed EXCEPT ![t] = None]
    BY <1>3 DEF CommitImport
  <2>2. c \in [Plan -> Claim \cup {None}]
    <3>1. claim[p] \in Claim
      BY <2>1 DEF Rows, Types
    <3>2. [claim[p] EXCEPT !.status = "imported", !.file = "present"] \in Claim
      BY <3>1 DEF Claim
    <3>3. c = [claim EXCEPT ![p] = [claim[p] EXCEPT !.status = "imported", !.file = "present"]]
      <4>1. p \in Plan /\ claim \in [Plan -> Claim \cup {None}]
        BY <2>1 DEF Types, Rows
      <4> HIDE DEF p
      <4> QED
        BY <4>1
    <3> HIDE DEF p, c
    <3> QED
      BY <3>2, <3>3, <1>0
  <2>3. \A q \in Plan \ {p} : c[q] = claim[q]
    BY DEF Types
  <2>4. \A u \in Track : placed'[u] = IF u = t THEN None ELSE placed[u]
    BY <2>1 DEF Types
  <2> HIDE DEF c, d
  <2>5. ASSUME NEW u \in Track, placed'[u] # None, claim[placed[u].plan] # None,
               claim[placed[u].plan].status \in Waiting
        PROVE  LET q == placed[u].plan IN
               /\ claim'[q] # None /\ claim'[q].track = claim[q].track /\ claim'[q].status \in Waiting
    <3>1. u # t /\ placed[u] # None
      BY <2>4, <2>5
    <3>2. placed[u].plan \in Plan \ {p}
      <4>1. claim[placed[u].plan].track = u /\ claim[p].track = t
        BY <2>1, <3>1 DEF PlacedShape
      <4>2. placed[u].plan \in Plan
        BY <1>0, <3>1
      <4> QED
        BY <3>1, <4>1, <4>2
    <3>3. c[placed[u].plan] = claim[placed[u].plan]
      BY <2>3, <3>2
    <3> DEFINE q == placed[u].plan
    <3>4. q \in Plan /\ c[q] # None /\ c[q].status \in Waiting
      BY <2>5, <3>2, <3>3
    <3> HIDE DEF q
    <3>5. Demoted(c, d)[q] # None /\ Demoted(c, d)[q].track = c[q].track
          /\ Demoted(c, d)[q].status \in Waiting
      BY <2>2, <3>4, DemotedWait
    <3> QED
      BY <2>1, <3>3, <3>5 DEF q
  <2> QED
    BY <2>4, <2>5, PlacedFrame
<1>4. ASSUME NEW t \in Track, NEW recorded \in BOOLEAN, RollBackImport(t, recorded)
      PROVE  PlacedShape'
  <2>1. /\ placed[t] # None /\ placed' = [placed EXCEPT ![t] = None]
        /\ claim' \in {claim, [claim EXCEPT ![placed[t].plan].status = "rolled_back"]}
    BY <1>4 DEF RollBackImport
  <2>2. \A u \in Track : placed'[u] = IF u = t THEN None ELSE placed[u]
    BY <2>1 DEF Types
  <2>3. ASSUME NEW u \in Track, placed'[u] # None
        PROVE  claim'[placed[u].plan] = claim[placed[u].plan]
    <3>1. u # t /\ placed[u].plan # placed[t].plan
      BY <2>1, <2>2, <2>3 DEF PlacedShape
    <3> QED
      BY <1>0, <2>1, <2>2, <2>3, <3>1
  <2> QED
    BY <2>2, <2>3, PlacedFrame
<1>5. ASSUME NEW p \in Plan, FailImport(p)
      PROVE  PlacedShape'
  <2>1. /\ placed' = placed /\ claim' = [claim EXCEPT ![p].status = "failed"]
        /\ placed[claim[p].track] = None
    BY <1>5 DEF FailImport
  <2>2. ASSUME NEW u \in Track, placed[u] # None
        PROVE  claim'[placed[u].plan] = claim[placed[u].plan]
    <3>1. placed[u].plan # p
      BY <2>1, <2>2 DEF PlacedShape
    <3> QED
      BY <1>0, <2>1, <2>2, <3>1
  <2> QED
    BY <2>1, <2>2, PlacedFrame
<1>6. CASE DedupeStep
  <2>1. CASE FindDuplicates
    BY <1>a, <2>1 DEF FindDuplicates
  <2>2. CASE DropDuplicates
    <3>1. placed' = placed /\ claim' \in {claim, Demoted(claim, dedupe)}
      BY <2>2 DEF DropDuplicates
    <3>2. ASSUME NEW u \in Track, placed[u] # None, claim[placed[u].plan] # None,
                 claim[placed[u].plan].status \in Waiting
          PROVE  LET q == placed[u].plan IN
                 /\ claim'[q] # None /\ claim'[q].track = claim[q].track /\ claim'[q].status \in Waiting
      <4> DEFINE q == placed[u].plan
      <4>1. q \in Plan /\ claim[q] # None /\ claim[q].status \in Waiting
        BY <1>0, <3>2
      <4> HIDE DEF q
      <4>2. Demoted(claim, dedupe)[q] # None /\ Demoted(claim, dedupe)[q].track = claim[q].track
            /\ Demoted(claim, dedupe)[q].status \in Waiting
        BY <1>0, <4>1, DemotedWait
      <4> QED
        BY <3>1, <4>1, <4>2 DEF q
    <3> QED
      BY <3>1, <3>2, PlacedFrame
  <2> QED
    BY <1>6, <2>1, <2>2 DEF DedupeStep
<1>7. CASE RetagStep
  <2>1. CASE CommitRetag
    <3> DEFINE renamed == {x \in retag.made : x.to # x.from}
    <3>1. /\ placed' = placed
          /\ claim' = [p \in Plan |-> IF \E x \in renamed : x.plan = p
                       THEN [claim[p] EXCEPT !.name = (CHOOSE x \in renamed : x.plan = p).to]
                       ELSE claim[p]]
          /\ \A x \in renamed : x.plan \in Rows
      BY <2>1 DEF CommitRetag
    <3> HIDE DEF renamed
    <3>2. ASSUME NEW p \in Plan, claim[p] # None
          PROVE  /\ claim'[p] # None /\ claim'[p].track = claim[p].track
                 /\ claim'[p].status = claim[p].status
      <4>1. claim[p] \in Claim
        BY <1>0, <3>2
      <4>2. CASE \E x \in renamed : x.plan = p
        <5> DEFINE m == CHOOSE x \in renamed : x.plan = p
        <5>1. m \in renamed
          BY <4>2
        <5>2. m.to \in Name
          BY <2>1, <5>1 DEF renamed, CommitRetag, Types, Retag, Move
        <5>3. claim'[p] = [claim[p] EXCEPT !.name = m.to]
          BY <3>1, <4>2
        <5> HIDE DEF m
        <5> QED
          BY <4>1, <5>2, <5>3, RenamedIsTyped
      <4>3. CASE ~\E x \in renamed : x.plan = p
        BY <3>1, <3>2, <4>3
      <4> QED
        BY <4>2, <4>3
    <3> QED
      BY <1>0, <3>1, <3>2, PlacedFrame
  <2>2. CASE ~CommitRetag
    <3>1. UNCHANGED <<claim, placed>>
      BY <1>7, <2>2 DEF RetagStep, ReadRetag, PrepareRetag, WithdrawFile, PublishFile, RollBackRetag
    <3> QED
      BY <1>a, <3>1
  <2> QED
    BY <2>1, <2>2
<1>8. CASE RemovalStep
  <2>0. PICK r \in Removal : StepOf(r)
    BY <1>8 DEF RemovalStep, StepOf
  <2>1. UNCHANGED <<claim, placed>> \/ DecideRemoval(r)
    BY <2>0 DEF StepOf, ReadRemoval, OpenRemoval, RefuseRemoval, Stage, FailStage, FailSync,
                CommitRemoval, LoseAcknowledgement, FailRemoval, Erase, FailErase, FinishRemoval
  <2>2. CASE DecideRemoval(r)
    <3>1. /\ placed' = placed /\ claim' = Removed(PlansOf(r))
          /\ \A p \in PlansOf(r) : claim[p].status = "imported"
      BY <2>2 DEF DecideRemoval, IsPresent
    <3>2. \A p \in Plan : claim[p].status \in Waiting => claim'[p] = claim[p]
      BY <3>1 DEF Removed, Waiting
    <3> QED
      BY <1>0, <3>1, <3>2, PlacedFrame
  <2> QED
    BY <1>a, <2>1, <2>2
<1>9. CASE SweepStep
  <2>1. CASE ApplySweep
    <3>1. placed' = placed /\ \/ claim' = claim
                              \/ /\ claim' = [claim EXCEPT ![sweep.plan].file = sweep.seen]
                                 /\ claim[sweep.plan].status = "imported"
      BY <2>1 DEF ApplySweep, Eligible
    <3>2. \A p \in Plan : claim[p].status \in Waiting => claim'[p] = claim[p]
      BY <1>0, <3>1 DEF Waiting
    <3> QED
      BY <1>0, <3>1, <3>2, PlacedFrame
  <2>2. CASE ~ApplySweep
    BY <1>9, <1>a, <2>2 DEF SweepStep, ReadSweep, InspectSweep
  <2> QED
    BY <2>1, <2>2
<1>10. CASE ScanStep
  <2>1. CASE Adopt
    <3>1. placed' = placed
      BY <2>1 DEF Adopt
    <3>2. PICK p \in NewKey(claim) : \E row : claim' = [claim EXCEPT ![p] = row]
      BY <2>1 DEF Adopt
    <3>3. \A q \in Plan : claim[q] # None => q # p
      BY DEF NewKey
    <3>4. \A q \in Plan : claim[q] # None => claim'[q] = claim[q]
      BY <1>0, <3>2, <3>3
    <3> QED
      BY <1>0, <3>1, <3>4, PlacedFrame
  <2>2. CASE ~Adopt
    BY <1>10, <1>a, <2>2 DEF ScanStep, RequestScan, StartScan, Discover, EndScan, RequeueScan, RecoverScan
  <2> QED
    BY <2>1, <2>2
<1>11. CASE WorldStep
  <2>1. CASE Crash
    BY <2>1 DEF Crash, PlacedShape
  <2>2. CASE ~Crash
    <3>1. UNCHANGED <<claim, placed>>
      BY <1>11, <2>2 DEF WorldStep, UserDeletes, UserAdds, Recover, RestoreGroup, EraseGroup
    <3> QED
      BY <1>a, <3>1
  <2> QED
    BY <2>1, <2>2
<1> QED
  BY <1>1, <1>2, <1>3, <1>4, <1>5, <1>6, <1>7, <1>8, <1>9, <1>10, <1>11 DEF LibraryNext, ImportStep

(* What a removal relies on is its own.                                    *)
LEMMA ShapeFrame ==
    ASSUME NEW r \in Removal, ShapeOf(r), removal'[r] = removal[r], hidden'[r] = hidden[r],
           journal'[r] = journal[r], recovering' \subseteq recovering
    PROVE  ShapeOf(r)'
  BY DEF ShapeOf, IsUntouched, IsOpen, HasStaged, HasErased

LEMMA ShapesFrame ==
    ASSUME RemovalShape, RecoveryShape,
           UNCHANGED <<removal, hidden, journal, recovering>>
    PROVE  RemovalShape' /\ RecoveryShape'
<1>1. ASSUME NEW r \in Removal
      PROVE  ShapeOf(r)'
  BY ShapeFrame DEF RemovalShape
<1> QED
  BY <1>1 DEF RemovalShape, RecoveryShape

OnlyAt(r) ==
    /\ recovering' = recovering
    /\ \A q \in Removal \ {r} :
           removal'[q] = removal[q] /\ hidden'[q] = hidden[q] /\ journal'[q] = journal[q]
    /\ recovering # {} => journal' = journal

LEMMA StepIsOwn ==
    ASSUME Types, RemovalShape, NEW r \in Removal, StepOf(r)
    PROVE  OnlyAt(r)
<1> USE DEF rows, files, OnlyAt
<1>a. /\ ShapeOf(r)
      /\ removal[r] # None => removal[r] \in RemovalState /\ recovering = {}
      /\ removal \in [Removal -> RemovalState \cup {None}]
      /\ journal \in [Removal -> Journal \cup {None}]
      /\ hidden \in [Removal -> [Name -> File \cup {None}]]
  BY DEF RemovalShape, ShapeOf, Types
<1>1. ASSUME NEW plans \in SUBSET Plan, ReadRemoval(r, plans)
      PROVE  OnlyAt(r)
  BY <1>a, <1>1 DEF ReadRemoval
<1>2. ASSUME NEW x \in Left(r),
             Stage(r, x) \/ FailStage(r, x) \/ FailSync(r, x) \/ Erase(r, x) \/ FailErase(r, x)
      PROVE  OnlyAt(r)
  <2>1. recovering' = recovering /\ journal' = journal
    BY <1>2 DEF Stage, FailStage, FailSync, Erase, FailErase
  <2>2. \A q \in Removal \ {r} : removal'[q] = removal[q]
    BY <1>a, <1>2 DEF Stage, FailStage, FailSync, Erase, FailErase, Ended
  <2>3. \A q \in Removal \ {r} : hidden'[q] = hidden[q]
    <3>1. \A q \in Removal \ {r} : WithoutRestored(r, removal[r].done)[q] = hidden[q]
      BY <1>a DEF WithoutRestored
    <3>2. CASE FailSync(r, x)
      BY <1>a, <3>1, <3>2 DEF FailSync
    <3>3. CASE ~FailSync(r, x)
      BY <1>a, <1>2, <3>1, <3>3 DEF Stage, FailStage, Erase, FailErase
    <3> QED
      BY <3>2, <3>3
  <2> QED
    BY <2>1, <2>2, <2>3
<1>3. CASE OpenRemoval(r) \/ RefuseRemoval(r)
  BY <1>a, <1>3 DEF OpenRemoval, RefuseRemoval, Step, Ended
<1>4. CASE CommitRemoval(r) \/ LoseAcknowledgement(r)
  BY <1>a, <1>4 DEF CommitRemoval, LoseAcknowledgement, DecideRemoval, Step, Ended
<1>5. ASSUME NEW noted \in BOOLEAN, FailRemoval(r, noted)
      PROVE  OnlyAt(r)
  <2>1. \A q \in Removal \ {r} : WithoutRestored(r, removal[r].targets)[q] = hidden[q]
    BY <1>a DEF WithoutRestored
  <2> QED
    BY <1>a, <1>5, <2>1 DEF FailRemoval, Step, Ended
<1>6. ASSUME NEW noted \in BOOLEAN, FinishRemoval(r, noted)
      PROVE  OnlyAt(r)
  BY <1>a, <1>6 DEF FinishRemoval, Step, Ended
<1> QED
  BY <1>1, <1>2, <1>3, <1>4, <1>5, <1>6 DEF StepOf

LEMMA RemovalStepShaped ==
    ASSUME Types, RemovalShape, RecoveryShape, RemovalStep
    PROVE  RemovalShape' /\ RecoveryShape'
<1> USE DEF rows, files
<1> PICK r \in Removal : StepOf(r)
  BY DEF RemovalStep, StepOf
<1>a. /\ ShapeOf(r)
      /\ removal[r] # None => removal[r] \in RemovalState /\ recovering = {}
      /\ removal \in [Removal -> RemovalState \cup {None}]
      /\ journal \in [Removal -> Journal \cup {None}]
      /\ hidden \in [Removal -> [Name -> File \cup {None}]]
  BY DEF RemovalShape, ShapeOf, Types
<1>b. OnlyAt(r)
  BY StepIsOwn
<1>c. RecoveryShape'
  BY <1>b DEF RecoveryShape, OnlyAt
<1>d. ASSUME NEW q \in Removal \ {r}
      PROVE  ShapeOf(q)'
  BY <1>b, ShapeFrame DEF RemovalShape, OnlyAt
<1>e. ASSUME removal' = Ended(r)
      PROVE  ShapeOf(r)'
  BY <1>a, <1>e DEF Ended, ShapeOf
<1>1. ASSUME NEW plans \in SUBSET Plan, ReadRemoval(r, plans)
      PROVE  ShapeOf(r)'
  <2>1. /\ recovering' = {} /\ journal'[r] = None /\ \A n \in Name : hidden'[r][n] = None
    BY <1>1 DEF ReadRemoval, Serving
  <2>2. /\ removal'[r].step = "read" /\ removal'[r].done = {}
    BY <1>1, <1>a DEF ReadRemoval
  <2> QED
    BY <2>1, <2>2 DEF ShapeOf, IsUntouched
<1>2. ASSUME OpenRemoval(r)
      PROVE  ShapeOf(r)'
  <2> DEFINE found == {[x EXCEPT !.file = dir[x.name]] : x \in removal[r].targets}
  <2>1. /\ removal[r] # None /\ removal[r].step = "read" /\ UNCHANGED <<hidden, recovering>>
        /\ \A x, y \in found : x # y => x.name # y.name
        /\ journal' = [journal EXCEPT ![r] = [state |-> "prepared", targets |-> found]]
        /\ removal' = [removal EXCEPT ![r].step = "stage", ![r].targets = found]
    BY <1>2 DEF OpenRemoval, Step
  <2>2. removal[r].done = {} /\ recovering = {} /\ removal[r] \in RemovalState
    BY <1>a, <2>1 DEF ShapeOf, IsUntouched
  <2> HIDE DEF found
  <2>3. /\ removal'[r].step = "stage" /\ removal'[r].targets = found /\ removal'[r].done = {}
        /\ journal'[r] = [state |-> "prepared", targets |-> found] /\ recovering' = {}
    BY <1>a, <2>1, <2>2 DEF RemovalState
  <2>4. journal'[r].state = "prepared" /\ journal'[r].targets = found
    BY <2>3
  <2>5. IsOpen(r)'
    BY <2>1, <2>3, <2>4 DEF IsOpen
  <2>6. HasStaged(r)'
    BY <2>3 DEF HasStaged
  <2> QED
    BY <2>3, <2>5, <2>6 DEF ShapeOf
<1>3. ASSUME RefuseRemoval(r)
      PROVE  ShapeOf(r)'
  BY <1>e, <1>3 DEF RefuseRemoval
<1>4. ASSUME NEW x \in Left(r), Stage(r, x)
      PROVE  ShapeOf(r)'
  <2>1. /\ removal[r] # None /\ removal[r].step = "stage" /\ removal[r] \in RemovalState
        /\ x \in removal[r].targets /\ x \notin removal[r].done
        /\ journal' = journal /\ recovering' = recovering /\ recovering = {}
        /\ hidden' = [hidden EXCEPT ![r][x.name] = x.file]
        /\ removal' = [removal EXCEPT ![r].done = @ \cup {x}]
    BY <1>a, <1>4 DEF Stage, Step, Left
  <2>2. /\ removal'[r].step = "stage" /\ removal'[r].targets = removal[r].targets
        /\ removal'[r].done = removal[r].done \cup {x}
    BY <1>a, <2>1 DEF RemovalState
  <2>3. IsOpen(r) /\ HasStaged(r) /\ removal[r].done \subseteq removal[r].targets
    BY <1>a, <2>1 DEF ShapeOf
  <2>4. x.name \in Name /\ \A y \in removal[r].done : y.name \in Name /\ y.name # x.name
    BY <2>1, <2>3 DEF RemovalState, Target, IsOpen
  <2>5. hidden'[r][x.name] = x.file /\ \A n \in Name \ {x.name} : hidden'[r][n] = hidden[r][n]
    BY <1>a, <2>1, <2>4
  <2>6. HasStaged(r)'
    BY <2>2, <2>3, <2>4, <2>5 DEF HasStaged
  <2>7. IsOpen(r)'
    BY <2>1, <2>2, <2>3 DEF IsOpen
  <2> QED
    BY <2>1, <2>2, <2>3, <2>6, <2>7 DEF ShapeOf
<1>5. ASSUME NEW x \in Left(r), FailStage(r, x) \/ FailSync(r, x)
      PROVE  ShapeOf(r)'
  BY <1>e, <1>5 DEF FailStage, FailSync
<1>6. ASSUME CommitRemoval(r)
      PROVE  ShapeOf(r)'
  <2>1. /\ removal[r] # None /\ removal[r].step = "stage" /\ removal[r] \in RemovalState
        /\ IsOpen(r) /\ recovering' = recovering /\ recovering = {} /\ journal[r] # None
        /\ journal' = [journal EXCEPT ![r].state = "committed"]
        /\ removal' = [removal EXCEPT ![r].step = "erase", ![r].done = {}]
    BY <1>6, <1>a DEF CommitRemoval, DecideRemoval, Step, ShapeOf, IsWhole
  <2>2. /\ removal'[r].step = "erase" /\ removal'[r].targets = removal[r].targets
        /\ removal'[r].done = {}
    BY <1>a, <2>1 DEF RemovalState
  <2>3. journal'[r].state = "committed" /\ journal'[r].targets = journal[r].targets
    BY <1>a, <2>1 DEF Journal
  <2> QED
    BY <2>1, <2>2, <2>3 DEF ShapeOf, IsOpen, HasErased
<1>7. ASSUME LoseAcknowledgement(r)
      PROVE  ShapeOf(r)'
  BY <1>e, <1>7 DEF LoseAcknowledgement
<1>8. ASSUME NEW noted \in BOOLEAN, FailRemoval(r, noted) \/ FinishRemoval(r, noted)
      PROVE  ShapeOf(r)'
  BY <1>e, <1>8 DEF FailRemoval, FinishRemoval
<1>9. ASSUME NEW x \in Left(r), Erase(r, x) \/ FailErase(r, x)
      PROVE  ShapeOf(r)'
  <2>1. /\ removal[r] # None /\ removal[r].step = "erase" /\ removal[r] \in RemovalState
        /\ x \in removal[r].targets
        /\ journal' = journal /\ recovering' = recovering /\ recovering = {}
    BY <1>a, <1>9 DEF Erase, FailErase, Step, Left
  <2>2. IsOpen(r) /\ removal[r].done \subseteq removal[r].targets
        /\ (~removal[r].failed => HasErased(r))
    BY <1>a, <2>1 DEF ShapeOf
  <2>3. x.name \in Name /\ \A y \in removal[r].done : y.name \in Name
    BY <2>1, <2>2 DEF RemovalState, Target
  <2>4. CASE Erase(r, x)
    <3>1. /\ removal'[r].step = "erase" /\ removal'[r].targets = removal[r].targets
          /\ removal'[r].done = removal[r].done \cup {x}
      BY <1>a, <2>1, <2>4 DEF Erase, RemovalState
    <3>2. removal'[r].failed <=> removal[r].failed
      BY <1>a, <2>1, <2>4, Zenon DEF Erase, RemovalState
    <3>3. hidden'[r][x.name] = None /\ \A n \in Name \ {x.name} : hidden'[r][n] = hidden[r][n]
      BY <1>a, <2>3, <2>4 DEF Erase
    <3>4. ~removal'[r].failed => HasErased(r)'
      BY <2>2, <2>3, <3>1, <3>2, <3>3 DEF HasErased
    <3>5. IsOpen(r)'
      BY <2>1, <2>2, <3>1 DEF IsOpen
    <3> QED
      BY <2>1, <2>2, <3>1, <3>4, <3>5 DEF ShapeOf
  <2>5. CASE FailErase(r, x)
    <3>1. /\ removal'[r].step = "erase" /\ removal'[r].targets = removal[r].targets
          /\ removal'[r].done = removal[r].done \cup {x} /\ removal'[r].failed
      BY <1>a, <2>1, <2>5 DEF FailErase, RemovalState
    <3>2. IsOpen(r)'
      BY <2>1, <2>2, <3>1 DEF IsOpen
    <3> QED
      BY <2>1, <2>2, <3>1, <3>2 DEF ShapeOf
  <2> QED
    BY <1>9, <2>4, <2>5
<1>f. ShapeOf(r)'
  BY <1>1, <1>2, <1>3, <1>4, <1>5, <1>6, <1>7, <1>8, <1>9 DEF StepOf
<1> QED
  BY <1>c, <1>d, <1>f DEF RemovalShape

LEMMA ShapesKept ==
    ASSUME Types, RemovalShape, RecoveryShape, LibraryNext
    PROVE  RemovalShape' /\ RecoveryShape'
<1> USE DEF actors, rows, files
<1>1. CASE ImportStep
  <2>1. ASSUME NEW t \in Track, PlanImport(t)
        PROVE  RemovalShape' /\ RecoveryShape'
    <3> DEFINE gone == {p \in Rows : claim[p].track = t /\ claim[p].status # "imported"}
               left(j) == {x \in j.targets : x.plan \notin gone}
    <3>1. /\ recovering = {} /\ UNCHANGED <<removal, hidden, recovering>>
          /\ journal' = [r \in Removal |-> IF journal[r] = None \/ left(journal[r]) = {} THEN None
                                           ELSE [journal[r] EXCEPT !.targets = left(journal[r])]]
      BY <2>1 DEF PlanImport, Serving
    <3>2. \A j : left(j) \subseteq j.targets
      OBVIOUS
    <3> HIDE DEF left
    <3>3. ASSUME NEW r \in Removal
          PROVE  ShapeOf(r)'
      <4>1. journal[r] = None => journal'[r] = None
        BY <3>1
      <4>2. journal'[r] # None => /\ journal[r] # None /\ journal'[r].state = journal[r].state
                                  /\ journal'[r].targets \subseteq journal[r].targets
        <5>1. journal[r] # None => [journal[r] EXCEPT !.targets = left(journal[r])].state = journal[r].state
                  /\ [journal[r] EXCEPT !.targets = left(journal[r])].targets = left(journal[r])
          BY DEF Types, Journal
        <5> QED
          BY <3>1, <3>2, <5>1
      <4>3. ShapeOf(r)
        BY DEF RemovalShape
      <4>4. IsOpen(r) => IsOpen(r)'
        BY <3>1, <4>2 DEF IsOpen
      <4> QED
        BY <3>1, <4>1, <4>3, <4>4 DEF ShapeOf, IsUntouched, HasStaged, HasErased
    <3> QED
      BY <3>1, <3>3 DEF RemovalShape, RecoveryShape
  <2>2. CASE UNCHANGED <<removal, hidden, journal, recovering>>
    BY <2>2, ShapesFrame
  <2> QED
    BY <1>1, <2>1, <2>2 DEF ImportStep, PlaceImport, CommitImport, RollBackImport, FailImport
<1>2. CASE RemovalStep
  BY <1>2, RemovalStepShaped
<1>3. CASE DedupeStep \/ RetagStep \/ SweepStep \/ ScanStep
  <2>1. UNCHANGED <<removal, hidden, journal, recovering>>
    <3>1. CASE DedupeStep
      BY <3>1 DEF DedupeStep, FindDuplicates, DropDuplicates
    <3>2. CASE RetagStep
      BY <3>2 DEF RetagStep, ReadRetag, PrepareRetag, WithdrawFile, PublishFile, CommitRetag,
                  RollBackRetag
    <3>3. CASE SweepStep
      BY <3>3 DEF SweepStep, ReadSweep, InspectSweep, ApplySweep
    <3>4. CASE ScanStep
      BY <3>4 DEF ScanStep, RequestScan, StartScan, Discover, Adopt, EndScan, RequeueScan, RecoverScan
    <3> QED
      BY <1>3, <3>1, <3>2, <3>3, <3>4
  <2> QED
    BY <2>1, ShapesFrame
<1>4. CASE WorldStep
  <2>1. CASE Crash
    BY <2>1 DEF Crash, RemovalShape, RecoveryShape, ShapeOf
  <2>2. ASSUME NEW r \in recovering, NEW failed, RestoreGroup(r) \/ EraseGroup(r, failed)
        PROVE  RemovalShape' /\ RecoveryShape'
    <3>1. removal' = removal /\ recovering' = recovering \ {r}
          /\ (journal' = [journal EXCEPT ![r] = None] \/ journal' = journal)
      BY <2>2 DEF RestoreGroup, EraseGroup
    <3>2. \A q \in Removal : removal'[q] = None
      BY <2>2, <3>1 DEF RemovalShape, ShapeOf
    <3>3. \A q \in Removal \ {r} : journal'[q] = journal[q]
      BY <3>1 DEF Types
    <3>4. recovering \subseteq Removal
      BY DEF Types
    <3> QED
      BY <3>1, <3>2, <3>3, <3>4 DEF RemovalShape, RecoveryShape, ShapeOf
  <2>3. CASE UNCHANGED <<removal, hidden, journal, recovering>>
    BY <2>3, ShapesFrame
  <2> QED
    BY <1>4, <2>1, <2>2, <2>3 DEF WorldStep, Recover, UserDeletes, UserAdds
<1> QED
  BY <1>1, <1>2, <1>3, <1>4 DEF LibraryNext

-----------------------------------------------------------------------------
(* The invariant.                                                          *)

LEMMA LibraryInitHolds == LibraryInit => LibInv
<1> SUFFICES ASSUME LibraryInit
             PROVE  LibInv
  OBVIOUS
<1> PICK old \in SUBSET Track : \E swept \in SUBSET old :
        /\ owned = old
        /\ claim = [p \in Plan |-> IF p \in old THEN [track |-> p, name |-> HomeOf[p],
                        status |-> "imported", file |-> IF p \in swept THEN "present" ELSE "unknown",
                        adopted |-> FALSE] ELSE None]
        /\ \E f \in [old -> File] :
            /\ \A t, u \in old : t < u => f[t] < f[u]
            /\ dir = [n \in Name |-> IF \E t \in old : HomeOf[t] = n
                                     THEN f[CHOOSE t \in old : HomeOf[t] = n] ELSE None]
        /\ journal = [r \in Removal |-> None]
        /\ hidden = [r \in Removal |-> [n \in Name |-> None]] /\ backup = {}
        /\ placed = [t \in Track |-> None] /\ retag = None /\ dedupe = None
        /\ removal = [r \in Removal |-> None] /\ sweep = None /\ scan = None
        /\ recovering = {} /\ changes = 0 /\ crashes = 0
  BY DEF LibraryInit
<1>1. PICK f \in [old -> File] :
          /\ \A t, u \in old : t < u => f[t] < f[u]
          /\ dir = [n \in Name |-> IF \E t \in old : HomeOf[t] = n
                                   THEN f[CHOOSE t \in old : HomeOf[t] = n] ELSE None]
  OBVIOUS
<1>2. \A n \in Name : \/ dir[n] = None
                      \/ \E t \in old : HomeOf[t] = n /\ dir[n] = f[t]
  BY <1>1
<1>3. dir \in [Name -> File \cup {None}]
  <2>1. \A n \in Name : dir[n] \in File \cup {None}
    BY <1>2
  <2> QED
    BY <1>1, <2>1
<1>4. claim \in [Plan -> Claim \cup {None}]
  <2>2. PICK swept \in SUBSET old :
            claim = [p \in Plan |-> IF p \in old THEN [track |-> p, name |-> HomeOf[p],
                        status |-> "imported", file |-> IF p \in swept THEN "present" ELSE "unknown",
                        adopted |-> FALSE] ELSE None]
    OBVIOUS
  <2>1. ASSUME NEW p \in old, NEW s \in {"present", "unknown"}
        PROVE  [track |-> p, name |-> HomeOf[p], status |-> "imported", file |-> s,
                adopted |-> FALSE] \in Claim
    BY DEF Claim
  <2> QED
    BY <2>1, <2>2
<1>5. Types
  BY <1>3, <1>4 DEF Types
<1>6. \A m, n \in Name : dir[m] # None /\ dir[m] = dir[n] => m = n
  <2> SUFFICES ASSUME NEW m \in Name, NEW n \in Name, dir[m] # None, dir[m] = dir[n]
               PROVE  m = n
    OBVIOUS
  <2>4. PICK t \in old : HomeOf[t] = m /\ dir[m] = f[t]
    BY <1>2
  <2>5. PICK u \in old : HomeOf[u] = n /\ dir[n] = f[u]
    BY <1>2
  <2>1. HomeOf[t] = m /\ HomeOf[u] = n /\ f[t] = f[u]
    BY <2>4, <2>5
  <2>2. t \in Nat /\ u \in Nat /\ f[t] \in Nat /\ f[u] \in Nat
    OBVIOUS
  <2>3. t = u
    <3>1. ~(t < u) /\ ~(u < t)
      BY <1>1, <2>1, <2>2
    <3> QED
      BY <2>2, <3>1
  <2> QED
    BY <2>1, <2>3
<1>7. EachInOnePlace
  BY <1>6 DEF EachInOnePlace
<1> QED
  BY <1>5, <1>7 DEF LibInv, RetagShape, PlacedShape, RemovalShape, ShapeOf, RecoveryShape,
                    CondemnedAreGone, IsCommitted

LEMMA LibraryNextKeeps ==
    ASSUME LibInv, [LibraryNext]_vars
    PROVE  LibInv'
<1> USE DEF LibInv
<1>1. CASE LibraryNext
  <2>1. Types'
    BY <1>1, ImportStepTyped, DedupeStepTyped, RetagStepTyped, RemovalStepTyped, SweepStepTyped,
       ScanStepTyped, WorldStepTyped DEF LibraryNext
  <2>2. Places'
    <3>1. Places
      BY DEF Places
    <3>2. CASE SweepStep \/ ScanStep
      <4>1. UNCHANGED <<files, journal>>
        BY <3>2 DEF SweepStep, ReadSweep, InspectSweep, ApplySweep, ScanStep, RequestScan, StartScan,
                    Discover, Adopt, EndScan, RequeueScan, RecoverScan, rows, files
      <4> QED
        BY <3>1, <4>1, SameFiles
    <3> QED
      BY <1>1, <2>1, <3>1, <3>2, ImportStepPlaces, DedupeStepPlaces, RetagStepPlaces,
         RemovalStepPlaces, WorldStepPlaces DEF LibraryNext
  <2>3. RetagShape' /\ PlacedShape' /\ RemovalShape' /\ RecoveryShape'
    BY <1>1, <2>1, RetagShapeKept, PlacedShapeKept, ShapesKept
  <2> QED
    BY <2>1, <2>2, <2>3 DEF Places
<1>2. CASE UNCHANGED vars
  <2> USE <1>2 DEF vars, rows, files, actors, counters
  <2>1. Types' /\ EachInOnePlace'
    BY DEF Types, EachInOnePlace
  <2>2. RetagShape' /\ PlacedShape' /\ RecoveryShape'
    BY DEF RetagShape, PlacedShape, RecoveryShape
  <2>3. RemovalShape'
    BY ShapesFrame
  <2>4. CondemnedAreGone'
    BY DEF CondemnedAreGone, IsCommitted, IsGone
  <2> QED
    BY <2>1, <2>2, <2>3, <2>4
<1> QED
  BY <1>1, <1>2

LEMMA LibraryInvariant == LibrarySpec => []LibInv
<1>1. LibInv /\ [LibraryNext]_vars => LibInv'
  BY LibraryNextKeeps
<1> QED
  BY LibraryInitHolds, <1>1, PTL DEF LibrarySpec

(* Every variable has its type, and every file lies in at most one place:  *)
(* in the folder, under a name of a removal or in a backup.  It is moved   *)
(* by rename and link in library_removal.py and library_import.py.         *)
THEOREM LibraryTypeCorrect == LibrarySpec => []LibraryTypeOK
<1>1. LibInv => LibraryTypeOK
  BY DEF LibInv, LibraryTypeOK
<1> QED
  BY LibraryInvariant, <1>1, PTL

-----------------------------------------------------------------------------
(* Adopted files.                                                          *)

(* A row that becomes active, or active under another name or for another  *)
(* track, is one that the triggers let pass.                               *)
LEMMA ClaimedOnceIsKept ==
    ASSUME AdoptedFilesAreClaimedOnce,
           \A p \in Plan : claim'[p] # None /\ Active(claim'[p]) =>
               \/ ~Refused(claim', p)
               \/ /\ claim[p] # None /\ Active(claim[p]) /\ claim'[p].name = claim[p].name
                  /\ claim'[p].track = claim[p].track /\ claim'[p].adopted = claim[p].adopted
    PROVE  AdoptedFilesAreClaimedOnce'
<1> SUFFICES ASSUME NEW p \in Plan, NEW q \in Plan, claim'[p] # None, claim'[q] # None, p # q,
                    claim'[p].adopted, Active(claim'[p]), Active(claim'[q])
             PROVE  claim'[p].name # claim'[q].name /\ claim'[p].track # claim'[q].track
  BY DEF AdoptedFilesAreClaimedOnce, Rows
<1>1. CASE ~Refused(claim', p)
  BY <1>1 DEF Refused
<1>2. CASE ~Refused(claim', q)
  BY <1>2 DEF Refused
<1>3. CASE Refused(claim', p) /\ Refused(claim', q)
  <2>1. /\ claim[p] # None /\ Active(claim[p]) /\ claim'[p].name = claim[p].name
        /\ claim'[p].track = claim[p].track /\ claim[p].adopted
    BY <1>3
  <2>2. /\ claim[q] # None /\ Active(claim[q]) /\ claim'[q].name = claim[q].name
        /\ claim'[q].track = claim[q].track
    BY <1>3
  <2>3. claim[p].name # claim[q].name /\ claim[p].track # claim[q].track
    BY <2>1, <2>2, Zenon DEF AdoptedFilesAreClaimedOnce, Rows
  <2> QED
    BY <2>1, <2>2, <2>3
<1> QED
  BY <1>1, <1>2, <1>3

LEMMA ClaimsKept ==
    ASSUME AdoptedFilesAreClaimedOnce,
           \A p \in Plan : \/ claim'[p] = claim[p] \/ claim'[p] = None \/ ~Active(claim'[p])
                           \/ ~Refused(claim', p)
    PROVE  AdoptedFilesAreClaimedOnce'
BY ClaimedOnceIsKept

(* Eliminating duplicates makes no row active, and none refused.           *)
LEMMA DemotedAreInactive ==
    ASSUME NEW c \in [Plan -> Claim \cup {None}], NEW d, NEW p \in Plan,
           \A q \in Losers(d) \cup d.tied : c[q] # None
    PROVE  Demoted(c, d)[p] = c[p] \/ ~Active(Demoted(c, d)[p])
<1>1. CASE p \in Losers(d) \cup d.tied
  <2>1. c[p] \in Claim
    BY <1>1
  <2>2. \A s \in {"rolled_back", "needs_review"} : [c[p] EXCEPT !.status = s].status = s
    BY <2>1 DEF Claim
  <2>3. Demoted(c, d)[p] \in {[c[p] EXCEPT !.status = "rolled_back"],
                              [c[p] EXCEPT !.status = "needs_review"]}
    BY <1>1 DEF Demoted
  <2> QED
    BY <2>2, <2>3 DEF Active
<1>2. CASE p \notin Losers(d) \cup d.tied
  BY <1>2 DEF Demoted
<1> QED
  BY <1>1, <1>2

LEMMA DemotedAreNotRefused ==
    ASSUME NEW c \in [Plan -> Claim \cup {None}], NEW d, NEW p \in Plan,
           \A q \in Losers(d) \cup d.tied : c[q] # None,
           ~Refused(c, p)
    PROVE  ~Active(Demoted(c, d)[p]) \/ ~Refused(Demoted(c, d), p)
<1> SUFFICES ASSUME Active(Demoted(c, d)[p]), Refused(Demoted(c, d), p)
             PROVE  FALSE
  OBVIOUS
<1> DEFINE e == Demoted(c, d)
<1>1. \A q \in Plan : Active(e[q]) => e[q] = c[q]
  BY DemotedAreInactive
<1> HIDE DEF e
<1>2. PICK q \in Plan \ {p} : /\ e[q] # None /\ Active(e[q])
                              /\ e[q].name = e[p].name \/ e[q].track = e[p].track
                              /\ e[q].adopted \/ e[p].adopted
  BY Zenon DEF Refused, e
<1>3. e[q] = c[q] /\ e[p] = c[p]
  BY <1>1, <1>2 DEF e
<1> QED
  BY <1>2, <1>3, Zenon DEF Refused, e

(* A claim that fails, is taken back or is removed is not active.          *)
LEMMA IsInactive ==
    ASSUME NEW c \in Claim, NEW s \in {"failed", "rolled_back", "removed", "needs_review"}
    PROVE  ~Active([c EXCEPT !.status = s])
BY DEF Active, Claim

LEMMA AdoptedOnceKept ==
    ASSUME Types, AdoptedFilesAreClaimedOnce, LibraryNext
    PROVE  AdoptedFilesAreClaimedOnce'
<1> USE DEF rows, files, actors
<1>0. claim \in [Plan -> Claim \cup {None}]
  BY DEF Types
<1>a. ASSUME claim' = claim
      PROVE  AdoptedFilesAreClaimedOnce'
  BY <1>a, ClaimsKept
<1>b. ASSUME NEW p \in Plan, \A q \in Plan \ {p} : claim'[q] \in {claim[q], None},
             claim'[p] = None \/ ~Active(claim'[p]) \/ ~Refused(claim', p)
      PROVE  AdoptedFilesAreClaimedOnce'
  BY <1>b, ClaimsKept
<1>1. ASSUME NEW t \in Track, PlanImport(t)
      PROVE  AdoptedFilesAreClaimedOnce'
  <2> DEFINE gone == {p \in Rows : claim[p].track = t /\ claim[p].status # "imported"}
             kept == [p \in Plan |-> IF p \in gone THEN None ELSE claim[p]]
  <2>1. PICK p \in Plan :
          /\ claim' = [kept EXCEPT ![p] =
                [track |-> t, name |-> HomeOf[t], file |-> "unknown", adopted |-> FALSE,
                 status |-> IF dir[HomeOf[t]] = None THEN "ready" ELSE "needs_review"]]
          /\ ~Refused(claim', p)
    BY <1>1 DEF PlanImport, NewKey
  <2>2. \A q \in Plan \ {p} : claim'[q] \in {claim[q], None}
    BY <2>1
  <2> QED
    BY <1>b, <2>1, <2>2
<1>2. ASSUME NEW t \in Track, CommitImport(t)
      PROVE  AdoptedFilesAreClaimedOnce'
  <2> DEFINE p == placed[t].plan
             c == [claim EXCEPT ![p].status = "imported", ![p].file = "present"]
             d == Duplicated(c, owned \cup {t})
  <2>1. p \in Rows /\ claim' = Demoted(c, d) /\ ~Refused(c, p)
    BY <1>2 DEF CommitImport
  <2>2. c \in [Plan -> Claim \cup {None}]
    <3>1. claim[p] \in Claim
      BY <1>0, <2>1 DEF Rows
    <3>2. [claim[p] EXCEPT !.status = "imported", !.file = "present"] \in Claim
      BY <3>1 DEF Claim
    <3>3. c = [claim EXCEPT ![p] = [claim[p] EXCEPT !.status = "imported", !.file = "present"]]
      BY <1>0, <2>1 DEF Rows
    <3> HIDE DEF p, c
    <3> QED
      BY <1>0, <3>2, <3>3
  <2>3. \A q \in Plan \ {p} : c[q] = claim[q]
    BY <1>0
  <2>4. \A q \in Losers(d) \cup d.tied : c[q] # None
    <3> HIDE DEF c
    <3> QED
      BY <2>2, DuplicatedIsTyped
  <2>5. p \in Plan
    BY <2>1 DEF Rows
  <2> HIDE DEF c, d, p
  <2>6. \A q \in Plan : claim'[q] = c[q] \/ ~Active(claim'[q])
    BY <2>1, <2>2, <2>4, DemotedAreInactive
  <2>7. ~Active(claim'[p]) \/ ~Refused(claim', p)
    BY <2>1, <2>2, <2>4, <2>5, DemotedAreNotRefused
  <2> QED
    BY <2>3, <2>6, <2>7, ClaimsKept
<1>3. ASSUME NEW t \in Track, NEW recorded \in BOOLEAN, RollBackImport(t, recorded)
      PROVE  AdoptedFilesAreClaimedOnce'
  <2> DEFINE p == placed[t].plan
  <2>1. CASE recorded /\ p \in Rows
    <3>1. p \in Plan /\ claim[p] \in Claim /\ claim' = [claim EXCEPT ![p].status = "rolled_back"]
      BY <1>0, <1>3, <2>1 DEF RollBackImport, Rows
    <3> HIDE DEF p
    <3> QED
      BY <1>0, <1>b, <3>1, IsInactive
  <2>2. CASE ~(recorded /\ p \in Rows)
    BY <1>3, <1>a, <2>2 DEF RollBackImport
  <2> QED
    BY <2>1, <2>2
<1>4. ASSUME NEW p \in Plan, FailImport(p)
      PROVE  AdoptedFilesAreClaimedOnce'
  <2>1. claim[p] \in Claim /\ claim' = [claim EXCEPT ![p].status = "failed"]
    BY <1>0, <1>4 DEF FailImport, Rows
  <2> QED
    BY <1>0, <1>b, <2>1, IsInactive
<1>5. ASSUME DropDuplicates
      PROVE  AdoptedFilesAreClaimedOnce'
  <2>1. CASE Losers(dedupe) \cup dedupe.tied \subseteq Rows
    <3>1. claim' = Demoted(claim, dedupe) /\ \A q \in Losers(dedupe) \cup dedupe.tied : claim[q] # None
      BY <1>5, <2>1 DEF DropDuplicates, Rows
    <3> QED
      BY <1>0, <3>1, DemotedAreInactive, ClaimsKept
  <2>2. CASE ~(Losers(dedupe) \cup dedupe.tied \subseteq Rows)
    BY <1>5, <1>a, <2>2 DEF DropDuplicates
  <2> QED
    BY <2>1, <2>2
<1>6. ASSUME CommitRetag
      PROVE  AdoptedFilesAreClaimedOnce'
  <2> DEFINE renamed == {x \in retag.made : x.to # x.from}
             c == [p \in Plan |-> IF \E x \in renamed : x.plan = p
                             THEN [claim[p] EXCEPT !.name = (CHOOSE x \in renamed : x.plan = p).to]
                             ELSE claim[p]]
  <2>1. claim' = c /\ \A x \in renamed : ~Refused(c, x.plan)
    BY <1>6 DEF CommitRetag
  <2>2. \A p \in Plan : c[p] = claim[p] \/ \E x \in renamed : x.plan = p
    OBVIOUS
  <2> HIDE DEF c, renamed
  <2> QED
    BY <2>1, <2>2, ClaimsKept
<1>7. ASSUME NEW r \in Removal, DecideRemoval(r)
      PROVE  AdoptedFilesAreClaimedOnce'
  <2>1. claim' = Removed(PlansOf(r)) /\ PlansOf(r) \subseteq Rows
    BY <1>7 DEF DecideRemoval
  <2>2. ASSUME NEW p \in Plan
        PROVE  claim'[p] = claim[p] \/ ~Active(claim'[p])
    <3>1. CASE p \in PlansOf(r)
      <4>1. /\ claim'[p] = [claim[p] EXCEPT !.status = "removed", !.file = "removed"]
            /\ claim[p] \in Claim
        BY <1>0, <2>1, <3>1 DEF Removed, Rows
      <4>2. claim'[p].status = "removed"
        BY <4>1 DEF Claim
      <4> QED
        BY <4>2 DEF Active
    <3>2. CASE p \notin PlansOf(r)
      BY <2>1, <3>2 DEF Removed
    <3> QED
      BY <3>1, <3>2
  <2> QED
    BY <2>2, ClaimsKept
<1>8. ASSUME ApplySweep
      PROVE  AdoptedFilesAreClaimedOnce'
  <2> DEFINE p == sweep.plan
             c == [claim EXCEPT ![p].file = sweep.seen]
  <2>1. CASE p \in Plan /\ claim' = c /\ ~Refused(c, p)
    BY <1>0, <1>b, <2>1
  <2>2. CASE claim' = claim
    BY <1>a, <2>2
  <2> QED
    BY <1>8, <2>1, <2>2 DEF ApplySweep, Eligible, Rows
<1>9. ASSUME Adopt
      PROVE  AdoptedFilesAreClaimedOnce'
  <2>1. \E p \in Plan : \E c : claim' = [claim EXCEPT ![p] = c] /\ ~Refused(claim', p)
    BY <1>9 DEF Adopt, NewKey
  <2> QED
    BY <1>0, <1>b, <2>1
<1>10. CASE DedupeStep /\ ~DropDuplicates
  BY <1>a, <1>10 DEF DedupeStep, FindDuplicates
<1>11. CASE RetagStep /\ ~CommitRetag
  BY <1>a, <1>11 DEF RetagStep, ReadRetag, PrepareRetag, WithdrawFile, PublishFile, RollBackRetag
<1>12. CASE RemovalStep
  <2>1. PICK r \in Removal : StepOf(r)
    BY <1>12 DEF RemovalStep, StepOf
  <2>2. CASE CommitRemoval(r) \/ LoseAcknowledgement(r)
    BY <1>7, <2>2 DEF CommitRemoval, LoseAcknowledgement
  <2>3. CASE ~(CommitRemoval(r) \/ LoseAcknowledgement(r))
    <3>1. claim' = claim
      BY <2>1, <2>3 DEF StepOf, ReadRemoval, OpenRemoval, RefuseRemoval, Stage, FailStage, FailSync,
                        FailRemoval, Erase, FailErase, FinishRemoval
    <3> QED
      BY <1>a, <3>1
  <2> QED
    BY <2>2, <2>3
<1>13. CASE SweepStep /\ ~ApplySweep
  BY <1>a, <1>13 DEF SweepStep, ReadSweep, InspectSweep
<1>14. CASE ScanStep /\ ~Adopt
  BY <1>a, <1>14 DEF ScanStep, RequestScan, StartScan, Discover, EndScan, RequeueScan, RecoverScan
<1>15. CASE WorldStep
  <2>1. claim' = claim
    BY <1>15 DEF WorldStep, UserDeletes, UserAdds, Crash, Recover, RestoreGroup, EraseGroup
  <2> QED
    BY <1>a, <2>1
<1>16. ASSUME NEW t \in Track, NEW p \in Plan, PlaceImport(t, p)
       PROVE  AdoptedFilesAreClaimedOnce'
  BY <1>a, <1>16 DEF PlaceImport
<1> QED
  BY <1>1, <1>2, <1>3, <1>4, <1>5, <1>6, <1>8, <1>9, <1>10, <1>11, <1>12, <1>13, <1>14, <1>15, <1>16
     DEF LibraryNext, ImportStep, DedupeStep, RetagStep, SweepStep, ScanStep

(* An adopted file is claimed by one row, and its track by no other: the   *)
(* triggers of the schema see to it for whatever an import, a sweep, a     *)
(* re-tagging and a scan that overlap have read before they write.         *)
THEOREM AdoptedOnce == LibrarySpec => []AdoptedFilesAreClaimedOnce
<1>1. LibraryInit => AdoptedFilesAreClaimedOnce
  <2> SUFFICES ASSUME NEW old \in SUBSET Track, NEW swept \in SUBSET old,
                      claim = [q \in Plan |-> IF q \in old THEN [track |-> q, name |-> HomeOf[q],
                        status |-> "imported", file |-> IF q \in swept THEN "present" ELSE "unknown",
                        adopted |-> FALSE] ELSE None]
               PROVE  AdoptedFilesAreClaimedOnce
    BY Zenon DEF LibraryInit
  <2>1. \A p \in Plan : claim[p] # None => claim[p].adopted = FALSE
    OBVIOUS
  <2> QED
    BY <2>1 DEF AdoptedFilesAreClaimedOnce, Rows
<1>2. LibInv /\ AdoptedFilesAreClaimedOnce /\ [LibraryNext]_vars => AdoptedFilesAreClaimedOnce'
  <2>1. CASE UNCHANGED vars
    BY <2>1, ClaimsKept DEF vars, rows
  <2> QED
    BY <2>1, AdoptedOnceKept DEF LibInv
<1> QED
  BY LibraryInvariant, <1>1, <1>2, PTL DEF LibrarySpec

-----------------------------------------------------------------------------
(* Hidden files.                                                           *)

LEMMA LostBefore ==
    ASSUME NEW r \in Removal, NEW n \in Name, IsLost(r, n)',
           hidden'[r][n] \in {hidden[r][n], None},
           journal[r] # None => journal'[r] # None /\ journal[r].targets \subseteq journal'[r].targets
    PROVE  IsLost(r, n)
BY DEF IsLost, IsRecorded

LEMMA RestoredAreUncovered ==
    ASSUME Types, NEW r \in Removal, NEW xs
    PROVE  /\ \A n \in Name : WithoutRestored(r, xs)[r][n] \in {hidden[r][n], None}
           /\ \A x \in Restored(xs) : x.name \in Name => WithoutRestored(r, xs)[r][x.name] = None
BY DEF WithoutRestored, Types

(* A removal moves only files that it has recorded, and closes its journal *)
(* once they are back or erased.                                           *)
LEMMA RemovalLosesNone ==
    ASSUME Types, RemovalShape, NEW r \in Removal, StepOf(r), NEW n \in Name, IsLost(r, n)',
           ~IsForgotten(r)
    PROVE  IsLost(r, n)
<1> USE DEF rows, files
<1>1. /\ ShapeOf(r)
      /\ removal[r] # None => removal[r] \in RemovalState
      /\ journal \in [Removal -> Journal \cup {None}]
      /\ hidden \in [Removal -> [Name -> File \cup {None}]]
  BY DEF RemovalShape, Types
<1>2. \A x \in Left(r) : x \in removal[r].targets /\ x.name \in Name /\ removal[r] # None
  BY <1>1 DEF Left, RemovalState, Target
<1>a. ASSUME hidden'[r][n] \in {hidden[r][n], None}, journal' = journal
      PROVE  IsLost(r, n)
  BY <1>a, LostBefore
<1>3. ASSUME NEW plans \in SUBSET Plan, ReadRemoval(r, plans)
      PROVE  IsLost(r, n)
  BY <1>a, <1>3 DEF ReadRemoval
<1>4. CASE OpenRemoval(r)
  <2>1. hidden'[r][n] = None
    BY <1>1, <1>4 DEF OpenRemoval, Step, ShapeOf, IsUntouched
  <2> QED
    BY <2>1 DEF IsLost
<1>5. CASE RefuseRemoval(r)
  BY <1>a, <1>5 DEF RefuseRemoval
<1>6. ASSUME NEW x \in Left(r), Stage(r, x)
      PROVE  IsLost(r, n)
  <2>1. journal' = journal /\ IsWhole(r)
    BY <1>2, <1>6 DEF Stage, Step, IsForgotten
  <2>2. hidden'[r][n] = IF n = x.name THEN x.file ELSE hidden[r][n]
    BY <1>1, <1>2, <1>6 DEF Stage
  <2>3. n # x.name
    <3>1. ~IsRecorded(r, n)'
      BY DEF IsLost
    <3> QED
      BY <1>2, <2>1, <2>2, <3>1 DEF IsRecorded, IsWhole
  <2> QED
    BY <1>a, <2>1, <2>2, <2>3
<1>7. ASSUME NEW x \in Left(r), FailStage(r, x)
      PROVE  IsLost(r, n)
  BY <1>a, <1>7, RestoredAreUncovered DEF FailStage
<1>8. ASSUME NEW x \in Left(r), FailSync(r, x)
      PROVE  IsLost(r, n)
  <2> DEFINE h == WithoutRestored(r, removal[r].done)
  <2>1. journal' = journal /\ IsWhole(r) /\ hidden' = [h EXCEPT ![r][x.name] = x.file]
    BY <1>2, <1>8 DEF FailSync, Step, IsForgotten
  <2>2. h[r][n] \in {hidden[r][n], None}
    BY RestoredAreUncovered
  <2>3. h \in [Removal -> [Name -> File \cup {None}]]
    BY <1>1 DEF WithoutRestored
  <2> HIDE DEF h
  <2>4. hidden'[r][n] = IF n = x.name THEN x.file ELSE h[r][n]
    BY <1>2, <2>1, <2>3
  <2>5. n # x.name
    <3>1. ~IsRecorded(r, n)'
      BY DEF IsLost
    <3> QED
      BY <1>2, <2>1, <2>4, <3>1 DEF IsRecorded, IsWhole
  <2> QED
    BY <1>a, <2>1, <2>2, <2>4, <2>5
<1>9. CASE CommitRemoval(r) \/ LoseAcknowledgement(r)
  <2>1. /\ journal[r] \in Journal /\ hidden' = hidden
        /\ journal' = [journal EXCEPT ![r].state = "committed"]
    BY <1>1, <1>9 DEF CommitRemoval, LoseAcknowledgement, DecideRemoval, IsWhole
  <2>2. journal'[r] \in Journal /\ journal'[r].targets = journal[r].targets
    BY <1>1, <2>1 DEF Journal
  <2> QED
    BY <2>1, <2>2, LostBefore, NoneIsNoRow
<1>10. ASSUME NEW noted \in BOOLEAN, FailRemoval(r, noted)
       PROVE  IsLost(r, n)
  <2> DEFINE xs == removal[r].targets
  <2>1. hidden'[r][n] \in {hidden[r][n], None}
    BY <1>10, RestoredAreUncovered DEF FailRemoval
  <2>2. CASE journal' = journal
    BY <1>a, <2>1, <2>2
  <2>3. CASE journal' # journal
    <3>1. /\ IsWhole(r) /\ hidden' = WithoutRestored(r, xs)
          /\ \A x \in xs : x.file # None => x \in Restored(xs)
      BY <1>10, <2>3 DEF FailRemoval
    <3>2. hidden'[r][n] = hidden[r][n] /\ hidden[r][n] # None
      BY <2>1 DEF IsLost
    <3>3. ASSUME NEW x \in journal[r].targets, x.name = n, x.file = hidden[r][n]
          PROVE  FALSE
      <4>1. x \in Restored(xs)
        BY <3>1, <3>2, <3>3 DEF IsWhole
      <4>2. WithoutRestored(r, xs)[r][n] = None
        BY <3>3, <4>1, RestoredAreUncovered
      <4> QED
        BY <3>1, <3>2, <4>2
    <3> QED
      BY <3>2, <3>3 DEF IsLost, IsRecorded
  <2> QED
    BY <2>2, <2>3
<1>11. ASSUME NEW x \in Left(r), Erase(r, x)
       PROVE  IsLost(r, n)
  BY <1>1, <1>2, <1>a, <1>11 DEF Erase
<1>12. ASSUME NEW x \in Left(r), FailErase(r, x)
       PROVE  IsLost(r, n)
  BY <1>a, <1>12 DEF FailErase
<1>13. ASSUME NEW noted \in BOOLEAN, FinishRemoval(r, noted)
       PROVE  IsLost(r, n)
  <2>1. CASE journal' = journal
    BY <1>a, <1>13, <2>1 DEF FinishRemoval
  <2>2. CASE journal' # journal
    <3>1. /\ IsWhole(r) /\ removal[r].done = removal[r].targets /\ hidden' = hidden /\ HasErased(r)
      BY <1>1, <1>13, <2>2 DEF FinishRemoval, Step, IsForgotten, ShapeOf
    <3> QED
      BY <3>1 DEF IsLost, IsRecorded, IsWhole, HasErased
  <2> QED
    BY <2>1, <2>2
<1> QED
  BY <1>3, <1>4, <1>5, <1>6, <1>7, <1>8, <1>9, <1>10, <1>11, <1>12, <1>13 DEF StepOf

(* Nor does start-up close a group before its files are back or erased.    *)
LEMMA RecoveryLosesNone ==
    ASSUME Types, RecoveryShape, Recover, NEW r \in Removal, NEW n \in Name, IsLost(r, n)'
    PROVE  IsLost(r, n)
<1> USE DEF rows, files
<1>1. /\ journal \in [Removal -> Journal \cup {None}]
      /\ hidden \in [Removal -> [Name -> File \cup {None}]]
      /\ recovering \subseteq Removal
  BY DEF Types
<1>a. ASSUME hidden'[r][n] \in {hidden[r][n], None}, journal'[r] = journal[r]
      PROVE  IsLost(r, n)
  BY <1>a, LostBefore
<1>2. ASSUME NEW q \in recovering, RestoreGroup(q)
      PROVE  IsLost(r, n)
  <2> DEFINE xs == journal[q].targets
             moved == {x \in xs : x.file # None /\ hidden[q][x.name] = x.file}
             stuck == {x \in moved : dir[x.name] # None}
                      \cup {x \in xs \ moved : x.file # None /\ dir[x.name] # x.file}
             back == {x \in moved : \A y \in stuck : y.plan < x.plan}
  <2>1. /\ hidden' = WithoutRestored(q, back)
        /\ journal' = IF stuck = {} THEN [journal EXCEPT ![q] = None] ELSE journal
    BY <1>2 DEF RestoreGroup
  <2>2. CASE q # r
    <3>1. hidden'[r] = hidden[r] /\ journal'[r] = journal[r]
      BY <1>1, <2>1, <2>2 DEF WithoutRestored
    <3> QED
      BY <1>a, <3>1
  <2>3. CASE q = r /\ stuck # {}
    <3> HIDE DEF back, stuck
    <3> QED
      BY <1>a, <2>1, <2>3, RestoredAreUncovered
  <2>4. CASE q = r /\ stuck = {}
    <3>1. hidden'[r][n] \in {hidden[r][n], None}
      <4> HIDE DEF back
      <4> QED
        BY <2>1, <2>4, RestoredAreUncovered
    <3>2. hidden'[r][n] = hidden[r][n] /\ hidden[r][n] # None
      BY <3>1 DEF IsLost
    <3>3. ASSUME NEW x \in journal[r].targets, x.name = n, x.file = hidden[r][n]
          PROVE  FALSE
      <4>1. x \in Restored(back)
        BY <2>4, <3>2, <3>3 DEF Restored
      <4> HIDE DEF back
      <4>2. WithoutRestored(r, back)[r][n] = None
        BY <3>3, <4>1, RestoredAreUncovered
      <4> QED
        BY <2>1, <2>4, <3>2, <4>2
    <3> QED
      BY <3>2, <3>3 DEF IsLost, IsRecorded
  <2> QED
    BY <2>2, <2>3, <2>4
<1>3. ASSUME NEW q \in recovering, NEW failed, EraseGroup(q, failed)
      PROVE  IsLost(r, n)
  <2> DEFINE xs == {x \in journal[q].targets : x.file # None}
             erased == {x \in xs : \A y \in failed : x.plan < y.plan}
  <2>1. /\ hidden' = [hidden EXCEPT ![q] = [m \in Name |->
                          IF \E x \in erased : x.name = m /\ x.file = @[m] THEN None ELSE @[m]]]
        /\ journal' \in {journal, [journal EXCEPT ![q] = None]}
        /\ failed # {} => journal' = journal
    BY <1>3 DEF EraseGroup
  <2>2. hidden'[r][n] \in {hidden[r][n], None} /\ (q # r => hidden'[r] = hidden[r])
    BY <1>1, <2>1
  <2>3. CASE q # r
    BY <1>1, <1>a, <2>1, <2>2, <2>3
  <2>4. CASE q = r /\ failed # {}
    BY <1>a, <2>1, <2>2, <2>4
  <2>5. CASE q = r /\ failed = {}
    <3>1. hidden'[r][n] = hidden[r][n] /\ hidden[r][n] # None
      BY <2>2 DEF IsLost
    <3>2. ASSUME NEW x \in journal[r].targets, x.name = n, x.file = hidden[r][n]
          PROVE  FALSE
      <4>1. x \in erased
        BY <2>5, <3>1, <3>2
      <4> HIDE DEF erased
      <4> QED
        BY <1>1, <2>1, <2>5, <3>1, <3>2, <4>1
    <3> QED
      BY <3>1, <3>2 DEF IsLost, IsRecorded
  <2> QED
    BY <2>3, <2>4, <2>5
<1> QED
  BY <1>2, <1>3 DEF Recover

(* A file that a removal has moved out of sight stays recorded in a group  *)
(* that start-up will look at, until it is erased or back; only planning   *)
(* an import of its track anew loses it (the journal's rows of             *)
(* library_removal.py go with the rows of import_plans).                   *)
THEOREM HiddenFilesRecorded == LibrarySpec => HiddenFilesStayRecorded
<1>1. ASSUME LibInv, LibraryNext, NEW r \in Removal, NEW n \in Name, IsLost(r, n)',
             ~IsForgotten(r), ~\E t \in Track : PlanImport(t)
      PROVE  IsLost(r, n)
  <2> USE DEF rows, files, actors
  <2>1. ASSUME hidden' = hidden, journal' = journal
        PROVE  IsLost(r, n)
    BY <1>1, <2>1 DEF IsLost, IsRecorded
  <2>2. CASE ImportStep
    <3>1. hidden' = hidden /\ journal' = journal
      BY <1>1, <2>2 DEF ImportStep, PlaceImport, CommitImport, RollBackImport, FailImport
    <3> QED
      BY <2>1, <3>1
  <2>3. CASE DedupeStep \/ RetagStep
    <3>1. hidden' = hidden /\ journal' = journal
      BY <2>3 DEF DedupeStep, FindDuplicates, DropDuplicates, RetagStep, ReadRetag, PrepareRetag,
                  WithdrawFile, PublishFile, CommitRetag, RollBackRetag
    <3> QED
      BY <2>1, <3>1
  <2>4. CASE SweepStep \/ ScanStep
    <3>1. hidden' = hidden /\ journal' = journal
      BY <2>4 DEF SweepStep, ReadSweep, InspectSweep, ApplySweep, ScanStep, RequestScan, StartScan,
                  Discover, Adopt, EndScan, RequeueScan, RecoverScan
    <3> QED
      BY <2>1, <3>1
  <2>5. CASE RemovalStep
    <3>1. PICK q \in Removal : StepOf(q)
      BY <2>5 DEF RemovalStep, StepOf
    <3>2. CASE q = r
      BY <1>1, <3>1, <3>2, RemovalLosesNone DEF LibInv
    <3>3. CASE q # r
      <4>1. hidden'[r] = hidden[r] /\ journal'[r] = journal[r]
        BY <1>1, <3>1, <3>3, StepIsOwn DEF LibInv, OnlyAt
      <4> QED
        BY <1>1, <4>1, LostBefore
    <3> QED
      BY <3>2, <3>3
  <2>6. CASE WorldStep
    <3>1. CASE Recover
      BY <1>1, <3>1, RecoveryLosesNone DEF LibInv
    <3>2. CASE ~Recover
      BY <2>1, <2>6, <3>2 DEF WorldStep, UserDeletes, UserAdds, Crash
    <3> QED
      BY <3>1, <3>2
  <2> QED
    BY <1>1, <2>2, <2>3, <2>4, <2>5, <2>6 DEF LibraryNext
<1>2. LibInv /\ [LibraryNext]_vars =>
          [\A r \in Removal, n \in Name : IsLost(r, n)' =>
            IsLost(r, n) \/ IsForgotten(r) \/ \E t \in Track : PlanImport(t)]_vars
  BY <1>1
<1> QED
  BY LibraryInvariant, <1>2, PTL DEF LibrarySpec, HiddenFilesStayRecorded

-----------------------------------------------------------------------------
(* Committed removals.                                                     *)

IsCondemned(f) == \E r \in Removal : IsCommitted(r) /\ \E x \in journal[r].targets : x.file = f

LEMMA CondemnedByGroup == \A f : f \in Condemned <=> IsCondemned(f)
BY DEF Condemned, IsCondemned, IsCommitted

LEMMA CondemnedByGroupNext == \A f : f \in Condemned' <=> IsCondemned(f)'
BY DEF Condemned, IsCondemned, IsCommitted

(* What a step may put under a name: a new file, a backup, or what a group *)
(* that is not committed has hidden.                                       *)
Returning ==
    {None} \cup NewFile \cup {b.file : b \in backup}
    \cup {hidden[r][n] : r \in {q \in Removal : ~IsCommitted(q)}, n \in Name}

LEMMA ReturningAreNotCondemned ==
    ASSUME Types, CondemnedAreGone, NEW f \in Returning, f # None
    PROVE  ~IsCondemned(f)
<1> SUFFICES ASSUME NEW r \in Removal, IsCommitted(r), NEW x \in journal[r].targets, x.file = f
             PROVE  FALSE
  BY DEF IsCondemned
<1>1. IsGone(dir, hidden, backup, r, f, x.name)
  BY DEF CondemnedAreGone
<1>2. CASE f \in NewFile
  BY <1>2, NewIsNew DEF IsCommitted
<1>3. CASE \E b \in backup : f = b.file
  BY <1>1, <1>3 DEF IsGone
<1>4. CASE \E q \in Removal, n \in Name : ~IsCommitted(q) /\ f = hidden[q][n]
  BY <1>1, <1>4 DEF IsGone
<1> QED
  BY <1>2, <1>3, <1>4 DEF Returning

LEMMA RestoredReturn ==
    ASSUME Types, NEW r \in Removal, ~IsCommitted(r), NEW xs, \A x \in xs : x.name \in Name,
           \A x \in xs : x.file # None => hidden[r][x.name] = x.file, NEW n \in Name
    PROVE  WithRestored(xs)[n] \in {dir[n]} \cup Returning
<1>1. CASE \E x \in Restored(xs) : x.name = n
  <2>1. PICK x \in Restored(xs) : WithRestored(xs)[n] = x.file /\ x.name = n
    BY <1>1 DEF WithRestored
  <2>2. x \in xs /\ x.file # None
    BY DEF Restored
  <2>3. hidden[r][n] = x.file
    BY <2>1, <2>2
  <2> QED
    BY <2>1, <2>3 DEF Returning
<1>2. CASE ~\E x \in Restored(xs) : x.name = n
  BY <1>2 DEF WithRestored
<1> QED
  BY <1>1, <1>2

LEMMA WhatAppears ==
    ASSUME LibInv, LibraryNext, NEW n \in Name
    PROVE  dir'[n] \in {dir[n]} \cup Returning
<1> USE DEF rows, files, actors
<1>1. /\ dir \in [Name -> File \cup {None}]
      /\ removal \in [Removal -> RemovalState \cup {None}]
      /\ journal \in [Removal -> Journal \cup {None}]
      /\ None \in Returning /\ NewFile \subseteq Returning
  BY DEF LibInv, Types, Returning
<1>a. ASSUME dir' = dir
      PROVE  dir'[n] \in {dir[n]} \cup Returning
  BY <1>a
<1>2. CASE ImportStep
  <2>1. ASSUME NEW t \in Track, NEW p \in Plan, PlaceImport(t, p)
        PROVE  dir'[n] \in {dir[n]} \cup Returning
    BY <1>1, <2>1 DEF PlaceImport
  <2>2. ASSUME NEW t \in Track, CommitImport(t)
        PROVE  dir'[n] \in {dir[n]} \cup Returning
    <3>1. \E d : dir' = WithoutLosers(d)
      BY <2>2 DEF CommitImport
    <3> QED
      BY <1>1, <3>1 DEF WithoutLosers
  <2>3. ASSUME NEW t \in Track, NEW recorded \in BOOLEAN, RollBackImport(t, recorded)
        PROVE  dir'[n] \in {dir[n]} \cup Returning
    BY <1>1, <2>3 DEF RollBackImport
  <2> QED
    BY <1>2, <1>a, <2>1, <2>2, <2>3 DEF ImportStep, PlanImport, FailImport
<1>3. CASE DedupeStep
  BY <1>1, <1>3 DEF DedupeStep, FindDuplicates, DropDuplicates, WithoutLosers
<1>4. CASE RetagStep
  <2>1. ASSUME NEW x \in Todo, WithdrawFile(x)
        PROVE  dir'[n] \in {dir[n]} \cup Returning
    BY <1>1, <2>1 DEF WithdrawFile
  <2>2. CASE PublishFile
    BY <1>1, <2>2 DEF PublishFile
  <2>3. CASE RollBackRetag
    <3> DEFINE restored == {b \in retag.saved : b \in backup}
    <3>1. dir'[n] \in {dir[n], None} \/ \E b \in restored : dir'[n] = b.file
      BY <2>3 DEF RollBackRetag
    <3> QED
      BY <1>1, <3>1 DEF Returning
  <2> QED
    BY <1>4, <2>1, <2>2, <2>3 DEF RetagStep, ReadRetag, PrepareRetag, CommitRetag
<1>5. CASE RemovalStep
  <2>1. PICK r \in Removal : StepOf(r)
    BY <1>5 DEF RemovalStep, StepOf
  <2>2. removal[r] # None => /\ removal[r] \in RemovalState /\ ShapeOf(r)
                             /\ \A x \in removal[r].targets : x.name \in Name
    BY <1>1 DEF LibInv, RemovalShape, RemovalState, Target
  <2>3. Step(r, "stage") => /\ ~IsCommitted(r) /\ removal[r].done \subseteq removal[r].targets
                            /\ \A x \in removal[r].done : x.file # None => hidden[r][x.name] = x.file
    BY <2>2 DEF Step, ShapeOf, IsOpen, HasStaged, IsCommitted
  <2>4. ASSUME Step(r, "stage")
        PROVE  WithRestored(removal[r].done)[n] \in {dir[n]} \cup Returning
    <3> DEFINE xs == removal[r].done
    <3>1. \A x \in xs : x.name \in Name
      BY <2>2, <2>3, <2>4 DEF Step
    <3>2. ~IsCommitted(r) /\ \A x \in xs : x.file # None => hidden[r][x.name] = x.file
      BY <2>3, <2>4
    <3> HIDE DEF xs
    <3>3. WithRestored(xs)[n] \in {dir[n]} \cup Returning
      BY <3>1, <3>2, RestoredReturn DEF LibInv
    <3> QED
      BY <3>3 DEF xs
  <2>5. ASSUME NEW x \in Left(r), FailStage(r, x) \/ FailSync(r, x)
        PROVE  dir'[n] \in {dir[n]} \cup Returning
    <3>1. Step(r, "stage") /\ dir'[n] \in {WithRestored(removal[r].done)[n], None}
      BY <2>5 DEF FailStage, FailSync, WithRestored
    <3> QED
      BY <1>1, <2>4, <3>1
  <2>6. ASSUME NEW noted \in BOOLEAN, FailRemoval(r, noted)
        PROVE  dir'[n] \in {dir[n]} \cup Returning
    <3>1. Step(r, "stage") /\ dir' \in {WithRestored(removal[r].done), dir}
      BY <2>6 DEF FailRemoval
    <3> QED
      BY <2>4, <3>1
  <2>7. ASSUME NEW x \in Left(r), Stage(r, x)
        PROVE  dir'[n] \in {dir[n]} \cup Returning
    BY <1>1, <2>7 DEF Stage
  <2>8. CASE \/ \E plans \in SUBSET Plan : ReadRemoval(r, plans)
             \/ OpenRemoval(r) \/ RefuseRemoval(r) \/ CommitRemoval(r) \/ LoseAcknowledgement(r)
             \/ \E noted \in BOOLEAN : FinishRemoval(r, noted)
             \/ \E x \in Left(r) : Erase(r, x) \/ FailErase(r, x)
    <3>1. dir' = dir
      BY <2>8 DEF ReadRemoval, OpenRemoval, RefuseRemoval, CommitRemoval, LoseAcknowledgement,
                  DecideRemoval, FinishRemoval, Erase, FailErase
    <3> QED
      BY <3>1
  <2> QED
    BY <2>1, <2>5, <2>6, <2>7, <2>8 DEF StepOf
<1>6. CASE SweepStep \/ ScanStep
  <2>1. dir' = dir
    BY <1>6 DEF SweepStep, ReadSweep, InspectSweep, ApplySweep, ScanStep, RequestScan, StartScan,
                Discover, Adopt, EndScan, RequeueScan, RecoverScan
  <2> QED
    BY <2>1
<1>7. CASE WorldStep
  <2>1. ASSUME NEW m \in Name, UserDeletes(m) \/ UserAdds(m)
        PROVE  dir'[n] \in {dir[n]} \cup Returning
    BY <1>1, <2>1 DEF UserDeletes, UserAdds
  <2>2. CASE Crash
    BY <2>2 DEF Crash
  <2>3. ASSUME NEW r \in recovering, RestoreGroup(r)
        PROVE  dir'[n] \in {dir[n]} \cup Returning
    <3> DEFINE xs == journal[r].targets
               moved == {x \in xs : x.file # None /\ hidden[r][x.name] = x.file}
               stuck == {x \in moved : dir[x.name] # None}
                        \cup {x \in xs \ moved : x.file # None /\ dir[x.name] # x.file}
               back == {x \in moved : \A y \in stuck : y.plan < x.plan}
    <3>1. dir' = WithRestored(back) /\ ~IsCommitted(r)
      BY <2>3 DEF RestoreGroup, IsCommitted
    <3>2. r \in Removal /\ journal[r] # None
      BY DEF LibInv, Types, RecoveryShape
    <3>3. \A x \in back : x.name \in Name /\ hidden[r][x.name] = x.file
      <4>1. journal[r] \in Journal
        BY <1>1, <3>2
      <4>2. \A x \in xs : x.name \in Name
        BY <4>1 DEF Journal, Target
      <4> QED
        BY <4>2
    <3> HIDE DEF back
    <3>4. WithRestored(back)[n] \in {dir[n]} \cup Returning
      BY <3>1, <3>2, <3>3, RestoredReturn DEF LibInv
    <3> QED
      BY <3>1, <3>4
  <2>4. ASSUME NEW r \in recovering, NEW failed, EraseGroup(r, failed)
        PROVE  dir'[n] \in {dir[n]} \cup Returning
    BY <1>1, <2>4 DEF EraseGroup
  <2> QED
    BY <1>7, <2>1, <2>2, <2>3, <2>4 DEF WorldStep, Recover
<1> QED
  BY <1>2, <1>3, <1>4, <1>5, <1>6, <1>7 DEF LibraryNext

LEMMA IsNowhereNext ==
    ASSUME NEW f, \A n \in Name : dir'[n] # f, \A r \in Removal, n \in Name : hidden'[r][n] # f,
           \A b \in backup' : b.file # f
    PROVE  f \notin Existing'
BY DEF Existing, Hidden

(* A group that has committed is closed by the removal itself once it has  *)
(* erased everything, ...                                                  *)
LEMMA RemovalClosesErased ==
    ASSUME LibInv, NEW r \in Removal, StepOf(r), NEW q \in Removal, IsCommitted(q),
           NEW x \in journal[q].targets, x.file # None, ~IsCondemned(x.file)'
    PROVE  x.file \notin Existing'
<1> USE DEF rows, files, actors
<1>1. /\ ShapeOf(r) /\ journal \in [Removal -> Journal \cup {None}]
      /\ \A p \in Removal \ {r} : journal'[p] = journal[p]
  BY StepIsOwn DEF LibInv, RemovalShape, Types, OnlyAt
<1>2. journal'[q] # journal[q]
  BY DEF IsCondemned, IsCommitted
<1>3. q = r
  BY <1>1, <1>2
<1>4. journal' # journal
  BY <1>2
<1>5. ~Step(r, "read") /\ ~Step(r, "stage")
  BY <1>1, <1>3 DEF Step, ShapeOf, IsUntouched, IsOpen, IsCommitted
<1>6. \E noted \in BOOLEAN : FinishRemoval(r, noted)
  BY <1>4, <1>5 DEF StepOf, ReadRemoval, OpenRemoval, RefuseRemoval, Stage, FailStage, FailSync,
                    CommitRemoval, LoseAcknowledgement, DecideRemoval, FailRemoval, Erase, FailErase
<1>7. /\ removal[r] # None /\ removal[r].step = "erase" /\ ~removal[r].failed
      /\ removal[r].done = removal[r].targets
      /\ dir' = dir /\ hidden' = hidden /\ backup' = backup
  BY <1>4, <1>6 DEF FinishRemoval, Step
<1>8. HasErased(r) /\ IsOpen(r)
  BY <1>1, <1>7 DEF ShapeOf
<1>9. x \in removal[r].done
  BY <1>3, <1>7, <1>8 DEF IsOpen, IsCommitted
<1>10. hidden[r][x.name] = None
  BY <1>8, <1>9 DEF HasErased
<1>11. IsGone(dir, hidden, backup, r, x.file, x.name)
  BY <1>3 DEF LibInv, CondemnedAreGone
<1> QED
  BY <1>7, <1>10, <1>11, IsNowhereNext DEF IsGone

(* ... or by start-up, once that has.                                      *)
LEMMA RecoveryClosesErased ==
    ASSUME LibInv, Recover, NEW q \in Removal, IsCommitted(q),
           NEW x \in journal[q].targets, x.file # None, ~IsCondemned(x.file)'
    PROVE  x.file \notin Existing'
<1> USE DEF rows, files, actors
<1>1. /\ journal \in [Removal -> Journal \cup {None}] /\ recovering \subseteq Removal
      /\ hidden \in [Removal -> [Name -> File \cup {None}]]
      /\ dir \in [Name -> File \cup {None}]
  BY DEF LibInv, Types
<1>2. journal'[q] # journal[q]
  BY DEF IsCondemned, IsCommitted
<1>3. ASSUME NEW r \in recovering, RestoreGroup(r)
      PROVE  FALSE
  <2>1. journal[r].state = "prepared" /\ journal' \in {journal, [journal EXCEPT ![r] = None]}
    BY <1>3 DEF RestoreGroup
  <2> QED
    BY <1>1, <1>2, <2>1 DEF IsCommitted
<1>4. ASSUME NEW r \in recovering, NEW failed, EraseGroup(r, failed)
      PROVE  x.file \notin Existing'
  <2> DEFINE xs == {y \in journal[r].targets : y.file # None}
             here == {y \in xs : dir[y.name] = y.file}
             erased == {y \in xs : \A z \in failed : y.plan < z.plan}
  <2>1. /\ journal' \in {journal, [journal EXCEPT ![r] = None]}
        /\ failed # {} => journal' = journal
        /\ dir' = [n \in Name |-> IF \E y \in here \cap erased : y.name = n THEN None ELSE dir[n]]
        /\ hidden' = [hidden EXCEPT ![r] = [n \in Name |->
                          IF \E y \in erased : y.name = n /\ y.file = @[n] THEN None ELSE @[n]]]
        /\ backup' = backup
    BY <1>4 DEF EraseGroup
  <2>2. q = r /\ failed = {}
    BY <1>1, <1>2, <2>1
  <2>3. x \in erased
    BY <2>2
  <2> HIDE DEF here, erased
  <2>4. IsGone(dir, hidden, backup, r, x.file, x.name)
    BY <2>2 DEF LibInv, CondemnedAreGone
  <2>5. \A n \in Name : dir'[n] # x.file
    BY <2>1, <2>4 DEF IsGone
  <2>6. \A p \in Removal, n \in Name : hidden'[p][n] # x.file
    <3> SUFFICES ASSUME NEW p \in Removal, NEW n \in Name, hidden'[p][n] = x.file
                 PROVE  FALSE
      OBVIOUS
    <3>1. hidden[p][n] = x.file
      BY <1>1, <2>1
    <3>2. p = r /\ n = x.name
      BY <2>4, <3>1 DEF IsGone
    <3>3. hidden'[r][n] = None
      BY <1>1, <2>1, <2>3, <3>1, <3>2
    <3> QED
      BY <3>2, <3>3
  <2>7. \A b \in backup' : b.file # x.file
    BY <2>1, <2>4 DEF IsGone
  <2> QED
    BY <2>5, <2>6, <2>7, IsNowhereNext
<1> QED
  BY <1>3, <1>4 DEF Recover

LEMMA CondemnedUntilErased ==
    ASSUME LibInv, LibraryNext, NEW f \in Condemned \ {None}, f \notin Condemned',
           ~\E t \in Track : PlanImport(t)
    PROVE  f \notin Existing'
<1> USE DEF rows, files, actors
<1>1. PICK q \in Removal : IsCommitted(q) /\ \E x \in journal[q].targets : x.file = f
  BY CondemnedByGroup DEF IsCondemned
<1>2. PICK x \in journal[q].targets : x.file = f
  BY <1>1
<1>3. ~IsCondemned(x.file)'
  BY <1>2, CondemnedByGroupNext
<1>4. journal' # journal
  BY <1>1, <1>2, <1>3 DEF IsCondemned, IsCommitted
<1>5. CASE RemovalStep
  <2>1. PICK r \in Removal : StepOf(r)
    BY <1>5 DEF RemovalStep, StepOf
  <2> QED
    BY <1>1, <1>2, <1>3, <2>1, RemovalClosesErased
<1>6. CASE Recover
  BY <1>1, <1>2, <1>3, <1>6, RecoveryClosesErased
<1>7. CASE ImportStep \/ DedupeStep
  BY <1>4, <1>7 DEF ImportStep, PlaceImport, CommitImport, RollBackImport, FailImport, DedupeStep,
                    FindDuplicates, DropDuplicates
<1>8. CASE RetagStep \/ SweepStep
  BY <1>4, <1>8 DEF RetagStep, ReadRetag, PrepareRetag, WithdrawFile, PublishFile, CommitRetag,
                    RollBackRetag, SweepStep, ReadSweep, InspectSweep, ApplySweep
<1>9. CASE ScanStep \/ (WorldStep /\ ~Recover)
  BY <1>4, <1>9 DEF ScanStep, RequestScan, StartScan, Discover, Adopt, EndScan, RequeueScan,
                    RecoverScan, WorldStep, UserDeletes, UserAdds, Crash
<1> QED
  BY <1>5, <1>6, <1>7, <1>8, <1>9 DEF LibraryNext

(* No step takes up again what a removal has marked.                       *)
IsLeft(p) == claim[p].status = "removed" /\ claim'[p] # None => claim'[p].status # "imported"

LEMMA LeftByChange ==
    ASSUME NEW p \in Plan, NEW c \in Claim, NEW s, claim'[p] = [c EXCEPT !.status = s], s # "imported"
    PROVE  IsLeft(p)
BY DEF IsLeft, Claim

LEMMA LeftByDemotion ==
    ASSUME NEW c \in [Plan -> Claim \cup {None}], NEW d, NEW p \in Plan,
           \A q \in Losers(d) \cup d.tied : c[q] # None, claim' = Demoted(c, d),
           claim[p].status = "removed" => c[p].status # "imported"
    PROVE  IsLeft(p)
<1>1. CASE p \in Losers(d) \cup d.tied
  <2>1. c[p] \in Claim
    BY <1>1
  <2>2. \/ claim'[p] = [c[p] EXCEPT !.status = "rolled_back"]
        \/ claim'[p] = [c[p] EXCEPT !.status = "needs_review"]
    BY <1>1 DEF Demoted
  <2> QED
    BY <2>1, <2>2, LeftByChange
<1>2. CASE p \notin Losers(d) \cup d.tied
  BY <1>2 DEF Demoted, IsLeft
<1> QED
  BY <1>1, <1>2

LEMMA RemovedStayRemoved ==
    ASSUME LibInv, LibraryNext, NEW q \in Rows
    PROVE  IsLeft(q)
<1> USE DEF rows, files, actors
<1>0. claim \in [Plan -> Claim \cup {None}] /\ q \in Plan /\ claim[q] \in Claim
  BY DEF LibInv, Types, Rows
<1>a. ASSUME claim'[q] = claim[q] \/ claim'[q] = None
      PROVE  IsLeft(q)
  BY <1>a DEF IsLeft
<1>b. ASSUME NEW p, NEW s, claim' = [claim EXCEPT ![p].status = s], s # "imported"
      PROVE  IsLeft(q)
  <2>1. claim'[q] \in {claim[q], [claim[q] EXCEPT !.status = s]}
    BY <1>0, <1>b
  <2> QED
    BY <1>0, <1>a, <1>b, <2>1, LeftByChange
<1>1. ASSUME NEW t \in Track, PlanImport(t)
      PROVE  IsLeft(q)
  <2> DEFINE gone == {p \in Rows : claim[p].track = t /\ claim[p].status # "imported"}
             kept == [p \in Plan |-> IF p \in gone THEN None ELSE claim[p]]
             s == IF dir[HomeOf[t]] = None THEN "ready" ELSE "needs_review"
  <2>1. PICK p \in Plan :
          claim' = [kept EXCEPT ![p] = [track |-> t, name |-> HomeOf[t], file |-> "unknown",
                                        adopted |-> FALSE, status |-> s]]
    BY <1>1 DEF PlanImport, NewKey
  <2>2. CASE q # p
    BY <1>0, <1>a, <2>1, <2>2
  <2>3. CASE q = p
    <3>1. claim'[q] = [track |-> t, name |-> HomeOf[t], file |-> "unknown", adopted |-> FALSE,
                       status |-> s]
      BY <2>1, <2>3
    <3>2. s # "imported"
      OBVIOUS
    <3> HIDE DEF s
    <3>3. claim'[q].status = s
      BY <3>1
    <3> QED
      BY <3>2, <3>3 DEF IsLeft
  <2> QED
    BY <2>2, <2>3
<1>2. ASSUME NEW t \in Track, CommitImport(t)
      PROVE  IsLeft(q)
  <2> DEFINE p == placed[t].plan
             c == [claim EXCEPT ![p].status = "imported", ![p].file = "present"]
             d == Duplicated(c, owned \cup {t})
  <2>1. p \in Plan /\ placed[t] # None /\ claim[p] \in Claim /\ claim' = Demoted(c, d)
    BY <1>0, <1>2 DEF CommitImport, Rows
  <2>2. c \in [Plan -> Claim \cup {None}]
    <3>1. [claim[p] EXCEPT !.status = "imported", !.file = "present"] \in Claim
      BY <2>1 DEF Claim
    <3>2. c = [claim EXCEPT ![p] = [claim[p] EXCEPT !.status = "imported", !.file = "present"]]
      BY <1>0, <2>1
    <3> HIDE DEF p, c
    <3> QED
      BY <1>0, <3>1, <3>2
  <2>3. \A x \in Losers(d) \cup d.tied : c[x] # None
    <3> HIDE DEF c
    <3> QED
      BY <2>2, DuplicatedIsTyped
  <2>4. claim[p].status # "removed"
    BY <2>1 DEF LibInv, PlacedShape
  <2>5. claim[q].status = "removed" => c[q] = claim[q]
    BY <1>0, <2>4
  <2> HIDE DEF c, d, p
  <2> QED
    BY <1>0, <2>1, <2>2, <2>3, <2>5, LeftByDemotion
<1>3. ASSUME NEW t \in Track, NEW recorded \in BOOLEAN, RollBackImport(t, recorded)
      PROVE  IsLeft(q)
  BY <1>3, <1>a, <1>b DEF RollBackImport
<1>4. ASSUME NEW p \in Plan, FailImport(p)
      PROVE  IsLeft(q)
  BY <1>4, <1>b DEF FailImport
<1>5. ASSUME DropDuplicates
      PROVE  IsLeft(q)
  <2>1. CASE Losers(dedupe) \cup dedupe.tied \subseteq Rows
    <3>1. claim' = Demoted(claim, dedupe) /\ \A x \in Losers(dedupe) \cup dedupe.tied : claim[x] # None
      BY <1>5, <2>1 DEF DropDuplicates, Rows
    <3> QED
      BY <1>0, <3>1, LeftByDemotion
  <2>2. CASE ~(Losers(dedupe) \cup dedupe.tied \subseteq Rows)
    BY <1>5, <1>a, <2>2 DEF DropDuplicates
  <2> QED
    BY <2>1, <2>2
<1>6. ASSUME CommitRetag
      PROVE  IsLeft(q)
  <2>1. \/ claim'[q] = claim[q]
        \/ \E n : claim'[q] = [claim[q] EXCEPT !.name = n]
    BY <1>0, <1>6 DEF CommitRetag
  <2>2. claim'[q] # claim[q] => claim'[q].status = claim[q].status
    BY <1>0, <2>1 DEF Claim
  <2> QED
    BY <1>a, <2>2 DEF IsLeft
<1>7. ASSUME NEW r \in Removal, DecideRemoval(r)
      PROVE  IsLeft(q)
  <2>1. claim'[q] \in {claim[q], [claim[q] EXCEPT !.status = "removed", !.file = "removed"]}
    BY <1>0, <1>7 DEF DecideRemoval, Removed
  <2>2. [claim[q] EXCEPT !.status = "removed", !.file = "removed"].status = "removed"
    BY <1>0 DEF Claim
  <2> QED
    BY <2>1, <2>2 DEF IsLeft
<1>8. ASSUME ApplySweep
      PROVE  IsLeft(q)
  <2>1. \/ claim' = claim
        \/ \E p : claim' = [claim EXCEPT ![p].file = sweep.seen]
    BY <1>8 DEF ApplySweep
  <2>2. claim'[q] \in {claim[q], [claim[q] EXCEPT !.file = sweep.seen]}
    BY <1>0, <2>1
  <2>3. claim'[q].status = claim[q].status
    BY <1>0, <2>2 DEF Claim
  <2> QED
    BY <2>3 DEF IsLeft
<1>9. ASSUME Adopt
      PROVE  IsLeft(q)
  <2>1. \E p \in NewKey(claim) : \E c : claim' = [claim EXCEPT ![p] = c]
    BY <1>9 DEF Adopt
  <2>2. q \notin NewKey(claim)
    <3>1. q \in Nat /\ claim[q] # None
      BY <1>0 DEF Rows
    <3> QED
      BY <1>0, <3>1 DEF NewKey
  <2>3. claim'[q] = claim[q]
    BY <1>0, <2>1, <2>2
  <2> QED
    BY <1>a, <2>3
<1>10. CASE (\E t \in Track, p \in Plan : PlaceImport(t, p)) \/ (DedupeStep /\ ~DropDuplicates)
  BY <1>a, <1>10 DEF PlaceImport, DedupeStep, FindDuplicates
<1>11. CASE RetagStep /\ ~CommitRetag
  BY <1>a, <1>11 DEF RetagStep, ReadRetag, PrepareRetag, WithdrawFile, PublishFile, RollBackRetag
<1>12. CASE RemovalStep
  <2>1. PICK r \in Removal : StepOf(r)
    BY <1>12 DEF RemovalStep, StepOf
  <2>2. CASE CommitRemoval(r) \/ LoseAcknowledgement(r)
    BY <1>7, <2>2 DEF CommitRemoval, LoseAcknowledgement
  <2>3. CASE ~(CommitRemoval(r) \/ LoseAcknowledgement(r))
    <3>1. claim' = claim
      BY <2>1, <2>3 DEF StepOf, ReadRemoval, OpenRemoval, RefuseRemoval, Stage, FailStage, FailSync,
                        FailRemoval, Erase, FailErase, FinishRemoval
    <3> QED
      BY <1>a, <3>1
  <2> QED
    BY <2>2, <2>3
<1>13. CASE SweepStep /\ ~ApplySweep
  BY <1>a, <1>13 DEF SweepStep, ReadSweep, InspectSweep
<1>14. CASE ScanStep /\ ~Adopt
  BY <1>a, <1>14 DEF ScanStep, RequestScan, StartScan, Discover, EndScan, RequeueScan, RecoverScan
<1>15. CASE WorldStep
  <2>1. claim' = claim
    BY <1>15 DEF WorldStep, UserDeletes, UserAdds, Crash, Recover, RestoreGroup, EraseGroup
  <2> QED
    BY <1>a, <2>1
<1> QED
  BY <1>1, <1>2, <1>3, <1>4, <1>5, <1>6, <1>8, <1>9, <1>10, <1>11, <1>12, <1>13, <1>14, <1>15
     DEF LibraryNext, ImportStep, DedupeStep, RetagStep, SweepStep, ScanStep

(* A removal that has committed is carried through: whatever else goes on, *)
(* none of its files comes back to the folder and none of its rows is      *)
(* taken up again, and its journal is closed by _mark_finalized or by      *)
(* recover_deletion_operations only when the file is nowhere.              *)
THEOREM RemovalsCarriedThrough == LibrarySpec => RemovalsAreCarriedThrough
<1> DEFINE CarriedThrough ==
      /\ \A n \in Name : dir'[n] # dir[n] => dir'[n] \notin Condemned \ {None}
      /\ \A f \in Condemned \ {None} : f \notin Condemned' /\ f \in Existing'
                                       => \E t \in Track : PlanImport(t)
      /\ \A p \in Rows : claim[p].status = "removed" /\ claim'[p] # None
                         => claim'[p].status # "imported"
<1>1. ASSUME LibInv, LibraryNext
      PROVE  CarriedThrough
  <2>1. ASSUME NEW n \in Name, dir'[n] # dir[n]
        PROVE  dir'[n] \notin Condemned \ {None}
    <3> DEFINE f == dir'[n]
    <3>1. f \in Returning
      BY <1>1, <2>1, WhatAppears
    <3> HIDE DEF f
    <3>2. f # None => ~IsCondemned(f)
      BY <1>1, <3>1, ReturningAreNotCondemned DEF LibInv
    <3>3. f \notin Condemned \ {None}
      BY <3>2, CondemnedByGroup
    <3> QED
      BY <3>3 DEF f
  <2>2. \A f \in Condemned \ {None} : f \notin Condemned' /\ f \in Existing'
                                      => \E t \in Track : PlanImport(t)
    BY <1>1, CondemnedUntilErased
  <2>3. \A p \in Rows : claim[p].status = "removed" /\ claim'[p] # None
                        => claim'[p].status # "imported"
    BY <1>1, RemovedStayRemoved DEF IsLeft
  <2> QED
    BY <2>1, <2>2, <2>3
<1>2. LibInv /\ [LibraryNext]_vars => [CarriedThrough]_vars
  BY <1>1
<1> QED
  BY LibraryInvariant, <1>2, PTL DEF LibrarySpec, RemovalsAreCarriedThrough

-----------------------------------------------------------------------------
(* Why files perish.                                                       *)

(* A removal has hidden only files of its own, and until it has committed  *)
(* only those that it has been through.                                    *)
HidesItsOwn(r) ==
    removal[r] # None => \A n \in Name : hidden[r][n] # None =>
        \E x \in removal[r].targets :
            /\ x.name = n /\ x.file = hidden[r][n]
            /\ removal[r].step # "erase" => x \in removal[r].done

OwnHidden == \A r \in Removal : HidesItsOwn(r)

LEMMA OwnHiddenFrame ==
    ASSUME OwnHidden, UNCHANGED <<removal, hidden>>
    PROVE  OwnHidden'
  BY DEF OwnHidden, HidesItsOwn

LEMMA OwnHiddenByRemoval ==
    ASSUME Types, RemovalShape, OwnHidden, NEW r \in Removal, StepOf(r)
    PROVE  OwnHidden'
<1> USE DEF rows, files
<1>1. /\ ShapeOf(r) /\ HidesItsOwn(r)
      /\ removal[r] # None => removal[r] \in RemovalState
      /\ removal \in [Removal -> RemovalState \cup {None}]
      /\ hidden \in [Removal -> [Name -> File \cup {None}]]
  BY DEF RemovalShape, OwnHidden, Types
<1>2. ASSUME NEW q \in Removal \ {r}
      PROVE  HidesItsOwn(q)'
  BY StepIsOwn DEF OnlyAt, OwnHidden, HidesItsOwn
<1>3. ASSUME removal' = Ended(r)
      PROVE  HidesItsOwn(r)'
  BY <1>1, <1>3 DEF Ended, HidesItsOwn
<1>4. ASSUME NEW plans \in SUBSET Plan, ReadRemoval(r, plans)
      PROVE  HidesItsOwn(r)'
  BY <1>4 DEF ReadRemoval, HidesItsOwn
<1>5. ASSUME OpenRemoval(r)
      PROVE  HidesItsOwn(r)'
  BY <1>1, <1>5 DEF OpenRemoval, Step, ShapeOf, IsUntouched, HidesItsOwn
<1>6. ASSUME NEW x \in Left(r), Stage(r, x)
      PROVE  HidesItsOwn(r)'
  <2>1. /\ removal[r] # None /\ removal[r].step = "stage" /\ removal[r] \in RemovalState
        /\ x \in removal[r].targets /\ x.name \in Name
    BY <1>1, <1>6 DEF Stage, Step, Left, RemovalState, Target
  <2>2. /\ removal'[r].step = "stage" /\ removal'[r].targets = removal[r].targets
        /\ removal'[r].done = removal[r].done \cup {x}
    BY <1>1, <1>6, <2>1 DEF Stage, RemovalState
  <2>3. \A n \in Name : hidden'[r][n] = IF n = x.name THEN x.file ELSE hidden[r][n]
    BY <1>1, <1>6, <2>1 DEF Stage
  <2> QED
    BY <1>1, <2>1, <2>2, <2>3 DEF HidesItsOwn
<1>7. ASSUME CommitRemoval(r)
      PROVE  HidesItsOwn(r)'
  <2>1. /\ removal[r] # None /\ hidden' = hidden
        /\ removal'[r].step = "erase" /\ removal'[r].targets = removal[r].targets
    BY <1>1, <1>7 DEF CommitRemoval, DecideRemoval, Step, RemovalState
  <2> QED
    BY <1>1, <2>1 DEF HidesItsOwn
<1>8. ASSUME NEW x \in Left(r), Erase(r, x) \/ FailErase(r, x)
      PROVE  HidesItsOwn(r)'
  <2>1. /\ removal[r] # None /\ removal[r] \in RemovalState
        /\ removal[r].step = "erase" /\ x.name \in Name
    BY <1>1, <1>8 DEF Erase, FailErase, Step, Left, RemovalState, Target
  <2>2. removal'[r].step = "erase" /\ removal'[r].targets = removal[r].targets
    BY <1>1, <1>8, <2>1 DEF Erase, FailErase, RemovalState
  <2>3. \A n \in Name : hidden'[r][n] \in {hidden[r][n], None}
    BY <1>1, <1>8, <2>1 DEF Erase, FailErase
  <2> QED
    BY <1>1, <2>1, <2>2, <2>3 DEF HidesItsOwn
<1>9. HidesItsOwn(r)'
  BY <1>3, <1>4, <1>5, <1>6, <1>7, <1>8
     DEF StepOf, RefuseRemoval, FailStage, FailSync, LoseAcknowledgement, FailRemoval, FinishRemoval
<1> QED
  BY <1>2, <1>9 DEF OwnHidden

LEMMA OwnHiddenKept ==
    ASSUME LibInv, OwnHidden, [LibraryNext]_vars
    PROVE  OwnHidden'
<1> USE DEF rows, files, actors
<1>1. CASE RemovalStep
  <2>1. PICK r \in Removal : StepOf(r)
    BY <1>1 DEF RemovalStep, StepOf
  <2> QED
    BY <2>1, OwnHiddenByRemoval DEF LibInv
<1>2. CASE Recover \/ Crash
  <2>1. \A r \in Removal : removal'[r] = None
    <3>1. CASE Crash
      BY <3>1 DEF Crash
    <3>2. CASE Recover
      BY <3>2 DEF Recover, RestoreGroup, EraseGroup, LibInv, RemovalShape, ShapeOf
    <3> QED
      BY <1>2, <3>1, <3>2
  <2> QED
    BY <2>1 DEF OwnHidden, HidesItsOwn
<1>3. CASE UNCHANGED <<removal, hidden>>
  BY <1>3, OwnHiddenFrame
<1>4. CASE ImportStep \/ DedupeStep
  <2>1. UNCHANGED <<removal, hidden>>
    BY <1>4 DEF ImportStep, PlanImport, PlaceImport, CommitImport, RollBackImport, FailImport,
                DedupeStep, FindDuplicates, DropDuplicates
  <2> QED
    BY <1>3, <2>1
<1>5. CASE RetagStep
  BY <1>3, <1>5 DEF RetagStep, ReadRetag, PrepareRetag, WithdrawFile, PublishFile, CommitRetag,
                    RollBackRetag
<1>6. CASE SweepStep \/ ScanStep
  BY <1>3, <1>6 DEF SweepStep, ReadSweep, InspectSweep, ApplySweep, ScanStep, RequestScan, StartScan,
                    Discover, Adopt, EndScan, RequeueScan, RecoverScan
<1>7. CASE WorldStep
  BY <1>2, <1>3, <1>7 DEF WorldStep, UserDeletes, UserAdds
<1>8. CASE UNCHANGED vars
  BY <1>3, <1>8 DEF vars
<1> QED
  BY <1>1, <1>4, <1>5, <1>6, <1>7, <1>8 DEF LibraryNext

(* Where a file exists, before and after a step.                           *)
LEMMA ExistsBefore ==
    \A f : f \in Existing <=> /\ f # None
                              /\ \/ \E n \in Name : dir[n] = f
                                 \/ \E r \in Removal, n \in Name : hidden[r][n] = f
                                 \/ \E b \in backup : b.file = f
BY DEF Existing, Hidden

LEMMA ExistsAfter ==
    \A f : f \in Existing' <=> /\ f # None
                               /\ \/ \E n \in Name : dir'[n] = f
                                  \/ \E r \in Removal, n \in Name : hidden'[r][n] = f
                                  \/ \E b \in backup' : b.file = f
BY DEF Existing, Hidden

Perishes(f) == f \in Existing /\ f \notin Existing'

LEMMA NonePerishes ==
    ASSUME UNCHANGED files, NEW f
    PROVE  ~Perishes(f)
  BY DEF Perishes, files, Existing, Hidden

(* Only what lay in the folder perishes where the other places stay.       *)
LEMMA PerishesHere ==
    ASSUME UNCHANGED <<hidden, backup>>, NEW f, Perishes(f)
    PROVE  \E n \in Name : dir[n] = f /\ dir'[n] # f
  BY ExistsBefore, ExistsAfter DEF Perishes

(* A clear winner of higher rank is there for every duplicate.             *)
LEMMA LosersAreOutranked ==
    ASSUME NEW c, NEW o, NEW x \in Duplicated(c, o).losers
    PROVE  \E p, q \in Plan : /\ x = <<p, c[p].name>> /\ c[p] # None
                              /\ c[q] # None /\ dir[c[q].name] # None
                              /\ ~(Rank[c[q].name] <= Rank[c[p].name])
<1> DEFINE there == {p \in Plan : /\ c[p] # None /\ c[p].status = "imported"
                                  /\ c[p].track \in o /\ dir[c[p].name] # None}
           best == {p \in there : \A q \in there : Rank[c[q].name] <= Rank[c[p].name]}
<1>1. Duplicated(c, o).losers = IF Cardinality(best) = 1
                                THEN {<<p, c[p].name>> : p \in there \ best} ELSE {}
  BY DEF Duplicated
<1>2. \A p \in there : p \in best \/ \E q \in there : ~(Rank[c[q].name] <= Rank[c[p].name])
  OBVIOUS
<1>3. \A p \in there : p \in Plan /\ c[p] # None /\ dir[c[p].name] # None
  OBVIOUS
<1> HIDE DEF there, best
<1>4. PICK p \in there \ best : x = <<p, c[p].name>>
  BY <1>1
<1> QED
  BY <1>2, <1>3, <1>4

(* An import destroys what it unlinks by name and, when it commits, what   *)
(* is outranked.                                                           *)
LEMMA ImportPerishes ==
    ASSUME Types, ImportStep, NEW f, Perishes(f)
    PROVE  f \in GoneByName \/ (f \in Outranked /\ \E t \in Track : CommitImport(t))
<1> USE DEF rows, files, actors
<1>1. CASE UNCHANGED files
  BY <1>1, NonePerishes
<1>2. ASSUME NEW t \in Track, NEW p \in Plan, PlaceImport(t, p)
      PROVE  FALSE
  <2>1. PICK n \in Name : dir[n] = f /\ dir'[n] # f
    BY <1>2, PerishesHere DEF PlaceImport
  <2>2. claim[p].name \in Name
    BY <1>2 DEF PlaceImport, Types, Rows, Claim
  <2>3. f # None
    BY ExistsBefore DEF Perishes
  <2> QED
    BY <1>2, <2>1, <2>2, <2>3 DEF PlaceImport, Types
<1>3. ASSUME NEW t \in Track, CommitImport(t)
      PROVE  f \in Outranked
  <2> DEFINE c == [claim EXCEPT ![placed[t].plan].status = "imported", ![placed[t].plan].file = "present"]
             o == owned \cup {t}
             d == Duplicated(c, o)
  <2>1. /\ dir' = WithoutLosers(d) /\ UNCHANGED <<hidden, backup>>
        /\ placed[t] # None /\ placed[t].plan \in Rows
    BY <1>3 DEF CommitImport
  <2>2. \A p \in Plan : c[p] # None => p \in Rows /\ c[p].name = claim[p].name
    BY <2>1 DEF Rows, Types, Claim
  <2>3. PICK n \in Name : dir[n] = f /\ dir'[n] # f
    BY <2>1, PerishesHere
  <2> HIDE DEF c
  <2>4. PICK x \in d.losers : x[2] = n
    <3>1. WithoutLosers(d)[n] # dir[n]
      BY <2>1, <2>3
    <3> QED
      BY <3>1 DEF WithoutLosers
  <2>5. PICK p \in Plan, q \in Plan : /\ x = <<p, c[p].name>> /\ c[p] # None
                                      /\ c[q] # None /\ dir[c[q].name] # None
                                      /\ ~(Rank[c[q].name] <= Rank[c[p].name])
    BY LosersAreOutranked
  <2>6. /\ p \in Rows /\ q \in Rows /\ claim[p].name = n /\ dir[claim[q].name] # None
        /\ claim[p].name \in Name /\ claim[q].name \in Name
        /\ ~(Rank[claim[q].name] <= Rank[claim[p].name])
    BY <2>2, <2>4, <2>5 DEF Rows, Types, Claim
  <2>7. Rank[claim[p].name] < Rank[claim[q].name]
    BY <2>6, LibraryAssumption
  <2> QED
    BY <2>3, <2>6, <2>7 DEF Outranked
<1>4. ASSUME NEW t \in Track, NEW recorded \in BOOLEAN, RollBackImport(t, recorded)
      PROVE  f \in GoneByName
  <2>1. PICK n \in Name : dir[n] = f /\ dir'[n] # f
    BY <1>4, PerishesHere DEF RollBackImport
  <2>2. n = HomeOf[t]
    BY <1>4, <2>1 DEF RollBackImport, Types
  <2> QED
    BY <1>4, <2>1, <2>2 DEF RollBackImport, GoneByName
<1>5. (\E t \in Track : PlanImport(t)) \/ (\E p \in Plan : FailImport(p)) => UNCHANGED files
  BY DEF PlanImport, FailImport
<1> QED
  BY <1>1, <1>2, <1>3, <1>4, <1>5 DEF ImportStep

LEMMA DedupePerishes ==
    ASSUME Types, DedupeStep, NEW f, Perishes(f)
    PROVE  f \in GoneByName
<1> USE DEF rows, files
<1>1. DropDuplicates /\ UNCHANGED <<hidden, backup>>
  BY NonePerishes DEF DedupeStep, FindDuplicates, DropDuplicates
<1>2. PICK n \in Name : dir[n] = f /\ dir'[n] # f
  BY <1>1, PerishesHere
<1>3. PICK x \in dedupe.losers : x[2] = n
  BY <1>1, <1>2 DEF DropDuplicates, WithoutLosers
<1> QED
  BY <1>1, <1>2, <1>3 DEF DropDuplicates, GoneByName

(* What a re-tagging withdraws is in its backups, and what it publishes or *)
(* takes back over is under a name of its own.                             *)
LEMMA RetagPerishes ==
    ASSUME Types, RetagStep, NEW f, Perishes(f)
    PROVE  f \in GoneByName
<1> USE DEF rows, files
<1>1. CASE UNCHANGED files
  BY <1>1, NonePerishes
<1>2. ASSUME NEW x \in Todo, WithdrawFile(x)
      PROVE  FALSE
  <2>1. /\ dir[x.from] = x.file /\ x.from \in Name /\ hidden' = hidden
        /\ dir' = [dir EXCEPT ![x.from] = None]
        /\ backup' = backup \cup {[name |-> x.from, file |-> x.file]}
    BY <1>2 DEF WithdrawFile, Todo, Types, Retag, Move
  <2>2. \A n \in Name : n # x.from => dir'[n] = dir[n]
    <3>1. dir \in [Name -> File \cup {None}]
      BY DEF Types
    <3> QED
      BY <2>1, <3>1
  <2>3. \E b \in backup' : b.file = x.file
    <3> DEFINE b == [name |-> x.from, file |-> x.file]
    <3>1. b \in backup' /\ b.file = x.file
      BY <2>1
    <3> QED
      BY <3>1
  <2> QED
    BY <2>1, <2>2, <2>3, ExistsBefore, ExistsAfter DEF Perishes
<1>3. ASSUME PublishFile
      PROVE  f \in GoneByName
  <2>1. PICK n \in Name : dir[n] = f /\ dir'[n] # f
    BY <1>3, PerishesHere DEF PublishFile
  <2>2. n = retag.next.to /\ retag # None /\ retag.next # None
    BY <1>3, <2>1 DEF PublishFile, Types
  <2> QED
    BY <2>1, <2>2 DEF GoneByName
<1>4. ASSUME CommitRetag
      PROVE  f \in GoneByName
  <2>1. retag # None /\ UNCHANGED <<dir, hidden>> /\ backup' = backup \ retag.saved
    BY <1>4 DEF CommitRetag
  <2>2. PICK b \in backup : b.file = f /\ b \in retag.saved
    BY <2>1, ExistsBefore, ExistsAfter DEF Perishes
  <2> QED
    BY <2>1, <2>2 DEF GoneByName
<1>5. ASSUME RollBackRetag
      PROVE  f \in GoneByName
  <2>1. /\ retag # None /\ hidden' = hidden
        /\ \A b \in backup : b \in backup' \/ b \in retag.saved
        /\ \A n \in Name : \/ dir'[n] = dir[n]
                           \/ \E b \in retag.saved : b.name = n
                           \/ \E x \in retag.made : x.to = n
    BY <1>5 DEF RollBackRetag, Types
  <2>2. CASE \E b \in backup : b.file = f
    <3>1. PICK b \in backup : b.file = f /\ b \in retag.saved
      BY <2>1, <2>2, ExistsAfter, ExistsBefore DEF Perishes
    <3> QED
      BY <2>1, <3>1 DEF GoneByName
  <2>3. CASE \E n \in Name : dir[n] = f
    <3>1. PICK n \in Name : dir[n] = f
      BY <2>3
    <3>2. dir'[n] # f
      BY <3>1, ExistsBefore, ExistsAfter DEF Perishes
    <3>3. \/ \E b \in retag.saved : b.name = n
          \/ \E x \in retag.made : x.to = n
      BY <2>1, <3>1, <3>2
    <3> QED
      BY <2>1, <3>1, <3>3 DEF GoneByName
  <2> QED
    BY <2>1, <2>2, <2>3, ExistsBefore, ExistsAfter DEF Perishes
<1> QED
  BY <1>1, <1>2, <1>3, <1>4, <1>5 DEF RetagStep, ReadRetag, PrepareRetag

(* Files that come back come to free names, and leave those of their own.  *)
LEMMA RestoredKeep ==
    ASSUME Types, NEW r \in Removal, NEW xs,
           \A x \in xs : x.file # None => x.name \in Name /\ hidden[r][x.name] = x.file
    PROVE  /\ \A n \in Name : dir[n] # None => WithRestored(xs)[n] = dir[n]
           /\ \A q \in Removal, n \in Name : \/ WithoutRestored(r, xs)[q][n] = hidden[q][n]
                                             \/ WithRestored(xs)[n] = hidden[q][n]
<1>1. \A x \in Restored(xs) : /\ x.name \in Name /\ dir[x.name] = None
                              /\ hidden[r][x.name] = x.file
  BY DEF Restored
<1>2. \A n \in Name : dir[n] # None => WithRestored(xs)[n] = dir[n]
  <2> HIDE DEF Restored
  <2> QED
    BY <1>1 DEF WithRestored
<1>3. ASSUME NEW q \in Removal, NEW n \in Name, WithoutRestored(r, xs)[q][n] # hidden[q][n]
      PROVE  WithRestored(xs)[n] = hidden[q][n]
  <2>1. q = r /\ \E x \in Restored(xs) : x.name = n
    BY <1>3 DEF WithoutRestored, Types
  <2>2. PICK x \in Restored(xs) : x.name = n /\ WithRestored(xs)[n] = x.file
    BY <2>1 DEF WithRestored
  <2> QED
    BY <1>1, <2>1, <2>2
<1> QED
  BY <1>2, <1>3

LEMMA NoneIsRestoredAway ==
    ASSUME Types, NEW r \in Removal, NEW xs,
           \A x \in xs : x.file # None => x.name \in Name /\ hidden[r][x.name] = x.file,
           dir' = WithRestored(xs), hidden' = WithoutRestored(r, xs), backup' = backup, NEW f
    PROVE  ~Perishes(f)
<1>1. /\ \A n \in Name : dir[n] # None => dir'[n] = dir[n]
      /\ \A q \in Removal, n \in Name : hidden'[q][n] = hidden[q][n] \/ dir'[n] = hidden[q][n]
  BY RestoredKeep
<1> QED
  BY <1>1, ExistsBefore, ExistsAfter DEF Perishes

(* A removal destroys nothing before it has committed, and then what it    *)
(* has hidden.                                                             *)
LEMMA RemovalPerishes ==
    ASSUME Types, RemovalShape, OwnHidden, NEW r \in Removal, StepOf(r), NEW f, Perishes(f)
    PROVE  f \in Decided
<1> USE DEF rows, files
<1>1. /\ ShapeOf(r) /\ HidesItsOwn(r)
      /\ removal[r] # None => removal[r] \in RemovalState
      /\ hidden \in [Removal -> [Name -> File \cup {None}]]
      /\ dir \in [Name -> File \cup {None}]
  BY DEF RemovalShape, OwnHidden, Types
<1>2. \A x \in Left(r) : /\ x \in removal[r].targets /\ x \notin removal[r].done
                         /\ x.name \in Name /\ removal[r] # None
  BY <1>1 DEF Left, RemovalState, Target
<1>a. UNCHANGED files => FALSE
  BY NonePerishes
<1>b. ASSUME Step(r, "stage")
      PROVE  /\ \A x \in removal[r].done : x.file # None => x.name \in Name /\ hidden[r][x.name] = x.file
             /\ \A x \in Left(r) : hidden[r][x.name] = None
  <2>1. /\ removal[r] # None /\ removal[r].step = "stage" /\ removal[r] \in RemovalState
        /\ HasStaged(r) /\ IsOpen(r)
    BY <1>1, <1>b DEF Step, ShapeOf
  <2>2. \A x \in removal[r].done : x.name \in Name
    BY <2>1 DEF RemovalState, Target
  <2>3. ASSUME NEW x \in Left(r), hidden[r][x.name] # None
        PROVE  FALSE
    <3>1. PICK y \in removal[r].targets : y.name = x.name /\ y \in removal[r].done
      BY <1>1, <1>2, <2>1, <2>3 DEF HidesItsOwn
    <3>2. y = x
      BY <1>2, <2>1, <3>1 DEF IsOpen
    <3> QED
      BY <1>2, <3>1, <3>2
  <2> QED
    BY <2>1, <2>2, <2>3 DEF HasStaged
<1>3. ASSUME NEW x \in Left(r), Stage(r, x)
      PROVE  FALSE
  <2>1. Step(r, "stage") /\ hidden[r][x.name] = None /\ backup' = backup
    BY <1>3, <1>b DEF Stage
  <2>2. \A q \in Removal, n \in Name : hidden'[q][n] = IF q = r /\ n = x.name THEN x.file ELSE hidden[q][n]
    BY <1>1, <1>2, <1>3 DEF Stage
  <2>3. \A n \in Name : \/ dir'[n] = dir[n]
                        \/ n = x.name /\ dir[n] = x.file
    BY <1>1, <1>2, <1>3 DEF Stage
  <2> QED
    BY <1>2, <2>1, <2>2, <2>3, ExistsBefore, ExistsAfter DEF Perishes
<1>4. ASSUME NEW x \in Left(r), FailStage(r, x)
      PROVE  FALSE
  BY <1>4, <1>b, NoneIsRestoredAway DEF FailStage
<1>5. ASSUME NEW x \in Left(r), FailSync(r, x)
      PROVE  FALSE
  <2> DEFINE xs == removal[r].done
             d == WithRestored(xs)
             h == WithoutRestored(r, xs)
  <2>1. /\ Step(r, "stage") /\ hidden[r][x.name] = None /\ backup' = backup
        /\ dir[x.name] = x.file /\ x.file # None
        /\ dir' = [d EXCEPT ![x.name] = None] /\ hidden' = [h EXCEPT ![r][x.name] = x.file]
    BY <1>5, <1>b DEF FailSync
  <2>2. /\ \A n \in Name : dir[n] # None => d[n] = dir[n]
        /\ \A q \in Removal, n \in Name : h[q][n] = hidden[q][n] \/ d[n] = hidden[q][n]
    BY <1>b, <2>1, RestoredKeep
  <2>3. d \in [Name -> File \cup {None}] /\ h \in [Removal -> [Name -> File \cup {None}]]
    <3>1. xs \in SUBSET Target
      BY <1>1, <1>2 DEF RemovalState
    <3> QED
      BY <3>1, RestoredIsTyped
  <2> HIDE DEF d, h
  <2>4. /\ \A n \in Name : dir'[n] = IF n = x.name THEN None ELSE d[n]
        /\ \A q \in Removal, n \in Name : hidden'[q][n] = IF q = r /\ n = x.name THEN x.file ELSE h[q][n]
    BY <1>2, <2>1, <2>3
  <2>5. f # None /\ f # x.file
    BY <1>2, <2>4, ExistsBefore, ExistsAfter DEF Perishes
  <2>6. \A n \in Name : dir[n] # f
    BY <1>2, <2>1, <2>2, <2>4, <2>5, ExistsAfter DEF Perishes
  <2>7. \A q \in Removal, n \in Name : hidden[q][n] # f
    BY <1>2, <2>1, <2>2, <2>4, <2>5, ExistsAfter DEF Perishes
  <2> QED
    BY <2>1, <2>6, <2>7, ExistsBefore, ExistsAfter DEF Perishes
<1>6. ASSUME NEW noted \in BOOLEAN, FailRemoval(r, noted)
      PROVE  FALSE
  <2>1. Step(r, "stage") /\ removal[r].done = removal[r].targets /\ backup' = backup
    BY <1>6 DEF FailRemoval
  <2>2. CASE IsWhole(r)
    BY <1>6, <1>b, <2>1, <2>2, NoneIsRestoredAway DEF FailRemoval
  <2>3. CASE ~IsWhole(r)
    BY <1>6, <1>a, <2>1, <2>3 DEF FailRemoval
  <2> QED
    BY <2>2, <2>3
<1>7. ASSUME NEW x \in Left(r), Erase(r, x)
      PROVE  f \in Decided
  <2>1. /\ Step(r, "erase") /\ UNCHANGED <<dir, backup>>
        /\ \A q \in Removal, n \in Name : hidden'[q][n] = IF q = r /\ n = x.name THEN None ELSE hidden[q][n]
    BY <1>1, <1>2, <1>7 DEF Erase
  <2>2. f = hidden[r][x.name] /\ f # None
    BY <2>1, ExistsBefore, ExistsAfter DEF Perishes
  <2>3. PICK y \in removal[r].targets : y.file = f
    BY <1>1, <1>2, <2>2 DEF HidesItsOwn
  <2> QED
    BY <2>1, <2>3 DEF Decided
<1>8. UNCHANGED files \/ ~(\/ \E plans \in SUBSET Plan : ReadRemoval(r, plans)
                           \/ OpenRemoval(r) \/ RefuseRemoval(r)
                           \/ CommitRemoval(r) \/ LoseAcknowledgement(r)
                           \/ \E noted \in BOOLEAN : FinishRemoval(r, noted)
                           \/ \E x \in Left(r) : FailErase(r, x))
  BY DEF ReadRemoval, OpenRemoval, RefuseRemoval, CommitRemoval, LoseAcknowledgement, DecideRemoval,
         FinishRemoval, FailErase
<1> QED
  BY <1>a, <1>3, <1>4, <1>5, <1>6, <1>7, <1>8 DEF StepOf

(* start-up destroys what committed groups have recorded.                  *)
LEMMA RecoveryPerishes ==
    ASSUME Types, RecoveryShape, Recover, NEW f, Perishes(f)
    PROVE  f \in Decided
<1> USE DEF rows, files
<1>1. /\ hidden \in [Removal -> [Name -> File \cup {None}]]
      /\ dir \in [Name -> File \cup {None}]
      /\ \A r \in Removal : journal[r] # None => \A x \in journal[r].targets : x.name \in Name
      /\ recovering \subseteq Removal
  BY DEF Types, Journal, Target
<1>2. ASSUME NEW r \in recovering, RestoreGroup(r), journal[r] # None
      PROVE  FALSE
  <2> DEFINE xs == journal[r].targets
             moved == {x \in xs : x.file # None /\ hidden[r][x.name] = x.file}
             stuck == {x \in moved : dir[x.name] # None}
                      \cup {x \in xs \ moved : x.file # None /\ dir[x.name] # x.file}
             back == {x \in moved : \A y \in stuck : y.plan < x.plan}
  <2>1. dir' = WithRestored(back) /\ hidden' = WithoutRestored(r, back) /\ backup' = backup
    BY <1>2 DEF RestoreGroup
  <2>2. \A x \in back : x.file # None => x.name \in Name /\ hidden[r][x.name] = x.file
    BY <1>1, <1>2
  <2> HIDE DEF back
  <2> QED
    BY <1>1, <2>1, <2>2, NoneIsRestoredAway
<1>3. ASSUME NEW r \in recovering, NEW failed, EraseGroup(r, failed), journal[r] # None
      PROVE  f \in Decided
  <2> DEFINE xs == {x \in journal[r].targets : x.file # None}
             here == {x \in xs : dir[x.name] = x.file}
             erased == {x \in xs : \A y \in failed : x.plan < y.plan}
  <2>1. /\ IsCommitted(r) /\ backup' = backup
        /\ dir' = [n \in Name |-> IF \E x \in here \cap erased : x.name = n THEN None ELSE dir[n]]
        /\ hidden' = [hidden EXCEPT ![r] = [m \in Name |->
                          IF \E x \in erased : x.name = m /\ x.file = @[m] THEN None ELSE @[m]]]
    BY <1>3 DEF EraseGroup, IsCommitted
  <2>2. \A n \in Name : dir'[n] = dir[n] \/ \E x \in journal[r].targets : x.file = dir[n]
    BY <2>1
  <2>3. \A q \in Removal, n \in Name : \/ hidden'[q][n] = hidden[q][n]
                                       \/ \E x \in journal[r].targets : x.file = hidden[q][n]
    <3> HIDE DEF erased
    <3>1. \A q \in Removal, n \in Name : \/ hidden'[q][n] = hidden[q][n]
                                         \/ \E x \in erased : x.file = hidden[q][n]
      BY <1>1, <2>1
    <3> QED
      BY <3>1 DEF erased
  <2>4. PICK x \in journal[r].targets : x.file = f
    BY <2>1, <2>2, <2>3, ExistsBefore, ExistsAfter DEF Perishes
  <2>5. IsCondemned(f)
    BY <1>1, <2>1, <2>4 DEF IsCondemned
  <2> QED
    BY <2>5, CondemnedByGroup DEF Decided
<1> QED
  BY <1>2, <1>3 DEF Recover, RecoveryShape

(* The program destroys a file only for a reason it can name, whichever    *)
(* parts are at work: what a removal that did not commit, a recovery, a    *)
(* sweep, a scan or the planning of an import does destroys no file        *)
(* (library_removal.py, library_import.py, quality_upgrade.py).            *)
THEOREM FilesPerishRightly == LibrarySpec => FilesPerishForAReason
<1>1. LibraryInit => OwnHidden
  BY DEF LibraryInit, OwnHidden, HidesItsOwn
<1>2. LibInv /\ OwnHidden /\ [LibraryNext]_vars => OwnHidden'
  BY OwnHiddenKept
<1>3. ASSUME LibInv, OwnHidden, LibraryNext, changes' = changes, NEW f, Perishes(f)
      PROVE  \/ f \in Decided \cup GoneByName
             \/ f \in Outranked /\ \E t \in Track : CommitImport(t)
  <2> USE DEF LibInv
  <2>1. CASE ImportStep
    BY <1>3, <2>1, ImportPerishes
  <2>2. CASE DedupeStep
    BY <1>3, <2>2, DedupePerishes
  <2>3. CASE RetagStep
    BY <1>3, <2>3, RetagPerishes
  <2>4. CASE RemovalStep
    <3>1. PICK r \in Removal : StepOf(r)
      BY <2>4 DEF RemovalStep, StepOf
    <3> QED
      BY <1>3, <3>1, RemovalPerishes
  <2>5. CASE SweepStep \/ ScanStep \/ Crash
    BY <1>3, <2>5, NonePerishes
       DEF files, SweepStep, ReadSweep, InspectSweep, ApplySweep, ScanStep, RequestScan, StartScan,
           Discover, Adopt, EndScan, RequeueScan, RecoverScan, Crash
  <2>6. CASE Recover
    BY <1>3, <2>6, RecoveryPerishes
  <2>7. ~\E n \in Name : UserDeletes(n) \/ UserAdds(n)
    BY <1>3 DEF UserDeletes, UserAdds, Types
  <2> QED
    BY <1>3, <2>1, <2>2, <2>3, <2>4, <2>5, <2>6, <2>7 DEF LibraryNext, WorldStep
<1>4. LibInv /\ OwnHidden /\ [LibraryNext]_vars =>
          [changes' = changes => \A f \in Existing : f \notin Existing' =>
               \/ f \in Decided \cup GoneByName
               \/ f \in Outranked /\ \E t \in Track : CommitImport(t)]_vars
  BY <1>3 DEF Perishes
<1> QED
  BY <1>1, <1>2, <1>4, LibraryInvariant, PTL DEF LibrarySpec, FilesPerishForAReason

===============================================================================
