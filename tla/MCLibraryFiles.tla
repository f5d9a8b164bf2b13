---------------------------- MODULE MCLibraryFiles ----------------------------
(* Instances of LibraryFiles for TLC: two rows of a catalogue track, and   *)
(* any two of the parts at work together, or the sweep with duplicates and *)
(* a third.  More of them at once exceed TLC, not the theorems of          *)
(* LibraryFiles_proofs, which put no restriction on the parts.             *)
EXTENDS LibraryFiles, TLC

CONSTANTS n1, n2, n3

VARIABLE parts

Homes == 1 :> n1 @@ 2 :> n2
Canonical == 1 :> n3 @@ 2 :> n2
Qualities == n1 :> 1 @@ n2 :> 2 @@ n3 :> 1

Together ==
    LET pairs == {{p, q} : p, q \in {"import", "dedupe", "retag", "removal", "sweep", "scan"}}
        triples == {{"dedupe", "sweep", p} : p \in {"import", "removal", "scan"}}
    IN  triples \cup {S \in pairs : Cardinality(S) = 2 /\ \A U \in triples : ~(S \subseteq U)}

MCInit == LibraryInit /\ parts \in Together

MCNext ==
    /\ \/ "import" \in parts /\ ImportStep
       \/ "dedupe" \in parts /\ DedupeStep
       \/ "retag" \in parts /\ RetagStep
       \/ "removal" \in parts /\ RemovalStep
       \/ "sweep" \in parts /\ SweepStep
       \/ "scan" \in parts /\ ScanStep
       \/ WorldStep
    /\ UNCHANGED parts

MCSpec == MCInit /\ [][MCNext]_<<vars, parts>>
===============================================================================
