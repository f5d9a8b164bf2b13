--------------------------- MODULE MCJobExecution ---------------------------
(* Instances of JobExecution for TLC.                                      *)
EXTENDS JobExecution, TLC

\* Runs are interchangeable, and so are the processes and requests of the safety runs.
Symmetry == Permutations(Run) \cup Permutations(Process) \cup Permutations(Request)
=============================================================================
