-------------------------- MODULE MCAttemptCleanup --------------------------
(* Instances of AttemptCleanup for TLC: everything may go wrong, or only   *)
(* the process.                                                            *)
EXTENDS AttemptCleanup

EveryFault == AllFaults
Crashes == {"crash"}
=============================================================================
