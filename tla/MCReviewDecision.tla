---------------------------- MODULE MCReviewDecision ----------------------------
(* Instances of ReviewDecision for TLC.                                    *)
EXTENDS ReviewDecision
=================================================================================
