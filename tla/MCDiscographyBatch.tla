-------------------------- MODULE MCDiscographyBatch --------------------------
(* Instances of DiscographyBatch for TLC: two batches that both want one   *)
(* album, and one batch alone.                                             *)
EXTENDS DiscographyBatch, TLC

CONSTANTS a1, t1, b1, b2

OneAlbum == [t \in Track |-> a1]
TwoBatches == 1 :> b1 @@ 2 :> b2
OneBatch == 1 :> b1
SameAlbum == [i \in Item |-> a1]

(* Later beginnings, so that fewer events have to be allowed.              *)
Later ==
    /\ working = {} /\ asks = [j \in JobId |-> {}]
    /\ trackClaim = [t \in Track |-> None]
    /\ runner = IdleRunner /\ request = None

(* A batch is queued with an album of unknown tracks and paused before the *)
(* runner comes to it, and anything may have become of the album.          *)
Paused ==
    /\ Later /\ events = 0
    /\ status = [j \in JobId |-> None] /\ row = [j \in JobId |-> None]
    /\ rootClaim = [a \in Album |-> None] /\ links = {}
    /\ owned \in SUBSET Track /\ manifest \in [Album -> BOOLEAN] /\ bypassed \in SUBSET Bypassable
    /\ batch = [b \in Batch |-> IF b = b1 THEN "paused" ELSE "none"]
    /\ item = [i \in Item |-> IF BatchOf[i] = b1
                              THEN [NewItem EXCEPT !.state = "pending", !.reason = "manifest"]
                              ELSE NewItem]

(* One batch has created the root job, the other observes it; one event is *)
(* left.                                                                   *)
Observed ==
    /\ Later /\ events = MaxEvents - 1
    /\ status = [j \in JobId |-> IF j = 1 THEN "pending" ELSE None]
    /\ row = [j \in JobId |-> IF j = 1 THEN RootRow(a1) ELSE None]
    /\ rootClaim = [a \in Album |-> 1]
    /\ owned = {} /\ manifest = [a \in Album |-> TRUE] /\ bypassed = {}
    /\ batch = [b \in Batch |-> "running"]
    /\ item = [i \in Item |-> [NewItem EXCEPT !.state = "waiting"]]
    /\ links = {RootLink(i, 1, BatchOf[i] = b1) : i \in Item}

MCSpec == (Init \/ Paused \/ Observed) /\ [][Next]_vars /\ Fairness
===============================================================================
