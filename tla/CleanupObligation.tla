------------------------- MODULE CleanupObligation -------------------------
(***************************************************************************)
(* What the cleanup of one acquisition attempt promises, whatever calls,   *)
(* tasks and crashes are behind it: the provider's record is settled       *)
(* before the file, each by the holder of the one claim there is, and a    *)
(* claim changes hands only when it was given back or its lease is over.   *)
(***************************************************************************)
CONSTANTS Attempt, Cleaner, None

VARIABLES
    stage,   \* what is still to be settled: "provider", "file" or "nothing"
    holder,  \* who holds the claim
    fresh    \* whether the holder's lease is in the future

vars == <<stage, holder, fresh>>

Init ==
    /\ stage = [a \in Attempt |-> "provider"]
    /\ holder = [a \in Attempt |-> None]
    /\ fresh = [a \in Attempt |-> FALSE]

Take(a, c) ==
    /\ stage[a] # "nothing" /\ (holder[a] = None \/ ~fresh[a])
    /\ holder' = [holder EXCEPT ![a] = c]
    /\ fresh' = [fresh EXCEPT ![a] = TRUE]
    /\ UNCHANGED stage

Lapse(a) ==
    /\ holder[a] # None
    /\ fresh' = [fresh EXCEPT ![a] = FALSE]
    /\ UNCHANGED <<stage, holder>>

GiveBack(a, s) ==
    /\ holder[a] # None
    /\ stage' = [stage EXCEPT ![a] = s]
    /\ holder' = [holder EXCEPT ![a] = None]
    /\ fresh' = [fresh EXCEPT ![a] = FALSE]

(* The holder settles the stage the claim was for, or leaves it open.      *)
Settle(a) ==
    \/ stage[a] = "provider" /\ GiveBack(a, "file")
    \/ stage[a] = "file" /\ GiveBack(a, "nothing")

Fail(a) == GiveBack(a, stage[a])

Next ==
    \E a \in Attempt :
        Lapse(a) \/ Settle(a) \/ Fail(a) \/ \E c \in Cleaner : Take(a, c)

Spec == Init /\ [][Next]_vars
=============================================================================
