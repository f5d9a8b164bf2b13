----------------------------- MODULE PermitPool -----------------------------
(***************************************************************************)
(* What the dispatcher's two limits promise: a run is one of at most room  *)
(* members before it may hold a permit, at most limit members hold one,    *)
(* and a run leaves only without its permit.  Lowering a limit evicts      *)
(* nobody.                                                                 *)
(***************************************************************************)
EXTENDS Naturals, FiniteSets

CONSTANT Run

VARIABLES
    members,  \* runs counted as in flight
    holders,  \* runs counted as active
    limit,    \* how many may hold a permit
    room      \* how many may be in flight

vars == <<members, holders, limit, room>>

Init ==
    /\ members = {} /\ holders = {}
    /\ limit \in Nat /\ room \in Nat

Join(r) ==
    /\ r \in Run \ members /\ Cardinality(members) < room
    /\ members' = members \cup {r}
    /\ UNCHANGED <<holders, limit, room>>

Take(r) ==
    /\ r \in members \ holders /\ Cardinality(holders) < limit
    /\ holders' = holders \cup {r}
    /\ UNCHANGED <<members, limit, room>>

Give(r) ==
    /\ r \in holders
    /\ holders' = holders \ {r}
    /\ UNCHANGED <<members, limit, room>>

Leave(r) ==
    /\ r \in members \ holders
    /\ members' = members \ {r}
    /\ UNCHANGED <<holders, limit, room>>

Resize ==
    /\ limit' \in Nat /\ room' \in Nat
    /\ UNCHANGED <<members, holders>>

Next == Resize \/ \E r \in Run : Join(r) \/ Take(r) \/ Give(r) \/ Leave(r)

Spec == Init /\ [][Next]_vars
=============================================================================
