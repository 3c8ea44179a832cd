-------------------------- MODULE VehicleLifecycle --------------------------
(***************************************************************************)
(* What the vehicle importer promises about each vehicle, as               *)
(* Documentation.md (17-21, 50-62) tells it: a vehicle that leaves the     *)
(* feed has started a trip; one that comes back has ended that trip and    *)
(* started a stay at a new place, unless it was back at the same place in  *)
(* no time, and then neither has happened; one that moves far without      *)
(* leaving gets a new stay and no trip. A vehicle found missing after the  *)
(* importer was away has left without anyone knowing what it did since.    *)
(***************************************************************************)
EXTENDS Naturals

CONSTANT Vehicles

VARIABLES
    stage,   \* what is known of the vehicle
    stays,   \* the number of places it has been parked at
    rides    \* the number of trips it has completed

lifecycleVars == <<stage, stays, rides>>

Init ==
    /\ stage = [v \in Vehicles |-> "unknown"]
    /\ stays = [v \in Vehicles |-> 0]
    /\ rides = [v \in Vehicles |-> 0]

Become(v, from, to) == stage[v] = from /\ stage' = [stage EXCEPT ![v] = to]
NewStay(v) == stays' = [stays EXCEPT ![v] = @ + 1]

Appear(v) == Become(v, "unknown", "parked") /\ NewStay(v) /\ UNCHANGED rides
Leave(v)  == Become(v, "parked", "rented") /\ UNCHANGED <<stays, rides>>
Return(v) == /\ Become(v, "rented", "parked") /\ NewStay(v)
             /\ rides' = [rides EXCEPT ![v] = @ + 1]
Cancel(v) == Become(v, "rented", "parked") /\ UNCHANGED <<stays, rides>>
Relocate(v) == Become(v, "parked", "parked") /\ NewStay(v) /\ UNCHANGED rides
GoMissing(v) == Become(v, "parked", "missing") /\ UNCHANGED <<stays, rides>>
Reappear(v)  == Become(v, "missing", "parked") /\ NewStay(v) /\ UNCHANGED rides

Next == \E v \in Vehicles :
    \/ Appear(v) \/ Leave(v) \/ Return(v) \/ Cancel(v)
    \/ Relocate(v) \/ GoMissing(v) \/ Reappear(v)

Spec == Init /\ [][Next]_lifecycleVars
=============================================================================
