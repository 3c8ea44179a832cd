-------------------------- MODULE MCVehicleImporter --------------------------
(* Instances of VehicleImporter for TLC. *)
EXTENDS VehicleRefinement, TLC

CONSTANTS v1, v2, f1, f2, op1

(* One vehicle in one feed; two vehicles of one operator in a feed each. *)
OneVehicleFeed  == v1 :> f1
TwoVehicleFeeds == v1 :> f1 @@ v2 :> f2
TwoInOneFeed    == v1 :> f1 @@ v2 :> f1
OneFeedOperator  == f1 :> op1
TwoFeedsOperator == f1 :> op1 @@ f2 :> op1

(* Places: 50 m, 300 m and 600 m from the first one. *)
Here   == 10000
Near   == 10500
Street == 13000
Far    == 16000
JustHere == {Here}
HereNear == {Here, Near}
HereFar == {Here, Far}
VehicleSymmetry == Permutations({v1, v2})
HereNearFar == {Here, Near, Far}
HereStreetFar == {Here, Street, Far}

(* A bound for the run with crashes: either one vehicle is ever seen, or     *)
(* two of them within one tick and with one change less.                     *)
Seen == {v \in Vehicles : Present(lastImport[v])
                          \/ \E i \in DOMAIN parkEvents : parkEvents[i].vehicle = v}
OneOrBriefly == Cardinality(Seen) > 1 => now = 1 /\ changes < MaxChanges
=============================================================================
