--------------------------- MODULE MCTripImporter ---------------------------
(* An instance of TripImporter for TLC: two feeds of one system; of two     *)
(* trips in the same hour one has no route.                                 *)
EXTENDS TripImporter, TLC

CONSTANTS s1, s2, t1, t2, t3, t4, noRoute

Systems    == 1 :> s1 @@ 2 :> s1
StartHours == 1 :> 1 @@ 2 :> 2
TripFeeds  == t1 :> 1 @@ t2 :> 1 @@ t3 :> 1 @@ t4 :> 2 @@ noRoute :> 1
EndHours   == t1 :> 1 @@ t2 :> 1 @@ t3 :> 4 @@ t4 :> 2 @@ noRoute :> 4
=============================================================================
