-------------------------- MODULE VehicleRefinement --------------------------
(***************************************************************************)
(* VehicleImporter implements VehicleLifecycle. The steps of a handler     *)
(* become visible together, at its last statement, the push to Redis: rows *)
(* the running handler has written are left out until then.                *)
(***************************************************************************)
EXTENDS VehicleImporter, FiniteSets

KnownStage(v) ==
    CASE redis[v] = NoEvent -> "unknown"
      [] redis[v].kind = "check_out" -> "rented"
      [] redis[v].kind = "correcting_check_out" -> "missing"
      [] OTHER -> "parked"

KnownStays(v) == Cardinality({i \in DOMAIN parkEvents :
                                 parkEvents[i].vehicle = v /\ i <= redis[v].park})

(* The trip named by a check_out is completed when the check_in after it   *)
(* has been pushed.                                                        *)
KnownRides(v) == Cardinality({i \in DOMAIN trips :
                                 /\ trips[i].vehicle = v
                                 /\ trips[i].end # 0 /\ ~trips[i].deleted
                                 /\ ~(redis[v].kind = "check_out" /\ i = redis[v].trip)})

Lifecycle == INSTANCE VehicleLifecycle WITH
    stage <- [v \in Vehicles |-> KnownStage(v)],
    stays <- [v \in Vehicles |-> KnownStays(v)],
    rides <- [v \in Vehicles |-> KnownRides(v)]

(* Every step of the importer is a step of the vehicle's life cycle, or     *)
(* changes nothing of it; park events and trips are counted once however    *)
(* batches, cleanups and restarts between events interleave (event.go).     *)
ImplementsLifecycle == Lifecycle!Spec
=============================================================================
