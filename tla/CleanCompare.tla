---------------------------- MODULE CleanCompare ----------------------------
(***************************************************************************)
(* What two consecutive downloads of a vehicle feed say about each         *)
(* vehicle: process/clean.go, with the distance of geoutil.                *)
(*                                                                         *)
(* Vehicles stand on a line. A position is a distance in decimetres from   *)
(* the zero coordinates (0,0), which is what a Go bike has whose location  *)
(* nobody filled in; no vehicle stands within 500 m of them.               *)
(***************************************************************************)
EXTENDS Integers, Sequences

CONSTANTS Vehicles,    \* the "system_id:bike_id" keys that are modelled
          Feeds,       \* rows of the table feeds
          FeedOf,      \* the feed each vehicle is published in
          Positions,   \* the places a vehicle can be parked at
          Statuses     \* the values of is_disabled that occur

ASSUME FeedAssumption == FeedOf \in [Vehicles -> Feeds]
ASSUME PositionAssumption == Positions \subseteq {p \in Nat : p > 5000}
ASSUME StatusAssumption == Statuses \subseteq BOOLEAN

-----------------------------------------------------------------------------
(* feed.Bike, and the value a map of bikes has for a key it does not hold. *)
Nowhere == 0
Bikes   == [pos : Positions, disabled : Statuses]
Absent  == [pos |-> Nowhere, disabled |-> FALSE]
Present(bike) == bike.pos # Nowhere

Metre == 10
Distance(p, q) == IF p <= q THEN q - p ELSE p - q

(* process.Event. An EventType of "" (the zero Event) is the kind "none". *)
NewEvent(kind, v, bike, t) ==
    [kind |-> kind, vehicle |-> v, pos |-> bike.pos, disabled |-> bike.disabled,
     time |-> t, park |-> 0, trip |-> 0]

VehiclesOf(f) == {v \in Vehicles : FeedOf[v] = f}

(* The events of one vehicle, in the order they are appended. The check_out *)
(* carries the bike as it was last seen.                                    *)
CompareBike(v, old, new, t) ==
    CASE Present(new) /\ ~Present(old) -> <<NewEvent("check_in", v, new, t)>>
      [] Present(old) /\ ~Present(new) -> <<NewEvent("check_out", v, old, t)>>
      [] Present(new) /\ Present(old) ->
            (IF Distance(old.pos, new.pos) > 1
             THEN <<NewEvent("vehicle_moved", v, new, t)>> ELSE <<>>)
            \o
            (IF old.disabled # new.disabled
             THEN <<NewEvent("non_operational_change", v, new, t)>> ELSE <<>>)
      [] OTHER -> <<>>

(* A batch, which is what travels through EventChan, is a set of sequences: *)
(* the events of a vehicle keep their order; those of different vehicles    *)
(* come in the order of the feed and of a Go map, so in any order.          *)
CleanCompare(f, old, new, t) ==
    {CompareBike(v, old[v], new[v], t) : v \in VehiclesOf(f)} \ {<<>>}
=============================================================================
