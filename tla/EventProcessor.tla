--------------------------- MODULE EventProcessor ---------------------------
(***************************************************************************)
(* The goroutine EventProcessor of process/event.go: it takes batches from *)
(* EventChan and turns each event into statements on the tables            *)
(* park_events, trips and non_operational_event and into an entry of the   *)
(* vehicle's list of events in Redis.                                      *)
(*                                                                         *)
(* No handler runs in a transaction, so a handler is the list of its       *)
(* statements (plan) and every statement is a step of its own: others see  *)
(* the tables in between, and a crash drops the statements still to do.    *)
(***************************************************************************)
EXTENDS CleanCompare

CONSTANTS TripWindow,   \* the first number of ticks that is 15 minutes or more
          NoVehicle     \* the vehicle of the zero Event
ASSUME TripWindowAssumption == TripWindow \in Nat \ {0}
ASSUME NoVehicleAssumption == NoVehicle \notin Vehicles

VARIABLES
    parkEvents,   \* table park_events: row i has park_event_id i; end 0 is NULL
    trips,        \* table trips, the same way; a deleted row stays, marked
    nonOps,       \* table non_operational_event, the same way
    redis,        \* the newest entry of each vehicle's list, the only one used
    eventChan,    \* the batches in EventChan
    batch,        \* what is left of the batch being processed
    event,        \* the event whose handler runs, as the handler changed it
    plan          \* the statements its handler still has to execute

tables    == <<parkEvents, trips, nonOps>>
processorVars == <<parkEvents, trips, nonOps, redis, eventChan, batch, event, plan>>

-----------------------------------------------------------------------------
(* Types. *)
Kinds == {"check_in", "check_in_after_reboot", "check_out", "cancel",
          "vehicle_moved", "non_operational_change", "correcting_check_out"}
Events == [kind : Kinds, vehicle : Vehicles, pos : Positions \cup {Nowhere},
           disabled : BOOLEAN, time : Nat, park : Nat, trip : Nat]
Strands == Seq(Events) \ {<<>>}   \* the events of one vehicle in a batch
NoEvent == NewEvent("none", NoVehicle, Absent, 0)

Statements == {"EndParkEvent", "EndNonOperationalEvent", "StartParkEvent",
               "StartNonOperationalEvent", "UpdateLocationParkEvent",
               "ResetEndParkEvent", "CancelEndNonOperationalEvent",
               "StartTrip", "EndTrip", "CancelTrip", "LPush"}

ParkRows  == [vehicle : Vehicles, pos : Positions \cup {Nowhere}, start : Nat, end : Nat]
TripRows  == [vehicle : Vehicles, start : Nat, end : Nat, deleted : BOOLEAN]
NonOpRows == [park : Nat, start : Nat, end : Nat]

ProcessorTypeOK ==
    /\ parkEvents \in Seq(ParkRows)
    /\ trips \in Seq(TripRows)
    /\ nonOps \in Seq(NonOpRows)
    /\ redis \in [Vehicles -> Events \cup {NoEvent}]
    /\ eventChan \in Seq(SUBSET Strands)
    /\ batch \in SUBSET Strands
    /\ event \in Events \cup {NoEvent}
    /\ plan \in Seq(Statements)
    /\ plan # <<>> => event # NoEvent

ProcessorInit ==
    /\ parkEvents = <<>> /\ trips = <<>> /\ nonOps = <<>>
    /\ redis = [v \in Vehicles |-> NoEvent]
    /\ eventChan = <<>>
    /\ batch = {}
    /\ event = NoEvent
    /\ plan = <<>>

-----------------------------------------------------------------------------
(* Reading the tables. *)
OpenParks(v) == {i \in DOMAIN parkEvents : parkEvents[i].vehicle = v /\ parkEvents[i].end = 0}
OpenTrips(v) == {i \in DOMAIN trips : /\ trips[i].vehicle = v
                                      /\ trips[i].end = 0
                                      /\ ~trips[i].deleted}
OpenNonOps(p) == {i \in DOMAIN nonOps : nonOps[i].park = p /\ nonOps[i].end = 0}

(* The newest park event of the vehicle, if it is open. *)
GetLastParkEvent(v) ==
    {i \in OpenParks(v) : \A j \in DOMAIN parkEvents : parkEvents[j].vehicle = v => j <= i}

-----------------------------------------------------------------------------
(* The handlers. Each one fixes the event it goes on with and the list of  *)
(* its statements.                                                         *)
Execute(e, statements) ==
    /\ event' = e
    /\ plan' = statements \o <<"LPush">>

(* A handler that returns Event{} executes nothing and pushes nothing. *)
Ignore ==
    /\ event' = NoEvent
    /\ plan' = <<>>

StartPark(e) == <<"StartParkEvent">> \o
                (IF e.disabled THEN <<"StartNonOperationalEvent">> ELSE <<>>)
EndPark == <<"EndParkEvent", "EndNonOperationalEvent">>

(* The Scan into startTime fails, so a reused park event gives the pushed  *)
(* event the zero time.                                                    *)
FirstCheckIn(e, last) ==
    /\ e.kind = "check_in" /\ last = NoEvent
    /\ LET reused == GetLastParkEvent(e.vehicle) IN
       \/ /\ reused = {}
          /\ Execute(e, StartPark(e))
       \/ \E i \in reused : Execute([e EXCEPT !.park = i, !.time = 0], <<>>)

CheckIfTripShouldBeResetted(e, last) ==
    /\ e.time - last.time < TripWindow
    /\ Distance(e.pos, last.pos) < 100 * Metre

(* Mutant: a check_in after any event ends the trip that event names. *)
EndTripAfterAnyEvent(e, last) ==
    /\ e.kind = "check_in" /\ last # NoEvent
    /\ last.kind = "check_out" => ~CheckIfTripShouldBeResetted(e, last)
    /\ Execute([e EXCEPT !.park = last.park, !.trip = last.trip],
               <<"EndTrip">> \o StartPark(e))

(* Mutant: the park event is started, the trip is not ended. *)
ParkWithoutEndingTrip(e, last) ==
    /\ e.kind = "check_in" /\ last.kind = "check_out"
    /\ ~CheckIfTripShouldBeResetted(e, last)
    /\ Execute([e EXCEPT !.park = last.park, !.trip = last.trip], StartPark(e))

(* Mutant: the trip is cancelled, the park event stays closed. *)
ResetTripOnly(e, last) ==
    /\ e.kind = "check_in" /\ last.kind = "check_out"
    /\ CheckIfTripShouldBeResetted(e, last)
    /\ Execute([e EXCEPT !.kind = "cancel", !.park = last.park, !.trip = last.trip],
               <<"CancelTrip">>)

ResetTrip(e, last) ==
    /\ e.kind = "check_in" /\ last.kind = "check_out"
    /\ CheckIfTripShouldBeResetted(e, last)
    /\ Execute([e EXCEPT !.kind = "cancel", !.park = last.park, !.trip = last.trip],
               (IF last.park = 0 THEN <<>> ELSE
                  <<"ResetEndParkEvent">> \o
                  (IF last.disabled THEN <<"CancelEndNonOperationalEvent">> ELSE <<>>))
               \o <<"CancelTrip">>)

EndTripAndPark(e, last) ==
    /\ e.kind = "check_in" /\ last.kind = "check_out"
    /\ ~CheckIfTripShouldBeResetted(e, last)
    /\ Execute([e EXCEPT !.park = last.park, !.trip = last.trip],
               <<"EndTrip">> \o StartPark(e))

(* Mutant: a moved vehicle gets a new park event, the old one stays open. *)
MoveByDistanceLeavingOld(e, last) ==
    LET d == Distance(e.pos, last.pos) IN
    \/ d > 500 * Metre /\ Execute([e EXCEPT !.park = last.park], StartPark(e))
    \/ d > 1 /\ d < 500 * Metre
       /\ Execute([e EXCEPT !.park = last.park], <<"UpdateLocationParkEvent">>)
    \/ ~(d > 500 * Metre) /\ ~(d > 1 /\ d < 500 * Metre) /\ Ignore

(* vehicleMoved, given that there is a last event. *)
MoveByDistance(e, last) ==
    LET d == Distance(e.pos, last.pos) IN
    \/ d > 500 * Metre /\ Execute([e EXCEPT !.park = last.park], EndPark \o StartPark(e))
    \/ d > 1 /\ d < 500 * Metre
       /\ Execute([e EXCEPT !.park = last.park], <<"UpdateLocationParkEvent">>)
    \/ ~(d > 500 * Metre) /\ ~(d > 1 /\ d < 500 * Metre) /\ Ignore

CheckInAfterReboot(e, last) ==
    /\ e.kind = "check_in" /\ last # NoEvent /\ last.kind # "check_out"
    /\ MoveByDistance([e EXCEPT !.kind = "check_in_after_reboot"], last)

VehicleMoved(e, last) ==
    /\ e.kind = "vehicle_moved" /\ last # NoEvent
    /\ MoveByDistance(e, last)

(* Mutant: the park event is not ended. *)
CheckOutStartsTripOnly(e, last) ==
    /\ e.kind = "check_out" /\ last # NoEvent
    /\ Execute([e EXCEPT !.park = last.park], <<"StartTrip">>)

CheckOut(e, last) ==
    /\ e.kind = "check_out" /\ last # NoEvent
    /\ Execute([e EXCEPT !.park = last.park], EndPark \o <<"StartTrip">>)

CorrectingCheckOut(e) ==
    /\ e.kind = "correcting_check_out"
    /\ Execute(e, EndPark)

NonOperationalChange(e, last) ==
    /\ e.kind = "non_operational_change" /\ last # NoEvent
    /\ Execute([e EXCEPT !.park = last.park],
               IF e.disabled THEN <<"StartNonOperationalEvent">>
                             ELSE <<"EndNonOperationalEvent">>)

(* Without a last event these handlers log and return the event as it came, *)
(* and ProcessEvent pushes it.                                              *)
NothingToGoOn(e, last) ==
    /\ e.kind \in {"check_out", "vehicle_moved", "non_operational_change"}
    /\ last = NoEvent
    /\ Execute(e, <<>>)

(* The switch of ProcessEvent. *)
Handle(e, last) ==
    \/ FirstCheckIn(e, last) \/ ResetTrip(e, last) \/ EndTripAndPark(e, last)
    \/ CheckInAfterReboot(e, last) \/ VehicleMoved(e, last) \/ CheckOut(e, last)
    \/ CorrectingCheckOut(e) \/ NonOperationalChange(e, last) \/ NothingToGoOn(e, last)

Idle == plan = <<>>

(* Mutant: the newest batch first. *)
ReceiveNewestEvents ==
    /\ Idle /\ batch = {}
    /\ eventChan # <<>>
    /\ batch' = eventChan[Len(eventChan)]
    /\ eventChan' = SubSeq(eventChan, 1, Len(eventChan) - 1)
    /\ UNCHANGED <<parkEvents, trips, nonOps, redis, event, plan>>

(* events := <-EventChan *)
ReceiveEvents ==
    /\ Idle /\ batch = {}
    /\ eventChan # <<>>
    /\ batch' = Head(eventChan)
    /\ eventChan' = Tail(eventChan)
    /\ UNCHANGED <<parkEvents, trips, nonOps, redis, event, plan>>

(* The beginning of ProcessEvent: the handler of the next event of the     *)
(* batch reads the vehicle's last event from Redis.                        *)
ProcessEvent ==
    /\ Idle
    /\ \E s \in batch :
          LET e == Head(s)  last == redis[e.vehicle] IN
          /\ batch' = (batch \ {s}) \cup ({Tail(s)} \ {<<>>})
          /\ Handle(e, last)
    /\ UNCHANGED <<parkEvents, trips, nonOps, redis, eventChan>>

-----------------------------------------------------------------------------
(* The statements. event is the argument of the Go function.               *)
Statement(s) ==
    /\ plan # <<>> /\ Head(plan) = s
    /\ plan' = Tail(plan)
    /\ UNCHANGED <<eventChan, batch>>

(* Mutant: the newest id of the table before the insert is taken. *)
StartParkEventWithOldId ==
    /\ Statement("StartParkEvent")
    /\ parkEvents' = Append(parkEvents, [vehicle |-> event.vehicle, pos |-> event.pos,
                                         start |-> event.time, end |-> 0])
    /\ event' = [event EXCEPT !.park = Len(parkEvents)]
    /\ UNCHANGED <<trips, nonOps, redis>>

(* INSERT ... RETURNING park_event_id *)
StartParkEvent ==
    /\ Statement("StartParkEvent")
    /\ parkEvents' = Append(parkEvents, [vehicle |-> event.vehicle, pos |-> event.pos,
                                         start |-> event.time, end |-> 0])
    /\ event' = [event EXCEPT !.park = Len(parkEvents) + 1]
    /\ UNCHANGED <<trips, nonOps, redis>>

(* Without a park_event_id, every open park event of the vehicle. *)
EndParkEvent ==
    /\ Statement("EndParkEvent")
    /\ LET ended == IF event.park = 0 THEN OpenParks(event.vehicle) ELSE {event.park} IN
       parkEvents' = [i \in DOMAIN parkEvents |->
                         IF i \in ended THEN [parkEvents[i] EXCEPT !.end = event.time]
                                        ELSE parkEvents[i]]
    /\ UNCHANGED <<event, trips, nonOps, redis>>

UpdateLocationParkEvent ==
    /\ Statement("UpdateLocationParkEvent")
    /\ parkEvents' = [i \in DOMAIN parkEvents |->
                         IF i = event.park THEN [parkEvents[i] EXCEPT !.pos = event.pos]
                                           ELSE parkEvents[i]]
    /\ UNCHANGED <<event, trips, nonOps, redis>>

ResetEndParkEvent ==
    /\ Statement("ResetEndParkEvent")
    /\ parkEvents' = [i \in DOMAIN parkEvents |->
                         IF i = event.park THEN [parkEvents[i] EXCEPT !.end = 0]
                                           ELSE parkEvents[i]]
    /\ UNCHANGED <<event, trips, nonOps, redis>>

(* park_event_id references park_events: an id of 0 makes MustExec panic,   *)
(* which is ForeignKeyPanic of the module VehicleImporter.                  *)
StartNonOperationalEvent ==
    /\ Statement("StartNonOperationalEvent")
    /\ event.park \in DOMAIN parkEvents
    /\ nonOps' = Append(nonOps, [park |-> event.park, start |-> event.time, end |-> 0])
    /\ UNCHANGED <<event, parkEvents, trips, redis>>

(* Mutant: the statement is skipped. *)
EndNonOperationalEventSkipped ==
    /\ Statement("EndNonOperationalEvent")
    /\ UNCHANGED <<event, parkEvents, trips, nonOps, redis>>

EndNonOperationalEvent ==
    /\ Statement("EndNonOperationalEvent")
    /\ LET ended == IF event.park = 0 THEN {} ELSE OpenNonOps(event.park) IN
       nonOps' = [i \in DOMAIN nonOps |->
                     IF i \in ended THEN [nonOps[i] EXCEPT !.end = event.time]
                                    ELSE nonOps[i]]
    /\ UNCHANGED <<event, parkEvents, trips, redis>>

CancelEndNonOperationalEvent ==
    /\ Statement("CancelEndNonOperationalEvent")
    /\ LET related == {i \in DOMAIN nonOps : nonOps[i].park = event.park} IN
       nonOps' = [i \in DOMAIN nonOps |->
                     IF i \in related /\ \A j \in related : j <= i
                     THEN [nonOps[i] EXCEPT !.end = 0] ELSE nonOps[i]]
    /\ UNCHANGED <<event, parkEvents, trips, redis>>

(* INSERT ... RETURNING trip_id *)
StartTrip ==
    /\ Statement("StartTrip")
    /\ trips' = Append(trips, [vehicle |-> event.vehicle, start |-> event.time,
                               end |-> 0, deleted |-> FALSE])
    /\ event' = [event EXCEPT !.trip = Len(trips) + 1]
    /\ UNCHANGED <<parkEvents, nonOps, redis>>

EndTrip ==
    /\ Statement("EndTrip")
    /\ trips' = [i \in DOMAIN trips |->
                    IF i = event.trip /\ ~trips[i].deleted
                    THEN [trips[i] EXCEPT !.end = event.time] ELSE trips[i]]
    /\ UNCHANGED <<event, parkEvents, nonOps, redis>>

(* resetTrip returns the check_in, which has no trip_id. *)
CancelTrip ==
    /\ Statement("CancelTrip")
    /\ trips' = [i \in DOMAIN trips |->
                    IF i = event.trip THEN [trips[i] EXCEPT !.deleted = TRUE] ELSE trips[i]]
    /\ event' = [event EXCEPT !.trip = 0]
    /\ UNCHANGED <<parkEvents, nonOps, redis>>

(* The last statement of every handler. *)
LPush ==
    /\ plan # <<>> /\ Head(plan) = "LPush"
    /\ plan' = <<>>
    /\ UNCHANGED <<eventChan, batch>>
    /\ redis' = [redis EXCEPT ![event.vehicle] = event]
    /\ event' = NoEvent
    /\ UNCHANGED <<parkEvents, trips, nonOps>>

StatementStep ==
    \/ StartParkEvent \/ EndParkEvent \/ UpdateLocationParkEvent \/ ResetEndParkEvent
    \/ StartNonOperationalEvent \/ EndNonOperationalEvent \/ CancelEndNonOperationalEvent
    \/ StartTrip \/ EndTrip \/ CancelTrip \/ LPush

ProcessorNext == ReceiveEvents \/ ProcessEvent \/ StatementStep
=============================================================================
