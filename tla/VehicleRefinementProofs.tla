----------------------- MODULE VehicleRefinementProofs -----------------------
(***************************************************************************)
(* VehicleImporter implements VehicleLifecycle, for any number of vehicles,*)
(* feeds and positions, as long as nothing fails half-way and no cleanup   *)
(* comes at night: a push to Redis is a step of the life cycle or changes  *)
(* nothing of it, and every other step changes nothing of it.              *)
(***************************************************************************)
EXTENDS VehicleTablesProofs, VehicleRefinement, FiniteSetTheorems

(* The entry of Redis that the running handler has read.                   *)
Before == redis[event.vehicle]

Ridden(v) == {i \in DOMAIN trips : trips[i].vehicle = v /\ trips[i].end # 0 /\ ~trips[i].deleted}

StartsParks == {"check_in", "check_in_after_reboot", "vehicle_moved"}

(* Which event follows which entry. *)
FollowsOn ==
    /\ event.kind = "check_in" => Before = NoEvent \/ Before.kind = "check_out"
    /\ event.kind = "cancel" => Before.kind = "check_out"
    /\ event.kind \in {"check_in_after_reboot", "correcting_check_out"} =>
          Before # NoEvent /\ Before.kind # "check_out"
    /\ event.kind \in Moves \cup {"check_out"} => StageOf(Before.kind) = "parked"
    /\ Head(plan) = "UpdateLocationParkEvent" =>
          StageOf(Before.kind) = "parked" /\ event.kind \in StartsParks \ {"check_in"}
    /\ Head(plan) = "EndTrip" => Before.kind = "check_out"
    /\ Head(plan) = "StartNonOperationalEvent" => event.kind # "cancel"

(* The park events of the vehicle after that entry: one at most, which the *)
(* handler has started, and it has if the vehicle was not parked.          *)
HasParked == Head(plan) \in {"StartNonOperationalEvent", "LPush"}

StaysOn ==
    /\ \A j \in DOMAIN parkEvents :
          parkEvents[j].vehicle = event.vehicle => j <= Before.park \/ j = event.park
    /\ event.park # Before.park =>
          Before.park < event.park /\ HasParked /\ event.kind \in StartsParks
    /\ HasParked /\ event.kind \in {"check_in", "check_in_after_reboot"} /\ StageOf(Before.kind) = "away"
       => event.park # Before.park

(* The trip of that entry: ended or deleted when the handler is through.   *)
RidesOn ==
    /\ \/ event.kind = "check_in" /\ Before.kind = "check_out"
       \/ event.kind = "cancel" /\ Head(plan) # "LPush"
       => event.trip = Before.trip
    /\ event.kind = "check_in" /\ Before.kind = "check_out" /\ Head(plan) # "EndTrip"
       => Before.trip \in Ridden(event.vehicle)
    /\ event.kind = "cancel" /\ Head(plan) = "LPush" => Before.trip \notin Ridden(event.vehicle)

ProgressInv == plan # <<>> => FollowsOn /\ StaysOn /\ RidesOn

LEMMA NotNearNowhere == \A p \in Positions : ~(Distance(p, Nowhere) < 500 * Metre)
  BY PositionAssumption DEF Distance, Nowhere, Metre

LEMMA HandlerProgress ==
    ASSUME ~NightlyCleanup, CalmInv, ProcessEvent, plan' # <<>>
    PROVE  FollowsOn' /\ StaysOn' /\ RidesOn'
  <1>1. PICK s \in batch : /\ s \in Strands /\ Takes(s) /\ Head(s).vehicle \in Vehicles
                           /\ Expected(Head(s), redis[Head(s).vehicle])
                           /\ Outcome(Head(s), redis[Head(s).vehicle])
    BY EventHandled
  <1>2. PICK e, last : e = Head(s) /\ last = redis[e.vehicle]
    OBVIOUS
  <1>3. UNCHANGED <<parkEvents, trips, redis>> /\ plan = <<>>
    BY EventHandled
  <1>4. Expected(e, last) /\ Outcome(e, last) /\ Handle(e, last) /\ e.vehicle \in Vehicles
    BY <1>1, <1>2 DEF Takes
  <1>5. event'.vehicle = e.vehicle /\ Before' = last
    BY <1>2, <1>3, <1>4 DEF Outcome, Before
  <1>6. PICK v \in Vehicles : v = e.vehicle
    BY <1>4
  <1>7. /\ \A j \in DOMAIN parkEvents : parkEvents[j].vehicle = v => j <= last.park
        /\ last.kind = "none" <=> last = NoEvent
        /\ last = NoEvent => last.park = 0
        /\ e \in Events /\ last \in Events \cup {NoEvent}
    <2>1. ParkedAt(v) /\ LastEvent(v) = last
      BY <1>2, <1>3, <1>6, NoHandlerRuns DEF CalmInv, ParkInv
    <2>2. QED
      BY <1>4, <2>1, NoEventIsNone DEF ParkedAt, Expected, Events, Kinds
  <1>8. e.kind = "correcting_check_out" => last.kind # "check_out" /\ last # NoEvent
    BY <1>1, <1>2, <1>4, <1>7 DEF CalmInv, CorrectionInv, Corrects, Expected
  <1>9. GetLastParkEvent(e.vehicle) = {} \/ last # NoEvent
    BY <1>4 DEF Expected, GetLastParkEvent
  <1>10. Handled(e, last)
    BY <1>4, <1>7, HandlerOutcomes DEF CalmInv
  <1>11. e.kind = "check_in" => e.park = 0
    BY <1>4 DEF Expected
  <1>12. \A kind, t, park, trip : Goes(e, kind, t, park, trip) =>
            event'.kind = kind /\ Head(plan') = t /\ event'.park = park /\ event'.trip = trip
    BY DEF Goes, Runs
  <1>13. /\ parkEvents' = parkEvents /\ event'.vehicle = v
         /\ \A j \in DOMAIN parkEvents' : parkEvents'[j].vehicle = v => j <= last.park
    BY <1>3, <1>5, <1>6, <1>7
  <1>14. CASE e.kind = "check_in" /\ last = NoEvent
    <2>1. Goes(e, "check_in", "StartParkEvent", e.park, e.trip)
      BY <1>4, <1>7, <1>9, <1>10, <1>12, <1>14 DEF Outcome, Handled
    <2>2. event'.kind = "check_in" /\ Head(plan') = "StartParkEvent" /\ event'.park = last.park
      BY <1>7, <1>11, <1>12, <1>14, <2>1
    <2>3. QED
      BY <1>5, <1>7, <1>13, <1>14, <2>2 DEF FollowsOn, StaysOn, RidesOn, HasParked, Moves
  <1>15. CASE e.kind = "check_in" /\ last.kind = "check_out"
    <2>1. /\ event'.park = last.park /\ event'.trip = last.trip
          /\ \/ event'.kind = "cancel" /\ Head(plan') \in {"CancelTrip", "ResetEndParkEvent"}
             \/ event'.kind = "check_in" /\ Head(plan') = "EndTrip"
      BY <1>4, <1>7, <1>10, <1>12, <1>15, Zenon DEF Handled
    <2>2. QED
      BY <1>5, <1>7, <1>13, <1>15, <2>1 DEF FollowsOn, StaysOn, RidesOn, HasParked, Moves
  <1>16. ASSUME NEW kind \in {"check_in_after_reboot", "vehicle_moved"},
                IF kind = "vehicle_moved" THEN e.kind = "vehicle_moved"
                                          ELSE e.kind = "check_in" /\ last.kind # "check_out",
                last # NoEvent,
                \/ Goes(e, kind, "EndParkEvent", last.park, e.trip)
                \/ /\ Goes(e, kind, "UpdateLocationParkEvent", last.park, e.trip)
                   /\ Distance(e.pos, last.pos) < 500 * Metre
         PROVE  FollowsOn' /\ StaysOn' /\ RidesOn'
    <2>1. event'.kind = kind /\ event'.park = last.park
          /\ Head(plan') \in {"EndParkEvent", "UpdateLocationParkEvent"}
      BY <1>12, <1>16
    <2>2. e.kind = "vehicle_moved" => StageOf(last.kind) = "parked"
      BY <1>4 DEF Expected, Moves
    <2>3. Head(plan') = "UpdateLocationParkEvent" => StageOf(last.kind) = "parked"
      <3>1. ASSUME Head(plan') = "UpdateLocationParkEvent", last.kind = "correcting_check_out", e.kind = "check_in"
            PROVE  FALSE
        <4>1. Goes(e, kind, "UpdateLocationParkEvent", last.park, e.trip) /\ Distance(e.pos, last.pos) < 500 * Metre
          BY <1>12, <1>16, <3>1
        <4>2. ~(Distance(e.pos, last.pos) < 500 * Metre)
          BY <1>4, <3>1, NotNearNowhere DEF Expected
        <4>3. QED
          BY <4>1, <4>2
      <3>2. QED
        BY <1>7, <1>16, <2>2, <3>1 DEF StageOf
    <2>4. QED
      BY <1>5, <1>7, <1>13, <1>16, <2>1, <2>2, <2>3 DEF FollowsOn, StaysOn, RidesOn, HasParked, Moves, StartsParks
  <1>17. CASE \/ e.kind = "check_out" /\ Goes(e, "check_out", "EndParkEvent", last.park, e.trip)
              \/ /\ e.kind = "non_operational_change"
                 /\ \E t \in {"StartNonOperationalEvent", "EndNonOperationalEvent"} :
                       Goes(e, "non_operational_change", t, last.park, e.trip)
    <2>1. /\ event'.kind = e.kind /\ event'.park = last.park
          /\ event'.kind \in {"check_out", "non_operational_change"}
          /\ Head(plan') \in {"EndParkEvent", "StartNonOperationalEvent", "EndNonOperationalEvent"}
      BY <1>12, <1>17
    <2>2. StageOf(last.kind) = "parked"
      BY <1>4, <2>1 DEF Expected, Moves
    <2>3. QED
      BY <1>5, <1>7, <1>13, <2>1, <2>2 DEF FollowsOn, StaysOn, RidesOn, HasParked, Moves, StartsParks
  <1>18. CASE e.kind = "correcting_check_out" /\ Goes(e, "correcting_check_out", "EndParkEvent", e.park, e.trip)
    <2>1. event'.kind = "correcting_check_out" /\ event'.park = last.park /\ Head(plan') = "EndParkEvent"
      BY <1>4, <1>12, <1>18 DEF Expected
    <2>2. QED
      BY <1>5, <1>7, <1>8, <1>13, <1>18, <2>1 DEF FollowsOn, StaysOn, RidesOn, HasParked, Moves, StartsParks
  <1>19. ~(e.kind \in {"check_out", "vehicle_moved", "non_operational_change"} /\ last = NoEvent)
    BY <1>4, <1>7 DEF Expected, Moves, StageOf
  <1>20. QED
    BY <1>10, <1>14, <1>15, <1>16, <1>17, <1>18, <1>19, Zenon DEF Handled

LEMMA StatementProgress ==
    ASSUME CalmInv, RideInv, ProgressInv, StatementStep, plan' # <<>>
    PROVE  FollowsOn' /\ StaysOn' /\ RidesOn'
  <1>1. TypeOK /\ OwnRows /\ PlanInv
    BY DEF CalmInv
  <1>2. PICK v \in Vehicles : v = event.vehicle
    BY <1>1, StatementKeeps DEF Events
  <1>3. /\ plan # <<>> /\ FollowsOn /\ StaysOn /\ RidesOn
    BY <1>1, StatementKeeps DEF ProgressInv
  <1>4. Head(plan) # "LPush" /\ redis' = redis
    BY <1>1, StatementKeeps
  <1>5. /\ Follows(event.kind, Head(plan), Head(plan')) /\ event'.vehicle = v /\ event'.kind = event.kind
        /\ event.time \in Nat \ {0}
    BY <1>2, <1>4, StatementFacts
  <1>6. Before' = Before
    BY <1>2, <1>4, <1>5 DEF Before
  <1>7. FollowsOn'
    BY <1>3, <1>5, <1>6 DEF FollowsOn, Follows
  <1>8. StaysOn'
    <2>1. CASE Head(plan) = "StartParkEvent"
      <3>1. /\ DOMAIN parkEvents' = DOMAIN parkEvents \cup {event'.park}
            /\ event'.park \in Nat \ {0} /\ \A i \in DOMAIN parkEvents : i < event'.park
            /\ \A i \in DOMAIN parkEvents : parkEvents'[i].vehicle = parkEvents[i].vehicle
        BY <1>1, <2>1, ParkStatements
      <3>2. event.park = Before.park /\ Before.park \in {0} \cup DOMAIN parkEvents
        <4>1. Owns(parkEvents, trips, redis[v])
          BY <1>1 DEF OwnRows
        <4>2. QED
          BY <1>2, <1>3, <2>1, <4>1 DEF StaysOn, HasParked, Before, Owns
      <3>3. Before.park < event'.park
        BY <3>1, <3>2
      <3>4. QED
        BY <1>2, <1>3, <1>5, <1>6, <2>1, <3>1, <3>2, <3>3 DEF StaysOn, Follows, StartsParks, HasParked
    <2>2. CASE Head(plan) # "StartParkEvent"
      <3>1. /\ DOMAIN parkEvents' = DOMAIN parkEvents /\ event'.park = event.park
            /\ \A i \in DOMAIN parkEvents : parkEvents'[i].vehicle = parkEvents[i].vehicle
        BY <1>1, <1>4, <2>2, ParkStatements
      <3>2. HasParked => HasParked'
        BY <1>4, <1>5 DEF Follows, HasParked
      <3>3. HasParked' /\ event.kind \in {"check_in", "check_in_after_reboot"} /\ StageOf(Before.kind) = "away"
            => HasParked
        BY <1>3, <1>5, <2>2 DEF Follows, HasParked, FollowsOn
      <3>4. QED
        BY <1>2, <1>3, <1>5, <1>6, <3>1, <3>2, <3>3 DEF StaysOn
    <2>3. QED
      BY <2>1, <2>2
  <1>9. RidesOn'
    <2>1. TripAt(v) /\ LastEvent(v) = event
      BY <1>2, StatementFacts DEF RideInv
    <2>2. CASE Head(plan) = "EndTrip"
      <3>1. event.kind = "check_in" /\ Before.kind = "check_out" /\ event.trip = Before.trip /\ Head(plan') = "StartParkEvent"
        BY <1>3, <1>5, <2>2 DEF FollowsOn, Follows, RidesOn
      <3>2. event.trip \in DOMAIN trips /\ trips[event.trip].vehicle = v /\ ~trips[event.trip].deleted
        BY <1>2, <2>1, <2>2 DEF TripAt, UnderWay, OpenTrips
      <3>3. /\ event.trip \in DOMAIN trips' /\ trips'[event.trip].vehicle = v
            /\ trips'[event.trip].end # 0 /\ ~trips'[event.trip].deleted /\ event'.trip = event.trip
        BY <1>1, <1>5, <2>2, <3>2, TripStatements
      <3>4. QED
        BY <1>5, <1>6, <3>1, <3>3 DEF RidesOn, Ridden
    <2>3. CASE Head(plan) = "CancelTrip"
      <3>1. event.kind = "cancel" /\ event.trip = Before.trip /\ Head(plan') = "LPush"
        BY <1>3, <1>5, <2>3 DEF Follows, RidesOn
      <3>2. event.trip \in DOMAIN trips /\ trips'[event.trip].deleted
        <4>1. event.trip \in DOMAIN trips
          BY <1>2, <2>1, <2>3 DEF TripAt, UnderWay, OpenTrips
        <4>2. QED
          BY <1>1, <2>3, <4>1, TripStatements
      <3>3. QED
        BY <1>5, <1>6, <3>1, <3>2 DEF RidesOn, Ridden
    <2>4. CASE Head(plan) \notin {"EndTrip", "CancelTrip"}
      <3>1. \A j \in DOMAIN trips : j \in DOMAIN trips' /\ trips'[j] = trips[j]
        BY <1>1, <2>4, TripStatements
      <3>2. CASE event.kind \in {"check_in", "cancel"}
        <4>1. event'.trip = event.trip /\ Head(plan') # "EndTrip" /\ (event.kind = "cancel" => Head(plan') # "LPush")
          BY <1>1, <1>3, <1>4, <1>5, <2>4, <3>2, TripStatements DEF Follows, FollowsOn, StartsParks
        <4>2. QED
          BY <1>2, <1>3, <1>5, <1>6, <2>4, <3>1, <4>1, <1>4 DEF RidesOn, Ridden
      <3>3. CASE event.kind \notin {"check_in", "cancel"}
        BY <1>5, <3>3 DEF RidesOn
      <3>4. QED
        BY <3>2, <3>3
    <2>5. QED
      BY <2>2, <2>3, <2>4
  <1>10. QED
    BY <1>7, <1>8, <1>9

LEMMA NextProgressInv ==
    ASSUME Calm, ~NightlyCleanup, CalmInv, RideInv, ProgressInv, [Next]_vars
    PROVE  ProgressInv'
  <1>1. CASE UNCHANGED <<parkEvents, trips, nonOps, redis, event, plan>>
    BY <1>1 DEF ProgressInv, FollowsOn, StaysOn, RidesOn, Before, HasParked, Ridden
  <1>2. QED
    BY <1>1, CalmSteps, HandlerProgress, StatementProgress DEF ProgressInv

LEMMA AlwaysProgresses ==
    ASSUME Calm, ~NightlyCleanup
    PROVE  Spec => [](CalmInv /\ RideInv /\ ProgressInv)
  <1>1. Init => ProgressInv
    BY DEF Init, ProcessorInit, ProgressInv
  <1>2. CalmInv /\ RideInv /\ ProgressInv /\ [Next]_vars => ProgressInv'
    BY NextProgressInv
  <1>3. QED
    BY <1>1, <1>2, AlwaysRides, PTL DEF Spec

-----------------------------------------------------------------------------
(* The rows that VehicleRefinement counts.                                 *)
StaysOf(v) == {i \in DOMAIN parkEvents : parkEvents[i].vehicle = v /\ i <= redis[v].park}
RidesOf(v) == {i \in DOMAIN trips : /\ trips[i].vehicle = v
                                    /\ trips[i].end # 0 /\ ~trips[i].deleted
                                    /\ ~(redis[v].kind = "check_out" /\ i = redis[v].trip)}

LEMMA CountedRows ==
    ASSUME TypeOK, NEW v
    PROVE  /\ KnownStays(v) = Cardinality(StaysOf(v)) /\ IsFiniteSet(StaysOf(v))
           /\ KnownRides(v) = Cardinality(RidesOf(v)) /\ IsFiniteSet(RidesOf(v))
           /\ Cardinality(StaysOf(v)) \in Nat /\ Cardinality(RidesOf(v)) \in Nat
  <1>1. /\ DOMAIN parkEvents = 1..Len(parkEvents) /\ Len(parkEvents) \in Nat
        /\ DOMAIN trips = 1..Len(trips) /\ Len(trips) \in Nat
    BY TableTypes
  <1>2. IsFiniteSet(DOMAIN parkEvents) /\ IsFiniteSet(DOMAIN trips)
    BY <1>1, FS_Interval
  <1>3. StaysOf(v) \in SUBSET DOMAIN parkEvents /\ RidesOf(v) \in SUBSET DOMAIN trips
    BY DEF StaysOf, RidesOf
  <1>4. IsFiniteSet(StaysOf(v)) /\ IsFiniteSet(RidesOf(v))
    BY <1>2, <1>3, FS_Subset
  <1>5. Cardinality(StaysOf(v)) \in Nat /\ Cardinality(RidesOf(v)) \in Nat
    BY <1>4, FS_CardinalityType
  <1>6. QED
    BY <1>4, <1>5 DEF KnownStays, KnownRides, StaysOf, RidesOf

(* A statement before the push touches no row that counts.                 *)
LEMMA StatementsAreHidden ==
    ASSUME CalmInv, RideInv, ProgressInv, StatementStep, ~LPush, NEW v \in Vehicles
    PROVE  redis' = redis /\ StaysOf(v)' = StaysOf(v) /\ RidesOf(v)' = RidesOf(v)
  <1>1. TypeOK /\ OwnRows /\ PlanInv
    BY DEF CalmInv
  <1>2. PICK u \in Vehicles : u = event.vehicle
    BY <1>1, StatementKeeps DEF Events
  <1>3. Head(plan) # "LPush" /\ redis' = redis /\ plan # <<>>
    BY <1>1, StatementKeeps
  <1>4. FollowsOn /\ StaysOn /\ RidesOn
    BY <1>3 DEF ProgressInv
  <1>5. Follows(event.kind, Head(plan), Head(plan'))
    BY <1>2, <1>3, StatementFacts
  <1>6. Owns(parkEvents, trips, redis[v])
    BY <1>1 DEF OwnRows
  <1>7. ASSUME NEW i \in DOMAIN parkEvents', parkEvents'[i].vehicle = v, i <= redis[v].park
        PROVE  i \in DOMAIN parkEvents /\ parkEvents[i].vehicle = v
    <2>1. redis[v].park \in {0} \cup DOMAIN parkEvents
      BY <1>6 DEF Owns
    <2>2. DOMAIN parkEvents' = DOMAIN parkEvents
          \/ /\ event'.park \in Nat \ {0} /\ \A j \in DOMAIN parkEvents : j < event'.park
             /\ DOMAIN parkEvents' = DOMAIN parkEvents \cup {event'.park}
      BY <1>1, <1>3, ParkStatements
    <2>3. \A j \in DOMAIN parkEvents : j \in Nat
      BY <1>1, TableTypes
    <2>4. i \in DOMAIN parkEvents
      BY <1>7, <2>1, <2>2, <2>3
    <2>5. QED
      BY <1>1, <1>7, <2>4, ParkStatements
  <1>8. StaysOf(v)' = StaysOf(v)
    <2>1. \A i \in DOMAIN parkEvents : i \in DOMAIN parkEvents' /\ parkEvents'[i].vehicle = parkEvents[i].vehicle
      BY <1>1, ParkStatements
    <2>2. QED
      BY <1>3, <1>7, <2>1 DEF StaysOf
  <1>9. Head(plan) \in {"EndTrip", "CancelTrip"} =>
           /\ Before.kind = "check_out" /\ event.trip = Before.trip
           /\ event.trip # 0 => trips[event.trip].vehicle = u
    BY <1>1, <1>2, <1>4, <1>5 DEF FollowsOn, RidesOn, Follows, OwnRows, Owns
  <1>10. ASSUME NEW j \in DOMAIN trips
         PROVE  /\ j \in DOMAIN trips' /\ trips'[j].vehicle = trips[j].vehicle
                /\ ~(v = u /\ redis[v].kind = "check_out" /\ j = redis[v].trip) /\ trips[j].vehicle = v
                   => trips'[j] = trips[j]
    <2>1. j # 0
      BY <1>1, TableTypes
    <2>2. Before = redis[u]
      BY <1>2 DEF Before
    <2>3. Head(plan) \in {"EndTrip", "CancelTrip"} /\ j = event.trip /\ trips[j].vehicle = v
          => v = u /\ redis[v].kind = "check_out" /\ j = redis[v].trip
      BY <1>9, <2>1, <2>2
    <2>4. QED
      BY <1>1, <2>3, TripStatements
  <1>11. \A j \in DOMAIN trips' \ DOMAIN trips : trips'[j].end = 0
    BY <1>1, TripStatements
  <1>12. RidesOf(v)' = RidesOf(v)
    <2>1. RidesOf(v)' = {i \in DOMAIN trips' : /\ trips'[i].vehicle = v
                                               /\ trips'[i].end # 0 /\ ~trips'[i].deleted
                                               /\ ~(redis[v].kind = "check_out" /\ i = redis[v].trip)}
      BY <1>3 DEF RidesOf
    <2>2. QED
      BY <1>2, <1>10, <1>11, <2>1 DEF RidesOf
  <1>13. QED
    BY <1>3, <1>8, <1>12

(* What the push of an event makes of its vehicle.                         *)
LEMMA PushCounts ==
    ASSUME CalmInv, RideInv, ProgressInv, LPush, NEW v \in Vehicles, event.vehicle = v
    PROVE  /\ event \in Events /\ redis'[v] = event
           /\ StaysOf(v)' = IF event.park = redis[v].park THEN StaysOf(v) ELSE StaysOf(v) \cup {event.park}
           /\ event.park # redis[v].park => event.park \notin StaysOf(v)
           /\ IF event.kind = "check_in" /\ redis[v].kind = "check_out"
              THEN RidesOf(v)' = RidesOf(v) \cup {redis[v].trip} /\ redis[v].trip \notin RidesOf(v)
              ELSE RidesOf(v)' = RidesOf(v)
  <1>1. TypeOK /\ OwnRows /\ PlanInv /\ StatementStep /\ plan # <<>> /\ Head(plan) = "LPush"
    BY DEF CalmInv, LPush, StatementStep
  <1>2. /\ event \in Events /\ redis'[v] = event /\ UNCHANGED <<parkEvents, trips>>
        /\ event.park # 0 => event.park \in DOMAIN parkEvents /\ parkEvents[event.park].vehicle = v
        /\ LastEvent(v) = event
    BY <1>1, StatementFacts
  <1>3. FollowsOn /\ StaysOn /\ RidesOn /\ Before = redis[v]
    BY <1>1 DEF ProgressInv, Before
  <1>4. redis[v].park \in Nat /\ event.park \in Nat
    <2>1. redis[v] \in Events \cup {NoEvent}
      BY <1>1 DEF TypeOK, ProcessorTypeOK
    <2>2. QED
      BY <1>2, <2>1, NoEventIsNone DEF Events
  <1>5. StaysOf(v)' = {i \in DOMAIN parkEvents : parkEvents[i].vehicle = v /\ i <= event.park}
    BY <1>2 DEF StaysOf
  <1>6. event.park = redis[v].park => StaysOf(v)' = StaysOf(v)
    BY <1>5 DEF StaysOf
  <1>7. ASSUME event.park # redis[v].park
        PROVE  event.park \notin StaysOf(v) /\ StaysOf(v)' = StaysOf(v) \cup {event.park}
    <2>1. redis[v].park < event.park
      BY <1>3, <1>7 DEF StaysOn
    <2>2. event.park \in DOMAIN parkEvents /\ parkEvents[event.park].vehicle = v
      BY <1>2, <1>4, <2>1
    <2>3. \A j \in DOMAIN parkEvents : j \in Nat /\ (parkEvents[j].vehicle = v => j <= redis[v].park \/ j = event.park)
      BY <1>1, <1>3, TableTypes DEF StaysOn
    <2>4. event.park \notin StaysOf(v)
      BY <1>4, <2>1 DEF StaysOf
    <2>5. StaysOf(v)' = StaysOf(v) \cup {event.park}
      BY <1>4, <1>5, <2>1, <2>2, <2>3 DEF StaysOf
    <2>6. QED
      BY <2>4, <2>5
  <1>8. RidesOf(v)' = {i \in Ridden(v) : ~(event.kind = "check_out" /\ i = event.trip)}
    BY <1>2 DEF RidesOf, Ridden
  <1>9. RidesOf(v) = {i \in Ridden(v) : ~(redis[v].kind = "check_out" /\ i = redis[v].trip)}
    BY DEF RidesOf, Ridden
  <1>10. event.kind = "check_out" => event.trip \notin Ridden(v) /\ redis[v].kind # "check_out"
    <2>1. event.kind = "check_out" => event.trip \in OpenTrips(v)
      BY <1>1, <1>2 DEF RideInv, TripAt, UnderWay
    <2>2. QED
      BY <1>3, <2>1 DEF OpenTrips, Ridden, FollowsOn, StageOf
  <1>11. event.kind # "check_out" => RidesOf(v)' = Ridden(v)
    BY <1>8
  <1>12. ASSUME event.kind = "check_in", redis[v].kind = "check_out"
         PROVE  RidesOf(v)' = RidesOf(v) \cup {redis[v].trip} /\ redis[v].trip \notin RidesOf(v)
    <2>1. redis[v].trip \in Ridden(v)
      BY <1>1, <1>3, <1>12 DEF RidesOn
    <2>2. QED
      BY <1>9, <1>11, <1>12, <2>1
  <1>13. ASSUME ~(event.kind = "check_in" /\ redis[v].kind = "check_out")
         PROVE  RidesOf(v)' = RidesOf(v)
    <2>1. redis[v].kind = "check_out" => redis[v].trip \notin Ridden(v) /\ event.kind # "check_out"
      <3>1. redis[v].kind = "check_out" => event.kind = "cancel"
        BY <1>2, <1>3, <1>13, NoEventIsNone DEF FollowsOn, StageOf, Events, Kinds, Moves
      <3>2. QED
        BY <1>1, <1>3, <3>1 DEF RidesOn
    <2>2. QED
      BY <1>8, <1>9, <1>10, <2>1
  <1>14. QED
    BY <1>2, <1>6, <1>7, <1>12, <1>13

(* What is known of the vehicle changes from one stage to another, with    *)
(* that many new stays and rides.                                          *)
Turns(v, from, to, newStays, newRides) ==
    /\ KnownStage(v) = from /\ KnownStage(v)' = to
    /\ KnownStays(v)' = KnownStays(v) + newStays
    /\ KnownRides(v)' = KnownRides(v) + newRides

KnowsTheSame(v) == /\ KnownStage(v)' = KnownStage(v)
                   /\ KnownStays(v)' = KnownStays(v)
                   /\ KnownRides(v)' = KnownRides(v)

LEMMA PushTurns ==
    ASSUME CalmInv, RideInv, ProgressInv, LPush, NEW v \in Vehicles, event.vehicle = v
    PROVE  \/ Turns(v, "unknown", "parked", 1, 0) \/ Turns(v, "parked", "rented", 0, 0)
           \/ Turns(v, "rented", "parked", 1, 1)  \/ Turns(v, "rented", "parked", 0, 0)
           \/ Turns(v, "parked", "parked", 1, 0)  \/ Turns(v, "parked", "missing", 0, 0)
           \/ Turns(v, "missing", "parked", 1, 0) \/ KnowsTheSame(v)
  <1>1. TypeOK
    BY DEF CalmInv
  <1>2. PICK m \in Nat, n \in Nat : m = KnownStays(v) /\ n = KnownRides(v)
    BY <1>1, CountedRows
  <1>3. /\ m = Cardinality(StaysOf(v)) /\ IsFiniteSet(StaysOf(v))
        /\ n = Cardinality(RidesOf(v)) /\ IsFiniteSet(RidesOf(v))
    BY <1>1, <1>2, CountedRows
  <1>4. KnownStays(v)' = IF event.park = redis[v].park THEN m ELSE m + 1
    <2>1. KnownStays(v)' = Cardinality(StaysOf(v)')
      BY DEF KnownStays, StaysOf
    <2>2. event.park # redis[v].park
          => Cardinality(StaysOf(v) \cup {event.park}) = Cardinality(StaysOf(v)) + 1
      BY <1>3, PushCounts, FS_AddElement
    <2>3. QED
      BY <1>3, <2>1, <2>2, PushCounts
  <1>5. KnownRides(v)' = IF event.kind = "check_in" /\ redis[v].kind = "check_out" THEN n + 1 ELSE n
    <2>1. KnownRides(v)' = Cardinality(RidesOf(v)')
      BY DEF KnownRides, RidesOf
    <2>2. IF event.kind = "check_in" /\ redis[v].kind = "check_out"
          THEN RidesOf(v)' = RidesOf(v) \cup {redis[v].trip} /\ redis[v].trip \notin RidesOf(v)
          ELSE RidesOf(v)' = RidesOf(v)
      BY PushCounts
    <2>3. ASSUME event.kind = "check_in" /\ redis[v].kind = "check_out"
          PROVE  KnownRides(v)' = n + 1
      <3>1. RidesOf(v)' = RidesOf(v) \cup {redis[v].trip} /\ redis[v].trip \notin RidesOf(v)
        BY <2>2, <2>3
      <3>2. Cardinality(RidesOf(v) \cup {redis[v].trip}) = Cardinality(RidesOf(v)) + 1
        BY <1>3, <3>1, FS_AddElement
      <3>3. QED
        BY <1>3, <2>1, <3>1, <3>2
    <2>4. ASSUME ~(event.kind = "check_in" /\ redis[v].kind = "check_out")
          PROVE  KnownRides(v)' = n
      <3>1. RidesOf(v)' = RidesOf(v)
        BY <2>2, <2>4
      <3>2. QED
        BY <1>3, <2>1, <3>1
    <2>5. QED
      BY <2>3, <2>4
  <1>6. FollowsOn /\ StaysOn /\ Before = redis[v] /\ Head(plan) = "LPush"
    BY DEF LPush, ProgressInv, Before
  <1>7. /\ event \in Events /\ redis'[v] = event /\ event.kind \in Kinds /\ event # NoEvent
        /\ redis[v] = NoEvent <=> redis[v].kind = "none"
        /\ redis[v] = NoEvent \/ redis[v].kind \in Kinds
    BY <1>1, PushCounts, NoEventIsNone DEF Events, Kinds, TypeOK, ProcessorTypeOK
  <1>8. KnownStage(v)' = IF event.kind = "check_out" THEN "rented"
                         ELSE IF event.kind = "correcting_check_out" THEN "missing" ELSE "parked"
    BY <1>7 DEF KnownStage
  <1>9. KnownStage(v) = IF redis[v].kind = "none" THEN "unknown"
                        ELSE IF redis[v].kind = "check_out" THEN "rented"
                        ELSE IF redis[v].kind = "correcting_check_out" THEN "missing" ELSE "parked"
    BY <1>7 DEF KnownStage
  <1>10. StageOf(redis[v].kind) = IF redis[v].kind \in {"none", "check_out", "correcting_check_out"}
                                  THEN "away" ELSE "parked"
    BY DEF StageOf
  <1>11. CASE event.kind = "check_in"
    <2>1. event.park # redis[v].park /\ redis[v].kind \in {"none", "check_out"}
      BY <1>6, <1>7, <1>10, <1>11 DEF FollowsOn, StaysOn, HasParked
    <2>2. QED
      BY <1>2, <1>4, <1>5, <1>8, <1>9, <1>11, <2>1 DEF Turns
  <1>12. CASE event.kind = "cancel"
    <2>1. event.park = redis[v].park /\ redis[v].kind = "check_out"
      BY <1>6, <1>12 DEF FollowsOn, StaysOn, StartsParks
    <2>2. QED
      BY <1>2, <1>4, <1>5, <1>8, <1>9, <1>12, <2>1 DEF Turns
  <1>13. CASE event.kind \in {"check_in_after_reboot", "vehicle_moved"}
    <2>1. /\ redis[v].kind \notin {"none", "check_out"}
          /\ redis[v].kind = "correcting_check_out" => event.park # redis[v].park
      BY <1>6, <1>7, <1>10, <1>13 DEF FollowsOn, StaysOn, HasParked, Moves
    <2>2. QED
      BY <1>2, <1>4, <1>5, <1>8, <1>9, <1>13, <2>1 DEF Turns, KnowsTheSame
  <1>14. CASE event.kind \in {"check_out", "non_operational_change"}
    <2>1. event.park = redis[v].park /\ redis[v].kind \notin {"none", "check_out", "correcting_check_out"}
      BY <1>6, <1>10, <1>14 DEF FollowsOn, StaysOn, StartsParks, Moves
    <2>2. QED
      BY <1>2, <1>4, <1>5, <1>8, <1>9, <1>14, <2>1 DEF Turns, KnowsTheSame
  <1>15. CASE event.kind = "correcting_check_out"
    <2>1. event.park = redis[v].park /\ redis[v].kind \notin {"none", "check_out"}
      BY <1>6, <1>7, <1>15 DEF FollowsOn, StaysOn, StartsParks
    <2>2. QED
      BY <1>2, <1>4, <1>5, <1>8, <1>9, <1>15, <2>1 DEF Turns, KnowsTheSame
  <1>16. QED
    BY <1>7, <1>11, <1>12, <1>13, <1>14, <1>15 DEF Kinds

-----------------------------------------------------------------------------
(* The variables of the life cycle. *)
Stage == [v \in Vehicles |-> KnownStage(v)]
Stays == [v \in Vehicles |-> KnownStays(v)]
Rides == [v \in Vehicles |-> KnownRides(v)]

LEMMA OneTurns ==
    ASSUME NEW v \in Vehicles, NEW from, NEW to, NEW i, NEW j, Turns(v, from, to, i, j),
           \A w \in Vehicles \ {v} : KnowsTheSame(w)
    PROVE  /\ Stage[v] = from /\ Stage' = [Stage EXCEPT ![v] = to]
           /\ Stays' = [Stays EXCEPT ![v] = @ + i]
           /\ Rides' = [Rides EXCEPT ![v] = @ + j]
BY DEF Turns, KnowsTheSame, Stage, Stays, Rides

LEMMA NothingAdded ==
    ASSUME TypeOK, NEW v \in Vehicles
    PROVE  /\ [Stays EXCEPT ![v] = @ + 0] = Stays
           /\ [Rides EXCEPT ![v] = @ + 0] = Rides
  <1>1. KnownStays(v) + 0 = KnownStays(v) /\ KnownRides(v) + 0 = KnownRides(v)
    BY CountedRows
  <1>2. QED
    BY <1>1 DEF Stays, Rides

LEMMA NothingTurns ==
    ASSUME \A v \in Vehicles : KnowsTheSame(v)
    PROVE  UNCHANGED Lifecycle!lifecycleVars
BY DEF KnowsTheSame, Lifecycle!lifecycleVars

(* The turn of a vehicle, the others left alone, is a step of the life     *)
(* cycle.                                                                  *)
LEMMA TurnsAreSteps ==
    ASSUME TypeOK, NEW v \in Vehicles, \A w \in Vehicles \ {v} : KnowsTheSame(w)
    PROVE  /\ Turns(v, "unknown", "parked", 1, 0) => Lifecycle!Appear(v)
           /\ Turns(v, "parked", "rented", 0, 0)  => Lifecycle!Leave(v)
           /\ Turns(v, "rented", "parked", 1, 1)  => Lifecycle!Return(v)
           /\ Turns(v, "rented", "parked", 0, 0)  => Lifecycle!Cancel(v)
           /\ Turns(v, "parked", "parked", 1, 0)  => Lifecycle!Relocate(v)
           /\ Turns(v, "parked", "missing", 0, 0) => Lifecycle!GoMissing(v)
           /\ Turns(v, "missing", "parked", 1, 0) => Lifecycle!Reappear(v)
  <1>1. ASSUME NEW from, NEW to, NEW i \in Nat, NEW j \in Nat, Turns(v, from, to, i, j)
        PROVE  /\ Lifecycle!Become(v, from, to)
               /\ i = 1 => Lifecycle!NewStay(v)
               /\ i = 0 => Stays' = Stays
               /\ Rides' = [Rides EXCEPT ![v] = @ + j]
               /\ j = 0 => Rides' = Rides
    <2>1. /\ Stage[v] = from /\ Stage' = [Stage EXCEPT ![v] = to]
          /\ Stays' = [Stays EXCEPT ![v] = @ + i]
          /\ Rides' = [Rides EXCEPT ![v] = @ + j]
      BY <1>1, OneTurns
    <2>2. Lifecycle!Become(v, from, to)
      BY <2>1 DEF Lifecycle!Become, Stage
    <2>3. i = 1 => Lifecycle!NewStay(v)
      BY <2>1 DEF Lifecycle!NewStay, Stays
    <2>4. QED
      BY <2>1, <2>2, <2>3, NothingAdded
  <1>2. Turns(v, "unknown", "parked", 1, 0) => Lifecycle!Appear(v)
    BY <1>1 DEF Lifecycle!Appear, Stays, Rides
  <1>3. Turns(v, "parked", "rented", 0, 0) => Lifecycle!Leave(v)
    BY <1>1 DEF Lifecycle!Leave, Stays, Rides
  <1>4. Turns(v, "rented", "parked", 1, 1) => Lifecycle!Return(v)
    BY <1>1 DEF Lifecycle!Return, Stays, Rides
  <1>5. Turns(v, "rented", "parked", 0, 0) => Lifecycle!Cancel(v)
    BY <1>1 DEF Lifecycle!Cancel, Stays, Rides
  <1>6. Turns(v, "parked", "parked", 1, 0) => Lifecycle!Relocate(v)
    BY <1>1 DEF Lifecycle!Relocate, Stays, Rides
  <1>7. Turns(v, "parked", "missing", 0, 0) => Lifecycle!GoMissing(v)
    BY <1>1 DEF Lifecycle!GoMissing, Stays, Rides
  <1>8. Turns(v, "missing", "parked", 1, 0) => Lifecycle!Reappear(v)
    BY <1>1 DEF Lifecycle!Reappear, Stays, Rides
  <1>9. QED
    BY <1>2, <1>3, <1>4, <1>5, <1>6, <1>7, <1>8

LEMMA NextLifecycle ==
    ASSUME Calm, ~NightlyCleanup, CalmInv, RideInv, ProgressInv, [Next]_vars
    PROVE  [Lifecycle!Next]_(Lifecycle!lifecycleVars)
  <1>1. TypeOK
    BY DEF CalmInv
  <1>2. CASE LPush
    <2>1. PICK v \in Vehicles : event.vehicle = v
      BY <1>1, <1>2, StatementKeeps DEF StatementStep, Events
    <2>2. \A w \in Vehicles \ {v} : KnowsTheSame(w)
      <3>1. UNCHANGED <<parkEvents, trips>> /\ \A w \in Vehicles \ {v} : redis'[w] = redis[w]
        BY <1>1, <1>2, <2>1 DEF LPush, TypeOK, ProcessorTypeOK
      <3>2. QED
        BY <3>1 DEF KnowsTheSame, KnownStage, KnownStays, KnownRides
    <2>3. CASE KnowsTheSame(v)
      BY <2>2, <2>3, NothingTurns
    <2>4. KnowsTheSame(v) \/ Lifecycle!Next
      BY <1>1, <1>2, <2>1, <2>2, PushTurns, TurnsAreSteps DEF Lifecycle!Next
    <2>5. QED
      BY <2>3, <2>4
  <1>3. CASE StatementStep /\ ~LPush
    <2>1. ASSUME NEW v \in Vehicles
          PROVE  KnowsTheSame(v)
      <3>1. /\ KnownStays(v)' = Cardinality(StaysOf(v)') /\ KnownStays(v) = Cardinality(StaysOf(v))
            /\ KnownRides(v)' = Cardinality(RidesOf(v)') /\ KnownRides(v) = Cardinality(RidesOf(v))
        BY DEF KnownStays, StaysOf, KnownRides, RidesOf
      <3>2. redis' = redis /\ StaysOf(v)' = StaysOf(v) /\ RidesOf(v)' = RidesOf(v)
        BY <1>3, StatementsAreHidden
      <3>3. QED
        BY <3>1, <3>2 DEF KnowsTheSame, KnownStage
    <2>2. QED
      BY <2>1, NothingTurns
  <1>4. CASE UNCHANGED <<parkEvents, trips, redis>>
    BY <1>4, NothingTurns DEF KnowsTheSame, KnownStage, KnownStays, KnownRides
  <1>5. QED
    BY <1>2, <1>3, <1>4, CalmSteps, EventHandled

LEMMA InitLifecycle == Init => Lifecycle!Init
  <1> SUFFICES ASSUME Init PROVE Lifecycle!Init
    OBVIOUS
  <1>1. parkEvents = <<>> /\ trips = <<>> /\ \A v \in Vehicles : redis[v] = NoEvent
    BY DEF Init, ProcessorInit
  <1>2. ASSUME NEW v \in Vehicles
        PROVE  KnownStage(v) = "unknown"
    <2>1. redis[v] = NoEvent
      BY <1>1
    <2>2. QED
      BY <2>1, NoEventIsNone DEF KnownStage
  <1>3. ASSUME NEW v \in Vehicles
        PROVE  KnownStays(v) = 0 /\ KnownRides(v) = 0
    <2>1. StaysOf(v) = {} /\ RidesOf(v) = {}
      BY <1>1 DEF StaysOf, RidesOf
    <2>2. KnownStays(v) = Cardinality(StaysOf(v)) /\ KnownRides(v) = Cardinality(RidesOf(v))
      BY DEF KnownStays, StaysOf, KnownRides, RidesOf
    <2>3. QED
      BY <2>1, <2>2, FS_EmptySet
  <1>4. QED
    BY <1>2, <1>3 DEF Lifecycle!Init

(* The importer implements the life cycle of VehicleLifecycle: what Redis   *)
(* tells of a vehicle after a handler's last statement, the park events up  *)
(* to the entry's and the trips ended are those of one step of the          *)
(* vehicle's life, and no other step of the program changes them            *)
(* (src/process/event.go:62-140).                                           *)
THEOREM LifecycleIsImplemented ==
    ASSUME Calm, ~NightlyCleanup
    PROVE  Spec => ImplementsLifecycle
  <1>1. Init => Lifecycle!Init
    BY InitLifecycle
  <1>2. CalmInv /\ RideInv /\ ProgressInv /\ [Next]_vars
        => [Lifecycle!Next]_(Lifecycle!lifecycleVars)
    BY NextLifecycle
  <1>3. QED
    BY <1>1, <1>2, AlwaysProgresses, PTL DEF Spec, ImplementsLifecycle, Lifecycle!Spec

=============================================================================
