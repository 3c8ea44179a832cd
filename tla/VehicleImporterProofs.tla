------------------------ MODULE VehicleImporterProofs ------------------------
(***************************************************************************)
(* Theorems about VehicleImporter, for any number of vehicles, feeds and   *)
(* positions and any bounds, with every fault the module allows.           *)
(***************************************************************************)
EXTENDS VehicleImporter, TLAPS

-----------------------------------------------------------------------------
(* Helpers. *)

LEMMA NewEventType ==
    ASSUME NEW kind \in Kinds, NEW v \in Vehicles,
           NEW bike \in Bikes \cup {Absent}, NEW t \in Nat
    PROVE  NewEvent(kind, v, bike, t) \in Events
  <1>1. CASE bike \in Bikes
    <2>1. bike.pos \in Positions /\ bike.disabled \in Statuses
      BY <1>1 DEF Bikes
    <2>2. bike.disabled \in BOOLEAN
      BY <2>1, StatusAssumption
    <2>3. QED
      BY <2>1, <2>2 DEF NewEvent, Events
  <1>2. CASE bike = Absent
    BY <1>2 DEF Absent, NewEvent, Events
  <1>3. QED
    BY <1>1, <1>2

LEMMA NoEventIsNone ==
    /\ NoEvent \notin Events
    /\ NoEvent.kind = "none" /\ NoEvent.vehicle = NoVehicle
    /\ NoEvent.park = 0 /\ NoEvent.trip = 0
  BY NoVehicleAssumption DEF NoEvent, NewEvent, Events

LEMMA CompareBikeType ==
    ASSUME NEW v \in Vehicles, NEW t \in Nat,
           NEW old \in Bikes \cup {Absent}, NEW new \in Bikes \cup {Absent}
    PROVE  CompareBike(v, old, new, t) \in Seq(Events)
  <1> DEFINE moved == NewEvent("vehicle_moved", v, new, t)
             changed == NewEvent("non_operational_change", v, new, t)
  <1>1. /\ <<NewEvent("check_in", v, new, t)>> \in Seq(Events)
        /\ <<NewEvent("check_out", v, old, t)>> \in Seq(Events)
        /\ <<moved>> \in Seq(Events) /\ <<changed>> \in Seq(Events)
    <2>1. \A kind \in Kinds : /\ NewEvent(kind, v, new, t) \in Events
                              /\ NewEvent(kind, v, old, t) \in Events
      BY NewEventType
    <2>2. \A e \in Events : <<e>> \in Seq(Events)
      OBVIOUS
    <2>3. QED
      BY <2>1, <2>2 DEF Kinds
  <1>2. <<>> \in Seq(Events)
    OBVIOUS
  <1> HIDE DEF moved, changed
  <1>3. /\ (<<moved>> \o <<changed>>) \in Seq(Events)
        /\ (<<moved>> \o <<>>) \in Seq(Events)
        /\ (<<>> \o <<changed>>) \in Seq(Events)
        /\ (<<>> \o <<>>) \in Seq(Events)
    BY <1>1, <1>2
  <1>4. QED
    BY <1>1, <1>2, <1>3 DEF CompareBike, moved, changed

LEMMA CleanCompareType ==
    ASSUME NEW f \in Feeds, NEW t \in Nat,
           NEW old \in [Vehicles -> Bikes \cup {Absent}],
           NEW new \in [Vehicles -> Bikes \cup {Absent}]
    PROVE  CleanCompare(f, old, new, t) \in SUBSET Strands
  BY CompareBikeType DEF CleanCompare, VehiclesOf, Strands
(* Lists of statements. *)
LEMMA ConcatType ==
    ASSUME NEW S, NEW s \in Seq(S), NEW t \in Seq(S)
    PROVE  s \o t \in Seq(S)
  OBVIOUS

LEMMA OneStatement == \A s \in Statements : <<s>> \in Seq(Statements)
  OBVIOUS

LEMMA EndParkType == EndPark \in Seq(Statements)
  BY DEF EndPark, Statements

LEMMA StartParkType == \A e \in Events : StartPark(e) \in Seq(Statements)
  <1> SUFFICES ASSUME NEW e \in Events PROVE StartPark(e) \in Seq(Statements)
    OBVIOUS
  <1> DEFINE nonOp == IF e.disabled THEN <<"StartNonOperationalEvent">> ELSE <<>>
  <1>1. <<"StartNonOperationalEvent">> \in Seq(Statements) /\ <<>> \in Seq(Statements)
    BY OneStatement DEF Statements
  <1>2. nonOp \in Seq(Statements)
    BY <1>1
  <1>3. <<"StartParkEvent">> \in Seq(Statements)
    BY OneStatement DEF Statements
  <1> HIDE DEF nonOp
  <1>4. <<"StartParkEvent">> \o nonOp \in Seq(Statements)
    BY <1>2, <1>3, ConcatType
  <1>5. QED
    BY <1>4 DEF StartPark, nonOp

-----------------------------------------------------------------------------
(* Type correctness. *)

LEMMA InitTypeOK == Init => TypeOK
  <1> SUFFICES ASSUME Init PROVE TypeOK
    OBVIOUS
  <1> USE DEF Init, ProcessorInit
  <1>1. ProcessorTypeOK
    BY DEF ProcessorTypeOK
  <1>2. QED
    BY <1>1, FeedAssumption DEF TypeOK

LEMMA ExecuteType ==
    ASSUME NEW e \in Events, NEW statements \in Seq(Statements), Execute(e, statements)
    PROVE  event' \in Events /\ plan' \in Seq(Statements)
  <1>1. <<"LPush">> \in Seq(Statements)
    BY OneStatement DEF Statements
  <1>2. QED
    BY <1>1, ConcatType DEF Execute

(* What each statement has in common. *)
LEMMA StatementType ==
    ASSUME TypeOK, NEW s, Statement(s)
    PROVE  /\ event \in Events
           /\ plan' \in Seq(Statements)
           /\ eventChan' \in Seq(SUBSET Strands) /\ batch' \in SUBSET Strands
  BY DEF TypeOK, ProcessorTypeOK, Statement

LEMMA MoveByDistanceType ==
    ASSUME NEW e \in Events, NEW last \in Events, MoveByDistance(e, last)
    PROVE  /\ event' \in Events \cup {NoEvent}
           /\ plan' \in Seq(Statements)
           /\ plan' # <<>> => event' # NoEvent
  <1> DEFINE moved == [e EXCEPT !.park = last.park]
  <1>1. moved \in Events
    BY DEF Events
  <1>2. /\ StartPark(e) \in Seq(Statements)
        /\ (EndPark \o StartPark(e)) \in Seq(Statements)
        /\ <<"UpdateLocationParkEvent">> \in Seq(Statements)
    BY StartParkType, EndParkType, ConcatType, OneStatement DEF Statements
  <1>3. CASE Execute(moved, EndPark \o StartPark(e)) \/ Execute(moved, <<"UpdateLocationParkEvent">>)
    BY <1>1, <1>2, <1>3, ExecuteType, NoEventIsNone
  <1>4. CASE Ignore
    BY <1>4 DEF Ignore
  <1>5. QED
    BY <1>3, <1>4 DEF MoveByDistance
(* What the handlers leave behind, whichever runs. *)
HandlerType ==
    /\ event' \in Events \cup {NoEvent}
    /\ plan' \in Seq(Statements)
    /\ plan' # <<>> => event' # NoEvent

LEMMA HandlersType ==
    ASSUME TypeOK, NEW e \in Events, NEW last \in Events \cup {NoEvent}, Handle(e, last)
    PROVE  HandlerType
  <1> DEFINE related == [e EXCEPT !.park = last.park, !.trip = last.trip]
             parked == [e EXCEPT !.park = last.park]
  <1>0. last.park \in Nat /\ last.trip \in Nat
    BY NoEventIsNone DEF Events
  <1>1. related \in Events /\ parked \in Events
    BY <1>0 DEF Events
  <1>2. <<>> \in Seq(Statements) /\ StartPark(e) \in Seq(Statements)
    BY StartParkType
  <1>3. ASSUME NEW x \in Events, NEW statements \in Seq(Statements), Execute(x, statements)
        PROVE  HandlerType
    BY <1>3, ExecuteType, NoEventIsNone DEF HandlerType
  <1>a. CASE FirstCheckIn(e, last)
    <2>1. CASE Execute(e, StartPark(e))
      BY <2>1, <1>2, <1>3
    <2>2. ASSUME NEW i \in GetLastParkEvent(e.vehicle),
                 Execute([e EXCEPT !.park = i, !.time = 0], <<>>)
          PROVE  HandlerType
      <3>1. i \in Nat
        BY DEF GetLastParkEvent, OpenParks, TypeOK, ProcessorTypeOK
      <3>2. [e EXCEPT !.park = i, !.time = 0] \in Events
        BY <3>1 DEF Events
      <3>3. QED
        BY <3>2, <2>2, <1>2, <1>3
    <2>3. QED
      BY <1>a, <2>1, <2>2 DEF FirstCheckIn
  <1>b. CASE ResetTrip(e, last)
    <2> DEFINE cancelled == [e EXCEPT !.kind = "cancel", !.park = last.park, !.trip = last.trip]
               reopen == IF last.disabled THEN <<"CancelEndNonOperationalEvent">> ELSE <<>>
               reset == IF last.park = 0 THEN <<>> ELSE <<"ResetEndParkEvent">> \o reopen
    <2>1. cancelled \in Events
      BY <1>0 DEF Events, Kinds
    <2>2. <<"CancelEndNonOperationalEvent">> \in Seq(Statements)
          /\ <<"ResetEndParkEvent">> \in Seq(Statements) /\ <<"CancelTrip">> \in Seq(Statements)
      BY OneStatement DEF Statements
    <2>3. reopen \in Seq(Statements)
      BY <2>2, <1>2
    <2>4. Execute(cancelled, reset \o <<"CancelTrip">>)
      BY <1>b DEF ResetTrip
    <2> HIDE DEF reopen
    <2>5. reset \in Seq(Statements)
      BY <2>2, <2>3, <1>2, ConcatType
    <2> HIDE DEF reset, cancelled
    <2>6. reset \o <<"CancelTrip">> \in Seq(Statements)
      BY <2>2, <2>5, ConcatType
    <2>7. QED
      BY <2>1, <2>4, <2>6, <1>3
  <1>c. CASE EndTripAndPark(e, last)
    <2>1. <<"EndTrip">> \in Seq(Statements)
      BY OneStatement DEF Statements
    <2>2. <<"EndTrip">> \o StartPark(e) \in Seq(Statements)
      BY <2>1, <1>2, ConcatType
    <2>3. QED
      BY <2>2, <1>c, <1>1, <1>3 DEF EndTripAndPark
  <1>d. CASE CheckInAfterReboot(e, last)
    <2>1. [e EXCEPT !.kind = "check_in_after_reboot"] \in Events
      BY DEF Events, Kinds
    <2>2. last \in Events
      BY <1>d DEF CheckInAfterReboot
    <2>3. QED
      BY <2>1, <2>2, <1>d, MoveByDistanceType DEF CheckInAfterReboot, HandlerType
  <1>e. CASE VehicleMoved(e, last)
    <2>1. last \in Events
      BY <1>e DEF VehicleMoved
    <2>2. QED
      BY <2>1, <1>e, MoveByDistanceType DEF VehicleMoved, HandlerType
  <1>f. CASE CheckOut(e, last)
    <2>1. EndPark \o <<"StartTrip">> \in Seq(Statements)
      BY EndParkType, OneStatement, ConcatType DEF Statements
    <2>2. QED
      BY <2>1, <1>f, <1>1, <1>3 DEF CheckOut
  <1>g. CASE CorrectingCheckOut(e)
    BY <1>g, <1>3, EndParkType DEF CorrectingCheckOut
  <1>h. CASE NonOperationalChange(e, last)
    <2>1. <<"StartNonOperationalEvent">> \in Seq(Statements)
          /\ <<"EndNonOperationalEvent">> \in Seq(Statements)
      BY OneStatement DEF Statements
    <2>2. CASE e.disabled
      BY <2>1, <2>2, <1>h, <1>1, <1>3 DEF NonOperationalChange
    <2>3. CASE ~e.disabled
      BY <2>1, <2>3, <1>h, <1>1, <1>3 DEF NonOperationalChange
    <2>4. QED
      BY <2>2, <2>3
  <1>i. CASE NothingToGoOn(e, last)
    BY <1>i, <1>2, <1>3 DEF NothingToGoOn
  <1>j. QED
    BY <1>a, <1>b, <1>c, <1>d, <1>e, <1>f, <1>g, <1>h, <1>i DEF Handle
LEMMA ProcessEventType ==
    ASSUME TypeOK, ProcessEvent
    PROVE  ProcessorTypeOK'
  <1>1. PICK s \in batch :
           /\ batch' = (batch \ {s}) \cup ({Tail(s)} \ {<<>>})
           /\ Handle(Head(s), redis[Head(s).vehicle])
    BY Zenon DEF ProcessEvent
  <1>2. s \in Strands /\ Head(s) \in Events
    BY DEF TypeOK, ProcessorTypeOK, Strands
  <1>3. Head(s).vehicle \in Vehicles
    BY <1>2 DEF Events
  <1>4. redis[Head(s).vehicle] \in Events \cup {NoEvent}
    BY <1>3 DEF TypeOK, ProcessorTypeOK
  <1>5. HandlerType
    BY <1>1, <1>2, <1>4, HandlersType
  <1>6. Tail(s) \in Seq(Events)
    BY <1>2 DEF Strands
  <1>7. batch' \in SUBSET Strands
    BY <1>1, <1>6 DEF Strands, TypeOK, ProcessorTypeOK
  <1>8. UNCHANGED <<parkEvents, trips, nonOps, redis, eventChan>>
    BY DEF ProcessEvent
  <1>9. QED
    BY <1>5, <1>7, <1>8 DEF HandlerType, TypeOK, ProcessorTypeOK

LEMMA ReceiveEventsType ==
    ASSUME TypeOK, ReceiveEvents
    PROVE  ProcessorTypeOK'
  BY DEF TypeOK, ProcessorTypeOK, ReceiveEvents

(* What an UPDATE of one column does to a row, and to a table. *)
LEMMA EventUpdated ==
    ASSUME NEW e \in Events, NEW n \in Nat
    PROVE  [e EXCEPT !.park = n] \in Events /\ [e EXCEPT !.trip = n] \in Events
  BY DEF Events

LEMMA ParkRowUpdated ==
    /\ \A r \in ParkRows, t \in Nat : [r EXCEPT !.end = t] \in ParkRows
    /\ \A r \in ParkRows, p \in Positions \cup {Nowhere} : [r EXCEPT !.pos = p] \in ParkRows
  BY DEF ParkRows

LEMMA TripRowUpdated ==
    /\ \A r \in TripRows, t \in Nat : [r EXCEPT !.end = t] \in TripRows
    /\ \A r \in TripRows : [r EXCEPT !.deleted = TRUE] \in TripRows
  BY DEF TripRows

LEMMA NonOpRowUpdated ==
    \A r \in NonOpRows, t \in Nat : [r EXCEPT !.end = t] \in NonOpRows
  BY DEF NonOpRows

LEMMA TableUpdated ==
    ASSUME NEW R, NEW s \in Seq(R), NEW t,
           t = [i \in DOMAIN s |-> t[i]], \A i \in DOMAIN s : t[i] \in R
    PROVE  t \in Seq(R) /\ DOMAIN t = DOMAIN s
  <1>1. DOMAIN s = 1..Len(s) /\ Len(s) \in Nat
    OBVIOUS
  <1>2. QED
    BY <1>1

LEMMA StatementStepType ==
    ASSUME TypeOK, StatementStep
    PROVE  ProcessorTypeOK'
  <1>1. CASE StartParkEvent
    <2>1. event \in Events /\ plan' \in Seq(Statements)
          /\ eventChan' \in Seq(SUBSET Strands) /\ batch' \in SUBSET Strands
      BY <1>1, StatementType DEF StartParkEvent
    <2>2. Len(parkEvents) + 1 \in Nat
      BY DEF TypeOK, ProcessorTypeOK
    <2>3. event' \in Events
      BY <1>1, <2>1, <2>2, EventUpdated DEF StartParkEvent
    <2>4. parkEvents' \in Seq(ParkRows)
      BY <1>1, <2>1 DEF StartParkEvent, Events, ParkRows, TypeOK, ProcessorTypeOK
    <2>5. QED
      BY <1>1, <2>1, <2>3, <2>4, NoEventIsNone DEF StartParkEvent, TypeOK, ProcessorTypeOK
  <1>2. CASE EndParkEvent
    <2>1. event \in Events /\ plan' \in Seq(Statements)
          /\ eventChan' \in Seq(SUBSET Strands) /\ batch' \in SUBSET Strands
      BY <1>2, StatementType DEF EndParkEvent
    <2>2. PICK ended : parkEvents' = [i \in DOMAIN parkEvents |->
                         IF i \in ended THEN [parkEvents[i] EXCEPT !.end = event.time] ELSE parkEvents[i]]
      BY <1>2 DEF EndParkEvent
    <2>3. event.time \in Nat /\ event.pos \in Positions \cup {Nowhere} /\ parkEvents \in Seq(ParkRows)
      BY <2>1 DEF Events, TypeOK, ProcessorTypeOK
    <2>4. \A i \in DOMAIN parkEvents : parkEvents'[i] \in ParkRows
      BY <2>2, <2>3, ParkRowUpdated
    <2>5. parkEvents' \in Seq(ParkRows)
      BY <2>2, <2>3, <2>4, TableUpdated
    <2>6. event' \in Events
      BY <1>2, <2>1, EventUpdated DEF EndParkEvent
    <2>7. QED
      BY <1>2, <2>1, <2>5, <2>6, NoEventIsNone DEF EndParkEvent, TypeOK, ProcessorTypeOK
  <1>3. CASE UpdateLocationParkEvent
    <2>1. event \in Events /\ plan' \in Seq(Statements)
          /\ eventChan' \in Seq(SUBSET Strands) /\ batch' \in SUBSET Strands
      BY <1>3, StatementType DEF UpdateLocationParkEvent
    <2>2. parkEvents' = [i \in DOMAIN parkEvents |->
                    IF i = event.park
                    THEN [parkEvents[i] EXCEPT !.pos = event.pos] ELSE parkEvents[i]]
      BY <1>3 DEF UpdateLocationParkEvent
    <2>3. event.time \in Nat /\ event.pos \in Positions \cup {Nowhere} /\ parkEvents \in Seq(ParkRows)
      BY <2>1 DEF Events, TypeOK, ProcessorTypeOK
    <2>4. \A i \in DOMAIN parkEvents : parkEvents'[i] \in ParkRows
      BY <2>2, <2>3, ParkRowUpdated
    <2>5. parkEvents' \in Seq(ParkRows)
      BY <2>2, <2>3, <2>4, TableUpdated
    <2>6. event' \in Events
      BY <1>3, <2>1, EventUpdated DEF UpdateLocationParkEvent
    <2>7. QED
      BY <1>3, <2>1, <2>5, <2>6, NoEventIsNone DEF UpdateLocationParkEvent, TypeOK, ProcessorTypeOK
  <1>4. CASE ResetEndParkEvent
    <2>1. event \in Events /\ plan' \in Seq(Statements)
          /\ eventChan' \in Seq(SUBSET Strands) /\ batch' \in SUBSET Strands
      BY <1>4, StatementType DEF ResetEndParkEvent
    <2>2. parkEvents' = [i \in DOMAIN parkEvents |->
                    IF i = event.park
                    THEN [parkEvents[i] EXCEPT !.end = 0] ELSE parkEvents[i]]
      BY <1>4 DEF ResetEndParkEvent
    <2>3. event.time \in Nat /\ event.pos \in Positions \cup {Nowhere} /\ parkEvents \in Seq(ParkRows)
      BY <2>1 DEF Events, TypeOK, ProcessorTypeOK
    <2>4. \A i \in DOMAIN parkEvents : parkEvents'[i] \in ParkRows
      BY <2>2, <2>3, ParkRowUpdated
    <2>5. parkEvents' \in Seq(ParkRows)
      BY <2>2, <2>3, <2>4, TableUpdated
    <2>6. event' \in Events
      BY <1>4, <2>1, EventUpdated DEF ResetEndParkEvent
    <2>7. QED
      BY <1>4, <2>1, <2>5, <2>6, NoEventIsNone DEF ResetEndParkEvent, TypeOK, ProcessorTypeOK
  <1>5. CASE StartNonOperationalEvent
    <2>1. event \in Events /\ plan' \in Seq(Statements)
          /\ eventChan' \in Seq(SUBSET Strands) /\ batch' \in SUBSET Strands
      BY <1>5, StatementType DEF StartNonOperationalEvent
    <2>2. nonOps' \in Seq(NonOpRows)
      BY <1>5, <2>1 DEF StartNonOperationalEvent, Events, NonOpRows, TypeOK, ProcessorTypeOK
    <2>3. QED
      BY <1>5, <2>1, <2>2, NoEventIsNone DEF StartNonOperationalEvent, TypeOK, ProcessorTypeOK
  <1>6. CASE EndNonOperationalEvent
    <2>1. event \in Events /\ plan' \in Seq(Statements)
          /\ eventChan' \in Seq(SUBSET Strands) /\ batch' \in SUBSET Strands
      BY <1>6, StatementType DEF EndNonOperationalEvent
    <2>2. PICK ended : nonOps' = [i \in DOMAIN nonOps |->
                         IF i \in ended THEN [nonOps[i] EXCEPT !.end = event.time] ELSE nonOps[i]]
      BY <1>6 DEF EndNonOperationalEvent
    <2>3. event.time \in Nat /\ event.pos \in Positions \cup {Nowhere} /\ nonOps \in Seq(NonOpRows)
      BY <2>1 DEF Events, TypeOK, ProcessorTypeOK
    <2>4. \A i \in DOMAIN nonOps : nonOps'[i] \in NonOpRows
      BY <2>2, <2>3, NonOpRowUpdated
    <2>5. nonOps' \in Seq(NonOpRows)
      BY <2>2, <2>3, <2>4, TableUpdated
    <2>6. event' \in Events
      BY <1>6, <2>1, EventUpdated DEF EndNonOperationalEvent
    <2>7. QED
      BY <1>6, <2>1, <2>5, <2>6, NoEventIsNone DEF EndNonOperationalEvent, TypeOK, ProcessorTypeOK
  <1>7. CASE CancelEndNonOperationalEvent
    <2>1. event \in Events /\ plan' \in Seq(Statements)
          /\ eventChan' \in Seq(SUBSET Strands) /\ batch' \in SUBSET Strands
      BY <1>7, StatementType DEF CancelEndNonOperationalEvent
    <2>2. PICK related : nonOps' = [i \in DOMAIN nonOps |->
                         IF i \in related /\ \A j \in related : j <= i
                         THEN [nonOps[i] EXCEPT !.end = 0] ELSE nonOps[i]]
      BY <1>7 DEF CancelEndNonOperationalEvent
    <2>3. event.time \in Nat /\ event.pos \in Positions \cup {Nowhere} /\ nonOps \in Seq(NonOpRows)
      BY <2>1 DEF Events, TypeOK, ProcessorTypeOK
    <2>4. \A i \in DOMAIN nonOps : nonOps'[i] \in NonOpRows
      BY <2>2, <2>3, NonOpRowUpdated
    <2>5. nonOps' \in Seq(NonOpRows)
      BY <2>2, <2>3, <2>4, TableUpdated
    <2>6. event' \in Events
      BY <1>7, <2>1, EventUpdated DEF CancelEndNonOperationalEvent
    <2>7. QED
      BY <1>7, <2>1, <2>5, <2>6, NoEventIsNone DEF CancelEndNonOperationalEvent, TypeOK, ProcessorTypeOK
  <1>8. CASE StartTrip
    <2>1. event \in Events /\ plan' \in Seq(Statements)
          /\ eventChan' \in Seq(SUBSET Strands) /\ batch' \in SUBSET Strands
      BY <1>8, StatementType DEF StartTrip
    <2>2. Len(trips) + 1 \in Nat
      BY DEF TypeOK, ProcessorTypeOK
    <2>3. event' \in Events
      BY <1>8, <2>1, <2>2, EventUpdated DEF StartTrip
    <2>4. trips' \in Seq(TripRows)
      BY <1>8, <2>1 DEF StartTrip, Events, TripRows, TypeOK, ProcessorTypeOK
    <2>5. QED
      BY <1>8, <2>1, <2>3, <2>4, NoEventIsNone DEF StartTrip, TypeOK, ProcessorTypeOK
  <1>9. CASE EndTrip
    <2>1. event \in Events /\ plan' \in Seq(Statements)
          /\ eventChan' \in Seq(SUBSET Strands) /\ batch' \in SUBSET Strands
      BY <1>9, StatementType DEF EndTrip
    <2>2. trips' = [i \in DOMAIN trips |->
                    IF i = event.trip /\ ~trips[i].deleted
                    THEN [trips[i] EXCEPT !.end = event.time] ELSE trips[i]]
      BY <1>9 DEF EndTrip
    <2>3. event.time \in Nat /\ event.pos \in Positions \cup {Nowhere} /\ trips \in Seq(TripRows)
      BY <2>1 DEF Events, TypeOK, ProcessorTypeOK
    <2>4. \A i \in DOMAIN trips : trips'[i] \in TripRows
      BY <2>2, <2>3, TripRowUpdated
    <2>5. trips' \in Seq(TripRows)
      BY <2>2, <2>3, <2>4, TableUpdated
    <2>6. event' \in Events
      BY <1>9, <2>1, EventUpdated DEF EndTrip
    <2>7. QED
      BY <1>9, <2>1, <2>5, <2>6, NoEventIsNone DEF EndTrip, TypeOK, ProcessorTypeOK
  <1>10. CASE CancelTrip
    <2>1. event \in Events /\ plan' \in Seq(Statements)
          /\ eventChan' \in Seq(SUBSET Strands) /\ batch' \in SUBSET Strands
      BY <1>10, StatementType DEF CancelTrip
    <2>2. trips' = [i \in DOMAIN trips |->
                    IF i = event.trip
                    THEN [trips[i] EXCEPT !.deleted = TRUE] ELSE trips[i]]
      BY <1>10 DEF CancelTrip
    <2>3. event.time \in Nat /\ event.pos \in Positions \cup {Nowhere} /\ trips \in Seq(TripRows)
      BY <2>1 DEF Events, TypeOK, ProcessorTypeOK
    <2>4. \A i \in DOMAIN trips : trips'[i] \in TripRows
      BY <2>2, <2>3, TripRowUpdated
    <2>5. trips' \in Seq(TripRows)
      BY <2>2, <2>3, <2>4, TableUpdated
    <2>6. event' \in Events
      BY <1>10, <2>1, EventUpdated DEF CancelTrip
    <2>7. QED
      BY <1>10, <2>1, <2>5, <2>6, NoEventIsNone DEF CancelTrip, TypeOK, ProcessorTypeOK
  <1>11. CASE LPush
    <2>1. redis' \in [Vehicles -> Events \cup {NoEvent}]
      BY <1>11 DEF LPush, TypeOK, ProcessorTypeOK
    <2>2. QED
      BY <1>11, <2>1 DEF LPush, TypeOK, ProcessorTypeOK
  <1>12. QED
    BY <1>1, <1>2, <1>3, <1>4, <1>5, <1>6, <1>7, <1>8, <1>9, <1>10, <1>11 DEF StatementStep
LEMMA ProcessorStepType ==
    ASSUME TypeOK, ProcessorStep
    PROVE  TypeOK'
  <1>1. ProcessorTypeOK'
    BY ReceiveEventsType, ProcessEventType, StatementStepType DEF ProcessorStep, ProcessorNext
  <1>2. QED
    BY <1>1 DEF ProcessorStep, importerVars, counters, TypeOK

LEMMA SendType ==
    ASSUME TypeOK, NEW events \in SUBSET Strands, Send(events)
    PROVE  eventChan' \in Seq(SUBSET Strands)
  BY DEF Send, TypeOK, ProcessorTypeOK

LEMMA ImportFeedType ==
    ASSUME TypeOK, NEW f \in Feeds, ImportFeed(f)
    PROVE  TypeOK'
  <1>1. PICK new \in Downloads(f) :
           /\ changes' = IF Quiet(f, new) THEN changes ELSE changes + 1
           /\ Send(CleanCompare(f, lastImport, new, now))
           /\ lastImport' = new
    BY DEF ImportFeed
  <1>2. new \in [Vehicles -> Bikes \cup {Absent}]
    BY DEF Downloads
  <1>3. CleanCompare(f, lastImport, new, now) \in SUBSET Strands
    BY <1>2, CleanCompareType DEF TypeOK
  <1>4. eventChan' \in Seq(SUBSET Strands)
    BY <1>1, <1>3, SendType
  <1>5. ProcessorTypeOK'
    BY <1>4 DEF ImportFeed, TypeOK, ProcessorTypeOK
  <1>6. changes' \in Nat
    BY <1>1 DEF TypeOK
  <1>7. imported' \in SUBSET feeds' /\ pending' \in SUBSET feeds'
    BY DEF ImportFeed, TypeOK
  <1>8. QED
    BY <1>1, <1>2, <1>5, <1>6, <1>7 DEF ImportFeed, TypeOK

LEMMA ImportNothingType ==
    ASSUME TypeOK, NEW f \in Feeds, ImportNothing(f)
    PROVE  TypeOK'
  <1>1. eventChan' \in Seq(SUBSET Strands)
    BY SendType DEF ImportNothing
  <1>2. ProcessorTypeOK'
    BY <1>1 DEF ImportNothing, TypeOK, ProcessorTypeOK
  <1>3. QED
    BY <1>2 DEF ImportNothing, TypeOK, counters

(* What the next turn of the loop leaves. *)
LEMMA NextRoundType ==
    ASSUME TypeOK, NextRound
    PROVE  /\ now' \in Nat /\ phase' = "import"
           /\ feeds' \in SUBSET Feeds
           /\ lastImport' \in [Vehicles -> Bikes \cup {Absent}]
           /\ imported' \in SUBSET feeds' /\ pending' \in SUBSET feeds'
  <1>1. PICK active \in SUBSET Feeds : LoadFeeds(active) /\ pending' = active
    BY DEF NextRound, TypeOK
  <1>2. now' \in Nat
    BY DEF NextRound, TypeOK
  <1>3. lastImport' \in [Vehicles -> Bikes \cup {Absent}]
    BY <1>1 DEF LoadFeeds, TypeOK
  <1>4. QED
    BY <1>1, <1>2, <1>3 DEF NextRound, LoadFeeds, TypeOK

LEMMA ProcessDiesType ==
    ASSUME TypeOK, ProcessDies, restarts' \in Nat
    PROVE  TypeOK'
  <1>1. ProcessorTypeOK'
    BY DEF ProcessDies, TypeOK, ProcessorTypeOK
  <1>2. feeds' \in SUBSET Feeds /\ now' \in Nat
    BY DEF ProcessDies, TypeOK
  <1>3. lastImport' \in [Vehicles -> Bikes \cup {Absent}]
    BY DEF ProcessDies
  <1>4. QED
    BY <1>1, <1>2, <1>3 DEF ProcessDies, TypeOK

LEMMA LoopStepType ==
    ASSUME TypeOK, LoopStep
    PROVE  TypeOK'
  <1>1. CASE SkipCleanup
    <2>1. ProcessorTypeOK'
      BY <1>1 DEF SkipCleanup, processorVars, TypeOK, ProcessorTypeOK
    <2>2. QED
      BY <1>1, <2>1, NextRoundType DEF SkipCleanup, counters, TypeOK
  <1>2. CASE StartCleanup
    <2>1. ProcessorTypeOK'
      BY <1>2 DEF StartCleanup, processorVars, TypeOK, ProcessorTypeOK
    <2>2. QED
      BY <1>2, <2>1 DEF StartCleanup, counters, TypeOK
  <1>3. CASE CleanupQuery
    <2>1. ProcessorTypeOK'
      BY <1>3 DEF CleanupQuery, processorVars, TypeOK, ProcessorTypeOK
    <2>2. ASSUME NEW i \in StaleParks
          PROVE  <<CorrectingEvent(i)>> \in Strands
      <3>0. i \in DOMAIN parkEvents
        BY DEF StaleParks
      <3>1. i \in Nat /\ parkEvents[i].vehicle \in Vehicles /\ now \in Nat
        <4>1. parkEvents \in Seq(ParkRows) /\ now \in Nat
          BY DEF TypeOK, ProcessorTypeOK
        <4>2. i \in Nat /\ parkEvents[i] \in ParkRows
          BY <3>0, <4>1
        <4>3. QED
          BY <4>1, <4>2 DEF ParkRows
      <3>2. NewEvent("correcting_check_out", parkEvents[i].vehicle, Absent, now) \in Events
        BY <3>1, NewEventType DEF Kinds
      <3>3. CorrectingEvent(i) \in Events
        BY <3>1, <3>2, EventUpdated DEF CorrectingEvent
      <3>4. QED
        BY <3>3 DEF Strands
    <2>3. corrections' \in SUBSET Strands
      BY <1>3, <2>2 DEF CleanupQuery
    <2>4. QED
      BY <1>3, <2>1, <2>3 DEF CleanupQuery, counters, TypeOK
  <1>4. CASE CleanupSend
    <2>1. eventChan' \in Seq(SUBSET Strands)
      BY <1>4, SendType DEF CleanupSend, TypeOK
    <2>2. ProcessorTypeOK'
      BY <1>4, <2>1 DEF CleanupSend, TypeOK, ProcessorTypeOK
    <2>3. NextRound /\ corrections' \in SUBSET Strands
      BY <1>4 DEF CleanupSend
    <2>4. QED
      BY <1>4, <2>2, <2>3, NextRoundType DEF CleanupSend, counters, TypeOK
  <1>5. CASE AlertPanic
    BY <1>5, ProcessDiesType DEF AlertPanic, TypeOK
  <1>6. QED
    BY <1>1, <1>2, <1>3, <1>4, <1>5 DEF LoopStep

LEMMA LoseRedisType ==
    ASSUME TypeOK, LoseRedis
    PROVE  TypeOK'
  <1>1. ProcessorTypeOK'
    BY DEF LoseRedis, TypeOK, ProcessorTypeOK
  <1>2. QED
    BY <1>1 DEF LoseRedis, importerVars, TypeOK

LEMMA NextTypeOK == TypeOK /\ [Next]_vars => TypeOK'
  <1> SUFFICES ASSUME TypeOK, [Next]_vars PROVE TypeOK'
    OBVIOUS
  <1>1. ASSUME NEW f \in Feeds, ImportFeed(f) \/ ImportNothing(f) PROVE TypeOK'
    BY <1>1, ImportFeedType, ImportNothingType
  <1>2. CASE LoopStep
    BY <1>2, LoopStepType
  <1>3. CASE ProcessorStep
    BY <1>3, ProcessorStepType
  <1>4. CASE Restart
    BY <1>4, ProcessDiesType DEF Restart, TypeOK
  <1>5. CASE ForeignKeyPanic
    BY <1>5, ProcessDiesType DEF ForeignKeyPanic, TypeOK
  <1>6. CASE LoseRedis
    BY <1>6, LoseRedisType
  <1>7. CASE UNCHANGED vars
    BY <1>7 DEF vars, processorVars, importerVars, counters, TypeOK, ProcessorTypeOK
  <1>8. QED
    BY <1>1, <1>2, <1>3, <1>4, <1>5, <1>6, <1>7 DEF Next

(* Every variable keeps its type, a handler that has statements left has an *)
(* event, and no batch holds an empty list: ProcessEvent always finds an    *)
(* event to handle (event.go 38).                                           *)
THEOREM TypeCorrect == Spec => []TypeOK
  BY InitTypeOK, NextTypeOK, PTL DEF Spec
-----------------------------------------------------------------------------
(* Rows stay with their vehicle. The tables only grow and never give a row *)
(* to another vehicle, so what an id has been worth it stays worth; and a  *)
(* handler joins ids only from the newest entry of its own vehicle.        *)

KeepsOwners(s, t) == \A i \in DOMAIN s : i \in DOMAIN t /\ t[i].vehicle = s[i].vehicle

LEMMA OwnsKept ==
    ASSUME NEW parks, NEW parks2, NEW rides, NEW rides2, NEW e,
           KeepsOwners(parks, parks2), KeepsOwners(rides, rides2), Owns(parks, rides, e)
    PROVE  Owns(parks2, rides2, e)
  BY DEF Owns, KeepsOwners

LEMMA OwnsAllKept ==
    ASSUME NEW parks, NEW parks2, NEW rides, NEW rides2, NEW events,
           KeepsOwners(parks, parks2), KeepsOwners(rides, rides2), OwnsAll(parks, rides, events)
    PROVE  OwnsAll(parks2, rides2, events)
  BY OwnsKept DEF OwnsAll

(* An event made by a download has no ids yet. *)
LEMMA NewEventOwnsNothing ==
    \A kind, v, bike, t, parks, rides : Owns(parks, rides, NewEvent(kind, v, bike, t))
  BY DEF Owns, NewEvent

LEMMA ConcatElements ==
    ASSUME NEW S, NEW s \in Seq(S), NEW t \in Seq(S), NEW i \in DOMAIN (s \o t)
    PROVE  (\E j \in DOMAIN s : (s \o t)[i] = s[j]) \/ (\E j \in DOMAIN t : (s \o t)[i] = t[j])
  <1>1. i \in 1..(Len(s) + Len(t))
    OBVIOUS
  <1>2. CASE i <= Len(s)
    BY <1>1, <1>2
  <1>3. CASE i > Len(s)
    <2>1. i - Len(s) \in DOMAIN t /\ (s \o t)[i] = t[i - Len(s)]
      BY <1>1, <1>3
    <2>2. QED
      BY <2>1
  <1>4. QED
    BY <1>1, <1>2, <1>3

LEMMA CompareBikeOwns ==
    ASSUME NEW v \in Vehicles, NEW old \in Bikes \cup {Absent}, NEW new \in Bikes \cup {Absent},
           NEW t \in Nat, NEW parks, NEW rides, NEW i \in DOMAIN CompareBike(v, old, new, t)
    PROVE  Owns(parks, rides, CompareBike(v, old, new, t)[i])
  <1> DEFINE moved == IF Distance(old.pos, new.pos) > 1
                      THEN <<NewEvent("vehicle_moved", v, new, t)>> ELSE <<>>
             changed == IF old.disabled # new.disabled
                        THEN <<NewEvent("non_operational_change", v, new, t)>> ELSE <<>>
             strand == CompareBike(v, old, new, t)
  <1>1. /\ NewEvent("vehicle_moved", v, new, t) \in Events
        /\ NewEvent("non_operational_change", v, new, t) \in Events
    BY NewEventType DEF Kinds
  <1>2. moved \in Seq(Events) /\ changed \in Seq(Events)
    BY <1>1
  <1>3. /\ \A j \in DOMAIN moved : Owns(parks, rides, moved[j])
        /\ \A j \in DOMAIN changed : Owns(parks, rides, changed[j])
    BY NewEventOwnsNothing
  <1>4. \/ strand = <<NewEvent("check_in", v, new, t)>>
        \/ strand = <<NewEvent("check_out", v, old, t)>>
        \/ strand = moved \o changed
        \/ strand = <<>>
    BY DEF CompareBike
  <1>5. CASE strand = moved \o changed
    <2> HIDE DEF moved, changed
    <2>1. QED
      BY <1>2, <1>3, <1>5, ConcatElements
  <1>6. CASE strand # moved \o changed
    <2> HIDE DEF moved, changed
    <2>1. QED
      BY <1>4, <1>6, NewEventOwnsNothing
  <1>7. QED
    BY <1>5, <1>6

LEMMA CleanCompareOwns ==
    ASSUME NEW f \in Feeds, NEW t \in Nat, NEW parks, NEW rides,
           NEW old \in [Vehicles -> Bikes \cup {Absent}],
           NEW new \in [Vehicles -> Bikes \cup {Absent}]
    PROVE  OwnsAll(parks, rides, CleanCompare(f, old, new, t))
  BY CompareBikeOwns DEF OwnsAll, CleanCompare, VehiclesOf

-----------------------------------------------------------------------------
(* The tables keep their rows' owners in every step.                       *)
TablesKeepOwners == KeepsOwners(parkEvents, parkEvents') /\ KeepsOwners(trips, trips')

LEMMA TablesUnchanged ==
    ASSUME UNCHANGED <<parkEvents, trips>>
    PROVE  TablesKeepOwners /\ OnlyOwnRowsChange
  BY DEF TablesKeepOwners, KeepsOwners, OnlyOwnRowsChange

LEMMA StatementsKeepOwners ==
    ASSUME TypeOK, OwnRows, StatementStep
    PROVE  TablesKeepOwners /\ OnlyOwnRowsChange
  <1>0. /\ parkEvents \in Seq(ParkRows) /\ trips \in Seq(TripRows)
        /\ Owns(parkEvents, trips, event)
    BY DEF TypeOK, ProcessorTypeOK, OwnRows
  <1> USE DEF TablesKeepOwners, KeepsOwners, OnlyOwnRowsChange
  <1>e. event.time \in Nat /\ event.pos \in Positions \cup {Nowhere}
    BY NoEventIsNone DEF TypeOK, ProcessorTypeOK, Events, NoEvent, NewEvent, Absent
  <1>p. \A i \in DOMAIN parkEvents :
           /\ [parkEvents[i] EXCEPT !.end = event.time].vehicle = parkEvents[i].vehicle
           /\ [parkEvents[i] EXCEPT !.end = 0].vehicle = parkEvents[i].vehicle
           /\ [parkEvents[i] EXCEPT !.pos = event.pos].vehicle = parkEvents[i].vehicle
    <2>1. \A r \in ParkRows, t \in Nat : [r EXCEPT !.end = t].vehicle = r.vehicle
      BY DEF ParkRows
    <2>2. \A r \in ParkRows, l \in Positions \cup {Nowhere} : [r EXCEPT !.pos = l].vehicle = r.vehicle
      BY DEF ParkRows
    <2>3. \A i \in DOMAIN parkEvents : parkEvents[i] \in ParkRows
      BY <1>0
    <2>4. QED
      BY <1>e, <2>1, <2>2, <2>3
  <1>t. \A i \in DOMAIN trips :
           /\ [trips[i] EXCEPT !.end = event.time].vehicle = trips[i].vehicle
           /\ [trips[i] EXCEPT !.deleted = TRUE].vehicle = trips[i].vehicle
    <2>1. \A r \in TripRows, t \in Nat : [r EXCEPT !.end = t].vehicle = r.vehicle
      BY DEF TripRows
    <2>2. \A r \in TripRows : [r EXCEPT !.deleted = TRUE].vehicle = r.vehicle
      BY DEF TripRows
    <2>3. \A i \in DOMAIN trips : trips[i] \in TripRows
      BY <1>0
    <2>4. QED
      BY <1>e, <2>1, <2>2, <2>3
  <1>1. CASE StartParkEvent
    BY <1>0, <1>1 DEF StartParkEvent
  <1>2. CASE EndParkEvent
    <2>1. PICK ended : /\ ended = IF event.park = 0 THEN OpenParks(event.vehicle) ELSE {event.park}
                       /\ parkEvents' = [i \in DOMAIN parkEvents |->
                            IF i \in ended THEN [parkEvents[i] EXCEPT !.end = event.time]
                                           ELSE parkEvents[i]]
      BY <1>2 DEF EndParkEvent
    <2>2. \A i \in DOMAIN parkEvents : i \in ended => parkEvents[i].vehicle = event.vehicle
      BY <1>0, <2>1 DEF Owns, OpenParks
    <2>3. QED
      BY <1>2, <1>p, <2>1, <2>2 DEF EndParkEvent
  <1>3. CASE UpdateLocationParkEvent
    BY <1>0, <1>p, <1>3 DEF UpdateLocationParkEvent, Owns
  <1>4. CASE ResetEndParkEvent
    BY <1>0, <1>p, <1>4 DEF ResetEndParkEvent, Owns
  <1>5. CASE StartNonOperationalEvent \/ EndNonOperationalEvent \/ CancelEndNonOperationalEvent
    BY <1>5 DEF StartNonOperationalEvent, EndNonOperationalEvent, CancelEndNonOperationalEvent
  <1>6. CASE StartTrip
    BY <1>0, <1>6 DEF StartTrip
  <1>7. CASE EndTrip
    BY <1>0, <1>t, <1>7 DEF EndTrip, Owns
  <1>8. CASE CancelTrip
    BY <1>0, <1>t, <1>8 DEF CancelTrip, Owns
  <1>9. CASE LPush
    BY <1>9 DEF LPush
  <1>10. QED
    BY <1>1, <1>2, <1>3, <1>4, <1>5, <1>6, <1>7, <1>8, <1>9 DEF StatementStep
(* What was owned before a step that keeps owners is owned after it. *)
LEMMA OwnRowsCarried ==
    ASSUME OwnRows, TablesKeepOwners
    PROVE  /\ \A v \in Vehicles : Owns(parkEvents', trips', redis[v])
           /\ Owns(parkEvents', trips', event)
           /\ OwnsAll(parkEvents', trips', batch)
           /\ \A k \in DOMAIN eventChan : OwnsAll(parkEvents', trips', eventChan[k])
           /\ OwnsAll(parkEvents', trips', corrections)
  BY OwnsKept, OwnsAllKept DEF OwnRows, TablesKeepOwners

LEMMA NoEventOwns == \A parks, rides : Owns(parks, rides, NoEvent)
  BY NoEventIsNone DEF Owns

LEMMA EmptyOwns == \A parks, rides : OwnsAll(parks, rides, {})
  BY DEF OwnsAll

(* Sending a batch to EventChan and receiving one from it. *)
LEMMA SendOwns ==
    ASSUME TypeOK, NEW events \in SUBSET Strands, Send(events), NEW parks, NEW rides,
           OwnsAll(parks, rides, events),
           \A k \in DOMAIN eventChan : OwnsAll(parks, rides, eventChan[k])
    PROVE  \A k \in DOMAIN eventChan' : OwnsAll(parks, rides, eventChan'[k])
  <1>1. eventChan \in Seq(SUBSET Strands) /\ eventChan' = Append(eventChan, events)
    BY DEF TypeOK, ProcessorTypeOK, Send
  <1>2. \A k \in DOMAIN eventChan' : \/ k \in DOMAIN eventChan /\ eventChan'[k] = eventChan[k]
                                     \/ eventChan'[k] = events
    BY <1>1
  <1>3. QED
    BY <1>2

(* A handler joins the event with ids of its own vehicle's newest entry. *)
LEMMA HandlersOwn ==
    ASSUME TypeOK, NEW e \in Events, NEW last \in Events \cup {NoEvent}, Handle(e, last),
           last # NoEvent => last.vehicle = e.vehicle,
           Owns(parkEvents, trips, e), Owns(parkEvents, trips, last)
    PROVE  Owns(parkEvents, trips, event')
  <1>1. \A x \in Events :
           x.vehicle = e.vehicle /\ x.park \in {0, e.park, last.park} /\ x.trip \in {0, e.trip, last.trip}
           => Owns(parkEvents, trips, x)
    BY NoEventIsNone DEF Owns
  <1>2. last.park \in Nat /\ last.trip \in Nat
    BY NoEventIsNone DEF Events
  <1>3. \A x \in Events, kind \in Kinds :
           /\ [x EXCEPT !.kind = kind] \in Events
           /\ [x EXCEPT !.kind = kind].vehicle = x.vehicle
           /\ [x EXCEPT !.kind = kind].park = x.park
           /\ [x EXCEPT !.kind = kind].trip = x.trip
    BY DEF Events
  <1>4. ASSUME event' = [e EXCEPT !.park = last.park]
        PROVE  Owns(parkEvents, trips, event')
    <2>1. /\ event' \in Events /\ event'.vehicle = e.vehicle
          /\ event'.park = last.park /\ event'.trip = e.trip
      BY <1>4, <1>2 DEF Events
    <2>2. QED
      BY <2>1, <1>1
  <1>5. ASSUME NEW x \in Events, x.vehicle = e.vehicle, x.trip = e.trip, MoveByDistance(x, last)
        PROVE  Owns(parkEvents, trips, event')
    <2>1. CASE event' = NoEvent
      BY <2>1, NoEventOwns
    <2>2. CASE event' = [x EXCEPT !.park = last.park]
      <3>1. /\ event' \in Events /\ event'.vehicle = x.vehicle
            /\ event'.park = last.park /\ event'.trip = x.trip
        BY <2>2, <1>2 DEF Events
      <3>2. QED
        BY <3>1, <1>5, <1>1
    <2>3. QED
      BY <2>1, <2>2, <1>5 DEF MoveByDistance, Ignore, Execute
  <1>a. CASE FirstCheckIn(e, last)
    <2>1. CASE event' = e
      BY <2>1
    <2>2. ASSUME NEW i \in GetLastParkEvent(e.vehicle),
                 event' = [e EXCEPT !.park = i, !.time = 0]
          PROVE  Owns(parkEvents, trips, event')
      <3>1. i \in Nat /\ i \in DOMAIN parkEvents /\ parkEvents[i].vehicle = e.vehicle
        BY DEF GetLastParkEvent, OpenParks, TypeOK, ProcessorTypeOK
      <3>2. event'.vehicle = e.vehicle /\ event'.park = i /\ event'.trip = e.trip
        BY <2>2, <3>1 DEF Events
      <3>3. QED
        BY <3>1, <3>2 DEF Owns
    <2>3. QED
      BY <1>a, <2>1, <2>2 DEF FirstCheckIn, Execute
  <1>b. CASE ResetTrip(e, last)
    <2>1. event' = [e EXCEPT !.kind = "cancel", !.park = last.park, !.trip = last.trip]
      BY <1>b DEF ResetTrip, Execute
    <2>2. /\ event' \in Events /\ event'.vehicle = e.vehicle
          /\ event'.park = last.park /\ event'.trip = last.trip
      BY <2>1, <1>2 DEF Events, Kinds
    <2>3. QED
      BY <2>2, <1>1
  <1>c. CASE EndTripAndPark(e, last)
    <2>1. event' = [e EXCEPT !.park = last.park, !.trip = last.trip]
      BY <1>c DEF EndTripAndPark, Execute
    <2>2. /\ event' \in Events /\ event'.vehicle = e.vehicle
          /\ event'.park = last.park /\ event'.trip = last.trip
      BY <2>1, <1>2 DEF Events
    <2>3. QED
      BY <2>2, <1>1
  <1>d. CASE CheckInAfterReboot(e, last)
    <2> DEFINE x == [e EXCEPT !.kind = "check_in_after_reboot"]
    <2>1. x \in Events /\ x.vehicle = e.vehicle /\ x.trip = e.trip
      BY <1>3 DEF Kinds
    <2>2. MoveByDistance(x, last)
      BY <1>d DEF CheckInAfterReboot
    <2> HIDE DEF x
    <2>3. QED
      BY <2>1, <2>2, <1>5
  <1>e. CASE VehicleMoved(e, last)
    BY <1>e, <1>5 DEF VehicleMoved
  <1>f. CASE CheckOut(e, last)
    BY <1>f, <1>4 DEF CheckOut, Execute
  <1>g. CASE CorrectingCheckOut(e)
    BY <1>g DEF CorrectingCheckOut, Execute
  <1>h. CASE NonOperationalChange(e, last)
    BY <1>h, <1>4 DEF NonOperationalChange, Execute
  <1>i. CASE NothingToGoOn(e, last)
    BY <1>i DEF NothingToGoOn, Execute
  <1>j. QED
    BY <1>a, <1>b, <1>c, <1>d, <1>e, <1>f, <1>g, <1>h, <1>i DEF Handle
LEMMA InitOwnRows == Init => OwnRows
  BY NoEventOwns, EmptyOwns DEF Init, ProcessorInit, OwnRows

LEMMA StatementsOwn ==
    ASSUME TypeOK, OwnRows, StatementStep
    PROVE  /\ Owns(parkEvents', trips', event')
           /\ \A v \in Vehicles : /\ redis'[v] # NoEvent => redis'[v].vehicle = v
                                  /\ Owns(parkEvents', trips', redis'[v])
  <1>0. TablesKeepOwners
    BY StatementsKeepOwners
  <1>1. /\ Owns(parkEvents', trips', event)
        /\ \A v \in Vehicles : Owns(parkEvents', trips', redis[v])
        /\ \A v \in Vehicles : redis[v] # NoEvent => redis[v].vehicle = v
    BY <1>0, OwnRowsCarried DEF OwnRows
  <1>2. CASE UNCHANGED <<event, redis>>
    BY <1>1, <1>2
  <1>3. CASE StartParkEvent
    <2>1. event \in Events /\ parkEvents \in Seq(ParkRows)
      BY <1>3, StatementType DEF StartParkEvent, TypeOK, ProcessorTypeOK
    <2>2. /\ event'.vehicle = event.vehicle /\ event'.trip = event.trip
          /\ event'.park = Len(parkEvents) + 1
      BY <1>3, <2>1 DEF StartParkEvent, Events
    <2>3. /\ Len(parkEvents) + 1 \in DOMAIN parkEvents'
          /\ parkEvents'[Len(parkEvents) + 1].vehicle = event.vehicle
      BY <1>3, <2>1 DEF StartParkEvent
    <2>4. QED
      BY <1>1, <1>3, <2>2, <2>3 DEF StartParkEvent, Owns
  <1>4. CASE StartTrip
    <2>1. event \in Events /\ trips \in Seq(TripRows)
      BY <1>4, StatementType DEF StartTrip, TypeOK, ProcessorTypeOK
    <2>2. /\ event'.vehicle = event.vehicle /\ event'.park = event.park
          /\ event'.trip = Len(trips) + 1
      BY <1>4, <2>1 DEF StartTrip, Events
    <2>3. /\ Len(trips) + 1 \in DOMAIN trips'
          /\ trips'[Len(trips) + 1].vehicle = event.vehicle
      BY <1>4, <2>1 DEF StartTrip
    <2>4. QED
      BY <1>1, <1>4, <2>2, <2>3 DEF StartTrip, Owns
  <1>5. CASE CancelTrip
    <2>1. event \in Events
      BY <1>5, StatementType DEF CancelTrip
    <2>2. /\ event'.vehicle = event.vehicle /\ event'.park = event.park /\ event'.trip = 0
      BY <1>5, <2>1 DEF CancelTrip, Events
    <2>3. QED
      BY <1>1, <1>5, <2>2 DEF CancelTrip, Owns
  <1>6. CASE LPush
    <2>1. redis \in [Vehicles -> Events \cup {NoEvent}]
      BY DEF TypeOK, ProcessorTypeOK
    <2>2. \A v \in Vehicles :
             (redis'[v] = redis[v]) \/ (redis'[v] = event /\ event.vehicle = v)
      BY <1>6, <2>1 DEF LPush
    <2>3. event' = NoEvent
      BY <1>6 DEF LPush
    <2>4. QED
      BY <1>1, <2>2, <2>3, NoEventOwns
  <1>7. QED
    BY <1>2, <1>3, <1>4, <1>5, <1>6
       DEF StatementStep, EndParkEvent, UpdateLocationParkEvent, ResetEndParkEvent, EndTrip,
           StartNonOperationalEvent, EndNonOperationalEvent, CancelEndNonOperationalEvent

LEMMA ProcessorStepOwns ==
    ASSUME TypeOK, OwnRows, ProcessorStep
    PROVE  OwnRows' /\ OnlyOwnRowsChange
  <1>0. corrections' = corrections
    BY DEF ProcessorStep, importerVars
  <1>1. CASE ReceiveEvents
    <2>1. UNCHANGED <<parkEvents, trips, redis, event>>
      BY <1>1 DEF ReceiveEvents
    <2>2. eventChan \in Seq(SUBSET Strands) /\ eventChan # <<>>
          /\ batch' = Head(eventChan) /\ eventChan' = Tail(eventChan)
      BY <1>1 DEF ReceiveEvents, TypeOK, ProcessorTypeOK
    <2>3. /\ 1 \in DOMAIN eventChan /\ batch' = eventChan[1]
          /\ \A k \in DOMAIN eventChan' : k + 1 \in DOMAIN eventChan /\ eventChan'[k] = eventChan[k + 1]
      BY <2>2
    <2>4. QED
      BY <1>0, <2>1, <2>3, TablesUnchanged DEF OwnRows
  <1>2. CASE ProcessEvent
    <2>1. UNCHANGED <<parkEvents, trips, redis, eventChan>>
      BY <1>2 DEF ProcessEvent
    <2>2. PICK s \in batch :
             /\ batch' = (batch \ {s}) \cup ({Tail(s)} \ {<<>>})
             /\ Handle(Head(s), redis[Head(s).vehicle])
      BY <1>2, Zenon DEF ProcessEvent
    <2>3. s \in Seq(Events) /\ s # <<>> /\ Head(s) \in Events
      BY DEF TypeOK, ProcessorTypeOK, Strands
    <2>4. 1 \in DOMAIN s /\ Head(s) = s[1]
      BY <2>3
    <2>5. \A i \in DOMAIN Tail(s) : i + 1 \in DOMAIN s /\ Tail(s)[i] = s[i + 1]
      BY <2>3
    <2>6. \A i \in DOMAIN s : Owns(parkEvents, trips, s[i])
      BY DEF OwnRows, OwnsAll
    <2>7. OwnsAll(parkEvents, trips, batch')
      <3>1. \A i \in DOMAIN Tail(s) : Owns(parkEvents, trips, Tail(s)[i])
        BY <2>5, <2>6
      <3>2. QED
        BY <2>2, <3>1 DEF OwnRows, OwnsAll
    <2> DEFINE e == Head(s)
               last == redis[e.vehicle]
    <2>8. e.vehicle \in Vehicles
      BY <2>3 DEF Events
    <2>9. /\ last \in Events \cup {NoEvent}
          /\ last # NoEvent => last.vehicle = e.vehicle
          /\ Owns(parkEvents, trips, last)
      BY <2>8 DEF OwnRows, TypeOK, ProcessorTypeOK
    <2>10. Owns(parkEvents, trips, e)
      BY <2>4, <2>6
    <2>11. Handle(e, last)
      BY <2>2
    <2> HIDE DEF e, last
    <2>12. e \in Events
      BY <2>3 DEF e
    <2>13. Owns(parkEvents, trips, event')
      BY <2>9, <2>10, <2>11, <2>12, HandlersOwn
    <2>14. QED
      BY <1>0, <2>1, <2>7, <2>13, TablesUnchanged DEF OwnRows
  <1>3. CASE StatementStep
    <2>1. UNCHANGED <<eventChan, batch>>
      BY <1>3 DEF StatementStep, Statement, StartParkEvent, EndParkEvent,
           UpdateLocationParkEvent, ResetEndParkEvent, StartNonOperationalEvent,
           EndNonOperationalEvent, CancelEndNonOperationalEvent, StartTrip, EndTrip,
           CancelTrip, LPush
    <2>2. TablesKeepOwners /\ OnlyOwnRowsChange
      BY <1>3, StatementsKeepOwners
    <2>3. QED
      BY <1>0, <1>3, <2>1, <2>2, StatementsOwn, OwnRowsCarried DEF OwnRows
  <1>4. QED
    BY <1>1, <1>2, <1>3 DEF ProcessorStep, ProcessorNext

(* A step of importLoop, or a fault, leaves the tables as they are. *)
LEMMA ImporterStepOwns ==
    ASSUME TypeOK, OwnRows, UNCHANGED <<parkEvents, trips>>,
           event' \in {event, NoEvent}, batch' \in {batch, {}},
           redis' \in {redis, [v \in Vehicles |-> NoEvent]},
           \A k \in DOMAIN eventChan' : OwnsAll(parkEvents, trips, eventChan'[k]),
           OwnsAll(parkEvents, trips, corrections')
    PROVE  OwnRows' /\ OnlyOwnRowsChange
  <1>1. \A v \in Vehicles : /\ redis'[v] # NoEvent => redis'[v].vehicle = v
                           /\ Owns(parkEvents, trips, redis'[v])
    BY NoEventOwns DEF OwnRows
  <1>2. Owns(parkEvents, trips, event') /\ OwnsAll(parkEvents, trips, batch')
    BY NoEventOwns, EmptyOwns DEF OwnRows
  <1>3. QED
    BY <1>1, <1>2, TablesUnchanged DEF OwnRows

LEMMA CorrectionsOwn ==
    ASSUME TypeOK, CleanupQuery
    PROVE  OwnsAll(parkEvents, trips, corrections')
  <1>1. ASSUME NEW i \in StaleParks
        PROVE  Owns(parkEvents, trips, CorrectingEvent(i))
    <2>1. i \in DOMAIN parkEvents
      BY DEF StaleParks
    <2>2. /\ CorrectingEvent(i).park = i /\ CorrectingEvent(i).trip = 0
          /\ CorrectingEvent(i).vehicle = parkEvents[i].vehicle
      BY DEF CorrectingEvent, NewEvent
    <2>3. QED
      BY <2>1, <2>2 DEF Owns
  <1>2. \A i \in StaleParks : \A j \in DOMAIN <<CorrectingEvent(i)>> :
           <<CorrectingEvent(i)>>[j] = CorrectingEvent(i)
    OBVIOUS
  <1>3. QED
    BY <1>1, <1>2 DEF CleanupQuery, OwnsAll

LEMMA NextOwnRows ==
    ASSUME TypeOK, OwnRows, [Next]_vars
    PROVE  OwnRows' /\ OnlyOwnRowsChange
  <1>0. /\ \A k \in DOMAIN eventChan : OwnsAll(parkEvents, trips, eventChan[k])
        /\ OwnsAll(parkEvents, trips, corrections)
        /\ corrections \in SUBSET Strands
    BY DEF OwnRows, TypeOK
  <1>1. ASSUME NEW f \in Feeds, ImportFeed(f)
        PROVE  OwnRows' /\ OnlyOwnRowsChange
    <2>1. PICK new \in [Vehicles -> Bikes \cup {Absent}] : Send(CleanCompare(f, lastImport, new, now))
      BY <1>1 DEF ImportFeed, Downloads
    <2>2. /\ CleanCompare(f, lastImport, new, now) \in SUBSET Strands
          /\ OwnsAll(parkEvents, trips, CleanCompare(f, lastImport, new, now))
      BY CleanCompareType, CleanCompareOwns DEF TypeOK
    <2>3. \A k \in DOMAIN eventChan' : OwnsAll(parkEvents, trips, eventChan'[k])
      BY <1>0, <2>1, <2>2, SendOwns
    <2>4. UNCHANGED <<parkEvents, trips, redis, batch, event, corrections>>
      BY <1>1 DEF ImportFeed
    <2>5. QED
      BY <1>0, <2>3, <2>4, ImporterStepOwns
  <1>2. ASSUME NEW f \in Feeds, ImportNothing(f)
        PROVE  OwnRows' /\ OnlyOwnRowsChange
    <2>1. Send({}) /\ UNCHANGED <<parkEvents, trips, redis, batch, event, corrections>>
      BY <1>2 DEF ImportNothing
    <2>2. QED
      BY <1>0, <2>1, EmptyOwns, SendOwns, ImporterStepOwns
  <1>3. CASE SkipCleanup \/ StartCleanup
    <2>1. UNCHANGED <<parkEvents, trips, redis, eventChan, batch, event, corrections>>
      BY <1>3 DEF SkipCleanup, StartCleanup, processorVars
    <2>2. QED
      BY <1>0, <2>1, ImporterStepOwns
  <1>4. CASE CleanupQuery
    <2>1. UNCHANGED <<parkEvents, trips, redis, eventChan, batch, event>>
      BY <1>4 DEF CleanupQuery, processorVars
    <2>2. QED
      BY <1>0, <1>4, <2>1, CorrectionsOwn, ImporterStepOwns
  <1>5. CASE CleanupSend
    <2>1. /\ Send(corrections) /\ corrections' = {}
          /\ UNCHANGED <<parkEvents, trips, redis, batch, event>>
      BY <1>5 DEF CleanupSend
    <2>2. \A k \in DOMAIN eventChan' : OwnsAll(parkEvents, trips, eventChan'[k])
      BY <1>0, <2>1, SendOwns
    <2>3. OwnsAll(parkEvents, trips, corrections')
      BY <2>1, EmptyOwns
    <2>4. QED
      BY <2>1, <2>2, <2>3, ImporterStepOwns
  <1>6. CASE ProcessorStep
    BY <1>6, ProcessorStepOwns
  <1>7. CASE ProcessDies
    <2>1. /\ UNCHANGED <<parkEvents, trips, redis>>
          /\ event' = NoEvent /\ batch' = {} /\ eventChan' = <<>> /\ corrections' = {}
      BY <1>7 DEF ProcessDies
    <2>2. QED
      BY <2>1, EmptyOwns, ImporterStepOwns
  <1>8. CASE LoseRedis
    <2>1. /\ UNCHANGED <<parkEvents, trips, eventChan, batch, event, corrections>>
          /\ redis' = [v \in Vehicles |-> NoEvent]
      BY <1>8 DEF LoseRedis, importerVars
    <2>2. QED
      BY <1>0, <2>1, ImporterStepOwns
  <1>9. CASE UNCHANGED vars
    <2>1. UNCHANGED <<parkEvents, trips, redis, eventChan, batch, event, corrections>>
      BY <1>9 DEF vars, processorVars, importerVars
    <2>2. QED
      BY <1>0, <2>1, ImporterStepOwns
  <1>10. QED
    BY <1>1, <1>2, <1>3, <1>4, <1>5, <1>6, <1>7, <1>8, <1>9
       DEF Next, LoopStep, Restart, ForeignKeyPanic, AlertPanic

(* Whatever fails, ids name rows of the vehicle they travel with. *)
THEOREM RowsAreOwned == Spec => []OwnRows
  <1>1. TypeOK /\ OwnRows /\ [Next]_vars => OwnRows'
    BY NextOwnRows
  <1>2. QED
    BY <1>1, InitOwnRows, TypeCorrect, PTL DEF Spec

(* Whatever fails, handling one vehicle's event changes no other vehicle's *)
(* park events and trips.                                                  *)
THEOREM OthersAreUntouched == Spec => OthersUntouched
  <1>1. TypeOK /\ OwnRows /\ [Next]_vars => [OnlyOwnRowsChange]_vars
    BY NextOwnRows
  <1>2. QED
    BY <1>1, TypeCorrect, RowsAreOwned, PTL DEF Spec, OthersUntouched

-----------------------------------------------------------------------------
(* No period is negative. The events reach the tables in the order they    *)
(* were seen: those on their way are sorted by their times, none is older   *)
(* than a time in the tables and none newer than the clock. A park event    *)
(* that is reused gives its event the zero time, but then only the push to *)
(* Redis is left to do.                                                     *)
Within(table, t) == \A i \in DOMAIN table : table[i].start <= t /\ table[i].end <= t
Positive(table) == \A i \in DOMAIN table : table[i].end = 0 \/ table[i].start <= table[i].end

RowsWithin(t) == Within(parkEvents, t) /\ Within(trips, t) /\ Within(nonOps, t)

Times(events) == {t \in Nat : \E s \in events : \E i \in DOMAIN s : s[i].time = t}

TimesInOrder ==
    /\ RowsWithin(now)
    /\ \A t, u \in Times(batch) : t = u
    /\ \A t \in Times(batch) : t <= now /\ RowsWithin(t)
    /\ \A k \in DOMAIN eventChan : \A t, u \in Times(eventChan[k]) : t = u
    /\ \A k \in DOMAIN eventChan : \A t \in Times(eventChan[k]) : t <= now /\ RowsWithin(t)
    /\ \A k \in DOMAIN eventChan : \A t \in Times(batch), u \in Times(eventChan[k]) : t <= u
    /\ \A k, l \in DOMAIN eventChan :
          k < l => \A t \in Times(eventChan[k]), u \in Times(eventChan[l]) : t <= u

(* The handler that runs, as far as it writes to the tables. *)
Writing == plan # <<>> /\ plan # <<"LPush">>

HandlerInTime ==
    Writing => /\ event.time <= now /\ RowsWithin(event.time)
               /\ \A t \in Times(batch) : event.time <= t
               /\ \A k \in DOMAIN eventChan : \A t \in Times(eventChan[k]) : event.time <= t

CorrectionsAreNew == /\ phase # "send" => corrections = {}
                     /\ \A t \in Times(corrections) : t = now

TimesInv == TimesInOrder /\ HandlerInTime /\ CorrectionsAreNew /\ NoNegativePeriods

LEMMA TableTypes ==
    ASSUME TypeOK
    PROVE  /\ parkEvents \in Seq(ParkRows) /\ trips \in Seq(TripRows) /\ nonOps \in Seq(NonOpRows)
           /\ \A i \in DOMAIN parkEvents : parkEvents[i].start \in Nat /\ parkEvents[i].end \in Nat
           /\ \A i \in DOMAIN trips : trips[i].start \in Nat /\ trips[i].end \in Nat
           /\ \A i \in DOMAIN nonOps : nonOps[i].start \in Nat /\ nonOps[i].end \in Nat
           /\ now \in Nat
  <1>1. /\ parkEvents \in Seq(ParkRows) /\ trips \in Seq(TripRows) /\ nonOps \in Seq(NonOpRows)
        /\ now \in Nat
    BY DEF TypeOK, ProcessorTypeOK
  <1>2. /\ \A i \in DOMAIN parkEvents : parkEvents[i] \in ParkRows
        /\ \A i \in DOMAIN trips : trips[i] \in TripRows
        /\ \A i \in DOMAIN nonOps : nonOps[i] \in NonOpRows
    BY <1>1
  <1>3. QED
    BY <1>1, <1>2 DEF ParkRows, TripRows, NonOpRows

LEMMA RowsWithinLater ==
    ASSUME TypeOK, NEW t \in Nat, NEW u \in Nat, t <= u, RowsWithin(t)
    PROVE  RowsWithin(u)
  BY TableTypes DEF RowsWithin, Within

(* An UPDATE of the end of some rows, and an INSERT of one. *)
LEMMA TableEnded ==
    ASSUME NEW s, NEW t, NEW x \in Nat, DOMAIN t = DOMAIN s,
           \A i \in DOMAIN s : t[i].start = s[i].start /\ t[i].end \in {0, s[i].end, x},
           Within(s, x), Positive(s)
    PROVE  Positive(t) /\ \A y \in Nat : Within(s, y) /\ x <= y => Within(t, y)
  BY DEF Within, Positive

LEMMA TableExtended ==
    ASSUME NEW R, NEW s \in Seq(R), NEW row \in R, NEW t, t = Append(s, row), row.end = 0,
           Positive(s)
    PROVE  Positive(t) /\ \A y \in Nat : Within(s, y) /\ row.start <= y => Within(t, y)
  <1>1. /\ DOMAIN t = DOMAIN s \cup {Len(s) + 1}
        /\ \A i \in DOMAIN s : t[i] = s[i]
        /\ t[Len(s) + 1] = row
    OBVIOUS
  <1>2. QED
    BY <1>1 DEF Within, Positive

LEMMA RowEnds ==
    /\ \A r \in ParkRows, t \in Nat :
          [r EXCEPT !.end = t].start = r.start /\ [r EXCEPT !.end = t].end = t
    /\ \A r \in ParkRows, p \in Positions \cup {Nowhere} :
          [r EXCEPT !.pos = p].start = r.start /\ [r EXCEPT !.pos = p].end = r.end
    /\ \A r \in TripRows, t \in Nat :
          [r EXCEPT !.end = t].start = r.start /\ [r EXCEPT !.end = t].end = t
    /\ \A r \in TripRows :
          [r EXCEPT !.deleted = TRUE].start = r.start /\ [r EXCEPT !.deleted = TRUE].end = r.end
    /\ \A r \in NonOpRows, t \in Nat :
          [r EXCEPT !.end = t].start = r.start /\ [r EXCEPT !.end = t].end = t
  BY DEF ParkRows, TripRows, NonOpRows

AllPositive == Positive(parkEvents) /\ Positive(trips) /\ Positive(nonOps)

(* What a statement of a handler makes of the tables.                       *)
LEMMA StatementInTime ==
    ASSUME TypeOK, StatementStep, RowsWithin(event.time), AllPositive
    PROVE  /\ AllPositive'
           /\ \A t \in Nat : RowsWithin(t) /\ event.time <= t => RowsWithin(t)'
  <1> DEFINE Goal == /\ AllPositive'
                     /\ \A t \in Nat : RowsWithin(t) /\ event.time <= t => RowsWithin(t)'
  <1>1. event \in Events /\ event.time \in Nat /\ event.pos \in Positions \cup {Nowhere}
    <2>1. event # NoEvent
      BY DEF StatementStep, TypeOK, ProcessorTypeOK, StartParkEvent, EndParkEvent,
             UpdateLocationParkEvent, ResetEndParkEvent, StartNonOperationalEvent,
             EndNonOperationalEvent, CancelEndNonOperationalEvent, StartTrip, EndTrip,
             CancelTrip, LPush, Statement
    <2>2. QED
      BY <2>1 DEF TypeOK, ProcessorTypeOK, Events
  <1>2. /\ parkEvents \in Seq(ParkRows) /\ trips \in Seq(TripRows) /\ nonOps \in Seq(NonOpRows)
        /\ \A i \in DOMAIN parkEvents : parkEvents[i] \in ParkRows
        /\ \A i \in DOMAIN trips : trips[i] \in TripRows
        /\ \A i \in DOMAIN nonOps : nonOps[i] \in NonOpRows
    BY TableTypes
  <1>3. ASSUME UNCHANGED <<trips, nonOps>>, Positive(parkEvents)',
               \A y \in Nat : Within(parkEvents, y) /\ event.time <= y => Within(parkEvents, y)'
        PROVE  Goal
    BY <1>3 DEF RowsWithin, AllPositive, Positive, Within
  <1>4. ASSUME UNCHANGED <<parkEvents, nonOps>>, Positive(trips)',
               \A y \in Nat : Within(trips, y) /\ event.time <= y => Within(trips, y)'
        PROVE  Goal
    BY <1>4 DEF RowsWithin, AllPositive, Positive, Within
  <1>5. ASSUME UNCHANGED <<parkEvents, trips>>, Positive(nonOps)',
               \A y \in Nat : Within(nonOps, y) /\ event.time <= y => Within(nonOps, y)'
        PROVE  Goal
    BY <1>5 DEF RowsWithin, AllPositive, Positive, Within
  <1>6. ASSUME DOMAIN parkEvents' = DOMAIN parkEvents, UNCHANGED <<trips, nonOps>>,
               \A i \in DOMAIN parkEvents : /\ parkEvents'[i].start = parkEvents[i].start
                                 /\ parkEvents'[i].end \in {0, parkEvents[i].end, event.time}
        PROVE  Goal
    <2>1. PICK table : table = parkEvents'
      OBVIOUS
    <2>2. Positive(table) /\ \A y \in Nat : Within(parkEvents, y) /\ event.time <= y => Within(table, y)
      BY <1>1, <1>6, <2>1, TableEnded DEF RowsWithin, AllPositive
    <2>3. QED
      BY <1>3, <1>6, <2>1, <2>2 DEF Positive, Within
  <1>7. ASSUME DOMAIN trips' = DOMAIN trips, UNCHANGED <<parkEvents, nonOps>>,
               \A i \in DOMAIN trips : /\ trips'[i].start = trips[i].start
                                 /\ trips'[i].end \in {0, trips[i].end, event.time}
        PROVE  Goal
    <2>1. PICK table : table = trips'
      OBVIOUS
    <2>2. Positive(table) /\ \A y \in Nat : Within(trips, y) /\ event.time <= y => Within(table, y)
      BY <1>1, <1>7, <2>1, TableEnded DEF RowsWithin, AllPositive
    <2>3. QED
      BY <1>4, <1>7, <2>1, <2>2 DEF Positive, Within
  <1>8. ASSUME DOMAIN nonOps' = DOMAIN nonOps, UNCHANGED <<parkEvents, trips>>,
               \A i \in DOMAIN nonOps : /\ nonOps'[i].start = nonOps[i].start
                                 /\ nonOps'[i].end \in {0, nonOps[i].end, event.time}
        PROVE  Goal
    <2>1. PICK table : table = nonOps'
      OBVIOUS
    <2>2. Positive(table) /\ \A y \in Nat : Within(nonOps, y) /\ event.time <= y => Within(table, y)
      BY <1>1, <1>8, <2>1, TableEnded DEF RowsWithin, AllPositive
    <2>3. QED
      BY <1>5, <1>8, <2>1, <2>2 DEF Positive, Within
  <1>e. /\ \A i \in DOMAIN parkEvents :
              /\ [parkEvents[i] EXCEPT !.end = event.time].start = parkEvents[i].start
              /\ [parkEvents[i] EXCEPT !.end = event.time].end = event.time
              /\ [parkEvents[i] EXCEPT !.end = 0].start = parkEvents[i].start
              /\ [parkEvents[i] EXCEPT !.end = 0].end = 0
              /\ [parkEvents[i] EXCEPT !.pos = event.pos].start = parkEvents[i].start
              /\ [parkEvents[i] EXCEPT !.pos = event.pos].end = parkEvents[i].end
        /\ \A i \in DOMAIN trips :
              /\ [trips[i] EXCEPT !.end = event.time].start = trips[i].start
              /\ [trips[i] EXCEPT !.end = event.time].end = event.time
              /\ [trips[i] EXCEPT !.deleted = TRUE].start = trips[i].start
              /\ [trips[i] EXCEPT !.deleted = TRUE].end = trips[i].end
        /\ \A i \in DOMAIN nonOps :
              /\ [nonOps[i] EXCEPT !.end = event.time].start = nonOps[i].start
              /\ [nonOps[i] EXCEPT !.end = event.time].end = event.time
              /\ [nonOps[i] EXCEPT !.end = 0].start = nonOps[i].start
              /\ [nonOps[i] EXCEPT !.end = 0].end = 0
    BY <1>1, <1>2, RowEnds
  <1>9. CASE StartParkEvent
    <2>1. PICK row \in ParkRows : /\ parkEvents' = Append(parkEvents, row)
                                  /\ row.start = event.time /\ row.end = 0
      BY <1>1, <1>9 DEF StartParkEvent, ParkRows, Events
    <2>2. PICK table : table = parkEvents'
      OBVIOUS
    <2>3. Positive(table) /\ \A y \in Nat : Within(parkEvents, y) /\ row.start <= y => Within(table, y)
      BY <1>2, <2>1, <2>2, TableExtended DEF AllPositive
    <2>4. QED
      BY <1>3, <1>9, <2>1, <2>2, <2>3 DEF StartParkEvent, Positive, Within
  <1>10. CASE EndParkEvent
    <2>1. /\ DOMAIN parkEvents' = DOMAIN parkEvents
          /\ \A i \in DOMAIN parkEvents : parkEvents'[i] \in {parkEvents[i], [parkEvents[i] EXCEPT !.end = event.time]}
      BY <1>10 DEF EndParkEvent
    <2>2. \A i \in DOMAIN parkEvents : /\ parkEvents'[i].start = parkEvents[i].start
                              /\ parkEvents'[i].end \in {0, parkEvents[i].end, event.time}
      BY <1>e, <2>1
    <2>3. QED
      BY <1>6, <1>10, <2>1, <2>2 DEF EndParkEvent
  <1>11. CASE UpdateLocationParkEvent
    <2>1. /\ DOMAIN parkEvents' = DOMAIN parkEvents
          /\ \A i \in DOMAIN parkEvents : parkEvents'[i] \in {parkEvents[i], [parkEvents[i] EXCEPT !.pos = event.pos]}
      BY <1>11 DEF UpdateLocationParkEvent
    <2>2. \A i \in DOMAIN parkEvents : /\ parkEvents'[i].start = parkEvents[i].start
                              /\ parkEvents'[i].end \in {0, parkEvents[i].end, event.time}
      BY <1>e, <2>1
    <2>3. QED
      BY <1>6, <1>11, <2>1, <2>2 DEF UpdateLocationParkEvent
  <1>12. CASE ResetEndParkEvent
    <2>1. /\ DOMAIN parkEvents' = DOMAIN parkEvents
          /\ \A i \in DOMAIN parkEvents : parkEvents'[i] \in {parkEvents[i], [parkEvents[i] EXCEPT !.end = 0]}
      BY <1>12 DEF ResetEndParkEvent
    <2>2. \A i \in DOMAIN parkEvents : /\ parkEvents'[i].start = parkEvents[i].start
                              /\ parkEvents'[i].end \in {0, parkEvents[i].end, event.time}
      BY <1>e, <2>1
    <2>3. QED
      BY <1>6, <1>12, <2>1, <2>2 DEF ResetEndParkEvent
  <1>13. CASE StartNonOperationalEvent
    <2>1. PICK row \in NonOpRows : /\ nonOps' = Append(nonOps, row)
                                   /\ row.start = event.time /\ row.end = 0
      BY <1>1, <1>13 DEF StartNonOperationalEvent, NonOpRows, Events
    <2>2. PICK table : table = nonOps'
      OBVIOUS
    <2>3. Positive(table) /\ \A y \in Nat : Within(nonOps, y) /\ row.start <= y => Within(table, y)
      BY <1>2, <2>1, <2>2, TableExtended DEF AllPositive
    <2>4. QED
      BY <1>5, <1>13, <2>1, <2>2, <2>3 DEF StartNonOperationalEvent, Positive, Within
  <1>14. CASE EndNonOperationalEvent
    <2>1. /\ DOMAIN nonOps' = DOMAIN nonOps
          /\ \A i \in DOMAIN nonOps : nonOps'[i] \in {nonOps[i], [nonOps[i] EXCEPT !.end = event.time]}
      BY <1>14 DEF EndNonOperationalEvent
    <2>2. \A i \in DOMAIN nonOps : /\ nonOps'[i].start = nonOps[i].start
                              /\ nonOps'[i].end \in {0, nonOps[i].end, event.time}
      BY <1>e, <2>1
    <2>3. QED
      BY <1>8, <1>14, <2>1, <2>2 DEF EndNonOperationalEvent
  <1>15. CASE CancelEndNonOperationalEvent
    <2>1. /\ DOMAIN nonOps' = DOMAIN nonOps
          /\ \A i \in DOMAIN nonOps : nonOps'[i] \in {nonOps[i], [nonOps[i] EXCEPT !.end = 0]}
      BY <1>15 DEF CancelEndNonOperationalEvent
    <2>2. \A i \in DOMAIN nonOps : /\ nonOps'[i].start = nonOps[i].start
                              /\ nonOps'[i].end \in {0, nonOps[i].end, event.time}
      BY <1>e, <2>1
    <2>3. QED
      BY <1>8, <1>15, <2>1, <2>2 DEF CancelEndNonOperationalEvent
  <1>16. CASE StartTrip
    <2>1. PICK row \in TripRows : /\ trips' = Append(trips, row)
                                  /\ row.start = event.time /\ row.end = 0
      <3> DEFINE new == [vehicle |-> event.vehicle, start |-> event.time,
                         end |-> 0, deleted |-> FALSE]
      <3>1. event.vehicle \in Vehicles
        BY <1>1 DEF Events
      <3>2. new \in TripRows /\ new.start = event.time /\ new.end = 0
        BY <1>1, <3>1 DEF TripRows
      <3>3. trips' = Append(trips, new)
        BY <1>16 DEF StartTrip
      <3>4. QED
        BY <3>2, <3>3
    <2>2. PICK table : table = trips'
      OBVIOUS
    <2>3. Positive(table) /\ \A y \in Nat : Within(trips, y) /\ row.start <= y => Within(table, y)
      BY <1>2, <2>1, <2>2, TableExtended DEF AllPositive
    <2>4. QED
      BY <1>4, <1>16, <2>1, <2>2, <2>3 DEF StartTrip, Positive, Within
  <1>17. CASE EndTrip
    <2>1. /\ DOMAIN trips' = DOMAIN trips
          /\ \A i \in DOMAIN trips : trips'[i] \in {trips[i], [trips[i] EXCEPT !.end = event.time]}
      BY <1>17 DEF EndTrip
    <2>2. \A i \in DOMAIN trips : /\ trips'[i].start = trips[i].start
                              /\ trips'[i].end \in {0, trips[i].end, event.time}
      BY <1>e, <2>1
    <2>3. QED
      BY <1>7, <1>17, <2>1, <2>2 DEF EndTrip
  <1>18. CASE CancelTrip
    <2>1. /\ DOMAIN trips' = DOMAIN trips
          /\ \A i \in DOMAIN trips : trips'[i] \in {trips[i], [trips[i] EXCEPT !.deleted = TRUE]}
      BY <1>18 DEF CancelTrip
    <2>2. \A i \in DOMAIN trips : /\ trips'[i].start = trips[i].start
                              /\ trips'[i].end \in {0, trips[i].end, event.time}
      BY <1>e, <2>1
    <2>3. QED
      BY <1>7, <1>18, <2>1, <2>2 DEF CancelTrip
  <1>19. CASE LPush
    BY <1>19 DEF LPush, RowsWithin, AllPositive, Positive, Within
  <1>20. QED
    BY <1>9, <1>10, <1>11, <1>12, <1>13, <1>14, <1>15, <1>16, <1>17, <1>18, <1>19
       DEF StatementStep

(* The events of a download carry the time of that download. *)
LEMMA CleanCompareTimes ==
    ASSUME NEW f \in Feeds, NEW t \in Nat,
           NEW old \in [Vehicles -> Bikes \cup {Absent}],
           NEW new \in [Vehicles -> Bikes \cup {Absent}]
    PROVE  \A u \in Times(CleanCompare(f, old, new, t)) : u = t
  <1> SUFFICES ASSUME NEW v \in Vehicles, NEW i \in DOMAIN CompareBike(v, old[v], new[v], t)
               PROVE  CompareBike(v, old[v], new[v], t)[i].time = t
    BY DEF CleanCompare, VehiclesOf, Times
  <1> DEFINE moved == IF Distance(old[v].pos, new[v].pos) > 1
                      THEN <<NewEvent("vehicle_moved", v, new[v], t)>> ELSE <<>>
             changed == IF old[v].disabled # new[v].disabled
                        THEN <<NewEvent("non_operational_change", v, new[v], t)>> ELSE <<>>
             strand == CompareBike(v, old[v], new[v], t)
  <1>1. /\ NewEvent("vehicle_moved", v, new[v], t) \in Events
        /\ NewEvent("non_operational_change", v, new[v], t) \in Events
    BY NewEventType DEF Kinds
  <1>2. moved \in Seq(Events) /\ changed \in Seq(Events)
    BY <1>1
  <1>3. \A kind, bike : NewEvent(kind, v, bike, t).time = t
    BY DEF NewEvent
  <1>4. /\ \A j \in DOMAIN moved : moved[j].time = t
        /\ \A j \in DOMAIN changed : changed[j].time = t
    BY <1>3
  <1>5. \/ strand = <<NewEvent("check_in", v, new[v], t)>>
        \/ strand = <<NewEvent("check_out", v, old[v], t)>>
        \/ strand = moved \o changed
        \/ strand = <<>>
    BY DEF CompareBike
  <1>6. CASE strand = moved \o changed
    <2> HIDE DEF moved, changed
    <2>1. QED
      BY <1>2, <1>4, <1>6, ConcatElements
  <1>7. CASE strand # moved \o changed
    <2> HIDE DEF moved, changed
    <2>1. QED
      BY <1>3, <1>5, <1>7
  <1>8. QED
    BY <1>6, <1>7

LEMMA TimesAreNat == \A events : Times(events) \subseteq Nat
  BY DEF Times

(* A batch of this moment may be sent. *)
LEMMA SendInTime ==
    ASSUME TypeOK, TimesInOrder, HandlerInTime, NEW events, Send(events),
           \A t \in Times(events) : t = now,
           UNCHANGED <<parkEvents, trips, nonOps, batch, event, plan>>,
           now' \in {now, now + 1}
    PROVE  TimesInOrder' /\ HandlerInTime'
  <1>1. /\ eventChan \in Seq(SUBSET Strands) /\ eventChan' = Append(eventChan, events)
        /\ now \in Nat
    BY DEF TypeOK, ProcessorTypeOK, Send
  <1>2. /\ Len(eventChan) + 1 \in Nat /\ \A k \in DOMAIN eventChan : k \in Nat /\ k < Len(eventChan) + 1
        /\ DOMAIN eventChan' = DOMAIN eventChan \cup {Len(eventChan) + 1}
        /\ \A k \in DOMAIN eventChan : eventChan'[k] = eventChan[k]
        /\ eventChan'[Len(eventChan) + 1] = events
    BY <1>1
  <1>3. /\ \A t : RowsWithin(t)' <=> RowsWithin(t)
        /\ RowsWithin(now)' <=> RowsWithin(now')
        /\ (RowsWithin(event.time)' <=> RowsWithin(event.time)) /\ (Writing' <=> Writing)
    BY DEF RowsWithin, Within, Writing
  <1>4. RowsWithin(now')
    BY <1>1, RowsWithinLater DEF TimesInOrder
  <1>5. \A k \in DOMAIN eventChan' : \A t, u \in Times(eventChan'[k]) : t = u
    BY <1>2 DEF TimesInOrder
  <1>6. \A k \in DOMAIN eventChan' : \A t \in Times(eventChan'[k]) : t <= now /\ RowsWithin(t)
    BY <1>1, <1>2 DEF TimesInOrder
  <1>7. \A k \in DOMAIN eventChan' : \A t \in Times(batch), u \in Times(eventChan'[k]) : t <= u
    BY <1>2 DEF TimesInOrder
  <1>8. \A k, l \in DOMAIN eventChan' :
           k < l => \A t \in Times(eventChan'[k]), u \in Times(eventChan'[l]) : t <= u
    <2> SUFFICES ASSUME NEW k \in DOMAIN eventChan', NEW l \in DOMAIN eventChan', k < l,
                        NEW t \in Times(eventChan'[k]), NEW u \in Times(eventChan'[l])
                 PROVE  t <= u
      OBVIOUS
    <2>1. k \in DOMAIN eventChan
      BY <1>1, <1>2
    <2>2. CASE l \in DOMAIN eventChan
      BY <1>2, <2>1, <2>2 DEF TimesInOrder
    <2>3. CASE l = Len(eventChan) + 1
      BY <1>2, <2>1, <2>3 DEF TimesInOrder
    <2>4. QED
      BY <1>2, <2>2, <2>3
  <1>9. \A t \in Times(batch) : t \in Nat /\ t <= now' /\ RowsWithin(t)
    BY <1>1, TimesAreNat DEF TimesInOrder
  <1>10. \A k \in DOMAIN eventChan' : \A t \in Times(eventChan'[k]) : t \in Nat /\ t <= now'
    BY <1>1, <1>6, TimesAreNat
  <1>11. TimesInOrder'
    BY <1>3, <1>4, <1>5, <1>6, <1>7, <1>8, <1>9, <1>10 DEF TimesInOrder
  <1>12. HandlerInTime'
    <2> SUFFICES ASSUME Writing PROVE /\ event.time <= now' /\ RowsWithin(event.time)
                                      /\ \A t \in Times(batch) : event.time <= t
                                      /\ \A k \in DOMAIN eventChan' :
                                            \A t \in Times(eventChan'[k]) : event.time <= t
      BY <1>3 DEF HandlerInTime
    <2>1. event.time \in Nat
      BY NoEventIsNone DEF Writing, TypeOK, ProcessorTypeOK, Events
    <2>2. QED
      BY <1>1, <1>2, <2>1 DEF HandlerInTime
  <1>13. QED
    BY <1>11, <1>12

(* The clock may go on. *)
LEMMA LaterInTime ==
    ASSUME TypeOK, TimesInOrder, HandlerInTime,
           UNCHANGED <<parkEvents, trips, nonOps, batch, event, plan, eventChan>>,
           now' \in {now, now + 1}
    PROVE  TimesInOrder' /\ HandlerInTime'
  <1>1. now \in Nat /\ now' \in Nat /\ now <= now'
    BY DEF TypeOK
  <1>2. /\ \A t : RowsWithin(t)' <=> RowsWithin(t)
        /\ RowsWithin(now)' <=> RowsWithin(now')
        /\ (RowsWithin(event.time)' <=> RowsWithin(event.time)) /\ (Writing' <=> Writing)
    BY DEF RowsWithin, Within, Writing
  <1>3. RowsWithin(now')
    BY <1>1, RowsWithinLater DEF TimesInOrder
  <1>4. /\ \A t \in Times(batch) : t <= now'
        /\ \A k \in DOMAIN eventChan : \A t \in Times(eventChan[k]) : t <= now'
    BY <1>1, TimesAreNat DEF TimesInOrder
  <1>5. TimesInOrder'
    BY <1>2, <1>3, <1>4 DEF TimesInOrder
  <1>6. Writing => event.time <= now'
    BY <1>1, NoEventIsNone DEF HandlerInTime, Writing, TypeOK, ProcessorTypeOK, Events
  <1>7. QED
    BY <1>2, <1>5, <1>6 DEF HandlerInTime

LEMMA ReceiveInTime ==
    ASSUME TypeOK, TimesInOrder, ReceiveEvents, UNCHANGED now
    PROVE  TimesInOrder' /\ HandlerInTime'
  <1>1. /\ eventChan \in Seq(SUBSET Strands) /\ eventChan # <<>>
        /\ batch' = Head(eventChan) /\ eventChan' = Tail(eventChan)
        /\ ~Writing'
    BY DEF ReceiveEvents, Idle, Writing, TypeOK, ProcessorTypeOK
  <1>2. /\ 1 \in DOMAIN eventChan /\ batch' = eventChan[1]
        /\ \A k \in DOMAIN eventChan' : /\ k + 1 \in DOMAIN eventChan /\ eventChan'[k] = eventChan[k + 1]
                                        /\ k \in Nat /\ 1 < k + 1
    BY <1>1
  <1>3. \A t : RowsWithin(t)' <=> RowsWithin(t)
    BY DEF RowsWithin, Within, ReceiveEvents
  <1>4. RowsWithin(now)' <=> RowsWithin(now)
    BY DEF RowsWithin, Within, ReceiveEvents
  <1>5. \A k, l \in DOMAIN eventChan' :
           k < l => \A t \in Times(eventChan'[k]), u \in Times(eventChan'[l]) : t <= u
    <2> SUFFICES ASSUME NEW k \in DOMAIN eventChan', NEW l \in DOMAIN eventChan', k < l
                 PROVE  \A t \in Times(eventChan'[k]), u \in Times(eventChan'[l]) : t <= u
      OBVIOUS
    <2>1. k + 1 < l + 1
      BY <1>2
    <2>2. QED
      BY <1>2, <2>1 DEF TimesInOrder
  <1>6. TimesInOrder'
    BY <1>2, <1>3, <1>4, <1>5 DEF TimesInOrder
  <1>7. QED
    BY <1>1, <1>6 DEF HandlerInTime

(* A handler goes on with the time of its event, unless it only pushes.     *)
LEMMA HandlerTime ==
    ASSUME TypeOK, NEW e \in Events, NEW last, Handle(e, last)
    PROVE  event'.time = e.time \/ plan' = <<>> \/ plan' = <<"LPush">>
  <1>1. \A n, kind, trip : /\ [e EXCEPT !.park = n].time = e.time
                           /\ [e EXCEPT !.park = n, !.trip = trip].time = e.time
                           /\ [e EXCEPT !.kind = kind, !.park = n, !.trip = trip].time = e.time
    BY DEF Events
  <1>2. <<>> \o <<"LPush">> = <<"LPush">>
    OBVIOUS
  <1>3. ASSUME NEW x \in Events, x.time = e.time, MoveByDistance(x, last)
        PROVE  event'.time = e.time \/ plan' = <<>>
    <2>1. [x EXCEPT !.park = last.park].time = x.time
      BY DEF Events
    <2>2. event' = [x EXCEPT !.park = last.park] \/ plan' = <<>>
      BY <1>3 DEF MoveByDistance, Execute, Ignore
    <2>3. QED
      BY <1>3, <2>1, <2>2
  <1>4. CASE FirstCheckIn(e, last)
    BY <1>2, <1>4 DEF FirstCheckIn, Execute
  <1>5. CASE ResetTrip(e, last)
    BY <1>1, <1>5 DEF ResetTrip, Execute
  <1>6. CASE CheckInAfterReboot(e, last)
    <2>1. PICK x \in Events : x.time = e.time /\ x = [e EXCEPT !.kind = "check_in_after_reboot"]
      BY DEF Events, Kinds
    <2>2. MoveByDistance(x, last)
      BY <1>6, <2>1 DEF CheckInAfterReboot
    <2>3. QED
      BY <1>3, <2>1, <2>2
  <1>7. CASE VehicleMoved(e, last)
    BY <1>3, <1>7 DEF VehicleMoved
  <1>8. CASE \/ EndTripAndPark(e, last) \/ CheckOut(e, last) \/ CorrectingCheckOut(e)
             \/ NonOperationalChange(e, last) \/ NothingToGoOn(e, last)
    <2>1. event' \in {e, [e EXCEPT !.park = last.park],
                      [e EXCEPT !.park = last.park, !.trip = last.trip]}
      BY <1>8 DEF EndTripAndPark, CheckOut, CorrectingCheckOut, NonOperationalChange,
                  NothingToGoOn, Execute
    <2>2. QED
      BY <2>1 DEF Events
  <1>9. QED
    BY <1>3, <1>4, <1>5, <1>6, <1>7, <1>8 DEF Handle

LEMMA ProcessEventInTime ==
    ASSUME TypeOK, TimesInOrder, ProcessEvent, UNCHANGED now
    PROVE  TimesInOrder' /\ HandlerInTime'
  <1>1. UNCHANGED <<parkEvents, trips, nonOps, redis, eventChan>>
    BY DEF ProcessEvent
  <1>2. PICK s \in batch :
           /\ batch' = (batch \ {s}) \cup ({Tail(s)} \ {<<>>})
           /\ Handle(Head(s), redis[Head(s).vehicle])
    BY Zenon DEF ProcessEvent
  <1>3. s \in Seq(Events) /\ s # <<>> /\ Head(s) \in Events
    BY DEF TypeOK, ProcessorTypeOK, Strands
  <1>4. /\ 1 \in DOMAIN s /\ Head(s) = s[1]
        /\ \A i \in DOMAIN Tail(s) : i + 1 \in DOMAIN s /\ Tail(s)[i] = s[i + 1]
    BY <1>3
  <1>5. Times(batch') \subseteq Times(batch)
    BY <1>2, <1>4 DEF Times
  <1>6. Head(s).time \in Times(batch)
    <2>1. Head(s).time \in Nat
      BY <1>3 DEF Events
    <2>2. QED
      BY <1>4, <2>1 DEF Times
  <1>7. /\ \A t : RowsWithin(t)' <=> RowsWithin(t)
        /\ RowsWithin(now)' <=> RowsWithin(now)
        /\ RowsWithin(event.time)' <=> RowsWithin(event'.time)
    BY <1>1 DEF RowsWithin, Within
  <1>8. TimesInOrder'
    BY <1>1, <1>5, <1>7 DEF TimesInOrder
  <1>9. Writing' => event'.time = Head(s).time
    BY <1>2, <1>3, HandlerTime DEF Writing
  <1>10. \A t \in Times(batch) : t \in Nat /\ t <= t
    BY TimesAreNat
  <1>11. HandlerInTime'
    BY <1>1, <1>5, <1>6, <1>7, <1>9, <1>10 DEF HandlerInTime, TimesInOrder
  <1>12. QED
    BY <1>8, <1>11

(* Every statement leaves the event its time, but for the push. *)
LEMMA StatementEvent ==
    ASSUME TypeOK, StatementStep
    PROVE  /\ UNCHANGED <<eventChan, batch>>
           /\ \/ LPush
              \/ /\ Writing /\ event'.time = event.time
                 /\ plan' = Tail(plan)
  <1>1. CASE LPush
    BY <1>1 DEF LPush
  <1>2. CASE ~LPush
    <2>1. PICK s \in Statements \ {"LPush"} : Statement(s)
      BY <1>2 DEF StatementStep, Statements, StartParkEvent, EndParkEvent,
             UpdateLocationParkEvent, ResetEndParkEvent, StartNonOperationalEvent,
             EndNonOperationalEvent, CancelEndNonOperationalEvent, StartTrip, EndTrip,
             CancelTrip
    <2>2. plan # <<"LPush">>
      BY <2>1 DEF Statement
    <2>3. event \in Events
      BY <2>1, StatementType
    <2>4. \A n : [event EXCEPT !.park = n].time = event.time /\ [event EXCEPT !.trip = n].time = event.time
      BY <2>3 DEF Events
    <2>5. \/ event' = event
          \/ \E n : event' = [event EXCEPT !.park = n] \/ event' = [event EXCEPT !.trip = n]
      BY <1>2 DEF StatementStep, StartParkEvent, EndParkEvent,
             UpdateLocationParkEvent, ResetEndParkEvent, StartNonOperationalEvent,
             EndNonOperationalEvent, CancelEndNonOperationalEvent, StartTrip, EndTrip,
             CancelTrip
    <2>6. event'.time = event.time
      <3>1. CASE event' = event
        BY <3>1
      <3>2. ASSUME NEW n, event' = [event EXCEPT !.park = n] \/ event' = [event EXCEPT !.trip = n]
            PROVE  event'.time = event.time
        BY <2>3, <3>2 DEF Events
      <3>3. QED
        BY <2>5, <3>1, <3>2, Zenon
    <2>7. QED
      BY <2>1, <2>2, <2>6 DEF Statement, Writing
  <1>3. QED
    BY <1>1, <1>2

LEMMA StatementsInTime ==
    ASSUME TypeOK, TimesInv, StatementStep, UNCHANGED now
    PROVE  TimesInOrder' /\ HandlerInTime' /\ NoNegativePeriods'
  <1>0. (NoNegativePeriods <=> AllPositive) /\ (NoNegativePeriods' <=> AllPositive')
    BY DEF NoNegativePeriods, AllPositive, Positive
  <1>1. CASE LPush
    <2>1. UNCHANGED <<parkEvents, trips, nonOps, eventChan, batch>> /\ plan' = <<>>
      BY <1>1 DEF LPush
    <2>2. ~Writing'
      BY <2>1 DEF Writing
    <2>3. TimesInOrder' /\ NoNegativePeriods'
      BY <2>1 DEF TimesInv, TimesInOrder, NoNegativePeriods, RowsWithin, Within
    <2>4. QED
      BY <2>2, <2>3 DEF HandlerInTime
  <1>2. CASE ~LPush
    <2>1. UNCHANGED <<eventChan, batch>> /\ Writing /\ event'.time = event.time
      BY <1>2, StatementEvent
    <2>2. /\ event.time <= now /\ RowsWithin(event.time)
          /\ \A t \in Times(batch) : event.time <= t
          /\ \A k \in DOMAIN eventChan : \A t \in Times(eventChan[k]) : event.time <= t
      BY <2>1 DEF TimesInv, HandlerInTime
    <2>3. /\ AllPositive'
          /\ \A t \in Nat : RowsWithin(t) /\ event.time <= t => RowsWithin(t)'
      BY <1>0, <2>2, StatementInTime DEF TimesInv
    <2>4. event.time \in Nat
      BY <2>1, NoEventIsNone DEF Writing, TypeOK, ProcessorTypeOK, Events
    <2>5. PICK w \in Nat : w = event.time
      BY <2>4
    <2>6. RowsWithin(event.time)'
      <3>1. RowsWithin(w)'
        BY <2>2, <2>3, <2>5
      <3>2. QED
        BY <2>1, <2>5, <3>1 DEF RowsWithin, Within
    <2>7. RowsWithin(now)'
      <3>1. PICK n \in Nat : n = now
        BY TableTypes
      <3>2. RowsWithin(n)'
        BY <2>2, <2>3, <3>1 DEF TimesInv, TimesInOrder
      <3>3. QED
        BY <3>1, <3>2 DEF RowsWithin, Within
    <2>8. TimesInOrder'
      <3>1. /\ \A t \in Times(batch') : t \in Nat
            /\ \A k \in DOMAIN eventChan' : \A t \in Times(eventChan'[k]) : t \in Nat
        BY TimesAreNat
      <3>2. QED
        BY <2>1, <2>2, <2>3, <2>7, <3>1 DEF TimesInv, TimesInOrder
    <2>9. HandlerInTime'
      BY <2>1, <2>2, <2>6 DEF HandlerInTime
    <2>10. QED
      BY <1>0, <2>3, <2>8, <2>9
  <1>3. QED
    BY <1>1, <1>2

(* Without statements nothing becomes negative. *)
LEMMA PeriodsKept ==
    ASSUME NoNegativePeriods, UNCHANGED <<parkEvents, trips, nonOps>>
    PROVE  NoNegativePeriods'
  BY DEF NoNegativePeriods

LEMMA DiesInTime ==
    ASSUME TypeOK, TimesInv, ProcessDies
    PROVE  TimesInv'
  <1>1. /\ UNCHANGED <<parkEvents, trips, nonOps>> /\ now' \in {now, now + 1}
        /\ eventChan' = <<>> /\ batch' = {} /\ plan' = <<>> /\ corrections' = {}
    BY DEF ProcessDies
  <1>2. RowsWithin(now)'
    <2>1. RowsWithin(now')
      BY <1>1, RowsWithinLater DEF TypeOK, TimesInv, TimesInOrder
    <2>2. QED
      BY <1>1, <2>1 DEF RowsWithin, Within
  <1>3. Times({}) = {} /\ DOMAIN <<>> = {}
    BY DEF Times
  <1>4. TimesInOrder'
    BY <1>1, <1>2, <1>3 DEF TimesInOrder
  <1>5. HandlerInTime' /\ CorrectionsAreNew'
    BY <1>1, <1>3 DEF HandlerInTime, Writing, CorrectionsAreNew
  <1>6. QED
    BY <1>1, <1>4, <1>5, PeriodsKept DEF TimesInv

LEMMA NextTimesInv == TypeOK /\ TimesInv /\ [Next]_vars => TimesInv'
  <1> SUFFICES ASSUME TypeOK, TimesInOrder, HandlerInTime, CorrectionsAreNew, NoNegativePeriods,
                      TimesInv, [Next]_vars
               PROVE  TimesInv'
    BY DEF TimesInv
  <1>0. now \in Nat /\ corrections \in SUBSET Strands
    BY DEF TypeOK
  <1>1. ASSUME NEW f \in Feeds, ImportFeed(f) PROVE TimesInv'
    <2>1. PICK new \in [Vehicles -> Bikes \cup {Absent}] : Send(CleanCompare(f, lastImport, new, now))
      BY <1>1 DEF ImportFeed, Downloads
    <2>2. \A t \in Times(CleanCompare(f, lastImport, new, now)) : t = now
      BY CleanCompareTimes DEF TypeOK
    <2>3. UNCHANGED <<parkEvents, trips, nonOps, batch, event, plan, now, phase, corrections>>
      BY <1>1 DEF ImportFeed
    <2>4. TimesInOrder' /\ HandlerInTime'
      BY <2>1, <2>2, <2>3, SendInTime
    <2>5. QED
      BY <2>3, <2>4, PeriodsKept DEF TimesInv, CorrectionsAreNew
  <1>2. ASSUME NEW f \in Feeds, ImportNothing(f) PROVE TimesInv'
    <2>1. /\ Send({})
          /\ UNCHANGED <<parkEvents, trips, nonOps, batch, event, plan, now, phase, corrections>>
      BY <1>2 DEF ImportNothing
    <2>2. TimesInOrder' /\ HandlerInTime'
      BY <2>1, SendInTime DEF Times
    <2>3. QED
      BY <2>1, <2>2, PeriodsKept DEF TimesInv, CorrectionsAreNew
  <1>3. CASE SkipCleanup
    <2>1. /\ UNCHANGED <<parkEvents, trips, nonOps, batch, event, plan, eventChan, corrections>>
          /\ now' \in {now, now + 1} /\ phase = "import"
      BY <1>3 DEF SkipCleanup, NextRound, processorVars
    <2>2. corrections' = {} /\ Times({}) = {}
      BY <2>1 DEF CorrectionsAreNew, Times
    <2>3. QED
      BY <2>1, <2>2, LaterInTime, PeriodsKept DEF TimesInv, CorrectionsAreNew
  <1>4. CASE StartCleanup
    <2>1. /\ UNCHANGED <<parkEvents, trips, nonOps, batch, event, plan, eventChan, corrections, now>>
          /\ phase = "import"
      BY <1>4 DEF StartCleanup, processorVars
    <2>2. corrections' = {} /\ Times({}) = {}
      BY <2>1 DEF CorrectionsAreNew, Times
    <2>3. QED
      BY <2>1, <2>2, LaterInTime, PeriodsKept DEF TimesInv, CorrectionsAreNew
  <1>5. CASE CleanupQuery
    <2>1. /\ UNCHANGED <<parkEvents, trips, nonOps, batch, event, plan, eventChan, now>>
          /\ phase' = "send" /\ corrections' = {<<CorrectingEvent(i)>> : i \in StaleParks}
      BY <1>5 DEF CleanupQuery, processorVars
    <2>2. \A i : CorrectingEvent(i).time = now
      BY DEF CorrectingEvent, NewEvent
    <2>3. \A t \in Times(corrections') : t = now
      BY <2>1, <2>2 DEF Times
    <2>4. CorrectionsAreNew'
      BY <2>1, <2>3 DEF CorrectionsAreNew
    <2>5. QED
      BY <2>1, <2>4, LaterInTime, PeriodsKept DEF TimesInv
  <1>6. CASE CleanupSend
    <2>1. /\ Send(corrections) /\ corrections' = {} /\ now' \in {now, now + 1}
          /\ UNCHANGED <<parkEvents, trips, nonOps, batch, event, plan>>
      BY <1>6 DEF CleanupSend, NextRound
    <2>2. TimesInOrder' /\ HandlerInTime'
      BY <2>1, SendInTime DEF CorrectionsAreNew
    <2>3. Times({}) = {}
      BY DEF Times
    <2>4. QED
      BY <2>1, <2>2, <2>3, PeriodsKept DEF TimesInv, CorrectionsAreNew
  <1>7. CASE ProcessorStep
    <2>1. UNCHANGED <<phase, corrections, now>>
      BY <1>7 DEF ProcessorStep, importerVars
    <2>2. CorrectionsAreNew'
      BY <2>1 DEF CorrectionsAreNew
    <2>3. CASE ReceiveEvents
      <3>1. UNCHANGED <<parkEvents, trips, nonOps>>
        BY <2>3 DEF ReceiveEvents
      <3>2. QED
        BY <2>1, <2>2, <2>3, <3>1, ReceiveInTime, PeriodsKept DEF TimesInv
    <2>4. CASE ProcessEvent
      <3>1. UNCHANGED <<parkEvents, trips, nonOps>>
        BY <2>4 DEF ProcessEvent
      <3>2. QED
        BY <2>1, <2>2, <2>4, <3>1, ProcessEventInTime, PeriodsKept DEF TimesInv
    <2>5. CASE StatementStep
      BY <2>1, <2>2, <2>5, StatementsInTime DEF TimesInv
    <2>6. QED
      BY <1>7, <2>3, <2>4, <2>5 DEF ProcessorStep, ProcessorNext
  <1>8. CASE ProcessDies
    BY <1>8, DiesInTime
  <1>9. CASE LoseRedis
    <2>1. UNCHANGED <<parkEvents, trips, nonOps, batch, event, plan, eventChan, now, phase, corrections>>
      BY <1>9 DEF LoseRedis, importerVars
    <2>2. QED
      BY <2>1, LaterInTime, PeriodsKept DEF TimesInv, CorrectionsAreNew
  <1>10. CASE UNCHANGED vars
    <2>1. UNCHANGED <<parkEvents, trips, nonOps, batch, event, plan, eventChan, now, phase, corrections>>
      BY <1>10 DEF vars, processorVars, importerVars
    <2>2. QED
      BY <2>1, LaterInTime, PeriodsKept DEF TimesInv, CorrectionsAreNew
  <1>11. QED
    BY <1>1, <1>2, <1>3, <1>4, <1>5, <1>6, <1>7, <1>8, <1>9, <1>10
       DEF Next, LoopStep, Restart, ForeignKeyPanic, AlertPanic

LEMMA InitTimesInv == Init => TimesInv
  <1> SUFFICES ASSUME Init PROVE TimesInv
    OBVIOUS
  <1>1. /\ parkEvents = <<>> /\ trips = <<>> /\ nonOps = <<>> /\ eventChan = <<>> /\ batch = {}
        /\ plan = <<>> /\ corrections = {} /\ DOMAIN <<>> = {} /\ Times({}) = {}
    BY DEF Init, ProcessorInit, Times
  <1>2. QED
    BY <1>1 DEF TimesInv, TimesInOrder, HandlerInTime, Writing, CorrectionsAreNew,
                NoNegativePeriods, RowsWithin, Within

(* Whatever fails, no row ends before it began. *)
THEOREM PeriodsAreNotNegative == Spec => []NoNegativePeriods
  <1>1. TimesInv => NoNegativePeriods
    BY DEF TimesInv
  <1>2. QED
    BY <1>1, InitTimesInv, NextTimesInv, TypeCorrect, PTL DEF Spec
=============================================================================
