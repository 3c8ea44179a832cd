------------------------- MODULE VehicleTablesProofs -------------------------
(***************************************************************************)
(* What the tables of the vehicle importer say of a vehicle as long as     *)
(* nothing fails half-way: theorems about VehicleImporter for any number   *)
(* of vehicles, feeds, positions and downloads and any number of restarts  *)
(* between two events. The last theorem holds under every failure but the  *)
(* loss of what is in Redis.                                               *)
(***************************************************************************)
EXTENDS VehicleImporterProofs

-----------------------------------------------------------------------------
(* The lists of events that travel through the queue: a check_in or a      *)
(* check_out on its own, one or two changes of a vehicle that stays in its *)
(* feed, or a correction, which names a park event and has no location.     *)
Moves == {"vehicle_moved", "non_operational_change"}

Regular(s) ==
    /\ \A i \in DOMAIN s : s[i].vehicle = Head(s).vehicle /\ s[i].time # 0
    /\ \/ /\ Head(s).kind = "check_in" /\ Tail(s) = <<>>
          /\ Head(s).pos \in Positions /\ Head(s).park = 0
       \/ \A i \in DOMAIN s : s[i].kind \in Moves
       \/ Head(s).kind = "check_out" /\ Tail(s) = <<>>
       \/ /\ Head(s).kind = "correcting_check_out" /\ Tail(s) = <<>>
          /\ Head(s).pos = Nowhere /\ Head(s).park # 0

RegularInv ==
    /\ now # 0
    /\ \A s \in batch : Regular(s)
    /\ \A k \in DOMAIN eventChan : \A s \in eventChan[k] : Regular(s)
    /\ \A s \in corrections : Regular(s) /\ Head(s).kind = "correcting_check_out"

(* Where a vehicle is after an event of this kind. *)
StageOf(kind) == IF kind \in {"none", "check_out", "correcting_check_out"} THEN "away" ELSE "parked"


LEMMA StrandHead ==
    ASSUME NEW s \in Strands
    PROVE  /\ s \in Seq(Events) /\ s # <<>> /\ 1 \in DOMAIN s /\ Head(s) = s[1] /\ Head(s) \in Events
           /\ Head(s).vehicle \in Vehicles
           /\ Tail(s) \in Seq(Events)
           /\ \A i \in DOMAIN Tail(s) : i + 1 \in DOMAIN s /\ Tail(s)[i] = s[i + 1]
           /\ Tail(s) # <<>> => Tail(s) \in Strands /\ 1 \in DOMAIN Tail(s) /\ Head(Tail(s)) = Tail(s)[1]
  <1>1. s \in Seq(Events) /\ s # <<>>
    BY DEF Strands
  <1>2. Tail(s) \in Seq(Events) /\ Head(s) \in Events /\ Head(s) = s[1] /\ 1 \in DOMAIN s
    BY <1>1
  <1>3. Head(s).vehicle \in Vehicles
    BY <1>2 DEF Events
  <1>4. \A i \in DOMAIN Tail(s) : i + 1 \in DOMAIN s /\ Tail(s)[i] = s[i + 1]
    BY <1>1
  <1>5. ASSUME Tail(s) # <<>>
        PROVE  Tail(s) \in Strands /\ 1 \in DOMAIN Tail(s) /\ Head(Tail(s)) = Tail(s)[1]
    BY <1>2, <1>5 DEF Strands
  <1>6. QED
    BY <1>1, <1>2, <1>3, <1>4, <1>5

(* What is left of a list when its first event is handled. *)
LEMMA RegularTail ==
    ASSUME NEW s \in Strands, Regular(s), Tail(s) # <<>>
    PROVE  /\ Regular(Tail(s)) /\ Head(Tail(s)).vehicle = Head(s).vehicle
           /\ Head(s).kind \in Moves /\ Head(Tail(s)).kind \in Moves
  <1>1. \A i \in DOMAIN s : s[i].kind \in Moves /\ s[i].vehicle = Head(s).vehicle /\ s[i].time # 0
    BY DEF Regular
  <1>2. /\ \A i \in DOMAIN Tail(s) : /\ Tail(s)[i].kind \in Moves
                                    /\ Tail(s)[i].vehicle = Head(s).vehicle
                                    /\ Tail(s)[i].time # 0
        /\ 1 \in DOMAIN Tail(s) /\ Head(Tail(s)) = Tail(s)[1] /\ 1 \in DOMAIN s /\ Head(s) = s[1]
    BY <1>1, StrandHead
  <1>3. QED
    BY <1>1, <1>2 DEF Regular

(* What a download says of a vehicle. *)
Says(s, v, old, new) ==
    /\ Regular(s) /\ Head(s).vehicle = v
    /\ Head(s).kind # "correcting_check_out"
    /\ StageOf(Head(s).kind) = IF Present(new) THEN "parked" ELSE "away"
    /\ Head(s).kind \in Moves \cup {"check_out"} => Present(old)

LEMMA ComparedStrand ==
    ASSUME NEW v \in Vehicles, NEW old \in Bikes \cup {Absent}, NEW new \in Bikes \cup {Absent},
           NEW t \in Nat \ {0}, CompareBike(v, old, new, t) # <<>>
    PROVE  Says(CompareBike(v, old, new, t), v, old, new)
  <1> DEFINE moved == IF Distance(old.pos, new.pos) > 1
                      THEN <<NewEvent("vehicle_moved", v, new, t)>> ELSE <<>>
             changed == IF old.disabled # new.disabled
                        THEN <<NewEvent("non_operational_change", v, new, t)>> ELSE <<>>
             strand == CompareBike(v, old, new, t)
  <1>1. /\ NewEvent("vehicle_moved", v, new, t) \in Events
        /\ NewEvent("non_operational_change", v, new, t) \in Events
    BY NewEventType DEF Kinds
  <1>2. moved \in Seq(Events) /\ changed \in Seq(Events)
    BY <1>1
  <1>3. \A kind, bike : /\ NewEvent(kind, v, bike, t).vehicle = v
                        /\ NewEvent(kind, v, bike, t).kind = kind
                        /\ NewEvent(kind, v, bike, t).park = 0
                        /\ NewEvent(kind, v, bike, t).time = t
                        /\ NewEvent(kind, v, bike, t).pos = bike.pos
    BY DEF NewEvent
  <1>4. /\ \A j \in DOMAIN moved : /\ moved[j].vehicle = v /\ moved[j].time = t
                                    /\ moved[j].kind \in Moves
        /\ \A j \in DOMAIN changed : /\ changed[j].vehicle = v /\ changed[j].time = t
                                      /\ changed[j].kind \in Moves
    BY <1>3 DEF Moves
  <1>5. \/ /\ strand = <<NewEvent("check_in", v, new, t)>>
           /\ Present(new) /\ ~Present(old)
        \/ /\ strand = <<NewEvent("check_out", v, old, t)>>
           /\ Present(old) /\ ~Present(new)
        \/ strand = moved \o changed /\ Present(old) /\ Present(new)
    BY DEF CompareBike
  <1>6. CASE strand = <<NewEvent("check_in", v, new, t)>> /\ Present(new)
    <2>1. PICK e : e = NewEvent("check_in", v, new, t)
      OBVIOUS
    <2>2. strand = <<e>> /\ e.vehicle = v /\ e.time = t /\ e.kind = "check_in" /\ e.park = 0 /\ e.pos = new.pos
      BY <1>3, <1>6, <2>1
    <2>3. e.pos \in Positions
      BY <1>6, <2>2 DEF Bikes, Absent, Present
    <2> HIDE DEF strand
    <2>4. /\ Head(strand) = e /\ Tail(strand) = <<>>
          /\ \A i \in DOMAIN strand : strand[i] = e
      BY <2>2
    <2>5. QED
      BY <1>6, <2>2, <2>3, <2>4 DEF Says, Regular, StageOf, Moves, strand
  <1>7. CASE strand = <<NewEvent("check_out", v, old, t)>> /\ Present(old) /\ ~Present(new)
    <2>1. PICK e : e = NewEvent("check_out", v, old, t)
      OBVIOUS
    <2>2. strand = <<e>> /\ e.vehicle = v /\ e.time = t /\ e.kind = "check_out"
      BY <1>3, <1>7, <2>1
    <2> HIDE DEF strand
    <2>3. /\ Head(strand) = e /\ Tail(strand) = <<>>
          /\ \A i \in DOMAIN strand : strand[i] = e
      BY <2>2
    <2>4. QED
      BY <1>7, <2>2, <2>3 DEF Says, Regular, StageOf, Moves, strand
  <1>8. CASE strand = moved \o changed /\ Present(old) /\ Present(new)
    <2>1. strand # <<>>
      OBVIOUS
    <2> HIDE DEF moved, changed, strand
    <2>2. \A i \in DOMAIN strand : strand[i].vehicle = v /\ strand[i].time = t /\ strand[i].kind \in Moves
      BY <1>2, <1>4, <1>8, ConcatElements
    <2>3. strand \in Seq(Events)
      BY <1>2, <1>8
    <2>4. 1 \in DOMAIN strand /\ Head(strand) = strand[1]
      BY <2>1, <2>3
    <2>5. QED
      BY <1>8, <2>2, <2>4 DEF Says, Regular, StageOf, Moves, strand
  <1>9. QED
    BY <1>5, <1>6, <1>7, <1>8

(* A vehicle of which a download says nothing is in it as it was before. *)
LEMMA NothingSaid ==
    ASSUME NEW v, NEW old, NEW new, NEW t, CompareBike(v, old, new, t) = <<>>
    PROVE  Present(old) <=> Present(new)
  BY DEF CompareBike

LEMMA CleanCompareSays ==
    ASSUME NEW f \in Feeds, NEW t \in Nat \ {0},
           NEW old \in [Vehicles -> Bikes \cup {Absent}],
           NEW new \in [Vehicles -> Bikes \cup {Absent}]
    PROVE  \A s \in CleanCompare(f, old, new, t) :
              /\ Head(s).vehicle \in VehiclesOf(f)
              /\ Says(s, Head(s).vehicle, old[Head(s).vehicle], new[Head(s).vehicle])
              /\ s = CompareBike(Head(s).vehicle, old[Head(s).vehicle], new[Head(s).vehicle], t)
  <1> SUFFICES ASSUME NEW v \in VehiclesOf(f), CompareBike(v, old[v], new[v], t) # <<>>
               PROVE  Says(CompareBike(v, old[v], new[v], t), v, old[v], new[v])
    BY DEF CleanCompare, Says
  <1>1. v \in Vehicles
    BY DEF VehiclesOf
  <1>2. QED
    BY <1>1, ComparedStrand

-----------------------------------------------------------------------------
(* What the steps do to the queue. *)
LEMMA BatchSent ==
    ASSUME TypeOK, NEW events, Send(events)
    PROVE  /\ Len(eventChan) \in Nat /\ DOMAIN eventChan = 1..Len(eventChan)
           /\ Len(eventChan') = Len(eventChan) + 1
           /\ DOMAIN eventChan' = DOMAIN eventChan \cup {Len(eventChan) + 1}
           /\ \A k \in DOMAIN eventChan : eventChan'[k] = eventChan[k] /\ k # Len(eventChan) + 1
           /\ eventChan'[Len(eventChan) + 1] = events
  BY DEF Send, TypeOK, ProcessorTypeOK

LEMMA BatchReceived ==
    ASSUME TypeOK, ReceiveEvents
    PROVE  /\ UNCHANGED <<parkEvents, trips, nonOps, redis, event, plan>>
           /\ plan = <<>> /\ batch = {} /\ eventChan # <<>>
           /\ 1 \in DOMAIN eventChan /\ batch' = eventChan[1]
           /\ Len(eventChan) \in Nat /\ DOMAIN eventChan = 1..Len(eventChan)
           /\ Len(eventChan') = Len(eventChan) - 1
           /\ DOMAIN eventChan' = 1..(Len(eventChan) - 1)
           /\ \A k \in DOMAIN eventChan' : k + 1 \in DOMAIN eventChan /\ eventChan'[k] = eventChan[k + 1]
  BY DEF ReceiveEvents, Idle, TypeOK, ProcessorTypeOK

(* ProcessEvent takes the first event of a list of the batch. *)
Takes(s) ==
    /\ batch' = (batch \ {s}) \cup ({Tail(s)} \ {<<>>})
    /\ Handle(Head(s), redis[Head(s).vehicle])

LEMMA EventTaken ==
    ASSUME TypeOK, ProcessEvent
    PROVE  /\ UNCHANGED <<parkEvents, trips, nonOps, redis, eventChan>>
           /\ plan = <<>>
           /\ \E s \in batch : s \in Strands /\ Takes(s)
  <1>1. PICK s \in batch :
           /\ batch' = (batch \ {s}) \cup ({Tail(s)} \ {<<>>})
           /\ Handle(Head(s), redis[Head(s).vehicle])
    BY Zenon DEF ProcessEvent
  <1>2. s \in Strands /\ Takes(s)
    BY <1>1 DEF Takes, TypeOK, ProcessorTypeOK
  <1>3. QED
    BY <1>2 DEF ProcessEvent, Idle

LEMMA CorrectionStrand ==
    ASSUME TypeOK, now # 0, NEW i \in StaleParks
    PROVE  LET s == <<CorrectingEvent(i)>> IN
           /\ Regular(s) /\ Head(s).kind = "correcting_check_out"
           /\ Head(s).vehicle = parkEvents[i].vehicle /\ Head(s).park = i
           /\ parkEvents[i].vehicle \in Vehicles
           /\ i \in OpenParks(parkEvents[i].vehicle)
           /\ ~Present(lastImport[parkEvents[i].vehicle])
  <1> DEFINE s == <<CorrectingEvent(i)>>
  <1>1. PICK e : e = CorrectingEvent(i)
    OBVIOUS
  <1>2. i \in DOMAIN parkEvents /\ parkEvents[i].vehicle \in Vehicles /\ i # 0
    <2>1. parkEvents \in Seq(ParkRows) /\ i \in DOMAIN parkEvents
      BY DEF TypeOK, ProcessorTypeOK, StaleParks
    <2>2. parkEvents[i] \in ParkRows /\ i # 0
      BY <2>1
    <2>3. QED
      BY <2>1, <2>2 DEF ParkRows
  <1>3. /\ e.kind = "correcting_check_out" /\ e.vehicle = parkEvents[i].vehicle
        /\ e.pos = Nowhere /\ e.park = i /\ e.time = now
    BY <1>1 DEF CorrectingEvent, NewEvent, Absent
  <1>4. /\ Head(s) = e /\ Tail(s) = <<>>
        /\ \A k \in DOMAIN s : s[k] = e
    BY <1>1
  <1> HIDE DEF s
  <1>5. Regular(s)
    BY <1>2, <1>3, <1>4 DEF Regular
  <1>6. QED
    BY <1>2, <1>3, <1>4, <1>5 DEF s, StaleParks, OpenParks

LEMMA NextRegular ==
    ASSUME TypeOK, RegularInv, [Next]_vars
    PROVE  RegularInv'
  <1>0. now \in Nat \ {0} /\ now' # 0
    <2>1. now' \in {now, now + 1} /\ now \in Nat
      BY DEF Next, LoopStep, SkipCleanup, StartCleanup, CleanupQuery, CleanupSend, NextRound,
             AlertPanic, Restart, ForeignKeyPanic, ProcessDies, LoseRedis, ImportFeed,
             ImportNothing, ProcessorStep, vars, TypeOK
    <2>2. QED
      BY <2>1 DEF RegularInv
  <1>1. ASSUME NEW events, Send(events), \A s \in events : Regular(s)
        PROVE  \A k \in DOMAIN eventChan' : \A s \in eventChan'[k] : Regular(s)
    BY <1>0, <1>1, BatchSent DEF RegularInv
  <1>2. ASSUME NEW f \in Feeds, ImportFeed(f)
        PROVE  RegularInv'
    <2>1. PICK new \in [Vehicles -> Bikes \cup {Absent}] : Send(CleanCompare(f, lastImport, new, now))
      BY <1>2 DEF ImportFeed, Downloads
    <2>2. \A s \in CleanCompare(f, lastImport, new, now) : Regular(s)
      BY <1>0, CleanCompareSays DEF TypeOK, Says
    <2>3. UNCHANGED <<batch, corrections>>
      BY <1>2 DEF ImportFeed
    <2>4. QED
      BY <1>0, <1>1, <2>1, <2>2, <2>3 DEF RegularInv
  <1>3. ASSUME NEW f \in Feeds, ImportNothing(f)
        PROVE  RegularInv'
    BY <1>0, <1>1, <1>3 DEF ImportNothing, RegularInv
  <1>4. CASE CleanupQuery
    <2>1. \A s \in corrections' : Regular(s) /\ Head(s).kind = "correcting_check_out"
      BY <1>0, <1>4, CorrectionStrand DEF CleanupQuery
    <2>2. UNCHANGED <<batch, eventChan>>
      BY <1>4 DEF CleanupQuery, processorVars
    <2>3. QED
      BY <1>0, <2>1, <2>2 DEF RegularInv
  <1>5. CASE CleanupSend
    BY <1>0, <1>1, <1>5 DEF CleanupSend, RegularInv
  <1>6. CASE ReceiveEvents /\ corrections' = corrections
    BY <1>0, <1>6, BatchReceived DEF RegularInv
  <1>7. CASE ProcessEvent /\ corrections' = corrections
    <2>1. PICK s \in batch : s \in Strands /\ batch' = (batch \ {s}) \cup ({Tail(s)} \ {<<>>})
      BY <1>7, EventTaken DEF Takes
    <2>2. \A t \in batch' : Regular(t)
      BY <1>0, <2>1, RegularTail DEF RegularInv
    <2>3. QED
      BY <1>0, <1>7, <2>2, EventTaken DEF RegularInv
  <1>8. CASE ProcessDies
    BY <1>0, <1>8 DEF ProcessDies, RegularInv
  <1>9. ASSUME UNCHANGED <<batch, eventChan, corrections>>
        PROVE  RegularInv'
    BY <1>0, <1>9 DEF RegularInv
  <1>10. CASE StatementStep /\ corrections' = corrections
    BY <1>9, <1>10, StatementEvent
  <1>11. CASE SkipCleanup \/ StartCleanup \/ LoseRedis \/ UNCHANGED vars
    BY <1>9, <1>11 DEF SkipCleanup, StartCleanup, LoseRedis, vars, processorVars, importerVars
  <1>12. QED
    BY <1>2, <1>3, <1>4, <1>5, <1>6, <1>7, <1>8, <1>10, <1>11
       DEF Next, LoopStep, ProcessorStep, ProcessorNext, importerVars, Restart, ForeignKeyPanic, AlertPanic

LEMMA AlwaysRegular == Spec => []RegularInv
  <1>1. Init => RegularInv
    BY DEF Init, ProcessorInit, RegularInv
  <1>2. TypeOK /\ RegularInv /\ [Next]_vars => RegularInv'
    BY NextRegular
  <1>3. QED
    BY <1>1, <1>2, TypeCorrect, PTL DEF Spec

(* A handler keeps to the vehicle of its event. *)
LEMMA HandlerVehicle ==
    ASSUME TypeOK, NEW e \in Events, NEW last, Handle(e, last)
    PROVE  event' = NoEvent \/ event'.vehicle = e.vehicle
  <1>1. \A n, trip, kind :
           /\ [e EXCEPT !.park = n].vehicle = e.vehicle
           /\ [e EXCEPT !.park = n, !.time = 0].vehicle = e.vehicle
           /\ [e EXCEPT !.park = n, !.trip = trip].vehicle = e.vehicle
           /\ [e EXCEPT !.kind = kind, !.park = n, !.trip = trip].vehicle = e.vehicle
    BY DEF Events
  <1>2. ASSUME NEW x \in Events, x.vehicle = e.vehicle, MoveByDistance(x, last)
        PROVE  event' = NoEvent \/ event'.vehicle = e.vehicle
    <2>1. [x EXCEPT !.park = last.park].vehicle = x.vehicle
      BY DEF Events
    <2>2. event' = [x EXCEPT !.park = last.park] \/ event' = NoEvent
      BY <1>2 DEF MoveByDistance, Execute, Ignore
    <2>3. QED
      BY <1>2, <2>1, <2>2
  <1>3. CASE CheckInAfterReboot(e, last)
    <2>1. PICK x \in Events : x.vehicle = e.vehicle /\ x = [e EXCEPT !.kind = "check_in_after_reboot"]
      BY DEF Events, Kinds
    <2>2. MoveByDistance(x, last)
      BY <1>3, <2>1 DEF CheckInAfterReboot
    <2>3. QED
      BY <1>2, <2>1, <2>2
  <1>4. CASE VehicleMoved(e, last)
    BY <1>2, <1>4 DEF VehicleMoved
  <1>5. CASE FirstCheckIn(e, last)
    <2>1. event' = e \/ \E n : event' = [e EXCEPT !.park = n, !.time = 0]
      BY <1>5, Zenon DEF FirstCheckIn, Execute
    <2>2. ASSUME NEW n, event' = [e EXCEPT !.park = n, !.time = 0]
          PROVE  event'.vehicle = e.vehicle
      BY <2>2 DEF Events
    <2>3. QED
      BY <2>1, <2>2
  <1>6. CASE ResetTrip(e, last)
    BY <1>1, <1>6 DEF ResetTrip, Execute
  <1>7. CASE \/ EndTripAndPark(e, last) \/ CheckOut(e, last) \/ CorrectingCheckOut(e)
             \/ NonOperationalChange(e, last) \/ NothingToGoOn(e, last)
    <2>1. event' \in {e, [e EXCEPT !.park = last.park],
                      [e EXCEPT !.park = last.park, !.trip = last.trip]}
      BY <1>7 DEF EndTripAndPark, CheckOut, CorrectingCheckOut, NonOperationalChange,
                  NothingToGoOn, Execute
    <2>2. QED
      BY <2>1 DEF Events
  <1>8. QED
    BY <1>3, <1>4, <1>5, <1>6, <1>7 DEF Handle

(* Every statement but the push leaves the event what it is. *)
Going(e, x) == /\ x \in Events
               /\ x.kind = e.kind /\ x.vehicle = e.vehicle /\ x.pos = e.pos /\ x.time = e.time

LEMMA StatementKeeps ==
    ASSUME TypeOK, StatementStep
    PROVE  /\ event \in Events /\ plan \in Seq(Statements) /\ plan # <<>>
           /\ UNCHANGED <<eventChan, batch>>
           /\ \/ /\ LPush /\ Head(plan) = "LPush" /\ plan' = <<>> /\ event' = NoEvent
                 /\ UNCHANGED <<parkEvents, trips, nonOps>>
                 /\ redis'[event.vehicle] = event
                 /\ \A v \in Vehicles : v # event.vehicle => redis'[v] = redis[v]
              \/ /\ Going(event, event') /\ plan' = Tail(plan) /\ redis' = redis
                 /\ Head(plan) \in Statements \ {"LPush"}
  <1>1. event \in Events /\ plan \in Seq(Statements) /\ plan # <<>> /\ UNCHANGED <<eventChan, batch>>
    BY DEF StatementStep, TypeOK, ProcessorTypeOK, StartParkEvent, EndParkEvent,
           UpdateLocationParkEvent, ResetEndParkEvent, StartNonOperationalEvent,
           EndNonOperationalEvent, CancelEndNonOperationalEvent, StartTrip, EndTrip,
           CancelTrip, LPush, Statement
  <1>2. CASE LPush
    <2>1. event.vehicle \in Vehicles /\ DOMAIN redis = Vehicles
      BY <1>1 DEF Events, TypeOK, ProcessorTypeOK
    <2>2. QED
      BY <1>1, <1>2, <2>1 DEF LPush
  <1>3. CASE ~LPush
    <2>1. PICK s \in Statements \ {"LPush"} : Statement(s)
      BY <1>3 DEF StatementStep, Statements, StartParkEvent, EndParkEvent,
             UpdateLocationParkEvent, ResetEndParkEvent, StartNonOperationalEvent,
             EndNonOperationalEvent, CancelEndNonOperationalEvent, StartTrip, EndTrip,
             CancelTrip
    <2>2. \/ event' = event
          \/ event' = [event EXCEPT !.park = Len(parkEvents) + 1]
          \/ event' = [event EXCEPT !.trip = Len(trips) + 1]
          \/ event' = [event EXCEPT !.trip = 0]
      BY <1>3 DEF StatementStep, StartParkEvent, EndParkEvent,
             UpdateLocationParkEvent, ResetEndParkEvent, StartNonOperationalEvent,
             EndNonOperationalEvent, CancelEndNonOperationalEvent, StartTrip, EndTrip,
             CancelTrip
    <2>3. \A n \in Nat : /\ Going(event, [event EXCEPT !.park = n])
                         /\ Going(event, [event EXCEPT !.trip = n])
      BY <1>1 DEF Events, Going
    <2>4. Len(parkEvents) + 1 \in Nat /\ Len(trips) + 1 \in Nat
      BY DEF TypeOK, ProcessorTypeOK
    <2>5. Going(event, event')
      <3>1. CASE event' = event
        BY <1>1, <3>1 DEF Going
      <3>2. QED
        BY <2>2, <2>3, <2>4, <3>1
    <2>6. redis' = redis
      BY <1>3 DEF StatementStep, StartParkEvent, EndParkEvent,
             UpdateLocationParkEvent, ResetEndParkEvent, StartNonOperationalEvent,
             EndNonOperationalEvent, CancelEndNonOperationalEvent, StartTrip, EndTrip,
             CancelTrip
    <2>7. QED
      BY <1>1, <2>1, <2>5, <2>6 DEF Statement
  <1>4. QED
    BY <1>2, <1>3

-----------------------------------------------------------------------------
(* importLoop waits for its feeds, then for the queue, and sends what it   *)
(* has found before it imports again.                                      *)
LoopInv ==
    /\ firstImport => phase = "import"
    /\ pending # {} => phase = "import"
    /\ phase # "send" => corrections = {}
    /\ phase = "send" => eventChan = <<>>
    /\ \A s \in corrections : ~Present(lastImport[Head(s).vehicle])

LEMMA NextLoopInv ==
    ASSUME TypeOK, RegularInv, LoopInv, [Next]_vars
    PROVE  LoopInv'
  <1>1. ASSUME NEW f \in Feeds, ImportFeed(f) \/ ImportNothing(f)
        PROVE  LoopInv'
    BY <1>1 DEF ImportFeed, ImportNothing, LoopInv
  <1>2. CASE SkipCleanup
    BY <1>2 DEF SkipCleanup, NextRound, LoadFeeds, LoopInv
  <1>3. CASE StartCleanup
    BY <1>3 DEF StartCleanup, processorVars, LoopInv
  <1>4. CASE CleanupQuery
    <2>1. /\ phase = "wait" /\ eventChan = <<>> /\ phase' = "send"
          /\ UNCHANGED <<eventChan, lastImport, pending, firstImport, feeds>>
          /\ corrections' = {<<CorrectingEvent(i)>> : i \in StaleParks}
      BY <1>4 DEF CleanupQuery, processorVars
    <2>2. \A s \in corrections' : ~Present(lastImport[Head(s).vehicle])
      BY <2>1, CorrectionStrand DEF RegularInv
    <2>3. QED
      BY <2>1, <2>2 DEF LoopInv
  <1>5. CASE CleanupSend
    BY <1>5 DEF CleanupSend, NextRound, LoadFeeds, LoopInv
  <1>6. CASE ProcessorStep
    <2>1. UNCHANGED <<phase, firstImport, lastImport, pending, corrections, feeds>>
      BY <1>6 DEF ProcessorStep, importerVars
    <2>2. eventChan = <<>> => eventChan' = <<>>
      BY <1>6, EventTaken, StatementKeeps DEF ProcessorStep, ProcessorNext, ReceiveEvents
    <2>3. QED
      BY <2>1, <2>2 DEF LoopInv
  <1>7. CASE ProcessDies
    BY <1>7 DEF ProcessDies, LoopInv
  <1>8. CASE LoseRedis \/ UNCHANGED vars
    BY <1>8 DEF LoseRedis, vars, processorVars, importerVars, LoopInv
  <1>9. QED
    BY <1>1, <1>2, <1>3, <1>4, <1>5, <1>6, <1>7, <1>8
       DEF Next, LoopStep, Restart, ForeignKeyPanic, AlertPanic

LEMMA AlwaysInTheLoop == Spec => []LoopInv
  <1>1. Init => LoopInv
    BY DEF Init, ProcessorInit, LoopInv
  <1>2. TypeOK /\ RegularInv /\ LoopInv /\ [Next]_vars => LoopInv'
    BY NextLoopInv
  <1>3. QED
    BY <1>1, <1>2, TypeCorrect, AlwaysRegular, PTL DEF Spec

-----------------------------------------------------------------------------
(* The first cleanup. Until it has queried the tables every feed is         *)
(* imported at most once, so only check_ins are under way: what has an      *)
(* event on its way is in its feed, and is not corrected.                   *)
FirstRound == firstImport \/ phase # "import"

Awaited(v) == \/ event.vehicle = v
              \/ \E s \in batch : Head(s).vehicle = v
              \/ \E k \in DOMAIN eventChan : \E s \in eventChan[k] : Head(s).vehicle = v

OnlyCheckIns ==
    /\ firstImport => \A v \in Vehicles : FeedOf[v] \in pending => ~Present(lastImport[v])
    /\ FirstRound => \A v \in Vehicles : Awaited(v) => Present(lastImport[v])

LEMMA AwaitedLess ==
    ASSUME TypeOK, RegularInv, ProcessorNext, NEW v \in Vehicles, Awaited(v)'
    PROVE  Awaited(v)
  <1>1. v # NoVehicle
    BY NoVehicleAssumption
  <1>2. CASE ReceiveEvents
    BY <1>2, BatchReceived DEF Awaited
  <1>3. CASE ProcessEvent
    <2>1. PICK s \in batch : s \in Strands /\ Takes(s)
      BY <1>3, EventTaken
    <2>2. event' = NoEvent \/ event'.vehicle = Head(s).vehicle
      BY <2>1, StrandHead, HandlerVehicle DEF Takes
    <2>3. \A t \in batch' : t \in batch \/ Head(t).vehicle = Head(s).vehicle
      BY <2>1, RegularTail DEF Takes, RegularInv
    <2>4. QED
      BY <1>1, <1>3, <2>1, <2>2, <2>3, EventTaken, NoEventIsNone DEF Awaited
  <1>4. CASE StatementStep
    BY <1>1, <1>4, StatementKeeps, NoEventIsNone DEF Awaited, Going
  <1>5. QED
    BY <1>2, <1>3, <1>4 DEF ProcessorNext

LEMMA NextOnlyCheckIns ==
    ASSUME ~NightlyCleanup, TypeOK, RegularInv, LoopInv, OnlyCheckIns, [Next]_vars
    PROVE  OnlyCheckIns'
  <1>0. ~Present(Absent) /\ now \in Nat \ {0}
    BY DEF Absent, Present, TypeOK, RegularInv
  <1>1. ASSUME NEW f \in Feeds, ImportFeed(f)
        PROVE  OnlyCheckIns'
    <2>1. PICK new \in [Vehicles -> Bikes \cup {Absent}] :
             /\ \A v \in Vehicles \ VehiclesOf(f) : new[v] = lastImport[v]
             /\ Send(CleanCompare(f, lastImport, new, now))
             /\ lastImport' = new
      BY <1>1 DEF ImportFeed, Downloads
    <2>2. /\ phase = "import" /\ phase' = "import" /\ f \in pending /\ pending' = pending \ {f}
          /\ UNCHANGED <<batch, event, firstImport, corrections>>
      BY <1>1 DEF ImportFeed
    <2>4. ASSUME firstImport, NEW v \in Vehicles, FeedOf[v] \in pending'
          PROVE  ~Present(lastImport'[v])
      BY <2>1, <2>2, <2>4 DEF OnlyCheckIns, VehiclesOf
    <2>5. ASSUME firstImport, NEW v \in Vehicles, Awaited(v)'
          PROVE  Present(lastImport'[v])
      <3>1. CASE Awaited(v)
        <4>1. Present(lastImport[v])
          BY <2>5, <3>1 DEF OnlyCheckIns, FirstRound
        <4>2. v \notin VehiclesOf(f)
          BY <2>2, <2>5, <4>1 DEF OnlyCheckIns, VehiclesOf
        <4>3. QED
          BY <2>1, <4>1, <4>2
      <3>2. CASE ~Awaited(v)
        <4>1. PICK s \in CleanCompare(f, lastImport, new, now) : Head(s).vehicle = v
          BY <2>1, <2>2, <2>5, <3>2, BatchSent DEF Awaited
        <4>2. v \in VehiclesOf(f) /\ Says(s, v, lastImport[v], new[v])
          BY <1>0, <4>1, CleanCompareSays DEF TypeOK
        <4>3. ~Present(lastImport[v])
          BY <2>2, <2>5, <4>2 DEF OnlyCheckIns, VehiclesOf
        <4>4. Head(s).kind = "check_in"
          <5>1. s \in Strands
            BY <4>1, CleanCompareType DEF TypeOK
          <5>2. QED
            BY <4>2, <4>3, <5>1, StrandHead DEF Says, Regular
        <4>5. QED
          BY <2>1, <4>2, <4>4 DEF Says, StageOf
      <3>3. QED
        BY <3>1, <3>2
    <2>6. QED
      BY <2>2, <2>4, <2>5 DEF OnlyCheckIns, FirstRound
  <1>2. ASSUME NEW f \in Feeds, ImportNothing(f)
        PROVE  OnlyCheckIns'
    <2>1. /\ Send({}) /\ phase = "import" /\ pending' \subseteq pending
          /\ UNCHANGED <<batch, event, phase, lastImport, firstImport, corrections>>
      BY <1>2 DEF ImportNothing
    <2>2. \A v : Awaited(v)' => Awaited(v)
      BY <2>1, BatchSent DEF Awaited
    <2>3. QED
      BY <2>1, <2>2 DEF OnlyCheckIns, FirstRound
  <1>3. CASE SkipCleanup
    BY <1>3 DEF SkipCleanup, NextRound, OnlyCheckIns, FirstRound, LoopInv
  <1>4. CASE StartCleanup
    <2>1. /\ phase = "import" /\ pending = {} /\ firstImport /\ phase' = "wait" /\ ~firstImport'
          /\ UNCHANGED <<batch, event, eventChan, lastImport, pending, corrections>>
      BY <1>4 DEF StartCleanup, processorVars
    <2>2. \A v : Awaited(v)' => Awaited(v)
      BY <2>1 DEF Awaited
    <2>3. QED
      BY <2>1, <2>2 DEF OnlyCheckIns, FirstRound
  <1>5. CASE CleanupQuery
    <2>1. /\ phase = "wait" /\ eventChan = <<>> /\ phase' = "send"
          /\ UNCHANGED <<batch, event, eventChan, lastImport, pending, firstImport>>
          /\ corrections' = {<<CorrectingEvent(i)>> : i \in StaleParks}
      BY <1>5 DEF CleanupQuery, processorVars
    <2>2. \A v : Awaited(v)' => Awaited(v)
      BY <2>1 DEF Awaited
    <2>3. QED
      BY <2>1, <2>2 DEF OnlyCheckIns, FirstRound
  <1>6. CASE CleanupSend
    <2>1. /\ phase = "send" /\ phase' = "import" /\ corrections' = {} /\ UNCHANGED firstImport
      BY <1>6 DEF CleanupSend, NextRound
    <2>2. QED
      BY <2>1 DEF OnlyCheckIns, FirstRound, LoopInv
  <1>7. CASE ProcessorStep
    <2>1. UNCHANGED <<phase, firstImport, lastImport, pending, corrections>>
      BY <1>7 DEF ProcessorStep, importerVars
    <2>2. \A v \in Vehicles : Awaited(v)' => Awaited(v)
      BY <1>7, AwaitedLess DEF ProcessorStep
    <2>3. QED
      BY <2>1, <2>2 DEF OnlyCheckIns, FirstRound
  <1>8. CASE ProcessDies
    <2>1. /\ phase' = "import" /\ corrections' = {} /\ batch' = {} /\ eventChan' = <<>> /\ event' = NoEvent
          /\ \A v \in Vehicles : lastImport'[v] = Absent
      BY <1>8 DEF ProcessDies
    <2>2. \A v \in Vehicles : ~Awaited(v)'
      BY <2>1, NoEventIsNone, NoVehicleAssumption DEF Awaited
    <2>3. QED
      BY <1>0, <2>1, <2>2 DEF OnlyCheckIns
  <1>9. CASE LoseRedis \/ UNCHANGED vars
    <2>1. UNCHANGED <<phase, firstImport, lastImport, pending, corrections, batch, event, eventChan>>
      BY <1>9 DEF LoseRedis, vars, processorVars, importerVars
    <2>2. \A v : Awaited(v)' => Awaited(v)
      BY <2>1 DEF Awaited
    <2>3. QED
      BY <2>1, <2>2 DEF OnlyCheckIns, FirstRound
  <1>10. QED
    BY <1>1, <1>2, <1>3, <1>4, <1>5, <1>6, <1>7, <1>8, <1>9
       DEF Next, LoopStep, Restart, ForeignKeyPanic, AlertPanic

LEMMA InitOnlyCheckIns == Init => OnlyCheckIns
  BY NoEventIsNone, NoVehicleAssumption
     DEF Init, ProcessorInit, OnlyCheckIns, FirstRound, Awaited, Present, Absent

(* Without the cleanup at night, and whatever fails: no event of a vehicle  *)
(* that is to be corrected is still being processed.                       *)
THEOREM CorrectionsAreOfSettledVehicles ==
    ASSUME ~NightlyCleanup
    PROVE  Spec => []CorrectionsAreSettled
  <1>1. TypeOK /\ LoopInv /\ OnlyCheckIns => CorrectionsAreSettled
    <2>1. ASSUME TypeOK, LoopInv, OnlyCheckIns, NEW s \in corrections
          PROVE  ~Awaited(Head(s).vehicle)
      <3>1. s \in Strands
        BY <2>1 DEF TypeOK
      <3>2. QED
        BY <2>1, <3>1, StrandHead DEF OnlyCheckIns, FirstRound, LoopInv
    <2>2. QED
      BY <2>1 DEF Awaited, CorrectionsAreSettled
  <1>2. TypeOK /\ RegularInv /\ LoopInv /\ OnlyCheckIns /\ [Next]_vars => OnlyCheckIns'
    BY NextOnlyCheckIns
  <1>3. QED
    BY <1>1, <1>2, InitOnlyCheckIns, TypeCorrect, AlwaysRegular, AlwaysInTheLoop, PTL DEF Spec

-----------------------------------------------------------------------------
(* The handlers. Whichever runs, its statements come in the order of this  *)
(* relation, which tells from the next statement what has been done.       *)
Follows(kind, s, t) ==
    \/ s = "EndParkEvent" /\ t = "EndNonOperationalEvent" /\ kind # "non_operational_change"
    \/ s = "EndNonOperationalEvent" /\ t = "StartParkEvent"
       /\ kind \in {"check_in_after_reboot", "vehicle_moved"}
    \/ s = "EndNonOperationalEvent" /\ t = "StartTrip" /\ kind = "check_out"
    \/ s = "EndNonOperationalEvent" /\ t = "LPush"
       /\ kind \in {"correcting_check_out", "non_operational_change"}
    \/ s = "StartParkEvent" /\ t \in {"StartNonOperationalEvent", "LPush"}
       /\ kind \in {"check_in", "check_in_after_reboot", "vehicle_moved"}
    \/ s = "StartNonOperationalEvent" /\ t = "LPush" /\ StageOf(kind) = "parked"
    \/ s = "UpdateLocationParkEvent" /\ t = "LPush" /\ StageOf(kind) = "parked"
    \/ s = "ResetEndParkEvent" /\ t \in {"CancelEndNonOperationalEvent", "CancelTrip"}
       /\ kind = "cancel"
    \/ s = "CancelEndNonOperationalEvent" /\ t = "CancelTrip" /\ kind = "cancel"
    \/ s = "CancelTrip" /\ t = "LPush" /\ kind = "cancel"
    \/ s = "EndTrip" /\ t = "StartParkEvent" /\ kind = "check_in"
    \/ s = "StartTrip" /\ t = "LPush" /\ kind = "check_out"

Ordered(kind, statements) ==
    \A i \in DOMAIN statements :
        IF i = Len(statements) THEN statements[i] = "LPush"
                               ELSE Follows(kind, statements[i], statements[i + 1])

PlanInv == /\ plan = <<>> <=> event = NoEvent
           /\ Ordered(event.kind, plan)
           /\ Writing => event.time # 0

(* A list of statements for an event of this kind that begins with s. *)
Runs(kind, statements, s) ==
    /\ statements \in Seq(Statements) /\ statements # <<>>
    /\ Ordered(kind, statements)
    /\ Head(statements) = s

LEMMA LastStatement == \A kind : Runs(kind, <<"LPush">>, "LPush")
  BY DEF Runs, Ordered, Statements

LEMMA StatementBefore ==
    ASSUME NEW kind, NEW p, NEW t, Runs(kind, p, t),
           NEW s \in Statements, Follows(kind, s, t)
    PROVE  Runs(kind, <<s>> \o p, s)
  <1>1. PICK q : q = <<s>> \o p
    OBVIOUS
  <1>2. p \in Seq(Statements) /\ Len(p) \in Nat /\ Len(p) >= 1 /\ p[1] = t
    BY DEF Runs
  <1>3. /\ q \in Seq(Statements) /\ q # <<>> /\ Len(q) = Len(p) + 1 /\ q[1] = s /\ Head(q) = s
        /\ \A i \in 2..Len(q) : q[i] = p[i - 1]
    BY <1>1, <1>2
  <1>4. ASSUME NEW i \in 1..Len(q)
        PROVE  IF i = Len(q) THEN q[i] = "LPush" ELSE Follows(kind, q[i], q[i + 1])
    <2>1. CASE i = 1
      BY <1>2, <1>3, <2>1
    <2>2. CASE i # 1
      <3>1. i - 1 \in DOMAIN p /\ q[i] = p[i - 1]
        BY <1>2, <1>3, <2>2
      <3>2. CASE i = Len(q)
        BY <1>2, <1>3, <3>1, <3>2 DEF Runs, Ordered
      <3>3. CASE i # Len(q)
        <4>1. q[i + 1] = p[(i - 1) + 1] /\ i - 1 # Len(p)
          BY <1>2, <1>3, <2>2, <3>3
        <4>2. QED
          BY <3>1, <3>3, <4>1 DEF Runs, Ordered
      <3>4. QED
        BY <3>2, <3>3
    <2>3. QED
      BY <2>1, <2>2
  <1>5. DOMAIN q = 1..Len(q)
    BY <1>3
  <1>6. Ordered(kind, q)
    BY <1>4, <1>5 DEF Ordered
  <1>7. QED
    BY <1>1, <1>3, <1>6 DEF Runs

LEMMA Regrouped ==
    ASSUME NEW a \in Seq(Statements), NEW b \in Seq(Statements), NEW c \in Seq(Statements)
    PROVE  (a \o b) \o c = a \o (b \o c)
  OBVIOUS

(* The lists of the handlers. *)
LEMMA HandlerPlans ==
    ASSUME NEW e \in Events
    PROVE  /\ \A kind : Runs(kind, <<>> \o <<"LPush">>, "LPush")
           /\ \A kind \in {"check_in", "check_in_after_reboot", "vehicle_moved"} :
                 Runs(kind, StartPark(e) \o <<"LPush">>, "StartParkEvent")
           /\ Runs("check_in", (<<"EndTrip">> \o StartPark(e)) \o <<"LPush">>, "EndTrip")
           /\ \A kind \in {"check_in_after_reboot", "vehicle_moved"} :
                 /\ Runs(kind, (EndPark \o StartPark(e)) \o <<"LPush">>, "EndParkEvent")
                 /\ Runs(kind, <<"UpdateLocationParkEvent">> \o <<"LPush">>, "UpdateLocationParkEvent")
           /\ Runs("check_out", (EndPark \o <<"StartTrip">>) \o <<"LPush">>, "EndParkEvent")
           /\ Runs("correcting_check_out", EndPark \o <<"LPush">>, "EndParkEvent")
           /\ \A s \in {"StartNonOperationalEvent", "EndNonOperationalEvent"} :
                 Runs("non_operational_change", <<s>> \o <<"LPush">>, s)
  <1>1. \A s \in Statements : <<s>> \in Seq(Statements)
    BY OneStatement
  <1>2. /\ "EndParkEvent" \in Statements /\ "EndNonOperationalEvent" \in Statements
        /\ "StartParkEvent" \in Statements /\ "StartNonOperationalEvent" \in Statements
        /\ "UpdateLocationParkEvent" \in Statements /\ "StartTrip" \in Statements
        /\ "EndTrip" \in Statements /\ "LPush" \in Statements
    BY DEF Statements
  <1>3. ASSUME NEW kind, NEW a \in Statements, NEW b \in Statements, NEW p, NEW t,
               Runs(kind, p, t), Follows(kind, b, t), Follows(kind, a, b)
        PROVE  Runs(kind, (<<a>> \o <<b>>) \o p, a)
    <2>1. Runs(kind, <<a>> \o (<<b>> \o p), a)
      BY <1>3, StatementBefore
    <2>2. PICK x \in Seq(Statements), y \in Seq(Statements) : x = <<a>> /\ y = <<b>>
      BY <1>1
    <2>3. (x \o y) \o p = x \o (y \o p)
      BY <1>3, Regrouped DEF Runs
    <2>4. QED
      BY <2>1, <2>2, <2>3
  <1>4. EndPark = <<"EndParkEvent">> \o <<"EndNonOperationalEvent">>
    BY DEF EndPark
  <1>5. /\ <<>> \o <<"LPush">> = <<"LPush">>
        /\ <<"StartParkEvent">> \o <<>> = <<"StartParkEvent">>
    OBVIOUS
  <1>6. ASSUME NEW kind \in {"check_in", "check_in_after_reboot", "vehicle_moved"}
        PROVE  Runs(kind, StartPark(e) \o <<"LPush">>, "StartParkEvent")
    <2>1. CASE e.disabled
      BY <1>2, <1>3, <2>1, LastStatement DEF StartPark, Follows, StageOf
    <2>2. CASE ~e.disabled
      BY <1>2, <1>5, <2>2, LastStatement, StatementBefore DEF StartPark, Follows, StageOf
    <2>3. QED
      BY <2>1, <2>2
  <1>7. StartPark(e) \in Seq(Statements) /\ EndPark \in Seq(Statements)
    BY StartParkType, EndParkType
  <1>8. Runs("check_in", (<<"EndTrip">> \o StartPark(e)) \o <<"LPush">>, "EndTrip")
    <2>1. Runs("check_in", <<"EndTrip">> \o (StartPark(e) \o <<"LPush">>), "EndTrip")
      BY <1>2, <1>6, StatementBefore DEF Follows
    <2>2. PICK x \in Seq(Statements), y \in Seq(Statements) : x = <<"EndTrip">> /\ y = <<"LPush">>
      BY <1>1, <1>2
    <2>3. (x \o StartPark(e)) \o y = x \o (StartPark(e) \o y)
      BY <1>7, Regrouped
    <2>4. QED
      BY <2>1, <2>2, <2>3
  <1>9. ASSUME NEW kind, NEW p \in Seq(Statements), NEW t,
               Runs(kind, p \o <<"LPush">>, t), Follows(kind, "EndNonOperationalEvent", t),
               kind # "non_operational_change"
        PROVE  Runs(kind, (EndPark \o p) \o <<"LPush">>, "EndParkEvent")
    <2>1. Runs(kind, EndPark \o (p \o <<"LPush">>), "EndParkEvent")
      BY <1>2, <1>3, <1>4, <1>9 DEF Follows
    <2>2. PICK y \in Seq(Statements) : y = <<"LPush">>
      BY <1>1, <1>2
    <2>3. (EndPark \o p) \o y = EndPark \o (p \o y)
      BY <1>7, <1>9, Regrouped
    <2>4. QED
      BY <2>1, <2>2, <2>3
  <1>10. ASSUME NEW kind \in {"check_in_after_reboot", "vehicle_moved"}
         PROVE  /\ Runs(kind, (EndPark \o StartPark(e)) \o <<"LPush">>, "EndParkEvent")
                /\ Runs(kind, <<"UpdateLocationParkEvent">> \o <<"LPush">>, "UpdateLocationParkEvent")
    <2>1. Runs(kind, (EndPark \o StartPark(e)) \o <<"LPush">>, "EndParkEvent")
      BY <1>6, <1>7, <1>9 DEF Follows
    <2>2. Runs(kind, <<"UpdateLocationParkEvent">> \o <<"LPush">>, "UpdateLocationParkEvent")
      BY <1>2, LastStatement, StatementBefore DEF Follows, StageOf
    <2>3. QED
      BY <2>1, <2>2
  <1>11. Runs("check_out", (EndPark \o <<"StartTrip">>) \o <<"LPush">>, "EndParkEvent")
    <2>1. Runs("check_out", <<"StartTrip">> \o <<"LPush">>, "StartTrip")
      BY <1>2, LastStatement, StatementBefore DEF Follows
    <2>2. QED
      BY <1>1, <1>2, <1>9, <2>1 DEF Follows
  <1>12. Runs("correcting_check_out", EndPark \o <<"LPush">>, "EndParkEvent")
    BY <1>2, <1>3, <1>4, LastStatement DEF Follows
  <1>13. \A s \in {"StartNonOperationalEvent", "EndNonOperationalEvent"} :
            Runs("non_operational_change", <<s>> \o <<"LPush">>, s)
    BY <1>2, LastStatement, StatementBefore DEF Follows, StageOf
  <1>14. QED
    BY <1>5, <1>6, <1>8, <1>10, <1>11, <1>12, <1>13, LastStatement

(* The list of resetTrip, with a park event to reopen and without one. *)
Reset(park, disabled) ==
    (IF park = 0 THEN <<>> ELSE
       <<"ResetEndParkEvent">> \o
       (IF disabled THEN <<"CancelEndNonOperationalEvent">> ELSE <<>>))
    \o <<"CancelTrip">>

LEMMA ResetPlans ==
    ASSUME NEW park, NEW disabled
    PROVE  Runs("cancel", Reset(park, disabled) \o <<"LPush">>,
                IF park = 0 THEN "CancelTrip" ELSE "ResetEndParkEvent")
  <1>1. /\ "ResetEndParkEvent" \in Statements /\ "CancelEndNonOperationalEvent" \in Statements
        /\ "CancelTrip" \in Statements /\ "LPush" \in Statements
    BY DEF Statements
  <1>2. \A s \in Statements : <<s>> \in Seq(Statements)
    BY OneStatement
  <1>3. Runs("cancel", <<"CancelTrip">> \o <<"LPush">>, "CancelTrip")
    BY <1>1, LastStatement, StatementBefore DEF Follows
  <1>4. CASE park = 0
    <2>1. <<>> \o <<"CancelTrip">> = <<"CancelTrip">>
      OBVIOUS
    <2>2. QED
      BY <1>3, <1>4, <2>1 DEF Reset
  <1>5. CASE park # 0 /\ ~disabled
    <2>1. <<"ResetEndParkEvent">> \o <<>> = <<"ResetEndParkEvent">>
      OBVIOUS
    <2>2. Runs("cancel", <<"ResetEndParkEvent">> \o (<<"CancelTrip">> \o <<"LPush">>), "ResetEndParkEvent")
      BY <1>1, <1>3, StatementBefore DEF Follows
    <2>3. PICK x \in Seq(Statements), y \in Seq(Statements), z \in Seq(Statements) :
             x = <<"ResetEndParkEvent">> /\ y = <<"CancelTrip">> /\ z = <<"LPush">>
      BY <1>1, <1>2
    <2>4. (x \o y) \o z = x \o (y \o z)
      BY Regrouped
    <2>5. QED
      BY <1>5, <2>1, <2>2, <2>3, <2>4 DEF Reset
  <1>6. CASE park # 0 /\ disabled
    <2>1. PICK r \in Seq(Statements), n \in Seq(Statements), c \in Seq(Statements), l \in Seq(Statements) :
             /\ r = <<"ResetEndParkEvent">> /\ n = <<"CancelEndNonOperationalEvent">>
             /\ c = <<"CancelTrip">> /\ l = <<"LPush">>
      BY <1>1, <1>2
    <2>2. Runs("cancel", n \o (c \o l), "CancelEndNonOperationalEvent")
      BY <1>1, <1>3, <2>1, StatementBefore DEF Follows
    <2>3. Runs("cancel", r \o (n \o (c \o l)), "ResetEndParkEvent")
      BY <1>1, <2>1, <2>2, StatementBefore DEF Follows
    <2>4. (r \o n) \in Seq(Statements) /\ (c \o l) \in Seq(Statements)
      OBVIOUS
    <2>5. ((r \o n) \o c) \o l = (r \o n) \o (c \o l)
      BY <2>4, Regrouped
    <2>6. (r \o n) \o (c \o l) = r \o (n \o (c \o l))
      BY <2>4, Regrouped
    <2>7. QED
      BY <1>6, <2>1, <2>3, <2>5, <2>6 DEF Reset
  <1>7. QED
    BY <1>4, <1>5, <1>6

(* What a handler makes of its event, and with which statement it begins. *)
Goes(e, kind, s, park, trip) ==
    /\ event' \in Events /\ event'.kind = kind
    /\ event'.vehicle = e.vehicle /\ event'.pos = e.pos
    /\ event'.park = park /\ event'.trip = trip
    /\ Runs(kind, plan', s)

Handled(e, last) ==
    \/ /\ e.kind \in {"check_in", "vehicle_moved"} /\ last # NoEvent
       /\ e.kind = "check_in" => last.kind # "check_out"
       /\ ~(Distance(e.pos, last.pos) > 500 * Metre)
       /\ event' = NoEvent /\ plan' = <<>>
    \/ /\ e.kind = "check_in" /\ last = NoEvent
       /\ \/ Goes(e, "check_in", "StartParkEvent", e.park, e.trip)
          \/ \E i \in GetLastParkEvent(e.vehicle) : Goes(e, "check_in", "LPush", i, e.trip)
    \/ /\ e.kind = "check_in" /\ last.kind = "check_out"
       /\ \/ Goes(e, "cancel", IF last.park = 0 THEN "CancelTrip" ELSE "ResetEndParkEvent",
                  last.park, last.trip)
          \/ Goes(e, "check_in", "EndTrip", last.park, last.trip)
    \/ \E kind \in {"check_in_after_reboot", "vehicle_moved"} :
       /\ IF kind = "vehicle_moved" THEN e.kind = "vehicle_moved"
                                    ELSE e.kind = "check_in" /\ last.kind # "check_out"
       /\ last # NoEvent
       /\ \/ Goes(e, kind, "EndParkEvent", last.park, e.trip)
          \/ /\ Goes(e, kind, "UpdateLocationParkEvent", last.park, e.trip)
             /\ Distance(e.pos, last.pos) < 500 * Metre
    \/ /\ e.kind = "check_out" /\ last # NoEvent
       /\ Goes(e, "check_out", "EndParkEvent", last.park, e.trip)
    \/ /\ e.kind = "correcting_check_out"
       /\ Goes(e, "correcting_check_out", "EndParkEvent", e.park, e.trip)
    \/ /\ e.kind = "non_operational_change" /\ last # NoEvent
       /\ \E s \in {"StartNonOperationalEvent", "EndNonOperationalEvent"} :
             Goes(e, "non_operational_change", s, last.park, e.trip)
    \/ /\ e.kind \in {"check_out", "vehicle_moved", "non_operational_change"} /\ last = NoEvent
       /\ Goes(e, e.kind, "LPush", e.park, e.trip)

LEMMA HandlerOutcomes ==
    ASSUME TypeOK, NEW e \in Events, NEW last \in Events \cup {NoEvent}, Handle(e, last)
    PROVE  Handled(e, last)
  <1>1. last.park \in Nat /\ last.trip \in Nat
    BY NoEventIsNone DEF Events
  <1>2. ASSUME NEW kind \in Kinds, NEW s, NEW x, NEW statements,
               x \in Events, x.kind = kind, x.vehicle = e.vehicle, x.pos = e.pos,
               Execute(x, statements), Runs(kind, statements \o <<"LPush">>, s)
        PROVE  Goes(e, kind, s, x.park, x.trip)
    BY <1>2 DEF Execute, Goes
  <1>3. ASSUME NEW x \in Events, NEW n \in Nat
        PROVE  /\ [x EXCEPT !.park = n] \in Events
               /\ [x EXCEPT !.park = n].kind = x.kind
               /\ [x EXCEPT !.park = n].vehicle = x.vehicle
               /\ [x EXCEPT !.park = n].pos = x.pos
               /\ [x EXCEPT !.park = n].park = n
               /\ [x EXCEPT !.park = n].trip = x.trip
    BY DEF Events
  <1>4. ASSUME NEW kind \in {"check_in_after_reboot", "vehicle_moved"}, NEW x \in Events,
               x.kind = kind, x.vehicle = e.vehicle, x.pos = e.pos, x.trip = e.trip,
               x.disabled = e.disabled, MoveByDistance(x, last)
        PROVE  \/ Goes(e, kind, "EndParkEvent", last.park, e.trip)
               \/ /\ Goes(e, kind, "UpdateLocationParkEvent", last.park, e.trip)
                  /\ Distance(e.pos, last.pos) < 500 * Metre
               \/ /\ ~(Distance(e.pos, last.pos) > 500 * Metre)
                  /\ event' = NoEvent /\ plan' = <<>>
    <2>1. kind \in Kinds
      BY DEF Kinds
    <2>2. PICK y : y = [x EXCEPT !.park = last.park]
      OBVIOUS
    <2>a. /\ y \in Events
          /\ y.kind = kind /\ y.vehicle = e.vehicle /\ y.pos = e.pos
          /\ y.park = last.park /\ y.trip = e.trip
      BY <2>2, <1>1, <1>3, <1>4
    <2>3. CASE Execute(y, EndPark \o StartPark(x))
      BY <1>2, <2>1, <2>2, <2>a, <2>3, HandlerPlans
    <2>4. CASE /\ Execute(y, <<"UpdateLocationParkEvent">>)
               /\ Distance(e.pos, last.pos) < 500 * Metre
      BY <1>2, <2>1, <2>2, <2>a, <2>4, HandlerPlans
    <2>5. CASE Ignore /\ ~(Distance(e.pos, last.pos) > 500 * Metre)
      BY <2>5 DEF Ignore
    <2>6. QED
      BY <1>4, <2>2, <2>a, <2>3, <2>4, <2>5 DEF MoveByDistance
  <1>a. CASE FirstCheckIn(e, last)
    <2>1. CASE Execute(e, StartPark(e))
      BY <1>a, <1>2, <2>1, HandlerPlans DEF FirstCheckIn, Kinds, Handled
    <2>2. ASSUME NEW i \in GetLastParkEvent(e.vehicle),
                 Execute([e EXCEPT !.park = i, !.time = 0], <<>>)
          PROVE  Goes(e, "check_in", "LPush", i, e.trip)
      <3>1. i \in Nat
        BY DEF GetLastParkEvent, OpenParks, TypeOK, ProcessorTypeOK
      <3>2. PICK y : y = [e EXCEPT !.park = i, !.time = 0]
        OBVIOUS
      <3>3. /\ y \in Events /\ y.kind = e.kind /\ y.vehicle = e.vehicle /\ y.pos = e.pos
            /\ y.park = i /\ y.trip = e.trip
        BY <3>1, <3>2 DEF Events
      <3>4. Execute(y, <<>>) /\ y.kind = "check_in" /\ "check_in" \in Kinds
        BY <1>a, <2>2, <3>2, <3>3 DEF FirstCheckIn, Kinds
      <3>5. Goes(e, "check_in", "LPush", y.park, y.trip)
        BY <1>2, <3>3, <3>4, HandlerPlans
      <3>6. QED
        BY <3>3, <3>5
    <2>3. QED
      BY <1>a, <2>1, <2>2 DEF FirstCheckIn, Handled
  <1>b. CASE ResetTrip(e, last)
    <2>1. PICK y : y = [e EXCEPT !.kind = "cancel", !.park = last.park, !.trip = last.trip]
      OBVIOUS
    <2>2. /\ y \in Events /\ y.kind = "cancel" /\ y.vehicle = e.vehicle /\ y.pos = e.pos
          /\ y.park = last.park /\ y.trip = last.trip
      BY <1>1, <2>1 DEF Events, Kinds
    <2>3. Execute(y, Reset(last.park, last.disabled))
      BY <1>b, <2>1 DEF ResetTrip, Reset
    <2>4. Goes(e, "cancel", IF last.park = 0 THEN "CancelTrip" ELSE "ResetEndParkEvent",
               last.park, last.trip)
      BY <1>2, <2>2, <2>3, ResetPlans DEF Kinds
    <2>5. QED
      BY <1>b, <2>4 DEF ResetTrip, Handled
  <1>c. CASE EndTripAndPark(e, last)
    <2>1. PICK y : y = [e EXCEPT !.park = last.park, !.trip = last.trip]
      OBVIOUS
    <2>2. /\ y \in Events /\ y.kind = e.kind /\ y.vehicle = e.vehicle /\ y.pos = e.pos
          /\ y.park = last.park /\ y.trip = last.trip
      BY <1>1, <2>1 DEF Events
    <2>3. Goes(e, "check_in", "EndTrip", last.park, last.trip)
      BY <1>c, <1>2, <2>1, <2>2, HandlerPlans DEF EndTripAndPark, Kinds
    <2>4. QED
      BY <1>c, <2>3 DEF EndTripAndPark, Handled
  <1>d. CASE CheckInAfterReboot(e, last)
    <2>1. PICK x : x = [e EXCEPT !.kind = "check_in_after_reboot"]
      OBVIOUS
    <2>2. /\ x \in Events /\ x.kind = "check_in_after_reboot" /\ x.vehicle = e.vehicle
          /\ x.pos = e.pos /\ x.trip = e.trip /\ x.disabled = e.disabled
      BY <2>1 DEF Events, Kinds
    <2>3. MoveByDistance(x, last)
      BY <1>d, <2>1 DEF CheckInAfterReboot
    <2>4. QED
      BY <1>d, <1>4, <2>2, <2>3 DEF CheckInAfterReboot, Handled
  <1>e. CASE VehicleMoved(e, last)
    BY <1>e, <1>4 DEF VehicleMoved, Handled
  <1>5. PICK y : y = [e EXCEPT !.park = last.park]
    OBVIOUS
  <1>6. /\ y \in Events /\ y.kind = e.kind /\ y.vehicle = e.vehicle /\ y.pos = e.pos
        /\ y.park = last.park /\ y.trip = e.trip
    BY <1>1, <1>3, <1>5
  <1>f. CASE CheckOut(e, last)
    <2>1. Goes(e, "check_out", "EndParkEvent", last.park, e.trip)
      BY <1>f, <1>2, <1>5, <1>6, HandlerPlans DEF CheckOut, Kinds
    <2>2. QED
      BY <1>f, <2>1 DEF CheckOut, Handled
  <1>g. CASE CorrectingCheckOut(e)
    <2>1. Goes(e, "correcting_check_out", "EndParkEvent", e.park, e.trip)
      BY <1>g, <1>2, HandlerPlans DEF CorrectingCheckOut, Kinds
    <2>2. QED
      BY <1>g, <2>1 DEF CorrectingCheckOut, Handled
  <1>h. CASE NonOperationalChange(e, last)
    <2>1. PICK s \in {"StartNonOperationalEvent", "EndNonOperationalEvent"} : Execute(y, <<s>>)
      BY <1>h, <1>5 DEF NonOperationalChange
    <2>2. Goes(e, "non_operational_change", s, last.park, e.trip)
      BY <1>h, <1>2, <1>6, <2>1, HandlerPlans DEF NonOperationalChange, Kinds
    <2>3. QED
      BY <1>h, <2>2 DEF NonOperationalChange, Handled
  <1>i. CASE NothingToGoOn(e, last)
    <2>1. Goes(e, e.kind, "LPush", e.park, e.trip)
      BY <1>i, <1>2, HandlerPlans DEF NothingToGoOn, Kinds
    <2>2. QED
      BY <1>i, <2>1 DEF NothingToGoOn, Handled
  <1>j. QED
    BY <1>a, <1>b, <1>c, <1>d, <1>e, <1>f, <1>g, <1>h, <1>i DEF Handle

(* Whatever a handler does, it is one of these. *)
LEMMA HandledPlan ==
    ASSUME NEW e, NEW last, Handled(e, last)
    PROVE  \/ event' = NoEvent /\ plan' = <<>>
           \/ \E kind, s, park, trip : Goes(e, kind, s, park, trip)
  BY Zenon DEF Handled

LEMMA OrderedTail ==
    ASSUME NEW kind, NEW p \in Seq(Statements), p # <<>>, Ordered(kind, p), Head(p) # "LPush"
    PROVE  /\ Tail(p) # <<>> /\ Follows(kind, Head(p), Head(Tail(p)))
           /\ Ordered(kind, Tail(p))
  <1>1. PICK q : q = Tail(p)
    OBVIOUS
  <1>2. /\ Len(p) \in Nat /\ Len(p) >= 1 /\ DOMAIN p = 1..Len(p) /\ Head(p) = p[1]
        /\ q \in Seq(Statements) /\ Len(q) = Len(p) - 1 /\ DOMAIN q = 1..Len(q)
        /\ \A i \in 1..Len(q) : q[i] = p[i + 1]
    BY <1>1
  <1>3. Len(p) # 1 /\ Follows(kind, p[1], p[2])
    BY <1>2 DEF Ordered
  <1>4. q # <<>> /\ Head(q) = p[2]
    BY <1>2, <1>3
  <1>5. ASSUME NEW i \in DOMAIN q
        PROVE  IF i = Len(q) THEN q[i] = "LPush" ELSE Follows(kind, q[i], q[i + 1])
    <2>1. i + 1 \in DOMAIN p /\ q[i] = p[i + 1]
      BY <1>2, <1>5
    <2>2. CASE i = Len(q)
      BY <1>2, <2>1, <2>2 DEF Ordered
    <2>3. CASE i # Len(q)
      <3>1. q[i + 1] = p[(i + 1) + 1] /\ i + 1 # Len(p)
        BY <1>2, <1>5, <2>3
      <3>2. QED
        BY <2>1, <2>3, <3>1 DEF Ordered
    <2>4. QED
      BY <2>2, <2>3
  <1>6. QED
    BY <1>1, <1>2, <1>3, <1>4, <1>5 DEF Ordered

(* What a statement makes of the plan. *)
LEMMA StatementPlan ==
    ASSUME TypeOK, PlanInv, StatementStep
    PROVE  \/ plan' = <<>> /\ event' = NoEvent
           \/ /\ plan' = Tail(plan) /\ plan' # <<>> /\ Going(event, event')
              /\ Follows(event.kind, Head(plan), Head(plan'))
              /\ Ordered(event.kind, plan')
  <1>1. CASE plan' = <<>> /\ event' = NoEvent
    BY <1>1
  <1>2. CASE Head(plan) # "LPush" /\ Going(event, event') /\ plan' = Tail(plan)
    <2>1. plan \in Seq(Statements) /\ plan # <<>> /\ Ordered(event.kind, plan)
      BY StatementKeeps DEF PlanInv
    <2>2. QED
      BY <1>2, <2>1, OrderedTail
  <1>3. QED
    BY <1>1, <1>2, StatementKeeps

LEMMA NextPlanInv ==
    ASSUME TypeOK, RegularInv, PlanInv, [Next]_vars
    PROVE  PlanInv'
  <1>1. CASE ProcessEvent
    <2>1. PICK s \in batch : s \in Strands /\ Takes(s)
      BY <1>1, EventTaken
    <2>2. PICK e : e = Head(s)
      OBVIOUS
    <2>3. e \in Events /\ e.vehicle \in Vehicles /\ e.time # 0
      BY <2>1, <2>2, StrandHead DEF RegularInv, Regular
    <2>4. PICK last \in Events \cup {NoEvent} : Handle(e, last)
      BY <2>1, <2>2, <2>3 DEF Takes, TypeOK, ProcessorTypeOK
    <2>5. event'.time = e.time \/ plan' = <<>> \/ plan' = <<"LPush">>
      BY <2>3, <2>4, HandlerTime
    <2>6. \/ event' = NoEvent /\ plan' = <<>>
          \/ event' # NoEvent /\ plan' # <<>> /\ Ordered(event'.kind, plan')
      <3>1. Handled(e, last)
        BY <2>3, <2>4, HandlerOutcomes
      <3>2. ASSUME NEW kind, NEW t, NEW park, NEW trip, Goes(e, kind, t, park, trip)
            PROVE  event' # NoEvent /\ plan' # <<>> /\ Ordered(event'.kind, plan')
        BY <3>2, NoEventIsNone DEF Goes, Runs
      <3>3. QED
        BY <3>1, <3>2, HandledPlan, Zenon
    <2>7. QED
      BY <2>3, <2>5, <2>6 DEF PlanInv, Writing, Ordered
  <1>2. CASE StatementStep
    <2>1. plan' = <<>> /\ event' = NoEvent => PlanInv'
      BY DEF PlanInv, Writing, Ordered
    <2>2. ASSUME plan' = Tail(plan), plan' # <<>>, Going(event, event'), Ordered(event.kind, plan')
          PROVE  PlanInv'
      <3>1. Writing
        <4>1. Tail(<<"LPush">>) = <<>>
          OBVIOUS
        <4>2. QED
          BY <1>2, <2>2, <4>1, StatementKeeps DEF Writing
      <3>2. QED
        BY <2>2, <3>1, NoEventIsNone DEF PlanInv, Going
    <2>3. QED
      BY <1>2, <2>1, <2>2, StatementPlan
  <1>3. CASE ProcessDies
    BY <1>3 DEF ProcessDies, PlanInv, Writing, Ordered
  <1>4. CASE UNCHANGED <<event, plan>>
    BY <1>4 DEF PlanInv, Writing, Ordered
  <1>5. QED
    BY <1>1, <1>2, <1>3, <1>4
       DEF Next, LoopStep, ProcessorStep, ProcessorNext, ReceiveEvents, Restart, ForeignKeyPanic,
           AlertPanic, ImportFeed, ImportNothing, SkipCleanup, StartCleanup, CleanupQuery,
           CleanupSend, LoseRedis, vars, processorVars

-----------------------------------------------------------------------------
(* Nothing fails half-way: the process may restart between two events, but *)
(* not in the middle of one, and Redis keeps what it has.                   *)
Calm == ~CrashMidHandler /\ ~TelegramMayBeMissing /\ MaxRedisLosses = 0

(* The queue. Every batch holds at most one list of events of a vehicle,   *)
(* and each list goes on where the vehicle's last event has left it.       *)
OneEach(events) == \A s, t \in events : Head(s).vehicle = Head(t).vehicle => s = t

QueueInv ==
    /\ OneEach(batch)
    /\ \A k \in DOMAIN eventChan : OneEach(eventChan[k])
    /\ OneEach(corrections)
    /\ \A s \in batch : Head(s).vehicle = event.vehicle => Head(s).kind \in Moves

LastEvent(v) == IF event.vehicle = v THEN event ELSE redis[v]

(* From where the vehicle is before a batch to where it is after it. *)
Through(events, v, b, c) ==
    /\ (\A s \in events : Head(s).vehicle # v) => c = b
    /\ \A s \in events : Head(s).vehicle = v =>
          /\ c = StageOf(Head(s).kind)
          /\ Head(s).kind \in Moves \cup {"check_out"} => b = "parked"

(* The vehicle is in the batch that was sent last. *)
Newest(v) ==
    IF eventChan = <<>> THEN event.vehicle = v \/ \E s \in batch : Head(s).vehicle = v
                        ELSE \E s \in eventChan[Len(eventChan)] : Head(s).vehicle = v

(* After all batches a vehicle is where its feed last showed it, if that    *)
(* feed is still imported. What a feed of this round has sent, it shows:    *)
(* the cleanup sees no feed switched off in the middle of a batch.          *)
LastStage(v, last) ==
    /\ Present(lastImport[v]) => last = "parked"
    /\ pending # feeds /\ Newest(v) /\ last = "parked" => Present(lastImport[v])

Stages == [0..Len(eventChan) -> {"parked", "away"}]

Traces(v, P) ==
    /\ Through(batch, v, StageOf(LastEvent(v).kind), P[0])
    /\ \A k \in DOMAIN eventChan : Through(eventChan[k], v, P[k - 1], P[k])
    /\ LastStage(v, P[Len(eventChan)])

TraceInv == \A v \in Vehicles : \E P \in Stages : Traces(v, P)

(* What a batch before the one with a correction holds of its vehicle: at   *)
(* night a check_out, during the day nothing.                               *)
Away(events, v) ==
    \A s \in events : Head(s).vehicle = v => StageOf(Head(s).kind) = "away" /\ NightlyCleanup

(* A correction names the newest park event of its vehicle, which during    *)
(* the day is parked and has no event of its own being processed.           *)
Corrects(s) == Head(s).kind = "correcting_check_out" =>
    /\ Head(s).park = LastEvent(Head(s).vehicle).park
    /\ event.vehicle = Head(s).vehicle => StageOf(event.kind) = "away" /\ NightlyCleanup
    /\ NightlyCleanup \/ redis[Head(s).vehicle].kind # "check_out"

CorrectionInv ==
    /\ \A s \in batch : Corrects(s)
    /\ \A k \in DOMAIN eventChan : \A s \in eventChan[k] :
          /\ Corrects(s)
          /\ Head(s).kind = "correcting_check_out" =>
                /\ Away(batch, Head(s).vehicle)
                /\ \A j \in 1..(k - 1) : Away(eventChan[j], Head(s).vehicle)
    /\ \A s \in corrections : Corrects(s) /\ Away(batch, Head(s).vehicle)

(* The table park_events: which statement is next tells whether the        *)
(* vehicle's newest park event is open.                                    *)
Closed(v) ==
    IF event.vehicle = v
    THEN \/ Head(plan) \in {"StartParkEvent", "EndTrip", "ResetEndParkEvent", "StartTrip"}
         \/ Head(plan) = "EndNonOperationalEvent" /\ event.kind # "non_operational_change"
         \/ Head(plan) = "LPush" /\ StageOf(event.kind) = "away"
    ELSE StageOf(redis[v].kind) = "away"

Ending(v) == event.vehicle = v /\ Head(plan) = "EndParkEvent"

ParkedAt(v) ==
    /\ \A j \in DOMAIN parkEvents : parkEvents[j].vehicle = v => j <= LastEvent(v).park
    /\ \A j \in OpenParks(v) : j = LastEvent(v).park /\ ~Closed(v)
    /\ ~Closed(v) /\ ~Ending(v) => LastEvent(v).park \in OpenParks(v)
    /\ LastEvent(v).park = 0 =>
          LastEvent(v) = NoEvent \/ (event.vehicle = v /\ Head(plan) = "StartParkEvent")
    /\ LastEvent(v).kind = "correcting_check_out" => LastEvent(v).pos = Nowhere

ParkInv == \A v \in Vehicles : ParkedAt(v)

NonOpInv ==
    \A i \in DOMAIN nonOps :
        /\ nonOps[i].park \in DOMAIN parkEvents
        /\ nonOps[i].end = 0 => \/ parkEvents[nonOps[i].park].end = 0
                                \/ /\ plan # <<>> /\ Head(plan) = "EndNonOperationalEvent"
                                   /\ event.park = nonOps[i].park

(* The rows of a vehicle follow each other. *)
OrderInv ==
    \A i, j \in DOMAIN parkEvents :
        i < j /\ parkEvents[i].vehicle = parkEvents[j].vehicle
        => parkEvents[i].end # 0 /\ parkEvents[i].end <= parkEvents[j].start

CalmInv == /\ TypeOK /\ OwnRows /\ TimesInv /\ RegularInv /\ PlanInv /\ LoopInv
           /\ QueueInv /\ TraceInv /\ CorrectionInv /\ ParkInv /\ NonOpInv /\ OrderInv
           /\ NightlyCleanup \/ OnlyCheckIns

-----------------------------------------------------------------------------
(* What the statements do to the tables, row by row.                       *)
LEMMA ParkRowsKept ==
    ASSUME TypeOK, NEW i \in DOMAIN parkEvents, NEW t \in Nat, NEW p \in Positions \cup {Nowhere}
    PROVE  /\ [parkEvents[i] EXCEPT !.end = t].vehicle = parkEvents[i].vehicle
           /\ [parkEvents[i] EXCEPT !.end = t].start = parkEvents[i].start
           /\ [parkEvents[i] EXCEPT !.end = t].end = t
           /\ [parkEvents[i] EXCEPT !.pos = p].vehicle = parkEvents[i].vehicle
           /\ [parkEvents[i] EXCEPT !.pos = p].start = parkEvents[i].start
           /\ [parkEvents[i] EXCEPT !.pos = p].end = parkEvents[i].end
  <1>1. parkEvents[i] \in ParkRows
    BY TableTypes
  <1>2. /\ [parkEvents[i] EXCEPT !.end = t].vehicle = parkEvents[i].vehicle
        /\ [parkEvents[i] EXCEPT !.pos = p].vehicle = parkEvents[i].vehicle
    BY <1>1 DEF ParkRows
  <1>3. QED
    BY <1>1, <1>2, RowEnds

(* The row that the statement at the head of the plan ends. *)
Ends(i) == /\ Head(plan) = "EndParkEvent"
           /\ IF event.park = 0 THEN i \in OpenParks(event.vehicle) ELSE i = event.park

LEMMA ParkStatements ==
    ASSUME TypeOK, StatementStep
    PROVE  /\ \A i \in DOMAIN parkEvents :
                 /\ i \in DOMAIN parkEvents' /\ parkEvents'[i].vehicle = parkEvents[i].vehicle
                 /\ parkEvents'[i].start = parkEvents[i].start
                 /\ parkEvents'[i].end =
                       IF Ends(i) THEN event.time
                       ELSE IF Head(plan) = "ResetEndParkEvent" /\ i = event.park THEN 0
                       ELSE parkEvents[i].end
           /\ IF Head(plan) = "StartParkEvent"
              THEN /\ DOMAIN parkEvents' = DOMAIN parkEvents \cup {event'.park}
                   /\ event'.park \in Nat \ {0} /\ \A i \in DOMAIN parkEvents : i < event'.park
                   /\ parkEvents'[event'.park].vehicle = event.vehicle
                   /\ parkEvents'[event'.park].start = event.time
                   /\ parkEvents'[event'.park].end = 0
              ELSE /\ DOMAIN parkEvents' = DOMAIN parkEvents
                   /\ Head(plan) # "LPush" => event'.park = event.park
  <1>1. event \in Events /\ event.time \in Nat /\ event.pos \in Positions \cup {Nowhere}
    BY StatementKeeps DEF Events
  <1>e. \A i \in DOMAIN parkEvents :
           /\ [parkEvents[i] EXCEPT !.end = event.time].vehicle = parkEvents[i].vehicle
           /\ [parkEvents[i] EXCEPT !.end = event.time].start = parkEvents[i].start
           /\ [parkEvents[i] EXCEPT !.end = event.time].end = event.time
           /\ [parkEvents[i] EXCEPT !.end = 0].vehicle = parkEvents[i].vehicle
           /\ [parkEvents[i] EXCEPT !.end = 0].start = parkEvents[i].start
           /\ [parkEvents[i] EXCEPT !.end = 0].end = 0
           /\ [parkEvents[i] EXCEPT !.pos = event.pos].vehicle = parkEvents[i].vehicle
           /\ [parkEvents[i] EXCEPT !.pos = event.pos].start = parkEvents[i].start
           /\ [parkEvents[i] EXCEPT !.pos = event.pos].end = parkEvents[i].end
    BY <1>1, ParkRowsKept
  <1>2. CASE StartParkEvent
    <2>1. PICK row \in ParkRows : /\ parkEvents' = Append(parkEvents, row)
                                  /\ row.vehicle = event.vehicle
                                  /\ row.start = event.time /\ row.end = 0
      BY <1>1, <1>2 DEF StartParkEvent, ParkRows, Events
    <2>2. parkEvents \in Seq(ParkRows)
      BY TableTypes
    <2>3. event'.park = Len(parkEvents) + 1 /\ Head(plan) = "StartParkEvent"
      <3>1. PICK n \in Nat : n = Len(parkEvents) + 1
        BY <2>2
      <3>2. QED
        BY <1>1, <1>2, <3>1 DEF StartParkEvent, Statement, Events
    <2>4. QED
      BY <2>1, <2>2, <2>3 DEF Ends
  <1>3. CASE EndParkEvent
    <2>1. /\ Head(plan) = "EndParkEvent" /\ DOMAIN parkEvents' = DOMAIN parkEvents /\ event' = event
          /\ \A i \in DOMAIN parkEvents :
                parkEvents'[i] = IF Ends(i) THEN [parkEvents[i] EXCEPT !.end = event.time] ELSE parkEvents[i]
      BY <1>3 DEF EndParkEvent, Statement, Ends
    <2>2. QED
      BY <1>e, <2>1
  <1>4. CASE UpdateLocationParkEvent
    <2>1. /\ Head(plan) = "UpdateLocationParkEvent"
          /\ DOMAIN parkEvents' = DOMAIN parkEvents /\ event' = event
          /\ \A i \in DOMAIN parkEvents :
                parkEvents'[i] \in {[parkEvents[i] EXCEPT !.pos = event.pos], parkEvents[i]}
      BY <1>4 DEF UpdateLocationParkEvent, Statement
    <2>2. QED
      BY <1>e, <2>1 DEF Ends
  <1>5. CASE ResetEndParkEvent
    <2>1. /\ Head(plan) = "ResetEndParkEvent"
          /\ DOMAIN parkEvents' = DOMAIN parkEvents /\ event' = event
          /\ \A i \in DOMAIN parkEvents :
                parkEvents'[i] = IF i = event.park THEN [parkEvents[i] EXCEPT !.end = 0] ELSE parkEvents[i]
      BY <1>5 DEF ResetEndParkEvent, Statement
    <2>2. QED
      BY <1>e, <2>1 DEF Ends
  <1>6. CASE /\ UNCHANGED parkEvents
             /\ Head(plan) \notin {"StartParkEvent", "EndParkEvent", "ResetEndParkEvent"}
             /\ Head(plan) = "LPush" \/ event' = event
                \/ event' \in {[event EXCEPT !.trip = 0], [event EXCEPT !.trip = Len(trips) + 1]}
    BY <1>1, <1>6 DEF Ends, Events
  <1>7. CASE \/ StartNonOperationalEvent \/ EndNonOperationalEvent \/ CancelEndNonOperationalEvent
             \/ StartTrip \/ EndTrip \/ CancelTrip \/ LPush
    BY <1>6, <1>7 DEF StartNonOperationalEvent, EndNonOperationalEvent, CancelEndNonOperationalEvent,
       StartTrip, EndTrip, CancelTrip, LPush, Statement
  <1>8. QED
    BY <1>2, <1>3, <1>4, <1>5, <1>7 DEF StatementStep

LEMMA NonOpStatements ==
    ASSUME TypeOK, StatementStep
    PROVE  /\ \A i \in DOMAIN nonOps :
                 /\ i \in DOMAIN nonOps' /\ nonOps'[i].park = nonOps[i].park
                 /\ \/ nonOps'[i].end = nonOps[i].end
                    \/ Head(plan) = "EndNonOperationalEvent" /\ nonOps'[i].end = event.time
                    \/ Head(plan) = "CancelEndNonOperationalEvent" /\ nonOps[i].park = event.park
                 /\ /\ Head(plan) = "EndNonOperationalEvent"
                    /\ nonOps[i].park = event.park /\ event.park # 0 /\ nonOps[i].end = 0
                    => nonOps'[i].end = event.time
           /\ \A i \in DOMAIN nonOps' \ DOMAIN nonOps :
                 /\ Head(plan) = "StartNonOperationalEvent"
                 /\ nonOps'[i].park = event.park /\ event.park \in DOMAIN parkEvents
  <1>1. event \in Events /\ event.time \in Nat /\ event.park \in Nat
    BY StatementKeeps DEF Events
  <1>2. /\ nonOps \in Seq(NonOpRows)
        /\ \A i \in DOMAIN nonOps :
              /\ [nonOps[i] EXCEPT !.end = event.time].park = nonOps[i].park
              /\ [nonOps[i] EXCEPT !.end = event.time].end = event.time
              /\ [nonOps[i] EXCEPT !.end = 0].park = nonOps[i].park
    <2>1. \A i \in DOMAIN nonOps : nonOps[i] \in NonOpRows
      BY TableTypes
    <2>2. \A r \in NonOpRows, t \in Nat : [r EXCEPT !.end = t].park = r.park /\ [r EXCEPT !.end = t].end = t
      BY DEF NonOpRows
    <2>3. QED
      BY <1>1, <2>1, <2>2, TableTypes
  <1>3. CASE StartNonOperationalEvent
    <2>1. PICK row \in NonOpRows : nonOps' = Append(nonOps, row) /\ row.park = event.park
      BY <1>1, <1>3 DEF StartNonOperationalEvent, NonOpRows
    <2>2. Head(plan) = "StartNonOperationalEvent" /\ event.park \in DOMAIN parkEvents
      BY <1>3 DEF StartNonOperationalEvent, Statement
    <2>3. QED
      BY <1>2, <2>1, <2>2
  <1>4. CASE EndNonOperationalEvent
    <2>1. /\ Head(plan) = "EndNonOperationalEvent" /\ DOMAIN nonOps' = DOMAIN nonOps
          /\ \A i \in DOMAIN nonOps :
                nonOps'[i] = IF event.park # 0 /\ i \in OpenNonOps(event.park)
                             THEN [nonOps[i] EXCEPT !.end = event.time] ELSE nonOps[i]
      BY <1>4 DEF EndNonOperationalEvent, Statement
    <2>2. QED
      BY <1>1, <1>2, <2>1 DEF OpenNonOps
  <1>5. CASE CancelEndNonOperationalEvent
    <2>1. /\ Head(plan) = "CancelEndNonOperationalEvent" /\ DOMAIN nonOps' = DOMAIN nonOps
          /\ \A i \in DOMAIN nonOps :
                \/ nonOps'[i] = nonOps[i]
                \/ nonOps[i].park = event.park /\ nonOps'[i] = [nonOps[i] EXCEPT !.end = 0]
      BY <1>5 DEF CancelEndNonOperationalEvent, Statement
    <2>2. QED
      BY <1>2, <2>1
  <1>6. CASE UNCHANGED nonOps /\ Head(plan) # "EndNonOperationalEvent"
    BY <1>6
  <1>7. CASE \/ StartParkEvent \/ EndParkEvent \/ UpdateLocationParkEvent \/ ResetEndParkEvent
             \/ StartTrip \/ EndTrip \/ CancelTrip \/ LPush
    BY <1>6, <1>7 DEF StartParkEvent, EndParkEvent, UpdateLocationParkEvent, ResetEndParkEvent,
       StartTrip, EndTrip, CancelTrip, LPush, Statement
  <1>8. QED
    BY <1>3, <1>4, <1>5, <1>7 DEF StatementStep

-----------------------------------------------------------------------------
(* What a handler may rely on when nothing fails half-way.                 *)
LEMMA NoHandlerRuns ==
    ASSUME TypeOK, PlanInv, plan = <<>>
    PROVE  /\ event = NoEvent
           /\ \A v \in Vehicles : event.vehicle # v /\ LastEvent(v) = redis[v] /\ ~Ending(v)
           /\ \A v \in Vehicles : Closed(v) <=> StageOf(redis[v].kind) = "away"
  BY NoEventIsNone, NoVehicleAssumption DEF PlanInv, LastEvent, Closed, Ending

Expected(e, last) ==
    /\ e \in Events /\ last \in Events \cup {NoEvent}
    /\ e.kind \in Moves \cup {"check_in", "check_out", "correcting_check_out"}
    /\ e.kind \in Moves \cup {"check_out"} => StageOf(last.kind) = "parked"
    /\ e.kind = "check_in" => e.park = 0 /\ e.pos \in Positions
    /\ e.kind = "correcting_check_out" => e.park # 0 /\ e.park = last.park /\ e.pos = Nowhere
    /\ last.kind = "correcting_check_out" => last.pos = Nowhere
    /\ last = NoEvent => OpenParks(e.vehicle) = {}

LEMMA HeadIsExpected ==
    ASSUME CalmInv, plan = <<>>, NEW s \in batch
    PROVE  Expected(Head(s), redis[Head(s).vehicle])
  <1>1. s \in Strands /\ Head(s) \in Events /\ Head(s).vehicle \in Vehicles
    BY StrandHead DEF CalmInv, TypeOK, ProcessorTypeOK
  <1>2. PICK e \in Events, v \in Vehicles : e = Head(s) /\ v = Head(s).vehicle
    BY <1>1
  <1>3. redis[v] \in Events \cup {NoEvent}
    BY DEF CalmInv, TypeOK, ProcessorTypeOK
  <1>4. Regular(s) /\ Corrects(s)
    BY DEF CalmInv, RegularInv, CorrectionInv
  <1>5. LastEvent(v) = redis[v] /\ (Closed(v) <=> StageOf(redis[v].kind) = "away")
    BY NoHandlerRuns DEF CalmInv
  <1>6. /\ e.kind \in Moves \cup {"check_in", "check_out", "correcting_check_out"}
        /\ e.kind = "check_in" => e.park = 0 /\ e.pos \in Positions
        /\ e.kind = "correcting_check_out" => e.park # 0 /\ e.pos = Nowhere
    <2>1. 1 \in DOMAIN s /\ Head(s) = s[1]
      BY <1>1, StrandHead
    <2>2. QED
      BY <1>2, <1>4, <2>1 DEF Regular, Moves
  <1>7. e.kind \in Moves \cup {"check_out"} => StageOf(redis[v].kind) = "parked"
    <2>1. PICK P \in Stages : Traces(v, P)
      BY DEF CalmInv, TraceInv
    <2>2. Through(batch, v, StageOf(redis[v].kind), P[0])
      BY <1>5, <2>1 DEF Traces
    <2>3. QED
      BY <1>2, <2>2 DEF Through
  <1>8. ParkedAt(v)
    BY DEF CalmInv, ParkInv
  <1>9. redis[v].kind = "correcting_check_out" => redis[v].pos = Nowhere
    BY <1>5, <1>8 DEF ParkedAt
  <1>10. redis[v] = NoEvent => OpenParks(v) = {}
    BY <1>5, <1>8, NoEventIsNone DEF ParkedAt, StageOf
  <1>11. e.kind = "correcting_check_out" => e.park = redis[v].park
    BY <1>2, <1>4, <1>5 DEF Corrects
  <1>12. QED
    BY <1>2, <1>3, <1>6, <1>7, <1>9, <1>10, <1>11 DEF Expected

Outcome(e, last) ==
    \/ /\ event' = NoEvent /\ plan' = <<>>
       /\ StageOf(e.kind) = "parked" /\ StageOf(last.kind) = "parked"
    \/ /\ event' \in Events /\ event'.vehicle = e.vehicle /\ StageOf(event'.kind) = StageOf(e.kind)
       /\ event'.kind = "correcting_check_out" => event'.pos = Nowhere
       /\ plan' # <<>>
       /\ \/ Head(plan') = "StartParkEvent" /\ last = NoEvent /\ event'.park = 0
          \/ /\ last # NoEvent /\ event'.park = last.park
             /\ \/ /\ last.kind = "check_out" /\ event'.trip = last.trip
                   /\ Head(plan') \in {"EndTrip", "CancelTrip", "ResetEndParkEvent"}
                   /\ Head(plan') = "CancelTrip" => last.park = 0
                \/ /\ Head(plan') = "EndParkEvent"
                   /\ last.kind = "check_out" => e.kind = "correcting_check_out"
                \/ /\ StageOf(last.kind) = "parked"
                   /\ \/ Head(plan') \in {"UpdateLocationParkEvent", "StartNonOperationalEvent"}
                      \/ /\ Head(plan') = "EndNonOperationalEvent"
                         /\ event'.kind = "non_operational_change"

LEMMA FarFromNowhere == \A p \in Positions : Distance(p, Nowhere) > 500 * Metre
  BY PositionAssumption DEF Distance, Nowhere, Metre

LEMMA HandlerOutcome ==
    ASSUME TypeOK, NEW e, NEW last, Expected(e, last), Handle(e, last)
    PROVE  Outcome(e, last)
  <1>0. /\ e \in Events /\ last \in Events \cup {NoEvent}
        /\ e.kind \in Moves \cup {"check_in", "check_out", "correcting_check_out"}
        /\ e.kind \in Moves \cup {"check_out"} => StageOf(last.kind) = "parked"
        /\ e.kind = "check_in" => e.park = 0 /\ e.pos \in Positions
        /\ e.kind = "correcting_check_out" => e.park # 0 /\ e.park = last.park /\ e.pos = Nowhere
        /\ last.kind = "correcting_check_out" => last.pos = Nowhere
        /\ last = NoEvent => OpenParks(e.vehicle) = {}
    BY DEF Expected
  <1>1. /\ last = NoEvent <=> last.kind = "none"
        /\ last = NoEvent => last.park = 0
    BY <1>0, NoEventIsNone DEF Events, Kinds
  <1>2. /\ last.kind \in {"check_out", "correcting_check_out"} \/ last = NoEvent
           \/ StageOf(last.kind) = "parked"
        /\ StageOf(last.kind) = "parked" => last.kind # "check_out" /\ last # NoEvent
    BY <1>1 DEF StageOf
  <1>3. e.kind = "check_in" /\ last.kind = "correcting_check_out" => Distance(e.pos, last.pos) > 500 * Metre
    BY <1>0, FarFromNowhere
  <1>4. ASSUME NEW kind, NEW s, NEW park, NEW trip, Goes(e, kind, s, park, trip),
               StageOf(kind) = StageOf(e.kind),
               kind = "correcting_check_out" => e.kind = "correcting_check_out",
               \/ s = "StartParkEvent" /\ last = NoEvent /\ park = 0
               \/ /\ last # NoEvent /\ park = last.park
                  /\ \/ /\ last.kind = "check_out" /\ trip = last.trip
                        /\ s \in {"EndTrip", "CancelTrip", "ResetEndParkEvent"}
                        /\ s = "CancelTrip" => last.park = 0
                     \/ s = "EndParkEvent" /\ (last.kind = "check_out" => e.kind = "correcting_check_out")
                     \/ /\ StageOf(last.kind) = "parked"
                        /\ \/ s \in {"UpdateLocationParkEvent", "StartNonOperationalEvent"}
                           \/ s = "EndNonOperationalEvent" /\ kind = "non_operational_change"
        PROVE  Outcome(e, last)
    <2>1. /\ event' \in Events /\ event'.kind = kind /\ event'.vehicle = e.vehicle /\ event'.pos = e.pos
          /\ event'.park = park /\ event'.trip = trip
          /\ plan' # <<>> /\ Head(plan') = s
      BY <1>4 DEF Goes, Runs
    <2>2. QED
      BY <1>0, <1>4, <2>1 DEF Outcome
  <1>5. Handled(e, last)
    BY <1>0, HandlerOutcomes
  <1> USE DEF StageOf, Moves
  <1>6. CASE /\ e.kind \in {"check_in", "vehicle_moved"} /\ last # NoEvent
             /\ e.kind = "check_in" => last.kind # "check_out"
             /\ ~(Distance(e.pos, last.pos) > 500 * Metre)
             /\ event' = NoEvent /\ plan' = <<>>
    <2>1. StageOf(last.kind) = "parked"
      BY <1>0, <1>2, <1>3, <1>6
    <2>2. QED
      BY <1>6, <2>1 DEF Outcome
  <1>7. CASE /\ e.kind = "check_in" /\ last = NoEvent
             /\ \/ Goes(e, "check_in", "StartParkEvent", e.park, e.trip)
                \/ \E i \in GetLastParkEvent(e.vehicle) : Goes(e, "check_in", "LPush", i, e.trip)
    <2>1. GetLastParkEvent(e.vehicle) = {}
      BY <1>0, <1>7 DEF GetLastParkEvent
    <2>2. QED
      BY <1>0, <1>4, <1>7, <2>1
  <1>8. CASE /\ e.kind = "check_in" /\ last.kind = "check_out"
             /\ \/ Goes(e, "cancel", IF last.park = 0 THEN "CancelTrip" ELSE "ResetEndParkEvent",
                        last.park, last.trip)
                \/ Goes(e, "check_in", "EndTrip", last.park, last.trip)
    BY <1>1, <1>4, <1>8
  <1>9. ASSUME NEW kind \in {"check_in_after_reboot", "vehicle_moved"},
               IF kind = "vehicle_moved" THEN e.kind = "vehicle_moved"
                                         ELSE e.kind = "check_in" /\ last.kind # "check_out",
               last # NoEvent,
               \/ Goes(e, kind, "EndParkEvent", last.park, e.trip)
               \/ /\ Goes(e, kind, "UpdateLocationParkEvent", last.park, e.trip)
                  /\ Distance(e.pos, last.pos) < 500 * Metre
        PROVE  Outcome(e, last)
    <2>1. e.kind \in {"check_in", "vehicle_moved"} /\ last.kind # "check_out"
      BY <1>0, <1>2, <1>9
    <2>2. ASSUME Distance(e.pos, last.pos) < 500 * Metre
          PROVE  StageOf(last.kind) = "parked"
      <3>1. ~(Distance(e.pos, last.pos) > 500 * Metre)
        <4>1. e.pos \in Int /\ last.pos \in Int
          <5>1. \A x \in Events : x.pos \in Int
            <6>1. \A p \in Positions \cup {Nowhere} : p \in Int
              BY PositionAssumption DEF Nowhere
            <6>2. \A x \in Events : x.pos \in Positions \cup {Nowhere}
              BY DEF Events
            <6>3. QED
              BY <6>1, <6>2
          <5>2. NoEvent.pos = 0
            BY DEF NoEvent, NewEvent, Absent, Nowhere
          <5>3. QED
            BY <1>0, <5>1, <5>2
        <4>2. QED
          BY <2>2, <4>1 DEF Distance, Metre
      <3>2. QED
        BY <1>0, <1>2, <1>3, <1>9, <2>1, <3>1
    <2>3. QED
      BY <1>4, <1>9, <2>1, <2>2
  <1>10. CASE /\ e.kind = "check_out" /\ last # NoEvent
              /\ Goes(e, "check_out", "EndParkEvent", last.park, e.trip)
    BY <1>0, <1>2, <1>4, <1>10
  <1>11. CASE /\ e.kind = "correcting_check_out"
              /\ Goes(e, "correcting_check_out", "EndParkEvent", e.park, e.trip)
    BY <1>0, <1>1, <1>4, <1>11
  <1>12. CASE /\ e.kind = "non_operational_change" /\ last # NoEvent
              /\ \E s \in {"StartNonOperationalEvent", "EndNonOperationalEvent"} :
                    Goes(e, "non_operational_change", s, last.park, e.trip)
    BY <1>0, <1>4, <1>12
  <1>13. CASE /\ e.kind \in {"check_out", "vehicle_moved", "non_operational_change"} /\ last = NoEvent
              /\ Goes(e, e.kind, "LPush", e.park, e.trip)
    BY <1>0, <1>2, <1>13
  <1>14. CASE \E kind \in {"check_in_after_reboot", "vehicle_moved"} :
                 /\ IF kind = "vehicle_moved" THEN e.kind = "vehicle_moved"
                                              ELSE e.kind = "check_in" /\ last.kind # "check_out"
                 /\ last # NoEvent
                 /\ \/ Goes(e, kind, "EndParkEvent", last.park, e.trip)
                    \/ /\ Goes(e, kind, "UpdateLocationParkEvent", last.park, e.trip)
                       /\ Distance(e.pos, last.pos) < 500 * Metre
    BY <1>9, <1>14, Zenon
  <1>15. QED
    BY <1>5, <1>6, <1>7, <1>8, <1>10, <1>11, <1>12, <1>13, <1>14, Zenon DEF Handled

LEMMA EventHandled ==
    ASSUME CalmInv, ProcessEvent
    PROVE  /\ UNCHANGED <<parkEvents, trips, nonOps, redis, eventChan>> /\ plan = <<>>
           /\ \E s \in batch : /\ s \in Strands /\ Takes(s) /\ Head(s).vehicle \in Vehicles
                               /\ Expected(Head(s), redis[Head(s).vehicle])
                               /\ Outcome(Head(s), redis[Head(s).vehicle])
  <1>1. TypeOK
    BY DEF CalmInv
  <1>2. PICK s \in batch : s \in Strands /\ Takes(s)
    BY <1>1, EventTaken
  <1>3. UNCHANGED <<parkEvents, trips, nonOps, redis, eventChan>> /\ plan = <<>>
    BY <1>1, EventTaken
  <1>4. Expected(Head(s), redis[Head(s).vehicle])
    BY <1>3, HeadIsExpected
  <1>5. Outcome(Head(s), redis[Head(s).vehicle])
    BY <1>1, <1>2, <1>4, HandlerOutcome DEF Takes
  <1>6. QED
    BY <1>2, <1>3, <1>4, <1>5, StrandHead

(* No step but those of the processor changes the tables or the handler.   *)
LEMMA CalmSteps ==
    ASSUME Calm, CalmInv, [Next]_vars
    PROVE  \/ ProcessEvent /\ UNCHANGED <<importerVars, now>>
           \/ StatementStep /\ UNCHANGED <<importerVars, now>>
           \/ UNCHANGED <<parkEvents, trips, nonOps, redis, event, plan>>
  <1>1. TypeOK /\ PlanInv /\ ParkInv
    BY DEF CalmInv
  <1>2. CASE Restart
    <2>1. plan = <<>> /\ ProcessDies
      BY <1>2 DEF Restart, Calm, Idle
    <2>2. event = NoEvent
      BY <1>1, <2>1, NoHandlerRuns
    <2>3. QED
      BY <2>1, <2>2 DEF ProcessDies
  <1>3. ~ForeignKeyPanic
    <2> SUFFICES ASSUME ForeignKeyPanic PROVE FALSE
      OBVIOUS
    <2>1. plan # <<>> /\ Head(plan) = "StartNonOperationalEvent" /\ event.park \notin DOMAIN parkEvents
      BY DEF ForeignKeyPanic
    <2>2. event.vehicle \in Vehicles
      BY <1>1, <2>1 DEF TypeOK, ProcessorTypeOK, Events
    <2>3. PICK v \in Vehicles : v = event.vehicle
      BY <2>2
    <2>4. ~Closed(v) /\ ~Ending(v) /\ LastEvent(v) = event
      BY <2>1, <2>3 DEF Closed, Ending, LastEvent
    <2>5. event.park \in OpenParks(v)
      BY <1>1, <2>4 DEF ParkInv, ParkedAt
    <2>6. QED
      BY <2>1, <2>5 DEF OpenParks
  <1>4. ~AlertPanic
    BY DEF AlertPanic, Calm
  <1>5. ~LoseRedis
    BY <1>1 DEF LoseRedis, Calm, TypeOK
  <1>6. QED
    BY <1>2, <1>3, <1>4, <1>5
       DEF Next, LoopStep, ProcessorStep, ProcessorNext, ReceiveEvents, ImportFeed, ImportNothing,
           SkipCleanup, StartCleanup, CleanupQuery, CleanupSend, vars, processorVars

(* The other vehicles keep their rows and their last event.                *)
LEMMA OtherVehicles ==
    ASSUME TypeOK, OwnRows, StatementStep, NEW v \in Vehicles, event.vehicle # v
    PROVE  /\ \A j \in DOMAIN parkEvents : parkEvents[j].vehicle = v => parkEvents'[j].end = parkEvents[j].end
           /\ \A j \in DOMAIN parkEvents' : parkEvents'[j].vehicle = v => j \in DOMAIN parkEvents
           /\ OpenParks(v)' = OpenParks(v)
           /\ event'.vehicle # v /\ redis'[v] = redis[v]
           /\ \A e : LastEvent(v) = e => LastEvent(v)' = e
           /\ Closed(v)' <=> Closed(v)
           /\ ~Ending(v) /\ ~Ending(v)'
  <1>1. /\ Owns(parkEvents, trips, event) /\ event.vehicle # v /\ v # NoVehicle
    BY NoVehicleAssumption DEF OwnRows
  <1>2. \A j \in DOMAIN parkEvents : /\ j \in DOMAIN parkEvents' /\ parkEvents'[j].vehicle = parkEvents[j].vehicle
                                     /\ parkEvents[j].vehicle = v => parkEvents'[j].end = parkEvents[j].end
    <2>1. \A j \in DOMAIN parkEvents : parkEvents[j].vehicle = v => ~Ends(j) /\ (j = event.park => j = 0)
      BY <1>1 DEF Owns, Ends, OpenParks
    <2>2. 0 \notin DOMAIN parkEvents
      BY TableTypes
    <2>3. QED
      BY <2>1, <2>2, ParkStatements
  <1>3. \A j \in DOMAIN parkEvents' : parkEvents'[j].vehicle = v => j \in DOMAIN parkEvents
    BY <1>1, ParkStatements
  <1>4. OpenParks(v)' = OpenParks(v)
    BY <1>2, <1>3 DEF OpenParks
  <1>5. event'.vehicle # v /\ redis'[v] = redis[v]
    BY <1>1, StatementKeeps, NoEventIsNone DEF Going
  <1>6. QED
    BY <1>1, <1>2, <1>3, <1>4, <1>5 DEF LastEvent, Closed, Ending

(* The statements of one vehicle, on its park events. *)
LEMMA StatementsPark ==
    ASSUME CalmInv, StatementStep, NEW v \in Vehicles, event.vehicle = v
    PROVE  ParkedAt(v)'
  <1>1. TypeOK /\ OwnRows /\ PlanInv /\ ParkedAt(v) /\ v # NoVehicle
    BY NoVehicleAssumption DEF CalmInv, ParkInv
  <1>2. LastEvent(v) = event /\ event \in Events /\ plan # <<>> /\ event.park \in Nat /\ event # NoEvent
    BY <1>1, StatementKeeps, NoEventIsNone DEF LastEvent, Events
  <1>3. /\ \A j \in DOMAIN parkEvents : parkEvents[j].vehicle = v => j <= event.park
        /\ \A j \in DOMAIN parkEvents :
              parkEvents[j].vehicle = v /\ parkEvents[j].end = 0 => j = event.park /\ ~Closed(v)
        /\ ~Closed(v) /\ ~Ending(v) =>
              /\ event.park \in DOMAIN parkEvents
              /\ parkEvents[event.park].vehicle = v /\ parkEvents[event.park].end = 0
        /\ event.park = 0 => Head(plan) = "StartParkEvent"
        /\ event.kind = "correcting_check_out" => event.pos = Nowhere
    BY <1>1, <1>2 DEF ParkedAt, OpenParks
  <1>4. event.park # 0 => event.park \in DOMAIN parkEvents /\ parkEvents[event.park].vehicle = v
    BY <1>1 DEF OwnRows, Owns
  <1>5. /\ \A i \in DOMAIN parkEvents :
              /\ i \in DOMAIN parkEvents' /\ parkEvents'[i].vehicle = parkEvents[i].vehicle
              /\ parkEvents'[i].end =
                    IF Head(plan) = "EndParkEvent" /\ i = event.park THEN event.time
                    ELSE IF Head(plan) = "ResetEndParkEvent" /\ i = event.park THEN 0
                    ELSE parkEvents[i].end
        /\ IF Head(plan) = "StartParkEvent"
           THEN /\ DOMAIN parkEvents' = DOMAIN parkEvents \cup {event'.park}
                /\ event'.park \in Nat \ {0} /\ \A i \in DOMAIN parkEvents : i < event'.park
                /\ parkEvents'[event'.park].vehicle = v
                /\ parkEvents'[event'.park].end = 0
           ELSE /\ DOMAIN parkEvents' = DOMAIN parkEvents
                /\ Head(plan) # "LPush" => event'.park = event.park
    BY <1>1, <1>3, ParkStatements DEF Ends
  <1>6. Closed(v) <=> \/ Head(plan) \in {"StartParkEvent", "EndTrip", "ResetEndParkEvent", "StartTrip"}
                      \/ Head(plan) = "EndNonOperationalEvent" /\ event.kind # "non_operational_change"
                      \/ Head(plan) = "LPush" /\ StageOf(event.kind) = "away"
    BY DEF Closed
  <1>7. Ending(v) <=> Head(plan) = "EndParkEvent"
    BY DEF Ending
  <1>8. \A i \in DOMAIN parkEvents : i \in Nat \ {0}
    BY <1>1, TableTypes
  <1>9. CASE LPush
    <2>1. /\ Head(plan) = "LPush" /\ event' = NoEvent /\ redis'[v] = event /\ UNCHANGED parkEvents
      BY <1>9 DEF LPush, CalmInv, TypeOK, ProcessorTypeOK
    <2>2. LastEvent(v)' = event /\ (Closed(v)' <=> Closed(v)) /\ ~Ending(v)'
      BY <1>1, <1>6, <2>1, NoEventIsNone DEF LastEvent, Closed, Ending
    <2>3. OpenParks(v)' = OpenParks(v)
      BY <2>1 DEF OpenParks
    <2>4. QED
      BY <1>1, <1>2, <1>3, <1>7, <2>1, <2>2, <2>3 DEF ParkedAt
  <1>10. CASE ~LPush
    <2>1. /\ Going(event, event') /\ Follows(event.kind, Head(plan), Head(plan')) /\ Head(plan) # "LPush"
      BY <1>1, <1>10, StatementKeeps, StatementPlan, NoEventIsNone DEF Going
    <2>2. /\ event'.vehicle = v /\ LastEvent(v)' = event' /\ event'.kind = event.kind
          /\ event'.pos = event.pos /\ event' # NoEvent
      BY <2>1, NoEventIsNone DEF Going, LastEvent
    <2>3. /\ Closed(v)' <=> \/ Head(plan') \in {"StartParkEvent", "EndTrip", "ResetEndParkEvent", "StartTrip"}
                            \/ Head(plan') = "EndNonOperationalEvent" /\ event.kind # "non_operational_change"
                            \/ Head(plan') = "LPush" /\ StageOf(event.kind) = "away"
          /\ Ending(v)' <=> Head(plan') = "EndParkEvent"
      BY <2>2 DEF Closed, Ending
    <2>4. event.time # 0 \/ Head(plan) # "EndParkEvent"
      BY <1>1, <1>2 DEF PlanInv, Writing
    <2>5. OpenParks(v)' = {j \in DOMAIN parkEvents' : parkEvents'[j].vehicle = v /\ parkEvents'[j].end = 0}
      BY DEF OpenParks
    <2>6. CASE Head(plan) = "StartParkEvent"
      <3>1. ~Closed(v)' /\ ~Ending(v)' /\ Closed(v)
        BY <1>6, <2>1, <2>3, <2>6 DEF Follows, StageOf
      <3>2. \A j \in DOMAIN parkEvents' : parkEvents'[j].vehicle = v /\ parkEvents'[j].end = 0 => j = event'.park
        BY <1>3, <1>5, <2>6, <3>1
      <3>3. QED
        BY <1>3, <1>5, <1>8, <2>2, <2>5, <2>6, <3>1, <3>2 DEF ParkedAt
    <2>7. CASE Head(plan) = "EndParkEvent"
      <3>1. Closed(v)' /\ event.park # 0
        BY <1>3, <2>1, <2>3, <2>7 DEF Follows
      <3>2. OpenParks(v)' = {}
        BY <1>3, <1>5, <2>4, <2>5, <2>7
      <3>3. QED
        BY <1>3, <1>5, <2>2, <2>7, <3>1, <3>2 DEF ParkedAt
    <2>8. CASE Head(plan) = "ResetEndParkEvent"
      <3>1. ~Closed(v)' /\ Closed(v) /\ event.park # 0
        BY <1>3, <1>6, <2>1, <2>3, <2>8 DEF Follows
      <3>2. OpenParks(v)' = {event.park}
        BY <1>3, <1>4, <1>5, <2>5, <2>8, <3>1
      <3>3. QED
        BY <1>3, <1>5, <2>2, <2>8, <3>1, <3>2 DEF ParkedAt
    <2>9. CASE Head(plan) \notin {"StartParkEvent", "EndParkEvent", "ResetEndParkEvent"}
      <3>1. Closed(v)' <=> Closed(v)
        BY <1>6, <2>1, <2>3, <2>9 DEF Follows, StageOf
      <3>2. /\ ~Ending(v) /\ ~Ending(v)' /\ event.park # 0 /\ event'.park = event.park
            /\ OpenParks(v)' = OpenParks(v)
        BY <1>3, <1>5, <1>7, <2>1, <2>3, <2>5, <2>9 DEF Follows, OpenParks
      <3>3. QED
        BY <1>2, <1>3, <1>5, <2>2, <2>9, <3>1, <3>2 DEF ParkedAt, OpenParks
    <2>10. QED
      BY <2>6, <2>7, <2>8, <2>9
  <1>11. QED
    BY <1>9, <1>10

LEMMA StatementParks ==
    ASSUME CalmInv, StatementStep
    PROVE  ParkInv'
  <1>1. TypeOK /\ OwnRows
    BY DEF CalmInv
  <1>2. ASSUME NEW v \in Vehicles, event.vehicle # v
        PROVE  ParkedAt(v)'
    <2>1. PICK e : e = LastEvent(v)
      OBVIOUS
    <2>2. LastEvent(v)' = e
      BY <1>1, <1>2, <2>1, OtherVehicles
    <2>3. \A j \in DOMAIN parkEvents' :
             parkEvents'[j].vehicle = v => j \in DOMAIN parkEvents /\ parkEvents[j].vehicle = v
      BY <1>1, <1>2, OtherVehicles, ParkStatements
    <2>4. QED
      BY <1>1, <1>2, <2>1, <2>2, <2>3, OtherVehicles DEF ParkedAt, CalmInv, ParkInv
  <1>3. QED
    BY <1>2, StatementsPark DEF ParkInv

LEMMA HandlerParks ==
    ASSUME CalmInv, ProcessEvent
    PROVE  ParkInv'
  <1>1. PICK s \in batch : /\ s \in Strands /\ Takes(s) /\ Head(s).vehicle \in Vehicles
                           /\ Expected(Head(s), redis[Head(s).vehicle])
                           /\ Outcome(Head(s), redis[Head(s).vehicle])
    BY EventHandled
  <1>2. PICK e \in Events, w \in Vehicles : e = Head(s) /\ w = Head(s).vehicle
    BY <1>1 DEF Expected
  <1>3. UNCHANGED <<parkEvents, redis>> /\ plan = <<>> /\ event = NoEvent
    BY EventHandled, NoHandlerRuns DEF CalmInv
  <1>4. \A v \in Vehicles : OpenParks(v)' = OpenParks(v)
    BY <1>3 DEF OpenParks
  <1>5. \A v \in Vehicles : /\ LastEvent(v) = redis[v] /\ ~Ending(v)
                            /\ Closed(v) <=> StageOf(redis[v].kind) = "away"
                            /\ event.vehicle # v
    BY <1>3, NoHandlerRuns DEF CalmInv
  <1>6. ASSUME NEW v \in Vehicles
        PROVE  /\ \A j \in DOMAIN parkEvents : parkEvents[j].vehicle = v => j <= redis[v].park
               /\ \A j \in OpenParks(v) : j = redis[v].park /\ StageOf(redis[v].kind) # "away"
               /\ StageOf(redis[v].kind) # "away" => redis[v].park \in OpenParks(v)
               /\ redis[v].park = 0 => redis[v] = NoEvent
               /\ redis[v].kind = "correcting_check_out" => redis[v].pos = Nowhere
    BY <1>3, <1>5 DEF CalmInv, ParkInv, ParkedAt
  <1>7. ASSUME NEW v \in Vehicles, event'.vehicle # v
        PROVE  ParkedAt(v)'
    <2>1. LastEvent(v)' = redis[v] /\ ~Ending(v)' /\ (Closed(v)' <=> StageOf(redis[v].kind) = "away")
      BY <1>3, <1>7 DEF LastEvent, Closed, Ending
    <2>2. QED
      BY <1>3, <1>4, <1>6, <2>1 DEF ParkedAt
  <1>8. ASSUME NEW v \in Vehicles, event'.vehicle = v
        PROVE  ParkedAt(v)'
    <2>1. event' # NoEvent /\ v # NoVehicle
      BY <1>8, NoEventIsNone, NoVehicleAssumption
    <2>2. w = v /\ StageOf(event'.kind) = StageOf(e.kind)
      BY <1>1, <1>2, <1>8, <2>1 DEF Outcome
    <2>3. PICK last : last = redis[v]
      OBVIOUS
    <2>4. Outcome(e, last) /\ Expected(e, last) /\ e.vehicle = v
      BY <1>1, <1>2, <2>2, <2>3
    <2>5. LastEvent(v)' = event'
      BY <1>8 DEF LastEvent
    <2>6. /\ Closed(v)' <=> \/ Head(plan') \in {"StartParkEvent", "EndTrip", "ResetEndParkEvent", "StartTrip"}
                            \/ Head(plan') = "EndNonOperationalEvent" /\ event'.kind # "non_operational_change"
                            \/ Head(plan') = "LPush" /\ StageOf(event'.kind) = "away"
          /\ Ending(v)' <=> Head(plan') = "EndParkEvent"
      BY <1>8 DEF Closed, Ending
    <2>7. event'.kind = "correcting_check_out" => event'.pos = Nowhere
      BY <2>1, <2>4 DEF Outcome
    <2>8. CASE Head(plan') = "StartParkEvent" /\ last = NoEvent /\ event'.park = 0
      <3>1. OpenParks(v) = {} /\ \A j \in DOMAIN parkEvents : parkEvents[j].vehicle = v => j <= event'.park
        BY <1>6, <2>3, <2>4, <2>8, NoEventIsNone DEF Expected
      <3>2. Closed(v)'
        BY <2>6, <2>8
      <3>3. QED
        BY <1>3, <1>4, <1>8, <2>5, <2>7, <2>8, <3>1, <3>2 DEF ParkedAt
    <2>9. CASE last # NoEvent /\ event'.park = last.park
      <3>1. event'.park # 0
        BY <1>6, <2>3, <2>9
      <3>2. /\ \A j \in DOMAIN parkEvents : parkEvents[j].vehicle = v => j <= event'.park
            /\ \A j \in OpenParks(v) : j = event'.park
        BY <1>6, <2>3, <2>9
      <3>3. \/ StageOf(last.kind) = "away" /\ Closed(v)'
            \/ Ending(v)' /\ ~Closed(v)'
            \/ StageOf(last.kind) = "parked" /\ ~Closed(v)'
        BY <1>6, <2>1, <2>3, <2>4, <2>6, <2>9, <3>1 DEF Outcome, StageOf
      <3>4. /\ \A j \in OpenParks(v) : ~Closed(v)'
            /\ ~Closed(v)' /\ ~Ending(v)' => event'.park \in OpenParks(v)
        BY <1>6, <2>3, <2>9, <3>3
      <3>5. QED
        BY <1>3, <1>4, <2>5, <2>7, <3>1, <3>2, <3>4 DEF ParkedAt
    <2>10. QED
      BY <2>1, <2>4, <2>8, <2>9 DEF Outcome
  <1>9. QED
    BY <1>7, <1>8 DEF ParkInv

LEMMA NextParkInv ==
    ASSUME Calm, CalmInv, [Next]_vars
    PROVE  ParkInv'
  <1>1. CASE UNCHANGED <<parkEvents, trips, nonOps, redis, event, plan>>
    BY <1>1 DEF CalmInv, ParkInv, ParkedAt, LastEvent, OpenParks, Closed, Ending
  <1>2. QED
    BY <1>1, CalmSteps, StatementParks, HandlerParks

(* What is non-operational is parked. *)
LEMMA NextNonOpInv ==
    ASSUME Calm, CalmInv, [Next]_vars
    PROVE  NonOpInv'
  <1>1. /\ TypeOK /\ OwnRows /\ PlanInv
        /\ \A i \in DOMAIN nonOps :
              /\ nonOps[i].park \in DOMAIN parkEvents
              /\ nonOps[i].end = 0 => \/ parkEvents[nonOps[i].park].end = 0
                                      \/ /\ plan # <<>> /\ Head(plan) = "EndNonOperationalEvent"
                                         /\ event.park = nonOps[i].park
    BY DEF CalmInv, NonOpInv
  <1>2. CASE UNCHANGED <<parkEvents, trips, nonOps, redis, event, plan>>
    BY <1>1, <1>2 DEF NonOpInv
  <1>3. CASE ProcessEvent
    BY <1>1, <1>3, EventHandled DEF NonOpInv
  <1>4. CASE StatementStep
    <2>1. /\ event \in Events /\ plan # <<>> /\ 0 \notin DOMAIN parkEvents
      BY <1>1, <1>4, StatementKeeps, TableTypes
    <2>2. PICK v \in Vehicles : event.vehicle = v
      BY <2>1 DEF Events
    <2>3. ParkedAt(v) /\ LastEvent(v) = event
      BY <2>2 DEF CalmInv, ParkInv, LastEvent
    <2>4. /\ event.park = 0 => Head(plan) = "StartParkEvent"
          /\ Head(plan) \in {"StartNonOperationalEvent", "CancelEndNonOperationalEvent"} =>
                event.park \in DOMAIN parkEvents /\ parkEvents[event.park].end = 0
      BY <2>1, <2>2, <2>3, NoEventIsNone DEF ParkedAt, OpenParks, Closed, Ending
    <2>5. /\ Head(plan) # "LPush" =>
                /\ plan' # <<>> /\ Follows(event.kind, Head(plan), Head(plan'))
                /\ Head(plan) # "StartParkEvent" => event'.park = event.park
          /\ Head(plan) = "EndNonOperationalEvent" => event.time # 0
      <3>1. Head(plan) # "LPush" =>
                /\ plan' # <<>> /\ Follows(event.kind, Head(plan), Head(plan'))
                /\ plan' = Tail(plan)
        BY <1>1, <1>4, StatementKeeps, StatementPlan, NoEventIsNone DEF Going
      <3>2. <<"LPush">> # plan \/ Head(plan) = "LPush"
        OBVIOUS
      <3>3. QED
        BY <1>1, <1>4, <2>1, <3>1, <3>2, ParkStatements DEF PlanInv, Writing
    <2>6. ASSUME NEW i \in DOMAIN nonOps
          PROVE  /\ nonOps'[i].park \in DOMAIN parkEvents'
                 /\ nonOps'[i].end = 0 => \/ parkEvents'[nonOps'[i].park].end = 0
                                          \/ /\ plan' # <<>> /\ Head(plan') = "EndNonOperationalEvent"
                                             /\ event'.park = nonOps'[i].park
      <3>1. PICK p \in DOMAIN parkEvents : p = nonOps[i].park
        BY <1>1
      <3>2. nonOps'[i].park = p /\ p \in DOMAIN parkEvents'
        BY <1>1, <1>4, <3>1, NonOpStatements, ParkStatements
      <3>3. ASSUME nonOps'[i].end = 0, parkEvents[p].end = 0
            PROVE  \/ parkEvents'[p].end = 0
                   \/ plan' # <<>> /\ Head(plan') = "EndNonOperationalEvent" /\ event'.park = p
        <4>1. CASE Head(plan) = "EndParkEvent" /\ p = event.park
          BY <2>5, <4>1 DEF Follows
        <4>2. CASE ~(Head(plan) = "EndParkEvent" /\ p = event.park)
          BY <1>1, <1>4, <2>4, <3>3, <4>2, ParkStatements DEF Ends
        <4>3. QED
          BY <4>1, <4>2
      <3>4. ASSUME nonOps'[i].end = 0
            PROVE  parkEvents[p].end = 0
        BY <1>1, <1>4, <2>1, <2>4, <2>5, <3>1, <3>4, NonOpStatements
      <3>5. QED
        BY <3>2, <3>3, <3>4
    <2>7. ASSUME NEW i \in DOMAIN nonOps' \ DOMAIN nonOps
          PROVE  nonOps'[i].park \in DOMAIN parkEvents' /\ parkEvents'[nonOps'[i].park].end = 0
      BY <1>1, <1>4, <2>4, <2>7, NonOpStatements, ParkStatements DEF Ends
    <2>8. QED
      BY <2>6, <2>7 DEF NonOpInv
  <1>5. QED
    BY <1>2, <1>3, <1>4, CalmSteps

(* The park events of a vehicle stay in order. *)
LEMMA NextOrderInv ==
    ASSUME Calm, CalmInv, [Next]_vars
    PROVE  OrderInv'
  <1>1. /\ TypeOK /\ OwnRows /\ PlanInv /\ TimesInv
        /\ \A i, j \in DOMAIN parkEvents :
              i < j /\ parkEvents[i].vehicle = parkEvents[j].vehicle
              => parkEvents[i].end # 0 /\ parkEvents[i].end <= parkEvents[j].start
    BY DEF CalmInv, OrderInv
  <1>2. CASE UNCHANGED parkEvents
    BY <1>1, <1>2 DEF OrderInv
  <1>3. CASE StatementStep
    <2>1. event \in Events /\ plan # <<>>
      BY <1>1, <1>3, StatementKeeps
    <2>2. PICK v \in Vehicles : event.vehicle = v
      BY <2>1 DEF Events
    <2>3. ParkedAt(v) /\ LastEvent(v) = event
      BY <2>2 DEF CalmInv, ParkInv, LastEvent
    <2>4. /\ \A j \in DOMAIN parkEvents : parkEvents[j].vehicle = v => j <= event.park
          /\ Head(plan) = "EndParkEvent" => event.park # 0
          /\ Head(plan) = "StartParkEvent" => \A j \in DOMAIN parkEvents :
                parkEvents[j].vehicle = v => parkEvents[j].end # 0
      BY <2>1, <2>2, <2>3, NoEventIsNone DEF ParkedAt, OpenParks, Closed
    <2>5. event.park # 0 => event.park \in DOMAIN parkEvents /\ parkEvents[event.park].vehicle = v
      BY <1>1, <2>2 DEF OwnRows, Owns
    <2>6. Head(plan) = "StartParkEvent" => \A j \in DOMAIN parkEvents : parkEvents[j].end <= event.time
      <3>1. ASSUME Head(plan) = "StartParkEvent"
            PROVE  Writing
        <4>1. Head(<<"LPush">>) = "LPush"
          OBVIOUS
        <4>2. QED
          BY <2>1, <3>1, <4>1 DEF Writing
      <3>2. QED
        BY <1>1, <3>1 DEF TimesInv, HandlerInTime, RowsWithin, Within
    <2>7. \A j \in DOMAIN parkEvents : j \in Nat \ {0}
      BY <1>1, TableTypes
    <2>8. event.park \in Nat
      BY <2>1 DEF Events
    <2>9. ASSUME NEW i \in DOMAIN parkEvents', NEW j \in DOMAIN parkEvents',
                 i < j, parkEvents'[i].vehicle = parkEvents'[j].vehicle
          PROVE  parkEvents'[i].end # 0 /\ parkEvents'[i].end <= parkEvents'[j].start
      <3>1. CASE i \in DOMAIN parkEvents /\ j \in DOMAIN parkEvents
        <4>1. /\ parkEvents[i].end # 0 /\ parkEvents[i].end <= parkEvents[j].start
              /\ parkEvents'[j].start = parkEvents[j].start
          BY <1>1, <1>3, <2>9, <3>1, ParkStatements
        <4>2. i # event.park
          BY <1>1, <1>3, <2>4, <2>5, <2>7, <2>8, <2>9, <3>1, ParkStatements
        <4>3. parkEvents'[i].end = parkEvents[i].end
          BY <1>1, <1>3, <2>4, <3>1, <4>2, ParkStatements DEF Ends
        <4>4. QED
          BY <4>1, <4>3
      <3>2. CASE j \notin DOMAIN parkEvents
        <4>1. /\ Head(plan) = "StartParkEvent" /\ j = event'.park
              /\ parkEvents'[j].vehicle = v /\ parkEvents'[j].start = event.time
              /\ i \in DOMAIN parkEvents
          BY <1>1, <1>3, <2>2, <2>9, <3>2, ParkStatements
        <4>2. parkEvents[i].vehicle = v /\ parkEvents'[i].end = parkEvents[i].end
          BY <1>1, <1>3, <2>9, <4>1, ParkStatements DEF Ends
        <4>3. QED
          BY <2>4, <2>6, <4>1, <4>2
      <3>3. CASE i \notin DOMAIN parkEvents /\ j \in DOMAIN parkEvents
        BY <1>1, <1>3, <2>7, <2>9, <3>3, ParkStatements
      <3>4. QED
        BY <3>1, <3>2, <3>3
    <2>10. QED
      BY <2>9 DEF OrderInv
  <1>4. CASE ProcessEvent
    BY <1>2, <1>4, EventHandled
  <1>5. QED
    BY <1>2, <1>3, <1>4, CalmSteps

-----------------------------------------------------------------------------
(* The queue. *)

(* What the cleanup finds: the newest park event of a vehicle that is on   *)
(* its way out, if anything is on its way.                                 *)
LEMMA CorrectionsFound ==
    ASSUME Calm, CalmInv, CleanupQuery, NEW s \in corrections'
    PROVE  /\ Head(s).kind = "correcting_check_out" /\ Head(s).vehicle \in Vehicles
           /\ s = <<CorrectingEvent(LastEvent(Head(s).vehicle).park)>>
           /\ Head(s).park = LastEvent(Head(s).vehicle).park
           /\ Away(batch, Head(s).vehicle)
           /\ event.vehicle = Head(s).vehicle => StageOf(event.kind) = "away" /\ NightlyCleanup
           /\ NightlyCleanup \/ redis[Head(s).vehicle].kind # "check_out"
  <1>1. TypeOK /\ RegularInv /\ LoopInv
    BY DEF CalmInv
  <1>2. PICK i \in StaleParks : s = <<CorrectingEvent(i)>>
    BY DEF CleanupQuery
  <1>3. PICK v \in Vehicles : v = parkEvents[i].vehicle
    BY <1>1, CorrectionStrand DEF RegularInv
  <1>4. /\ Head(s).kind = "correcting_check_out" /\ Head(s).vehicle = v /\ Head(s).park = i
        /\ i \in OpenParks(v) /\ ~Present(lastImport[v])
    BY <1>1, <1>2, <1>3, CorrectionStrand DEF RegularInv
  <1>5. i = LastEvent(v).park
    BY <1>4 DEF CalmInv, ParkInv, ParkedAt
  <1>6. phase = "wait" /\ eventChan = <<>> /\ Len(eventChan) = 0
    BY DEF CleanupQuery
  <1>7. PICK P \in Stages : Traces(v, P)
    BY DEF CalmInv, TraceInv
  <1>8. P[0] \in {"parked", "away"} /\ Through(batch, v, StageOf(LastEvent(v).kind), P[0]) /\ LastStage(v, P[0])
    BY <1>6, <1>7 DEF Stages, Traces
  <1>9. Awaited(v) => P[0] = "away"
    <2>1. pending = {} /\ feeds # {}
      BY <1>1, <1>2, <1>6 DEF LoopInv, StaleParks, TypeOK
    <2>2. Awaited(v) => Newest(v)
      BY <1>6 DEF Awaited, Newest
    <2>3. QED
      BY <1>4, <1>8, <2>1, <2>2 DEF LastStage
  <1>a. ~NightlyCleanup => ~Awaited(v)
    BY <1>4, <1>6 DEF CalmInv, OnlyCheckIns, FirstRound
  <1>b. NightlyCleanup \/ redis[v].kind # "check_out"
    <2>1. ASSUME ~Awaited(v)
          PROVE  redis[v].kind # "check_out"
      <3>1. ~Closed(v)
        BY <1>4 DEF CalmInv, ParkInv, ParkedAt
      <3>2. QED
        BY <2>1, <3>1 DEF Awaited, Closed, StageOf
    <2>2. QED
      BY <1>a, <2>1
  <1>10. Away(batch, v)
    BY <1>8, <1>9, <1>a DEF Away, Awaited, Through
  <1>11. event.vehicle = v => StageOf(event.kind) = "away"
    <2>1. SUFFICES ASSUME event.vehicle = v PROVE StageOf(event.kind) = "away"
      OBVIOUS
    <2>2. P[0] = "away" /\ LastEvent(v) = event
      BY <1>9, <2>1 DEF Awaited, LastEvent
    <2>3. \A t \in batch : Head(t).vehicle # v
      BY <1>10, <2>1 DEF CalmInv, QueueInv, Away, StageOf, Moves
    <2>4. QED
      BY <1>8, <2>2, <2>3 DEF Through
  <1>12. QED
    BY <1>2, <1>4, <1>5, <1>10, <1>11, <1>a, <1>b DEF Awaited

LEMMA CleanCompareOneEach ==
    ASSUME TypeOK, RegularInv, NEW f \in Feeds, NEW new \in [Vehicles -> Bikes \cup {Absent}]
    PROVE  OneEach(CleanCompare(f, lastImport, new, now))
  <1>1. now \in Nat \ {0}
    BY DEF TypeOK, RegularInv
  <1>2. QED
    BY <1>1, CleanCompareSays DEF OneEach, TypeOK

LEMMA NextQueueInv ==
    ASSUME Calm, CalmInv, [Next]_vars
    PROVE  QueueInv'
  <1>1. TypeOK /\ RegularInv /\ PlanInv /\ LoopInv /\ QueueInv
    BY DEF CalmInv
  <1>2. ASSUME NEW events, Send(events), OneEach(events)
        PROVE  \A k \in DOMAIN eventChan' : OneEach(eventChan'[k])
    BY <1>1, <1>2, BatchSent DEF QueueInv
  <1>3. ASSUME NEW f \in Feeds, ImportFeed(f)
        PROVE  QueueInv'
    <2>1. PICK new \in [Vehicles -> Bikes \cup {Absent}] : Send(CleanCompare(f, lastImport, new, now))
      BY <1>3 DEF ImportFeed, Downloads
    <2>2. UNCHANGED <<batch, event, corrections>>
      BY <1>3 DEF ImportFeed
    <2>3. \A k \in DOMAIN eventChan' : OneEach(eventChan'[k])
      BY <1>1, <1>2, <2>1, CleanCompareOneEach
    <2>4. QED
      BY <1>1, <2>2, <2>3 DEF QueueInv, OneEach
  <1>4. ASSUME NEW f \in Feeds, ImportNothing(f)
        PROVE  QueueInv'
    <2>1. Send({}) /\ OneEach({}) /\ UNCHANGED <<batch, event, corrections>>
      BY <1>4 DEF ImportNothing, OneEach
    <2>2. \A k \in DOMAIN eventChan' : OneEach(eventChan'[k])
      BY <1>2, <2>1
    <2>3. QED
      BY <1>1, <2>1, <2>2 DEF QueueInv, OneEach
  <1>5. CASE CleanupSend
    <2>1. Send(corrections) /\ corrections' = {} /\ UNCHANGED <<batch, event>>
      BY <1>5 DEF CleanupSend
    <2>2. \A k \in DOMAIN eventChan' : OneEach(eventChan'[k])
      BY <1>1, <1>2, <2>1 DEF QueueInv
    <2>3. QED
      BY <1>1, <2>1, <2>2 DEF QueueInv, OneEach
  <1>6. CASE CleanupQuery
    <2>1. UNCHANGED <<batch, event, eventChan>>
      BY <1>6 DEF CleanupQuery, processorVars
    <2>2. \A s, t \in corrections' : Head(s).vehicle = Head(t).vehicle => s = t
      BY <1>6, CorrectionsFound
    <2>3. QED
      BY <1>1, <2>1, <2>2 DEF QueueInv, OneEach
  <1>7. CASE ReceiveEvents /\ corrections' = corrections
    <2>1. event' = NoEvent
      BY <1>1, <1>7, BatchReceived, NoHandlerRuns
    <2>2. \A s \in batch' : Head(s).vehicle \in Vehicles
      BY <1>1, <1>7, BatchReceived, StrandHead DEF TypeOK, ProcessorTypeOK
    <2>3. QED
      BY <1>1, <1>7, <2>1, <2>2, BatchReceived, NoEventIsNone, NoVehicleAssumption DEF QueueInv, OneEach
  <1>8. CASE ProcessEvent /\ corrections' = corrections
    <2>1. PICK s \in batch : /\ s \in Strands /\ Takes(s) /\ Head(s).vehicle \in Vehicles
                             /\ Outcome(Head(s), redis[Head(s).vehicle])
      BY <1>8, EventHandled
    <2>2. Tail(s) # <<>> => Head(Tail(s)).vehicle = Head(s).vehicle /\ Head(Tail(s)).kind \in Moves
      BY <1>1, <2>1, RegularTail DEF RegularInv
    <2>3. /\ \A t \in batch' : \/ t \in batch /\ t # s
                               \/ t = Tail(s) /\ t # <<>>
          /\ \A t \in batch : t # s => Head(t).vehicle # Head(s).vehicle
      BY <1>1, <2>1 DEF Takes, QueueInv, OneEach
    <2>4. OneEach(batch')
      BY <1>1, <2>1, <2>2, <2>3 DEF QueueInv, OneEach
    <2>5. \A t \in batch' : Head(t).vehicle = event'.vehicle => Head(t).kind \in Moves
      <3>1. \A t \in batch : Head(t).vehicle \in Vehicles
        BY <1>1, StrandHead DEF TypeOK, ProcessorTypeOK
      <3>2. event'.vehicle = Head(s).vehicle \/ event' = NoEvent
        BY <2>1 DEF Outcome
      <3>3. QED
        BY <2>1, <2>2, <2>3, <3>1, <3>2, NoEventIsNone, NoVehicleAssumption
    <2>6. QED
      BY <1>1, <1>8, <2>4, <2>5, EventHandled DEF QueueInv, OneEach
  <1>9. CASE StatementStep /\ corrections' = corrections
    <2>1. \A s \in batch : Head(s).vehicle \in Vehicles
      BY <1>1, StrandHead DEF TypeOK, ProcessorTypeOK
    <2>2. \A s \in batch' : Head(s).vehicle = event'.vehicle => Head(s).kind \in Moves
      BY <1>1, <1>9, <2>1, StatementKeeps, NoEventIsNone, NoVehicleAssumption DEF QueueInv, Going
    <2>3. QED
      BY <1>1, <1>9, <2>2, StatementKeeps DEF QueueInv, OneEach
  <1>10. CASE ProcessDies
    BY <1>10 DEF ProcessDies, QueueInv, OneEach
  <1>11. CASE UNCHANGED <<batch, eventChan, corrections, event>>
    BY <1>1, <1>11 DEF QueueInv, OneEach
  <1>12. QED
    BY <1>3, <1>4, <1>5, <1>6, <1>7, <1>8, <1>9, <1>10, <1>11
       DEF Next, LoopStep, ProcessorStep, ProcessorNext, Restart, ForeignKeyPanic, AlertPanic,
           LoseRedis, SkipCleanup, StartCleanup, vars, processorVars, importerVars

(* The stages of a vehicle when a batch is added to the queue. *)
LEMMA TraceSent ==
    ASSUME TypeOK, NEW v \in Vehicles, NEW P \in Stages, Traces(v, P),
           NEW events, Send(events), UNCHANGED <<batch, event, redis>>,
           NEW c \in {"parked", "away"},
           Through(events, v, P[Len(eventChan)], c), LastStage(v, c)'
    PROVE  \E Q \in Stages' : Traces(v, Q)'
  <1>1. PICK n \in Nat : n = Len(eventChan)
    BY BatchSent
  <1>2. /\ Len(eventChan') = n + 1 /\ DOMAIN eventChan = 1..n /\ DOMAIN eventChan' = 1..(n + 1)
        /\ \A k \in 1..n : eventChan'[k] = eventChan[k]
        /\ eventChan'[n + 1] = events
    BY <1>1, BatchSent
  <1>3. PICK Q : Q = [k \in 0..(n + 1) |-> IF k = n + 1 THEN c ELSE P[k]]
    OBVIOUS
  <1>4. P \in [0..n -> {"parked", "away"}]
    BY <1>1 DEF Stages
  <1>5. Q \in [0..(n + 1) -> {"parked", "away"}] /\ Q[n + 1] = c /\ \A k \in 0..n : Q[k] = P[k]
    BY <1>3, <1>4
  <1>6. PICK b : b = StageOf(LastEvent(v).kind)
    OBVIOUS
  <1>7. b = StageOf(LastEvent(v).kind)'
    BY <1>6 DEF LastEvent
  <1>8. Through(batch, v, b, Q[0]) /\ \A k \in 1..n : Through(eventChan[k], v, Q[k - 1], Q[k])
    <2>1. 0 \in 0..n /\ \A k \in 1..n : k - 1 \in 0..n /\ k \in 0..n
      OBVIOUS
    <2>2. QED
      BY <1>2, <1>5, <1>6, <2>1 DEF Traces
  <1>9. Through(batch, v, StageOf(LastEvent(v).kind), Q[0])'
    BY <1>7, <1>8 DEF Through
  <1>10. \A k \in 1..(n + 1) : Through(eventChan[k], v, Q[k - 1], Q[k])'
    <2>1. ASSUME NEW k \in 1..n
          PROVE  Through(eventChan[k], v, Q[k - 1], Q[k])'
      BY <1>2, <1>8 DEF Through
    <2>2. Through(eventChan[n + 1], v, Q[n], Q[n + 1])'
      BY <1>1, <1>2, <1>5 DEF Through
    <2>3. QED
      BY <2>1, <2>2
  <1>11. LastStage(v, Q[n + 1])'
    BY <1>5 DEF LastStage
  <1>12. Traces(v, Q)'
    BY <1>2, <1>9, <1>10, <1>11 DEF Traces
  <1>13. Q \in Stages'
    BY <1>2, <1>5 DEF Stages
  <1>14. QED
    BY <1>12, <1>13

(* The batch that is sent is the newest one. *)
LEMMA NewestSent ==
    ASSUME TypeOK, NEW v, NEW events, Send(events)
    PROVE  Newest(v)' <=> \E s \in events : Head(s).vehicle = v
  <1>1. Len(eventChan') = Len(eventChan) + 1 /\ eventChan'[Len(eventChan) + 1] = events
    BY BatchSent
  <1>2. eventChan' # <<>>
    <2>1. Len(eventChan) \in Nat /\ Len(<<>>) = 0
      BY BatchSent
    <2>2. QED
      BY <1>1, <2>1
  <1>3. QED
    BY <1>1, <1>2 DEF Newest

(* The processor adds nothing to the newest batch. *)
LEMMA NewestLess ==
    ASSUME TypeOK, RegularInv, PlanInv, ProcessorNext, NEW v \in Vehicles, Newest(v)'
    PROVE  Newest(v)
  <1>1. CASE ReceiveEvents
    <2>1. event.vehicle # v /\ event' = event /\ eventChan # <<>> /\ batch' = eventChan[1]
      BY <1>1, BatchReceived, NoHandlerRuns
    <2>2. PICK n \in Nat : n = Len(eventChan)
      BY <1>1, BatchReceived
    <2>3. /\ n >= 1 /\ Len(eventChan') = n - 1 /\ DOMAIN eventChan' = 1..(n - 1)
          /\ \A k \in 1..(n - 1) : eventChan'[k] = eventChan[k + 1]
      BY <1>1, <2>2, BatchReceived
    <2>4. CASE n = 1
      <3>1. eventChan' = <<>>
        <4>1. eventChan \in Seq(SUBSET Strands) /\ eventChan' = Tail(eventChan)
          BY <1>1 DEF ReceiveEvents, TypeOK, ProcessorTypeOK
        <4>2. Tail(eventChan) \in Seq(SUBSET Strands)
          BY <2>1, <4>1
        <4>3. Len(Tail(eventChan)) = 0
          BY <2>3, <2>4, <4>1
        <4>4. QED
          BY <4>1, <4>2, <4>3
      <3>2. QED
        BY <2>1, <2>2, <2>4, <3>1 DEF Newest
    <2>5. CASE n # 1
      <3>1. eventChan' # <<>> /\ eventChan'[n - 1] = eventChan[n]
        BY <2>3, <2>5
      <3>2. QED
        BY <2>1, <2>2, <2>3, <3>1 DEF Newest
    <2>6. QED
      BY <2>4, <2>5
  <1>2. CASE ~ReceiveEvents
    <2>1. eventChan' = eventChan
      BY <1>2, EventTaken, StatementKeeps DEF ProcessorNext
    <2>2. CASE eventChan = <<>>
      <3>1. Awaited(v)'
        BY <2>1, <2>2 DEF Newest, Awaited
      <3>2. Awaited(v)
        BY <3>1, AwaitedLess
      <3>3. QED
        BY <2>2, <3>2 DEF Newest, Awaited
    <2>3. CASE eventChan # <<>>
      BY <2>1, <2>3 DEF Newest
    <2>4. QED
      BY <2>2, <2>3
  <1>3. QED
    BY <1>1, <1>2

LEMMA LastOfTrace ==
    ASSUME TypeOK, NEW v, NEW P \in Stages, Traces(v, P)
    PROVE  P[Len(eventChan)] \in {"parked", "away"} /\ LastStage(v, P[Len(eventChan)])
  <1>1. Len(eventChan) \in 0..Len(eventChan)
    BY DEF TypeOK, ProcessorTypeOK
  <1>2. QED
    BY <1>1 DEF Stages, Traces

LEMMA ImportTraced ==
    ASSUME CalmInv, NEW f \in Feeds, ImportFeed(f), NEW v \in Vehicles,
           NEW P \in Stages, Traces(v, P)
    PROVE  \E Q \in Stages' : Traces(v, Q)'
  <1>1. TypeOK /\ now \in Nat \ {0}
    BY DEF CalmInv, TypeOK, RegularInv
  <1>2. PICK new \in [Vehicles -> Bikes \cup {Absent}] :
           /\ \A w \in Vehicles \ VehiclesOf(f) : new[w] = lastImport[w]
           /\ Send(CleanCompare(f, lastImport, new, now))
           /\ lastImport' = new
    BY DEF ImportFeed, Downloads
  <1>3. UNCHANGED <<batch, event, redis, phase, firstImport>>
    BY DEF ImportFeed
  <1>4. PICK events : events = CleanCompare(f, lastImport, new, now)
    OBVIOUS
  <1>5. PICK last : last = P[Len(eventChan)]
    OBVIOUS
  <1>6. last \in {"parked", "away"} /\ LastStage(v, last)
    BY <1>1, <1>5, LastOfTrace
  <1>7. /\ Send(events)
        /\ \A s \in events :
              /\ Head(s).vehicle \in VehiclesOf(f)
              /\ Says(s, Head(s).vehicle, lastImport[Head(s).vehicle], new[Head(s).vehicle])
    BY <1>1, <1>2, <1>4, CleanCompareSays DEF TypeOK
  <1>8. CASE \E s \in events : Head(s).vehicle = v
    <2>1. PICK c : c = IF Present(new[v]) THEN "parked" ELSE "away"
      OBVIOUS
    <2>2. \A s \in events : Head(s).vehicle = v =>
             /\ c = StageOf(Head(s).kind)
             /\ Head(s).kind \in Moves \cup {"check_out"} => Present(lastImport[v])
      BY <1>7, <2>1 DEF Says
    <2>3. Through(events, v, last, c)
      BY <1>6, <1>8, <2>2 DEF Through, LastStage
    <2>4. LastStage(v, c)'
      BY <1>2, <2>1 DEF LastStage
    <2>5. QED
      BY <1>1, <1>3, <1>5, <1>7, <2>1, <2>3, <2>4, TraceSent
  <1>9. CASE ~\E s \in events : Head(s).vehicle = v
    <2>1. Present(new[v]) <=> Present(lastImport[v])
      <3>1. CASE v \in VehiclesOf(f)
        <4>1. CompareBike(v, lastImport[v], new[v], now) = <<>>
          <5>1. CompareBike(v, lastImport[v], new[v], now) # <<>> =>
                   CompareBike(v, lastImport[v], new[v], now) \in events
            BY <1>4, <3>1 DEF CleanCompare
          <5>2. CompareBike(v, lastImport[v], new[v], now) # <<>> =>
                   Head(CompareBike(v, lastImport[v], new[v], now)).vehicle = v
            <6>1. lastImport[v] \in Bikes \cup {Absent} /\ new[v] \in Bikes \cup {Absent}
              BY <1>1, <1>2 DEF TypeOK
            <6>2. CompareBike(v, lastImport[v], new[v], now) # <<>> =>
                     Says(CompareBike(v, lastImport[v], new[v], now), v, lastImport[v], new[v])
              BY <1>1, <6>1, ComparedStrand
            <6>3. QED
              BY <6>2 DEF Says
          <5>3. QED
            BY <1>9, <5>1, <5>2
        <4>2. QED
          BY <4>1, NothingSaid
      <3>2. CASE v \notin VehiclesOf(f)
        BY <1>2, <3>2
      <3>3. QED
        BY <3>1, <3>2
    <2>2. Through(events, v, last, last)
      BY <1>9 DEF Through
    <2>3. ~Newest(v)'
      BY <1>1, <1>7, <1>9, NewestSent
    <2>4. LastStage(v, last)'
      BY <1>2, <1>6, <2>1, <2>3 DEF LastStage
    <2>5. QED
      BY <1>1, <1>3, <1>5, <1>6, <1>7, <2>2, <2>4, TraceSent
  <1>10. QED
    BY <1>8, <1>9

LEMMA CleanupTraced ==
    ASSUME Calm, CalmInv, CleanupSend, NEW v \in Vehicles,
           NEW P \in Stages, Traces(v, P)
    PROVE  \E Q \in Stages' : Traces(v, Q)'
  <1>1. TypeOK /\ RegularInv /\ LoopInv
    BY DEF CalmInv
  <1>2. /\ Send(corrections) /\ UNCHANGED <<batch, event, redis>>
        /\ Present(lastImport'[v]) => Present(lastImport[v])
        /\ pending' = feeds'
    BY DEF CleanupSend, NextRound, LoadFeeds, Present, Absent
  <1>3. PICK last : last = P[Len(eventChan)]
    OBVIOUS
  <1>4. last \in {"parked", "away"} /\ LastStage(v, last)
    BY <1>1, <1>3, LastOfTrace
  <1>6. CASE \E s \in corrections : Head(s).vehicle = v
    <2>1. Through(corrections, v, last, "away")
      BY <1>1, <1>6 DEF Through, RegularInv, StageOf, Moves
    <2>2. LastStage(v, "away")'
      BY <1>1, <1>2, <1>6 DEF LastStage, LoopInv
    <2>3. QED
      BY <1>1, <1>2, <1>3, <2>1, <2>2, TraceSent
  <1>7. CASE ~\E s \in corrections : Head(s).vehicle = v
    <2>1. Through(corrections, v, last, last)
      BY <1>7 DEF Through
    <2>2. LastStage(v, last)'
      BY <1>2, <1>4 DEF LastStage
    <2>3. QED
      BY <1>1, <1>2, <1>3, <1>4, <2>1, <2>2, TraceSent
  <1>8. QED
    BY <1>6, <1>7

LEMMA ReceiveTraced ==
    ASSUME CalmInv, ReceiveEvents, UNCHANGED importerVars, NEW v \in Vehicles,
           NEW P \in Stages, Traces(v, P)
    PROVE  \E Q \in Stages' : Traces(v, Q)'
  <1>1. TypeOK /\ RegularInv /\ PlanInv
    BY DEF CalmInv
  <1>2. PICK n \in Nat : n = Len(eventChan)
    BY <1>1, BatchReceived
  <1>3. /\ n >= 1 /\ Len(eventChan') = n - 1 /\ DOMAIN eventChan = 1..n /\ DOMAIN eventChan' = 1..(n - 1)
        /\ \A k \in 1..(n - 1) : eventChan'[k] = eventChan[k + 1]
        /\ batch = {} /\ batch' = eventChan[1]
        /\ UNCHANGED <<event, redis>>
    BY <1>1, <1>2, BatchReceived
  <1>4. PICK Q : Q = [k \in 0..(n - 1) |-> P[k + 1]]
    OBVIOUS
  <1>5. P \in [0..n -> {"parked", "away"}]
    BY <1>2 DEF Stages
  <1>6. Q \in [0..(n - 1) -> {"parked", "away"}] /\ \A k \in 0..(n - 1) : Q[k] = P[k + 1]
    BY <1>3, <1>4, <1>5
  <1>7. PICK b : b = StageOf(LastEvent(v).kind)
    OBVIOUS
  <1>8. b = StageOf(LastEvent(v).kind)'
    BY <1>3, <1>7 DEF LastEvent
  <1>9. Through(eventChan[1], v, b, Q[0])
    <2>1. P[0] = b
      BY <1>3, <1>7 DEF Traces, Through
    <2>2. Through(eventChan[1], v, P[0], P[1])
      BY <1>3 DEF Traces
    <2>3. QED
      BY <1>3, <1>6, <2>1, <2>2
  <1>10. ASSUME NEW k \in 1..(n - 1)
         PROVE  Through(eventChan[k], v, Q[k - 1], Q[k])'
    <2>1. Through(eventChan[k + 1], v, P[k], P[k + 1])
      <3>1. k + 1 \in 1..n /\ (k + 1) - 1 = k
        BY <1>3
      <3>2. QED
        BY <1>3, <3>1 DEF Traces
    <2>2. Q[k - 1] = P[k] /\ Q[k] = P[k + 1]
      BY <1>6
    <2>3. QED
      BY <1>3, <2>1, <2>2 DEF Through
  <1>11. LastStage(v, Q[n - 1])'
    <2>1. Newest(v)' => Newest(v)
      BY <1>1, NewestLess DEF ProcessorNext
    <2>2. LastStage(v, Q[n - 1])
      BY <1>2, <1>3, <1>6 DEF Traces
    <2>3. QED
      BY <2>1, <2>2 DEF LastStage, importerVars
  <1>12. Through(batch, v, StageOf(LastEvent(v).kind), Q[0])'
    BY <1>3, <1>8, <1>9 DEF Through
  <1>13. Traces(v, Q)'
    BY <1>3, <1>10, <1>11, <1>12 DEF Traces
  <1>14. Q \in Stages'
    BY <1>3, <1>6 DEF Stages
  <1>15. QED
    BY <1>13, <1>14

(* The stages of a vehicle stay the same when its last event keeps its     *)
(* kind.                                                                   *)
LEMMA TraceKept ==
    ASSUME TypeOK, NEW v \in Vehicles, NEW P \in Stages, Traces(v, P), UNCHANGED eventChan,
           NEW b, b = StageOf(LastEvent(v).kind)', Through(batch', v, b, P[0]),
           LastStage(v, P[Len(eventChan)]) => LastStage(v, P[Len(eventChan)])'
    PROVE  \E Q \in Stages' : Traces(v, Q)'
  <1>1. P \in Stages'
    BY DEF Stages
  <1>2. Through(batch, v, StageOf(LastEvent(v).kind), P[0])'
    BY DEF Through
  <1>3. \A k \in DOMAIN eventChan' : Through(eventChan[k], v, P[k - 1], P[k])'
    BY DEF Traces, Through
  <1>4. LastStage(v, P[Len(eventChan)])'
    BY DEF Traces
  <1>5. Traces(v, P)'
    BY <1>2, <1>3, <1>4 DEF Traces
  <1>6. QED
    BY <1>1, <1>5

LEMMA HandlerTraced ==
    ASSUME CalmInv, ProcessEvent, UNCHANGED importerVars, NEW v \in Vehicles,
           NEW P \in Stages, Traces(v, P)
    PROVE  \E Q \in Stages' : Traces(v, Q)'
  <1>1. TypeOK /\ RegularInv /\ PlanInv /\ QueueInv
    BY DEF CalmInv
  <1>2. PICK s \in batch : /\ s \in Strands /\ Takes(s) /\ Head(s).vehicle \in Vehicles
                           /\ Outcome(Head(s), redis[Head(s).vehicle])
    BY EventHandled
  <1>3. UNCHANGED <<redis, eventChan>> /\ plan = <<>> /\ event = NoEvent /\ LastEvent(v) = redis[v]
    BY <1>1, EventHandled, NoHandlerRuns
  <1>4. Through(batch, v, StageOf(redis[v].kind), P[0])
    BY <1>3 DEF Traces
  <1>5. LastStage(v, P[Len(eventChan)]) => LastStage(v, P[Len(eventChan)])'
    <2>1. Newest(v)' => Newest(v)
      BY <1>1, NewestLess DEF ProcessorNext
    <2>2. QED
      BY <1>3, <2>1 DEF LastStage, importerVars
  <1>6. /\ \A t \in batch' : (t \in batch /\ t # s) \/ (t = Tail(s) /\ t # <<>>)
        /\ \A t \in batch : t # s => t \in batch' /\ Head(t).vehicle # Head(s).vehicle
        /\ Tail(s) # <<>> => /\ Head(Tail(s)).vehicle = Head(s).vehicle
                             /\ Head(Tail(s)).kind \in Moves /\ Head(s).kind \in Moves
    BY <1>1, <1>2, RegularTail DEF Takes, QueueInv, OneEach, RegularInv
  <1>7. PICK b : b = StageOf(LastEvent(v).kind)'
    OBVIOUS
  <1>8. CASE Head(s).vehicle # v
    <2>1. event'.vehicle # v
      BY <1>2, <1>8, NoEventIsNone, NoVehicleAssumption DEF Outcome
    <2>2. b = StageOf(redis[v].kind)
      BY <1>3, <1>7, <2>1 DEF LastEvent
    <2>3. Through(batch', v, b, P[0])
      BY <1>4, <1>6, <1>8, <2>2 DEF Through
    <2>4. QED
      BY <1>1, <1>3, <1>5, <1>7, <2>3, TraceKept
  <1>9. CASE Head(s).vehicle = v
    <2>1. P[0] = StageOf(Head(s).kind)
      BY <1>4, <1>9 DEF Through
    <2>2. b = P[0]
      <3>1. CASE event' = NoEvent /\ StageOf(Head(s).kind) = "parked" /\ StageOf(redis[v].kind) = "parked"
        <4>1. LastEvent(v)' = redis[v]
          BY <1>3, <3>1, NoEventIsNone, NoVehicleAssumption DEF LastEvent
        <4>2. QED
          BY <1>7, <2>1, <3>1, <4>1
      <3>2. CASE event'.vehicle = v /\ StageOf(event'.kind) = StageOf(Head(s).kind)
        BY <1>7, <2>1, <3>2 DEF LastEvent
      <3>3. QED
        BY <1>2, <1>9, <3>1, <3>2 DEF Outcome
    <2>3. Through(batch', v, b, P[0])
      BY <1>6, <1>9, <2>1, <2>2 DEF Through, StageOf, Moves
    <2>4. QED
      BY <1>1, <1>3, <1>5, <1>7, <2>3, TraceKept
  <1>10. QED
    BY <1>8, <1>9

LEMMA StatementTraced ==
    ASSUME CalmInv, StatementStep, UNCHANGED importerVars, NEW v \in Vehicles,
           NEW P \in Stages, Traces(v, P)
    PROVE  \E Q \in Stages' : Traces(v, Q)'
  <1>1. TypeOK /\ RegularInv /\ PlanInv /\ v # NoVehicle
    BY NoVehicleAssumption DEF CalmInv
  <1>2. UNCHANGED <<eventChan, batch>>
    BY <1>1, StatementKeeps
  <1>3. LastStage(v, P[Len(eventChan)]) => LastStage(v, P[Len(eventChan)])'
    <2>1. Newest(v)' => Newest(v)
      BY <1>1, NewestLess DEF ProcessorNext
    <2>2. QED
      BY <1>2, <2>1 DEF LastStage, importerVars
  <1>4. PICK b : b = StageOf(LastEvent(v).kind)
    OBVIOUS
  <1>5. b = StageOf(LastEvent(v).kind)'
    BY <1>1, <1>4, StatementKeeps, NoEventIsNone DEF LastEvent, Going
  <1>6. Through(batch', v, b, P[0])
    BY <1>2, <1>4 DEF Traces
  <1>7. QED
    BY <1>1, <1>2, <1>3, <1>5, <1>6, TraceKept

LEMMA DiesTraced ==
    ASSUME TypeOK, ProcessDies, NEW v \in Vehicles
    PROVE  \E Q \in Stages' : Traces(v, Q)'
  <1>1. /\ eventChan' = <<>> /\ batch' = {} /\ event' = NoEvent /\ redis' = redis
        /\ ~Present(lastImport'[v])
    BY DEF ProcessDies, Present, Absent
  <1>2. PICK b \in {"parked", "away"} : b = StageOf(redis[v].kind)
    BY DEF StageOf
  <1>3. b = StageOf(LastEvent(v).kind)'
    BY <1>1, <1>2, NoEventIsNone, NoVehicleAssumption DEF LastEvent
  <1>4. PICK Q : Q = [k \in 0..0 |-> b]
    OBVIOUS
  <1>5. Q \in [0..0 -> {"parked", "away"}] /\ Q[0] = b
    BY <1>4
  <1>6. DOMAIN eventChan' = {} /\ Len(eventChan') = 0
    BY <1>1
  <1>7. ~Newest(v)'
    BY <1>1, NoEventIsNone, NoVehicleAssumption DEF Newest
  <1>8. Through(batch, v, StageOf(LastEvent(v).kind), Q[0])'
    BY <1>1, <1>3, <1>5 DEF Through
  <1>9. Traces(v, Q)' /\ Q \in Stages'
    BY <1>1, <1>5, <1>6, <1>7, <1>8 DEF Traces, LastStage, Stages
  <1>10. QED
    BY <1>9

LEMMA NextTraceInv ==
    ASSUME Calm, CalmInv, [Next]_vars
    PROVE  TraceInv'
  <1> SUFFICES ASSUME NEW v \in Vehicles, NEW P \in Stages, Traces(v, P)
               PROVE  \E Q \in Stages' : Traces(v, Q)'
    BY Zenon DEF TraceInv, CalmInv
  <1>1. TypeOK /\ LoopInv /\ RegularInv
    BY DEF CalmInv
  <1>2. ASSUME NEW f \in Feeds, ImportFeed(f)
        PROVE  \E Q \in Stages' : Traces(v, Q)'
    BY <1>2, ImportTraced
  <1>3. ASSUME NEW f \in Feeds, ImportNothing(f)
        PROVE  \E Q \in Stages' : Traces(v, Q)'
    <2>1. Send({}) /\ UNCHANGED <<batch, event, redis, lastImport, phase, firstImport>>
      BY <1>3 DEF ImportNothing
    <2>2. PICK c : c = P[Len(eventChan)]
      OBVIOUS
    <2>3. c \in {"parked", "away"} /\ LastStage(v, c) /\ Through({}, v, c, c)
      BY <1>1, <2>2, LastOfTrace DEF Through
    <2>4. ~Newest(v)'
      BY <1>1, <2>1, NewestSent
    <2>5. LastStage(v, c)'
      BY <2>1, <2>3, <2>4 DEF LastStage
    <2>6. QED
      BY <1>1, <2>1, <2>2, <2>3, <2>5, TraceSent
  <1>4. CASE CleanupSend
    BY <1>4, CleanupTraced
  <1>5. CASE ProcessorStep
    BY <1>5, ReceiveTraced, HandlerTraced, StatementTraced DEF ProcessorStep, ProcessorNext
  <1>6. CASE ProcessDies
    BY <1>1, <1>6, DiesTraced
  <1>7. ASSUME UNCHANGED <<batch, event, redis, eventChan>>,
               LastStage(v, P[Len(eventChan)]) => LastStage(v, P[Len(eventChan)])'
        PROVE  \E Q \in Stages' : Traces(v, Q)'
    <2>1. PICK b : b = StageOf(LastEvent(v).kind)
      OBVIOUS
    <2>2. b = StageOf(LastEvent(v).kind)'
      BY <1>7, <2>1 DEF LastEvent
    <2>3. Through(batch', v, b, P[0])
      BY <1>7, <2>1 DEF Traces
    <2>4. QED
      BY <1>1, <1>7, <2>2, <2>3, TraceKept
  <1>8. CASE SkipCleanup
    <2>1. /\ UNCHANGED <<batch, event, redis, eventChan>> /\ pending' = feeds'
          /\ Present(lastImport'[v]) => Present(lastImport[v])
      BY <1>8 DEF SkipCleanup, NextRound, LoadFeeds, Present, Absent, processorVars
    <2>2. QED
      BY <1>7, <2>1 DEF LastStage
  <1>9. CASE StartCleanup \/ CleanupQuery \/ UNCHANGED vars
    <2>1. UNCHANGED <<batch, event, redis, eventChan, lastImport, pending, feeds>>
      BY <1>9 DEF StartCleanup, CleanupQuery, vars, processorVars, importerVars
    <2>2. QED
      BY <1>7, <2>1 DEF LastStage, Newest
  <1>11. ~LoseRedis
    BY <1>1 DEF LoseRedis, Calm, TypeOK
  <1>12. QED
    BY <1>2, <1>3, <1>4, <1>5, <1>6, <1>8, <1>9, <1>11
       DEF Next, LoopStep, Restart, ForeignKeyPanic, AlertPanic

(* A correction goes on naming the newest park event of its vehicle. *)
LEMMA SentCorrects ==
    ASSUME CalmInv, NEW events, Send(events), UNCHANGED <<batch, event, redis>>,
           \A s \in events : Corrects(s) /\ (Head(s).kind = "correcting_check_out" =>
              eventChan = <<>> /\ Away(batch, Head(s).vehicle)),
           corrections' \in {corrections, {}}
    PROVE  CorrectionInv'
  <1>1. TypeOK /\ CorrectionInv
    BY DEF CalmInv
  <1>2. PICK n \in Nat : n = Len(eventChan)
    BY <1>1, BatchSent
  <1>3. /\ DOMAIN eventChan = 1..n /\ DOMAIN eventChan' = 1..(n + 1)
        /\ \A k \in 1..n : eventChan'[k] = eventChan[k]
        /\ eventChan'[n + 1] = events
    BY <1>1, <1>2, BatchSent
  <1>4. \A s : Corrects(s) => Corrects(s)'
    BY DEF Corrects, LastEvent
  <1>5. ASSUME NEW k \in 1..(n + 1), NEW s \in eventChan'[k]
        PROVE  /\ Corrects(s)'
               /\ Head(s).kind = "correcting_check_out" =>
                     /\ Away(batch', Head(s).vehicle)
                     /\ \A j \in 1..(k - 1) : Away(eventChan'[j], Head(s).vehicle)
    <2>1. CASE k \in 1..n
      <3>1. \A j \in 1..(k - 1) : eventChan'[j] = eventChan[j]
        BY <1>3, <2>1
      <3>2. s \in eventChan[k]
        BY <1>3, <1>5, <2>1
      <3>3. QED
        BY <1>1, <1>3, <1>4, <2>1, <3>1, <3>2 DEF CorrectionInv
    <2>2. CASE k = n + 1
      <3>1. s \in events
        BY <1>3, <1>5, <2>2
      <3>2. eventChan = <<>> => n = 0
        BY <1>2
      <3>3. QED
        BY <1>4, <2>2, <3>1, <3>2
    <2>3. QED
      BY <1>5, <2>1, <2>2
  <1>6. \A s \in batch' : Corrects(s)'
    BY <1>1, <1>4 DEF CorrectionInv
  <1>7. \A s \in corrections' : Corrects(s)' /\ Away(batch', Head(s).vehicle)
    BY <1>1, <1>4 DEF CorrectionInv
  <1>8. QED
    BY <1>3, <1>5, <1>6, <1>7 DEF CorrectionInv, Away

LEMMA ReceivedCorrects ==
    ASSUME CalmInv, ReceiveEvents, UNCHANGED corrections
    PROVE  CorrectionInv'
  <1>1. TypeOK /\ CorrectionInv /\ LoopInv
    BY DEF CalmInv
  <1>2. PICK n \in Nat : n = Len(eventChan)
    BY <1>1, BatchReceived
  <1>3. /\ n >= 1 /\ DOMAIN eventChan = 1..n /\ DOMAIN eventChan' = 1..(n - 1)
        /\ \A k \in 1..(n - 1) : eventChan'[k] = eventChan[k + 1]
        /\ batch' = eventChan[1] /\ eventChan # <<>>
        /\ UNCHANGED <<event, redis>>
    BY <1>1, <1>2, BatchReceived
  <1>4. \A s : Corrects(s) => Corrects(s)'
    BY <1>3 DEF Corrects, LastEvent
  <1>5. corrections' = {}
    BY <1>1, <1>3 DEF LoopInv
  <1>6. \A s \in batch' : Corrects(s)'
    BY <1>1, <1>3, <1>4 DEF CorrectionInv
  <1>7. ASSUME NEW k \in 1..(n - 1), NEW s \in eventChan'[k]
        PROVE  /\ Corrects(s)'
               /\ Head(s).kind = "correcting_check_out" =>
                     /\ Away(batch', Head(s).vehicle)
                     /\ \A j \in 1..(k - 1) : Away(eventChan'[j], Head(s).vehicle)
    <2>1. k + 1 \in 1..n /\ s \in eventChan[k + 1] /\ 1 \in 1..((k + 1) - 1)
      BY <1>3, <1>7
    <2>2. \A j \in 1..(k - 1) : eventChan'[j] = eventChan[j + 1] /\ j + 1 \in 1..((k + 1) - 1)
      BY <1>3, <1>7
    <2>3. QED
      BY <1>1, <1>3, <1>4, <2>1, <2>2 DEF CorrectionInv
  <1>8. QED
    BY <1>3, <1>5, <1>6, <1>7 DEF CorrectionInv, Away

(* The processor comes nearer to a correction without making it wrong. *)
LEMMA ProcessedCorrects ==
    ASSUME CalmInv, UNCHANGED <<eventChan, corrections>>,
           \A s \in batch' : Corrects(s)',
           \A v : Away(batch, v) => Away(batch', v),
           \A s \in Strands :
              Corrects(s) /\ (Head(s).kind = "correcting_check_out" => Away(batch, Head(s).vehicle))
              => Corrects(s)'
    PROVE  CorrectionInv'
  <1>1. /\ \A k \in DOMAIN eventChan : \A s \in eventChan[k] : s \in Strands
        /\ \A s \in corrections : s \in Strands
    BY DEF CalmInv, TypeOK, ProcessorTypeOK
  <1>2. \A k \in DOMAIN eventChan : \A s \in eventChan[k] :
           /\ Corrects(s)'
           /\ Head(s).kind = "correcting_check_out" =>
                 /\ Away(batch', Head(s).vehicle)
                 /\ \A j \in 1..(k - 1) : Away(eventChan[j], Head(s).vehicle)
    BY <1>1 DEF CalmInv, CorrectionInv
  <1>3. \A s \in corrections : Corrects(s)' /\ Away(batch', Head(s).vehicle)
    BY <1>1 DEF CalmInv, CorrectionInv
  <1>4. QED
    BY <1>2, <1>3 DEF CorrectionInv, Away

LEMMA HandledCorrects ==
    ASSUME CalmInv, ProcessEvent, UNCHANGED corrections
    PROVE  CorrectionInv'
  <1>1. TypeOK /\ RegularInv /\ PlanInv /\ QueueInv /\ CorrectionInv
    BY DEF CalmInv
  <1>2. PICK s \in batch : /\ s \in Strands /\ Takes(s) /\ Head(s).vehicle \in Vehicles
                           /\ Outcome(Head(s), redis[Head(s).vehicle])
    BY EventHandled
  <1>3. UNCHANGED <<redis, eventChan>> /\ plan = <<>> /\ event = NoEvent
    BY <1>1, EventHandled, NoHandlerRuns
  <1>a. PICK w \in Vehicles : w = Head(s).vehicle
    BY <1>2
  <1>4. PICK last, kind : w = Head(s).vehicle /\ last = redis[w] /\ kind = Head(s).kind
    BY <1>a
  <1>5. /\ \A t \in batch' : (t \in batch /\ t # s) \/ (t = Tail(s) /\ t # <<>>)
        /\ \A t \in batch : t # s => Head(t).vehicle # w
        /\ Tail(s) # <<>> => Head(Tail(s)).vehicle = w /\ Head(Tail(s)).kind \in Moves /\ kind \in Moves
    BY <1>1, <1>2, <1>4, RegularTail DEF Takes, QueueInv, OneEach, RegularInv
  <1>6. ASSUME NEW v \in Vehicles, v # w
        PROVE  LastEvent(v)' = LastEvent(v) /\ event'.vehicle # v
    <2>1. event'.vehicle # v
      BY <1>2, <1>4, <1>6, NoEventIsNone, NoVehicleAssumption DEF Outcome
    <2>2. event.vehicle # v
      BY <1>3, NoEventIsNone, NoVehicleAssumption
    <2>3. QED
      BY <1>3, <2>1, <2>2 DEF LastEvent
  <1>7. ASSUME Away(batch, w)
        PROVE  /\ \E p : p = LastEvent(w).park /\ p = LastEvent(w)'.park
               /\ event'.vehicle = w => StageOf(event'.kind) = "away" /\ NightlyCleanup
    <2>1. StageOf(kind) = "away" /\ NightlyCleanup
      BY <1>2, <1>4, <1>7 DEF Away
    <2>2. event'.vehicle = w /\ StageOf(event'.kind) = "away" /\ event'.park = last.park
      BY <1>2, <1>4, <2>1, NoEventIsNone DEF Outcome
    <2>3. LastEvent(w) = last
      BY <1>3, <1>4, NoEventIsNone, NoVehicleAssumption DEF LastEvent
    <2>4. LastEvent(w)' = event'
      BY <2>2 DEF LastEvent
    <2>5. QED
      BY <2>1, <2>2, <2>3, <2>4
  <1>8. \A v : Away(batch, v) => Away(batch', v)
    BY <1>2, <1>4, <1>5 DEF Away, StageOf, Moves
  <1>9. ASSUME NEW t \in Strands, Corrects(t), Head(t).vehicle # w \/ Away(batch, Head(t).vehicle)
        PROVE  Corrects(t)'
    <2>1. PICK v \in Vehicles : v = Head(t).vehicle
      BY StrandHead
    <2>2. CASE v # w
      BY <1>3, <1>6, <1>9, <2>1, <2>2 DEF Corrects
    <2>3. CASE v = w
      BY <1>3, <1>7, <1>9, <2>1, <2>3 DEF Corrects
    <2>4. QED
      BY <2>2, <2>3
  <1>10. ASSUME NEW t \in batch'
         PROVE  Corrects(t)'
    <2>1. CASE t \in batch /\ t # s
      <3>1. t \in Strands
        BY <1>1, <2>1 DEF TypeOK, ProcessorTypeOK
      <3>2. QED
        BY <1>1, <1>5, <1>9, <2>1, <3>1 DEF CorrectionInv
    <2>2. CASE t = Tail(s) /\ t # <<>>
      BY <1>5, <2>2 DEF Corrects, Moves
    <2>3. QED
      BY <1>5, <2>1, <2>2
  <1>11. \A t \in Strands :
            Corrects(t) /\ (Head(t).kind = "correcting_check_out" => Away(batch, Head(t).vehicle))
            => Corrects(t)'
    <2>1. \A t : Head(t).kind # "correcting_check_out" => Corrects(t)'
      BY DEF Corrects
    <2>2. QED
      BY <1>9, <2>1
  <1>12. QED
    BY <1>3, <1>8, <1>10, <1>11, ProcessedCorrects

LEMMA StatedCorrects ==
    ASSUME CalmInv, StatementStep, UNCHANGED corrections
    PROVE  CorrectionInv'
  <1>1. TypeOK /\ OwnRows /\ PlanInv /\ CorrectionInv
    BY DEF CalmInv
  <1>2. UNCHANGED <<eventChan, batch>> /\ event \in Events
    BY <1>1, StatementKeeps
  <1>3. ASSUME NEW t \in Strands, Corrects(t)
        PROVE  Corrects(t)'
    <2>1. PICK v \in Vehicles : v = Head(t).vehicle /\ v # NoVehicle
      BY StrandHead, NoVehicleAssumption
    <2>2. CASE event.vehicle # v
      <3>1. PICK e : e = LastEvent(v)
        OBVIOUS
      <3>2. LastEvent(v)' = e /\ event'.vehicle # v /\ redis'[v] = redis[v]
        BY <1>1, <2>2, <3>1, OtherVehicles
      <3>3. QED
        BY <1>3, <2>1, <3>1, <3>2 DEF Corrects
    <2>3. CASE event.vehicle = v /\ LPush
      <3>1. LastEvent(v) = event /\ event' = NoEvent /\ redis'[v] = event
        BY <1>1, <2>3 DEF LastEvent, LPush, TypeOK, ProcessorTypeOK
      <3>a. LastEvent(v)' = event /\ event'.vehicle # v
        BY <2>1, <3>1, NoEventIsNone DEF LastEvent
      <3>2. QED
        BY <1>3, <2>1, <2>3, <3>1, <3>a DEF Corrects
    <2>4. CASE event.vehicle = v /\ ~LPush /\ Head(t).kind = "correcting_check_out"
      <3>1. StageOf(event.kind) = "away" /\ NightlyCleanup
        BY <1>3, <2>1, <2>4 DEF Corrects
      <3>2. /\ Going(event, event') /\ Follows(event.kind, Head(plan), Head(plan'))
        BY <1>1, <2>4, StatementKeeps, StatementPlan, NoEventIsNone DEF Going
      <3>3. Head(plan) # "StartParkEvent" /\ Head(plan) # "LPush"
        BY <1>1, <2>4, <3>1, <3>2, StatementKeeps DEF Follows, StageOf
      <3>4. event'.park = event.park
        BY <1>1, <3>3, ParkStatements
      <3>5. LastEvent(v) = event /\ LastEvent(v)' = event' /\ event'.kind = event.kind
        BY <2>4, <3>2 DEF LastEvent, Going
      <3>6. QED
        BY <1>3, <2>1, <3>1, <3>4, <3>5 DEF Corrects
    <2>5. CASE Head(t).kind # "correcting_check_out"
      BY <2>5 DEF Corrects
    <2>6. QED
      BY <2>2, <2>3, <2>4, <2>5
  <1>4. \A t \in batch' : Corrects(t)'
    BY <1>1, <1>2, <1>3 DEF CorrectionInv, TypeOK, ProcessorTypeOK
  <1>5. QED
    BY <1>2, <1>3, <1>4, ProcessedCorrects

LEMMA NextCorrectionInv ==
    ASSUME Calm, CalmInv, [Next]_vars
    PROVE  CorrectionInv'
  <1>1. TypeOK /\ RegularInv /\ LoopInv /\ CorrectionInv
    BY DEF CalmInv
  <1>2. ASSUME NEW f \in Feeds, ImportFeed(f)
        PROVE  CorrectionInv'
    <2>1. PICK new \in [Vehicles -> Bikes \cup {Absent}] : Send(CleanCompare(f, lastImport, new, now))
      BY <1>2 DEF ImportFeed, Downloads
    <2>2. PICK events : events = CleanCompare(f, lastImport, new, now)
      OBVIOUS
    <2>3. now \in Nat \ {0} /\ lastImport \in [Vehicles -> Bikes \cup {Absent}]
      BY <1>1 DEF TypeOK, RegularInv
    <2>4. \A s \in events : Head(s).kind # "correcting_check_out"
      <3>1. \A s \in CleanCompare(f, lastImport, new, now) :
               Says(s, Head(s).vehicle, lastImport[Head(s).vehicle], new[Head(s).vehicle])
        BY <2>3, CleanCompareSays
      <3>2. \A s \in events : \E v, b, c : Says(s, v, b, c)
        BY <2>2, <3>1
      <3>3. QED
        BY <3>2 DEF Says
    <2>5. UNCHANGED <<batch, event, redis, corrections>>
      BY <1>2 DEF ImportFeed
    <2>6. \A s \in events : Corrects(s)
      BY <2>4 DEF Corrects
    <2>7. QED
      BY <2>1, <2>2, <2>4, <2>5, <2>6, SentCorrects
  <1>3. ASSUME NEW f \in Feeds, ImportNothing(f)
        PROVE  CorrectionInv'
    BY <1>3, SentCorrects DEF ImportNothing
  <1>4. CASE CleanupSend
    <2>1. /\ Send(corrections) /\ phase = "send" /\ corrections' = {}
          /\ UNCHANGED <<batch, event, redis>>
      BY <1>4 DEF CleanupSend
    <2>2. \A s \in corrections : Corrects(s) /\ eventChan = <<>> /\ Away(batch, Head(s).vehicle)
      BY <1>1, <2>1 DEF CorrectionInv, LoopInv
    <2>3. QED
      BY <2>1, <2>2, SentCorrects
  <1>5. CASE CleanupQuery
    <2>1. UNCHANGED <<batch, event, redis, eventChan>> /\ eventChan = <<>>
      BY <1>5 DEF CleanupQuery, processorVars
    <2>2. \A s : Corrects(s) => Corrects(s)'
      BY <2>1 DEF Corrects, LastEvent
    <2>3. \A s \in corrections' : Corrects(s) /\ Away(batch, Head(s).vehicle)
      BY <1>5, CorrectionsFound DEF Corrects
    <2>4. \A k \in DOMAIN eventChan' : FALSE
      BY <2>1
    <2>5. QED
      BY <1>1, <2>1, <2>2, <2>3, <2>4 DEF CorrectionInv, Away
  <1>6. CASE ProcessorStep
    BY <1>6, ReceivedCorrects, HandledCorrects, StatedCorrects
       DEF ProcessorStep, ProcessorNext, importerVars
  <1>7. CASE ProcessDies
    BY <1>7 DEF ProcessDies, CorrectionInv
  <1>8. CASE UNCHANGED <<batch, event, redis, eventChan, corrections>>
    <2>1. \A s : Corrects(s) => Corrects(s)'
      BY <1>8 DEF Corrects, LastEvent
    <2>2. QED
      BY <1>1, <1>8, <2>1 DEF CorrectionInv, Away
  <1>9. ~LoseRedis
    BY <1>1 DEF LoseRedis, Calm, TypeOK
  <1>10. QED
    BY <1>2, <1>3, <1>4, <1>5, <1>6, <1>7, <1>8, <1>9
       DEF Next, LoopStep, Restart, ForeignKeyPanic, AlertPanic, SkipCleanup, StartCleanup,
           vars, processorVars, importerVars

-----------------------------------------------------------------------------
(* The invariant of a calm importer. *)
LEMMA InitCalmInv == Init => CalmInv
  <1> SUFFICES ASSUME Init PROVE CalmInv
    OBVIOUS
  <1>1. TypeOK /\ OwnRows /\ TimesInv
    BY InitTypeOK, InitOwnRows, InitTimesInv
  <1>2. /\ parkEvents = <<>> /\ trips = <<>> /\ nonOps = <<>> /\ redis = [v \in Vehicles |-> NoEvent]
        /\ eventChan = <<>> /\ batch = {} /\ event = NoEvent /\ plan = <<>>
        /\ now = 1 /\ feeds = Feeds /\ pending = Feeds /\ lastImport = [v \in Vehicles |-> Absent]
        /\ phase = "import" /\ firstImport = TRUE /\ corrections = {}
    BY DEF Init, ProcessorInit
  <1>3. Len(eventChan) = 0 /\ DOMAIN eventChan = {} /\ DOMAIN parkEvents = {} /\ DOMAIN nonOps = {}
    BY <1>2
  <1>4. RegularInv /\ LoopInv /\ QueueInv /\ CorrectionInv /\ NonOpInv /\ OrderInv
    BY <1>2, <1>3 DEF RegularInv, LoopInv, QueueInv, OneEach, CorrectionInv, NonOpInv, OrderInv
  <1>5. PlanInv
    <2>1. DOMAIN plan = {}
      BY <1>2
    <2>2. ~Writing
      BY <1>2 DEF Writing
    <2>3. QED
      BY <1>2, <2>1, <2>2 DEF PlanInv, Ordered
  <1>6. \A v \in Vehicles : LastEvent(v) = NoEvent /\ event.vehicle # v
    BY <1>2, NoEventIsNone, NoVehicleAssumption DEF LastEvent
  <1>7. ParkInv
    BY <1>2, <1>3, <1>6, NoEventIsNone DEF ParkInv, ParkedAt, OpenParks, Closed, StageOf
  <1>8. TraceInv
    <2>1. PICK P : P = [k \in 0..0 |-> "away"]
      OBVIOUS
    <2>2. P \in [0..0 -> {"parked", "away"}] /\ P[0] = "away"
      BY <2>1
    <2>3. P \in Stages
      BY <1>3, <2>2 DEF Stages
    <2>4. \A v \in Vehicles : Traces(v, P)
      BY <1>2, <1>3, <1>6, <2>2, NoEventIsNone
         DEF Traces, Through, StageOf, LastStage, Present, Absent
    <2>5. QED
      BY <2>3, <2>4 DEF TraceInv
  <1>9. QED
    BY <1>1, <1>4, <1>5, <1>7, <1>8, InitOnlyCheckIns DEF CalmInv

LEMMA NextCalmInv ==
    ASSUME Calm, CalmInv, [Next]_vars
    PROVE  CalmInv'
  <1>1. TypeOK /\ OwnRows /\ TimesInv /\ RegularInv /\ PlanInv /\ LoopInv
    BY DEF CalmInv
  <1>2. /\ TypeOK' /\ OwnRows' /\ TimesInv' /\ RegularInv' /\ PlanInv' /\ LoopInv'
    BY <1>1, NextTypeOK, NextOwnRows, NextTimesInv, NextRegular, NextPlanInv, NextLoopInv
  <1>a. NightlyCleanup \/ OnlyCheckIns'
    BY <1>1, NextOnlyCheckIns DEF CalmInv
  <1>3. /\ QueueInv' /\ TraceInv' /\ CorrectionInv' /\ ParkInv' /\ NonOpInv' /\ OrderInv'
    BY NextQueueInv, NextTraceInv, NextCorrectionInv, NextParkInv, NextNonOpInv, NextOrderInv
  <1>4. QED
    BY <1>2, <1>3, <1>a DEF CalmInv

LEMMA AlwaysCalm ==
    ASSUME Calm
    PROVE  Spec => []CalmInv
  <1>1. CalmInv /\ [Next]_vars => CalmInv'
    BY NextCalmInv
  <1>2. QED
    BY <1>1, InitCalmInv, PTL DEF Spec

(* Whatever comes out of the queue and whenever the process is restarted    *)
(* between two events, no vehicle has two open park events (event.go).      *)
THEOREM OneOpenPark ==
    ASSUME Calm
    PROVE  Spec => []AtMostOneOpenPark
  <1>1. CalmInv => AtMostOneOpenPark
    <2>1. ASSUME CalmInv, NEW i \in DOMAIN parkEvents, NEW j \in DOMAIN parkEvents,
                 parkEvents[i].vehicle = parkEvents[j].vehicle,
                 parkEvents[i].end = 0, parkEvents[j].end = 0
          PROVE  i = j
      <3>1. parkEvents[i] \in ParkRows
        BY <2>1 DEF CalmInv, TypeOK, ProcessorTypeOK
      <3>2. PICK v \in Vehicles : v = parkEvents[i].vehicle
        BY <3>1 DEF ParkRows
      <3>3. i \in OpenParks(v) /\ j \in OpenParks(v)
        BY <2>1, <3>2 DEF OpenParks
      <3>4. QED
        BY <2>1, <3>3 DEF CalmInv, ParkInv, ParkedAt
    <2>2. QED
      BY <2>1 DEF AtMostOneOpenPark
  <1>2. QED
    BY <1>1, AlwaysCalm, PTL

(* The park events of a vehicle never overlap, in the order of their rows   *)
(* (park_events.go).                                                        *)
THEOREM ParkEventsFollowEachOther ==
    ASSUME Calm
    PROVE  Spec => []ParkEventsInOrder
  <1>1. CalmInv => ParkEventsInOrder
    BY DEF CalmInv, OrderInv, TimesInv, NoNegativePeriods, ParkEventsInOrder
  <1>2. QED
    BY <1>1, AlwaysCalm, PTL

(* A park event is not ended without its non-operational events             *)
(* (park_events.go, non_operational.go).                                    *)
THEOREM NonOperationalIsParked ==
    ASSUME Calm
    PROVE  Spec => []NonOperationalWhileParked
  <1>1. CalmInv => NonOperationalWhileParked
    BY DEF CalmInv, NonOpInv, NonOperationalWhileParked, Idle
  <1>2. QED
    BY <1>1, AlwaysCalm, PTL

(* What the feeds show has an open park event once the queue is empty       *)
(* (clean.go, event.go).                                                    *)
THEOREM WhatIsShownIsParked ==
    ASSUME Calm
    PROVE  Spec => []ShownVehiclesAreParked
  <1>1. CalmInv => ShownVehiclesAreParked
    <2>1. ASSUME CalmInv, Drained, NEW v \in Vehicles, Present(lastImport[v])
          PROVE  \E i \in OpenParks(v) : TRUE
      <3>1. plan = <<>> /\ batch = {} /\ eventChan = <<>> /\ Len(eventChan) = 0
        BY <2>1 DEF Drained, Idle
      <3>2. PICK P \in Stages : Traces(v, P)
        BY <2>1 DEF CalmInv, TraceInv
      <3>3. StageOf(LastEvent(v).kind) = "parked"
        BY <2>1, <3>1, <3>2 DEF Traces, Through, LastStage
      <3>4. LastEvent(v) = redis[v] /\ ~Closed(v) /\ ~Ending(v)
        BY <2>1, <3>1, <3>3, NoHandlerRuns DEF CalmInv
      <3>5. QED
        BY <2>1, <3>4 DEF CalmInv, ParkInv, ParkedAt
    <2>2. QED
      BY <2>1 DEF ShownVehiclesAreParked
  <1>2. QED
    BY <1>1, AlwaysCalm, PTL

-----------------------------------------------------------------------------
(* The trips of a vehicle, without the cleanup at night. Which statement is *)
(* next tells whether the vehicle is under way, like Closed for parkEvents. *)
UnderWay(v) ==
    IF event.vehicle = v
    THEN \/ Head(plan) \in {"EndTrip", "ResetEndParkEvent", "CancelEndNonOperationalEvent", "CancelTrip"}
         \/ Head(plan) = "LPush" /\ event.kind = "check_out"
    ELSE redis[v].kind = "check_out"

TripAt(v) == /\ \A j \in OpenTrips(v) : UnderWay(v) /\ j = LastEvent(v).trip
             /\ UnderWay(v) => LastEvent(v).trip \in OpenTrips(v)

(* What a vehicle has ridden, it has ridden before it was parked.          *)
RiddenAt(v) ==
    ~(event.vehicle = v /\ Head(plan) = "StartParkEvent")
    => \A j \in DOMAIN trips :
          trips[j].vehicle = v /\ ~trips[j].deleted /\ trips[j].end # 0
          => LastEvent(v).park # 0 /\ trips[j].end <= parkEvents[LastEvent(v).park].start

(* No park event overlaps a trip, but for a trip about to be deleted.      *)
Apart(i, j) == \/ parkEvents[i].end # 0 /\ parkEvents[i].end <= trips[j].start
               \/ trips[j].end # 0 /\ trips[j].end <= parkEvents[i].start

Cancelling(i, j) == /\ plan # <<>>
                    /\ Head(plan) \in {"CancelEndNonOperationalEvent", "CancelTrip"}
                    /\ i = event.park /\ j = event.trip

ApartAt(v) ==
    \A i \in DOMAIN parkEvents, j \in DOMAIN trips :
        parkEvents[i].vehicle = v /\ trips[j].vehicle = v /\ ~trips[j].deleted
        => Apart(i, j) \/ Cancelling(i, j)

RideInv == \A v \in Vehicles : TripAt(v) /\ RiddenAt(v) /\ ApartAt(v)

LEMMA TripStatements ==
    ASSUME TypeOK, StatementStep
    PROVE  /\ \A i \in DOMAIN trips :
                 /\ i \in DOMAIN trips' /\ trips'[i].vehicle = trips[i].vehicle
                 /\ trips'[i].start = trips[i].start
                 /\ trips'[i].end = IF Head(plan) = "EndTrip" /\ i = event.trip /\ ~trips[i].deleted
                                    THEN event.time ELSE trips[i].end
                 /\ trips'[i].deleted <=> trips[i].deleted \/ (Head(plan) = "CancelTrip" /\ i = event.trip)
                 /\ ~(Head(plan) \in {"EndTrip", "CancelTrip"} /\ i = event.trip) => trips'[i] = trips[i]
           /\ IF Head(plan) = "StartTrip"
              THEN /\ DOMAIN trips' = DOMAIN trips \cup {event'.trip}
                   /\ event'.trip \in Nat \ {0} /\ event'.trip \notin DOMAIN trips
                   /\ trips'[event'.trip].vehicle = event.vehicle
                   /\ trips'[event'.trip].start = event.time
                   /\ trips'[event'.trip].end = 0 /\ ~trips'[event'.trip].deleted
              ELSE /\ DOMAIN trips' = DOMAIN trips
                   /\ Head(plan) \notin {"LPush", "CancelTrip"} => event'.trip = event.trip
  <1>1. event \in Events /\ event.time \in Nat
    BY StatementKeeps DEF Events
  <1>2. trips \in Seq(TripRows) /\ \A i \in DOMAIN trips : trips[i] \in TripRows
    BY TableTypes
  <1>3. /\ \A r \in TripRows, t \in Nat :
              /\ [r EXCEPT !.end = t].vehicle = r.vehicle /\ [r EXCEPT !.end = t].start = r.start
              /\ [r EXCEPT !.end = t].end = t /\ [r EXCEPT !.end = t].deleted = r.deleted
        /\ \A r \in TripRows :
              /\ [r EXCEPT !.deleted = TRUE].vehicle = r.vehicle
              /\ [r EXCEPT !.deleted = TRUE].start = r.start
              /\ [r EXCEPT !.deleted = TRUE].end = r.end
              /\ [r EXCEPT !.deleted = TRUE].deleted = TRUE
    BY DEF TripRows
  <1>4. CASE StartTrip
    <2>a. PICK row : row = [vehicle |-> event.vehicle, start |-> event.time, end |-> 0, deleted |-> FALSE]
      OBVIOUS
    <2>1. /\ row \in TripRows /\ trips' = Append(trips, row)
          /\ row.vehicle = event.vehicle /\ row.start = event.time
          /\ row.end = 0 /\ row.deleted = FALSE
      BY <1>1, <1>4, <2>a DEF StartTrip, TripRows, Events
    <2>2. event'.trip = Len(trips) + 1 /\ Head(plan) = "StartTrip"
      <3>1. PICK n \in Nat : n = Len(trips) + 1
        BY <1>2
      <3>2. QED
        BY <1>1, <1>4, <3>1 DEF StartTrip, Statement, Events
    <2>3. QED
      BY <1>2, <2>1, <2>2
  <1>5. CASE EndTrip
    <2>1. /\ Head(plan) = "EndTrip" /\ DOMAIN trips' = DOMAIN trips /\ event' = event
          /\ \A i \in DOMAIN trips :
                trips'[i] = IF i = event.trip /\ ~trips[i].deleted
                            THEN [trips[i] EXCEPT !.end = event.time] ELSE trips[i]
      BY <1>5 DEF EndTrip, Statement
    <2>2. ASSUME NEW i \in DOMAIN trips
          PROVE  /\ trips'[i].vehicle = trips[i].vehicle /\ trips'[i].start = trips[i].start
                 /\ trips'[i].end = IF i = event.trip /\ ~trips[i].deleted THEN event.time ELSE trips[i].end
                 /\ trips'[i].deleted = trips[i].deleted
                 /\ i # event.trip => trips'[i] = trips[i]
      <3>1. CASE i = event.trip /\ ~trips[i].deleted
        <4>1. PICK r \in TripRows : r = trips[i]
          BY <1>2
        <4>2. trips'[i] = [r EXCEPT !.end = event.time]
          BY <2>1, <3>1, <4>1
        <4>3. QED
          BY <1>1, <1>3, <3>1, <4>1, <4>2
      <3>2. CASE ~(i = event.trip /\ ~trips[i].deleted)
        <4>1. trips'[i] = trips[i]
          BY <2>1, <3>2
        <4>2. QED
          BY <3>2, <4>1
      <3>3. QED
        BY <3>1, <3>2
    <2>3. QED
      BY <2>1, <2>2
  <1>6. CASE CancelTrip
    <2>1. /\ Head(plan) = "CancelTrip" /\ DOMAIN trips' = DOMAIN trips
          /\ \A i \in DOMAIN trips :
                trips'[i] = IF i = event.trip THEN [trips[i] EXCEPT !.deleted = TRUE] ELSE trips[i]
      BY <1>6 DEF CancelTrip, Statement
    <2>2. ASSUME NEW i \in DOMAIN trips
          PROVE  /\ trips'[i].vehicle = trips[i].vehicle /\ trips'[i].start = trips[i].start
                 /\ trips'[i].end = trips[i].end
                 /\ trips'[i].deleted <=> trips[i].deleted \/ i = event.trip
                 /\ i # event.trip => trips'[i] = trips[i]
      <3>1. PICK r \in TripRows : r = trips[i]
        BY <1>2
      <3>2. CASE i = event.trip
        <4>1. trips'[i] = [r EXCEPT !.deleted = TRUE]
          BY <2>1, <3>1, <3>2
        <4>2. QED
          BY <1>3, <3>1, <3>2, <4>1
      <3>3. CASE i # event.trip
        <4>1. trips'[i] = trips[i]
          BY <2>1, <3>3
        <4>2. QED
          BY <3>3, <4>1
      <3>4. QED
        BY <3>2, <3>3
    <2>3. QED
      BY <2>1, <2>2
  <1>7. CASE /\ UNCHANGED trips
             /\ Head(plan) \notin {"StartTrip", "EndTrip", "CancelTrip"}
             /\ Head(plan) = "LPush" \/ event' = event
                \/ event' = [event EXCEPT !.park = Len(parkEvents) + 1]
    BY <1>1, <1>7 DEF Events
  <1>8. CASE \/ StartParkEvent \/ EndParkEvent \/ UpdateLocationParkEvent \/ ResetEndParkEvent
             \/ StartNonOperationalEvent \/ EndNonOperationalEvent \/ CancelEndNonOperationalEvent
             \/ LPush
    BY <1>7, <1>8 DEF StartParkEvent, EndParkEvent, UpdateLocationParkEvent, ResetEndParkEvent,
       StartNonOperationalEvent, EndNonOperationalEvent, CancelEndNonOperationalEvent, LPush, Statement
  <1>9. QED
    BY <1>4, <1>5, <1>6, <1>8 DEF StatementStep

(* What a statement goes by. *)
LEMMA StatementFacts ==
    ASSUME CalmInv, StatementStep, NEW v \in Vehicles, event.vehicle = v
    PROVE  /\ event \in Events /\ plan # <<>> /\ LastEvent(v) = event /\ v # NoVehicle
           /\ IF Head(plan) = "LPush"
              THEN /\ event' = NoEvent /\ event'.vehicle # v /\ LastEvent(v)' = event /\ redis'[v] = event
                   /\ UNCHANGED <<parkEvents, trips>>
              ELSE /\ plan' # <<>> /\ Follows(event.kind, Head(plan), Head(plan'))
                   /\ event'.vehicle = v /\ event'.kind = event.kind /\ LastEvent(v)' = event'
                   /\ event.time \in Nat \ {0}
                   /\ \A i \in DOMAIN parkEvents : parkEvents[i].end <= event.time
                   /\ \A j \in DOMAIN trips : trips[j].end <= event.time
           /\ event.park # 0 => event.park \in DOMAIN parkEvents /\ parkEvents[event.park].vehicle = v
           /\ event.trip # 0 => event.trip \in DOMAIN trips /\ trips[event.trip].vehicle = v
           /\ 0 \notin DOMAIN parkEvents /\ 0 \notin DOMAIN trips
  <1>1. TypeOK /\ OwnRows /\ PlanInv /\ TimesInv /\ v # NoVehicle
    BY NoVehicleAssumption DEF CalmInv
  <1>2. event \in Events /\ plan # <<>> /\ LastEvent(v) = event /\ event.time \in Nat
    BY <1>1, StatementKeeps DEF LastEvent, Events
  <1>3. CASE Head(plan) = "LPush"
    <2>1. LPush
      BY <1>1, <1>3, StatementKeeps
    <2>2. event' = NoEvent /\ redis'[v] = event /\ UNCHANGED <<parkEvents, trips>>
      BY <1>1, <2>1 DEF LPush, TypeOK, ProcessorTypeOK
    <2>3. event'.vehicle # v /\ LastEvent(v)' = event
      BY <1>1, <2>2, NoEventIsNone DEF LastEvent
    <2>4. QED
      BY <1>1, <1>2, <1>3, <2>2, <2>3, TableTypes DEF OwnRows, Owns
  <1>4. CASE Head(plan) # "LPush"
    <2>1. /\ Going(event, event') /\ Follows(event.kind, Head(plan), Head(plan')) /\ plan' # <<>>
      BY <1>1, <1>4, StatementKeeps, StatementPlan, NoEventIsNone DEF Going
    <2>2. Writing
      <3>1. Head(<<"LPush">>) = "LPush"
        OBVIOUS
      <3>2. QED
        BY <1>2, <1>4, <3>1 DEF Writing
    <2>3. event.time # 0 /\ RowsWithin(event.time)
      BY <1>1, <2>2 DEF PlanInv, TimesInv, HandlerInTime
    <2>4. QED
      BY <1>1, <1>2, <1>4, <2>1, <2>3, TableTypes DEF OwnRows, Owns, Going, LastEvent, RowsWithin, Within
  <1>5. QED
    BY <1>3, <1>4

LEMMA StatementTrips ==
    ASSUME CalmInv, StatementStep, NEW v \in Vehicles, event.vehicle = v, TripAt(v)
    PROVE  TripAt(v)'
  <1>1. TypeOK
    BY DEF CalmInv
  <1>2. UnderWay(v) <=> \/ Head(plan) \in {"EndTrip", "ResetEndParkEvent", "CancelEndNonOperationalEvent", "CancelTrip"}
                        \/ Head(plan) = "LPush" /\ event.kind = "check_out"
    BY DEF UnderWay
  <1>3. /\ \A j \in DOMAIN trips : trips[j].vehicle = v /\ trips[j].end = 0 /\ ~trips[j].deleted
                                   => UnderWay(v) /\ j = event.trip
        /\ UnderWay(v) => /\ event.trip \in DOMAIN trips /\ trips[event.trip].vehicle = v
                          /\ trips[event.trip].end = 0 /\ ~trips[event.trip].deleted
    BY StatementFacts DEF TripAt, OpenTrips
  <1>4. OpenTrips(v)' = {j \in DOMAIN trips' : trips'[j].vehicle = v /\ trips'[j].end = 0 /\ ~trips'[j].deleted}
    BY DEF OpenTrips
  <1>5. CASE Head(plan) = "LPush"
    <2>1. /\ LastEvent(v)' = event /\ event'.vehicle # v /\ redis'[v] = event /\ trips' = trips
      BY <1>5, StatementFacts
    <2>2. UnderWay(v)' <=> UnderWay(v)
      BY <1>2, <1>5, <2>1 DEF UnderWay
    <2>3. QED
      BY <1>3, <1>4, <2>1, <2>2 DEF TripAt
  <1>6. CASE Head(plan) # "LPush"
    <2>1. /\ Follows(event.kind, Head(plan), Head(plan')) /\ event.time # 0
          /\ event'.vehicle = v /\ event'.kind = event.kind /\ LastEvent(v)' = event'
      BY <1>6, StatementFacts
    <2>2. UnderWay(v)' <=> \/ Head(plan') \in {"EndTrip", "ResetEndParkEvent", "CancelEndNonOperationalEvent", "CancelTrip"}
                           \/ Head(plan') = "LPush" /\ event.kind = "check_out"
      BY <2>1 DEF UnderWay
    <2>3. CASE Head(plan) = "StartTrip"
      <3>1. UnderWay(v)' /\ ~UnderWay(v)
        BY <1>2, <2>1, <2>2, <2>3 DEF Follows
      <3>2. /\ DOMAIN trips' = DOMAIN trips \cup {event'.trip}
            /\ trips'[event'.trip].vehicle = v /\ trips'[event'.trip].end = 0 /\ ~trips'[event'.trip].deleted
            /\ \A j \in DOMAIN trips : trips'[j] = trips[j]
        BY <1>1, <2>3, TripStatements
      <3>3. OpenTrips(v)' = {event'.trip}
        BY <1>3, <1>4, <3>1, <3>2
      <3>4. QED
        BY <2>1, <3>1, <3>3 DEF TripAt
    <2>4. CASE Head(plan) \in {"EndTrip", "CancelTrip"}
      <3>1. ~UnderWay(v)' /\ UnderWay(v)
        BY <1>2, <2>1, <2>2, <2>4 DEF Follows
      <3>2. /\ DOMAIN trips' = DOMAIN trips
            /\ trips'[event.trip].end # 0 \/ trips'[event.trip].deleted
            /\ \A j \in DOMAIN trips : j # event.trip => trips'[j] = trips[j]
        BY <1>1, <1>3, <2>1, <2>4, <3>1, TripStatements
      <3>3. OpenTrips(v)' = {}
        BY <1>3, <1>4, <3>2
      <3>4. QED
        BY <3>1, <3>3 DEF TripAt
    <2>5. CASE Head(plan) \notin {"StartTrip", "EndTrip", "CancelTrip"}
      <3>1. UnderWay(v)' <=> UnderWay(v)
        BY <1>2, <1>6, <2>1, <2>2, <2>5 DEF Follows, StageOf
      <3>2. /\ DOMAIN trips' = DOMAIN trips /\ event'.trip = event.trip
            /\ \A j \in DOMAIN trips : trips'[j] = trips[j]
        BY <1>1, <1>6, <2>5, TripStatements
      <3>3. QED
        BY <1>3, <1>4, <2>1, <3>1, <3>2 DEF TripAt
    <2>6. QED
      BY <2>3, <2>4, <2>5
  <1>7. QED
    BY <1>5, <1>6

LEMMA StatementRidden ==
    ASSUME CalmInv, StatementStep, NEW v \in Vehicles, event.vehicle = v, RiddenAt(v)
    PROVE  RiddenAt(v)'
  <1>1. TypeOK
    BY DEF CalmInv
  <1>2. Head(plan) # "StartParkEvent" =>
           \A j \in DOMAIN trips :
              trips[j].vehicle = v /\ ~trips[j].deleted /\ trips[j].end # 0
              => event.park # 0 /\ trips[j].end <= parkEvents[event.park].start
    BY StatementFacts DEF RiddenAt
  <1>3. CASE Head(plan) = "LPush"
    <2>1. LastEvent(v)' = event /\ UNCHANGED <<parkEvents, trips>>
      BY <1>3, StatementFacts
    <2>2. QED
      BY <1>2, <1>3, <2>1 DEF RiddenAt
  <1>4. CASE Head(plan) # "LPush"
    <2>1. /\ Follows(event.kind, Head(plan), Head(plan')) /\ event'.vehicle = v /\ LastEvent(v)' = event'
      BY <1>4, StatementFacts
    <2>2. CASE Head(plan) = "StartParkEvent"
      <3>1. /\ event'.park # 0 /\ parkEvents'[event'.park].start = event.time
            /\ DOMAIN trips' = DOMAIN trips /\ \A j \in DOMAIN trips : trips'[j] = trips[j]
        BY <1>1, <2>2, ParkStatements, TripStatements
      <3>2. \A j \in DOMAIN trips : trips[j].end <= event.time
        BY <2>2, StatementFacts
      <3>3. QED
        BY <2>1, <3>1, <3>2 DEF RiddenAt
    <2>3. CASE Head(plan) = "EndTrip"
      BY <2>1, <2>3 DEF Follows, RiddenAt
    <2>4. CASE Head(plan) \notin {"StartParkEvent", "EndTrip"}
      <3>1. event'.park = event.park
        BY <1>1, <1>4, <2>4, ParkStatements
      <3>2. event.park # 0 => parkEvents'[event.park].start = parkEvents[event.park].start
        BY <1>1, ParkStatements, StatementFacts
      <3>3. \A j \in DOMAIN trips' :
               trips'[j].vehicle = v /\ ~trips'[j].deleted /\ trips'[j].end # 0
               => /\ j \in DOMAIN trips /\ trips[j].vehicle = v /\ ~trips[j].deleted
                  /\ trips'[j].end = trips[j].end
        BY <1>1, <2>4, TripStatements
      <3>4. QED
        BY <1>2, <2>1, <2>4, <3>1, <3>2, <3>3 DEF RiddenAt
    <2>5. QED
      BY <2>2, <2>3, <2>4
  <1>5. QED
    BY <1>3, <1>4

LEMMA StatementApart ==
    ASSUME CalmInv, StatementStep, NEW v \in Vehicles, event.vehicle = v,
           TripAt(v), RiddenAt(v), ApartAt(v)
    PROVE  ApartAt(v)'
  <1>1. TypeOK /\ ParkedAt(v) /\ event \in Events /\ plan # <<>> /\ LastEvent(v) = event
    BY StatementFacts DEF CalmInv, ParkInv
  <1>2. CASE Head(plan) = "LPush"
    BY <1>2, StatementFacts DEF ApartAt, Apart, Cancelling
  <1>3. ASSUME Head(plan) # "LPush",
               NEW i \in DOMAIN parkEvents', NEW j \in DOMAIN trips',
               parkEvents'[i].vehicle = v, trips'[j].vehicle = v, ~trips'[j].deleted
        PROVE  \/ parkEvents'[i].end # 0 /\ parkEvents'[i].end <= trips'[j].start
               \/ trips'[j].end # 0 /\ trips'[j].end <= parkEvents'[i].start
               \/ /\ plan' # <<>> /\ Head(plan') \in {"CancelEndNonOperationalEvent", "CancelTrip"}
                  /\ i = event'.park /\ j = event'.trip
    <2>1. /\ Follows(event.kind, Head(plan), Head(plan')) /\ plan' # <<>>
          /\ \A k \in DOMAIN parkEvents : parkEvents[k].end <= event.time
          /\ \A k \in DOMAIN trips : trips[k].end <= event.time
          /\ 0 \notin DOMAIN parkEvents /\ 0 \notin DOMAIN trips
          /\ event.park # 0 => event.park \in DOMAIN parkEvents /\ parkEvents[event.park].vehicle = v
      BY <1>3, StatementFacts
    <2>2. /\ j \in DOMAIN trips => /\ trips[j].vehicle = v /\ ~trips[j].deleted
                                   /\ trips'[j].start = trips[j].start
          /\ i \in DOMAIN parkEvents => /\ parkEvents[i].vehicle = v
                                        /\ parkEvents'[i].start = parkEvents[i].start
      BY <1>1, <1>3, ParkStatements, TripStatements
    <2>3. i \in DOMAIN parkEvents /\ j \in DOMAIN trips => Apart(i, j) \/ Cancelling(i, j)
      BY <2>2 DEF ApartAt
    <2>4. /\ j \in DOMAIN trips /\ trips[j].end = 0 => UnderWay(v) /\ j = event.trip
          /\ j \in DOMAIN trips /\ trips[j].end # 0 /\ Head(plan) # "StartParkEvent" =>
                event.park # 0 /\ trips[j].end <= parkEvents[event.park].start
      BY <1>1, <2>2 DEF TripAt, OpenTrips, RiddenAt
    <2>5. /\ Head(plan) \in {"StartParkEvent", "EndParkEvent"} => ~UnderWay(v)
          /\ Head(plan) = "StartTrip" => OpenParks(v) = {}
      BY <1>1 DEF UnderWay, ParkedAt, Closed
    <2>6. CASE Head(plan) = "StartParkEvent"
      <3>1. /\ \A k \in DOMAIN parkEvents : parkEvents'[k].end = parkEvents[k].end
            /\ DOMAIN trips' = DOMAIN trips /\ trips'[j] = trips[j]
            /\ i \notin DOMAIN parkEvents => parkEvents'[i].start = event.time
        BY <1>1, <1>3, <2>6, ParkStatements, TripStatements DEF Ends
      <3>2. CASE i \in DOMAIN parkEvents
        BY <2>2, <2>3, <2>6, <3>1, <3>2 DEF Apart, Cancelling
      <3>3. CASE i \notin DOMAIN parkEvents
        BY <1>3, <2>1, <2>4, <2>5, <2>6, <3>1, <3>3
      <3>4. QED
        BY <3>2, <3>3
    <2>7. CASE Head(plan) = "EndParkEvent"
      <3>1. /\ DOMAIN parkEvents' = DOMAIN parkEvents /\ DOMAIN trips' = DOMAIN trips /\ trips'[j] = trips[j]
            /\ parkEvents'[i].end = IF Ends(i) THEN event.time ELSE parkEvents[i].end
        BY <1>1, <1>3, <2>7, ParkStatements, TripStatements
      <3>2. trips[j].end # 0 /\ event.park # 0 /\ trips[j].end <= parkEvents[event.park].start
        BY <1>3, <2>4, <2>5, <2>7, <3>1
      <3>3. CASE i = event.park
        BY <1>3, <2>2, <3>1, <3>2, <3>3
      <3>4. CASE i # event.park
        BY <1>3, <2>2, <2>3, <2>7, <3>1, <3>2, <3>4 DEF Ends, Apart, Cancelling
      <3>5. QED
        BY <3>3, <3>4
    <2>8. CASE Head(plan) = "ResetEndParkEvent"
      <3>1. /\ DOMAIN parkEvents' = DOMAIN parkEvents /\ DOMAIN trips' = DOMAIN trips /\ trips'[j] = trips[j]
            /\ parkEvents'[i].end = IF i = event.park THEN 0 ELSE parkEvents[i].end
            /\ event'.park = event.park /\ event'.trip = event.trip
        BY <1>1, <1>3, <2>8, ParkStatements, TripStatements DEF Ends
      <3>2. CASE i = event.park /\ trips[j].end = 0
        BY <1>3, <2>1, <2>4, <2>8, <3>1, <3>2 DEF Follows
      <3>3. CASE i = event.park /\ trips[j].end # 0
        BY <1>3, <2>2, <2>4, <2>8, <3>1, <3>3
      <3>4. CASE i # event.park
        BY <1>3, <2>2, <2>3, <2>8, <3>1, <3>4 DEF Apart, Cancelling
      <3>5. QED
        BY <3>2, <3>3, <3>4
    <2>9. CASE Head(plan) = "StartTrip"
      <3>1. /\ DOMAIN parkEvents' = DOMAIN parkEvents /\ parkEvents'[i].end = parkEvents[i].end
            /\ \A k \in DOMAIN trips : trips'[k] = trips[k]
            /\ j \notin DOMAIN trips => trips'[j].start = event.time
        BY <1>1, <1>3, <2>9, ParkStatements, TripStatements DEF Ends
      <3>2. CASE j \in DOMAIN trips
        BY <1>3, <2>2, <2>3, <2>9, <3>1, <3>2 DEF Apart, Cancelling
      <3>3. CASE j \notin DOMAIN trips
        <4>1. parkEvents[i].end # 0
          BY <1>3, <2>2, <2>5, <2>9, <3>1 DEF OpenParks
        <4>2. QED
          BY <1>3, <2>1, <3>1, <3>3, <4>1
      <3>4. QED
        BY <3>2, <3>3
    <2>10. CASE Head(plan) = "EndTrip"
      <3>1. /\ DOMAIN parkEvents' = DOMAIN parkEvents /\ parkEvents'[i].end = parkEvents[i].end
            /\ DOMAIN trips' = DOMAIN trips
            /\ j # event.trip => trips'[j] = trips[j]
        BY <1>1, <1>3, <2>10, ParkStatements, TripStatements DEF Ends
      <3>2. CASE j = event.trip
        <4>1. UnderWay(v)
          BY <2>10 DEF UnderWay
        <4>2. trips[j].end = 0
          BY <1>1, <3>2, <4>1 DEF TripAt, OpenTrips
        <4>3. QED
          BY <1>3, <2>2, <2>3, <2>10, <3>1, <4>2 DEF Apart, Cancelling
      <3>3. CASE j # event.trip
        BY <1>3, <2>2, <2>3, <2>10, <3>1, <3>3 DEF Apart, Cancelling
      <3>4. QED
        BY <3>2, <3>3
    <2>11. CASE Head(plan) \in {"CancelEndNonOperationalEvent", "CancelTrip"}
      <3>1. /\ DOMAIN parkEvents' = DOMAIN parkEvents /\ parkEvents'[i].end = parkEvents[i].end
            /\ DOMAIN trips' = DOMAIN trips /\ trips'[j].end = trips[j].end
            /\ event'.park = event.park
            /\ Head(plan) = "CancelTrip" => j # event.trip
            /\ Head(plan) # "CancelTrip" => event'.trip = event.trip
        BY <1>1, <1>3, <2>11, ParkStatements, TripStatements DEF Ends
      <3>2. CASE Apart(i, j)
        BY <2>2, <3>1, <1>3, <3>2 DEF Apart
      <3>3. CASE Cancelling(i, j)
        BY <1>3, <2>1, <2>11, <3>1, <3>3 DEF Cancelling, Follows
      <3>4. QED
        BY <1>3, <2>3, <3>1, <3>2, <3>3
    <2>12. CASE Head(plan) \notin {"StartParkEvent", "EndParkEvent", "ResetEndParkEvent", "StartTrip",
                                  "EndTrip", "CancelEndNonOperationalEvent", "CancelTrip"}
      <3>1. /\ DOMAIN parkEvents' = DOMAIN parkEvents /\ parkEvents'[i].end = parkEvents[i].end
            /\ DOMAIN trips' = DOMAIN trips /\ trips'[j] = trips[j]
        BY <1>1, <1>3, <2>12, ParkStatements, TripStatements DEF Ends
      <3>2. QED
        BY <1>3, <2>2, <2>3, <2>12, <3>1 DEF Apart, Cancelling
    <2>13. QED
      BY <2>6, <2>7, <2>8, <2>9, <2>10, <2>11, <2>12
  <1>4. CASE Head(plan) # "LPush"
    BY <1>3, <1>4 DEF ApartAt, Apart, Cancelling
  <1>5. QED
    BY <1>2, <1>4

(* The vehicles whose event is not being handled keep their trips. *)
LEMMA OtherRides ==
    ASSUME CalmInv, StatementStep, NEW v \in Vehicles, event.vehicle # v,
           TripAt(v), RiddenAt(v), ApartAt(v)
    PROVE  TripAt(v)' /\ RiddenAt(v)' /\ ApartAt(v)'
  <1>1. TypeOK /\ OwnRows /\ v # NoVehicle
    BY NoVehicleAssumption DEF CalmInv
  <1>2. PICK e : e = LastEvent(v)
    OBVIOUS
  <1>3. event'.vehicle # v /\ redis'[v] = redis[v] /\ LastEvent(v)' = e /\ OpenParks(v)' = OpenParks(v)
    BY <1>1, <1>2, OtherVehicles
  <1>4. \A j \in DOMAIN trips' : trips'[j].vehicle = v => j \in DOMAIN trips /\ trips'[j] = trips[j]
    <2>1. event.trip # 0 => trips[event.trip].vehicle = event.vehicle
      BY <1>1 DEF OwnRows, Owns
    <2>2. 0 \notin DOMAIN trips
      BY <1>1, TableTypes
    <2>3. QED
      BY <1>1, <2>1, <2>2, TripStatements
  <1>5. \A j \in DOMAIN trips : trips[j].vehicle = v => j \in DOMAIN trips' /\ trips'[j] = trips[j]
    BY <1>1, <1>4, TripStatements
  <1>6. /\ \A i \in DOMAIN parkEvents' : parkEvents'[i].vehicle = v =>
              /\ i \in DOMAIN parkEvents /\ parkEvents[i].vehicle = v
              /\ parkEvents'[i].end = parkEvents[i].end /\ parkEvents'[i].start = parkEvents[i].start
        /\ \A i \in DOMAIN parkEvents : parkEvents'[i].start = parkEvents[i].start
    BY <1>1, OtherVehicles, ParkStatements
  <1>7. TripAt(v)'
    <2>1. UnderWay(v)' <=> UnderWay(v)
      BY <1>3 DEF UnderWay
    <2>2. OpenTrips(v)' = OpenTrips(v)
      BY <1>4, <1>5 DEF OpenTrips
    <2>3. QED
      BY <1>2, <1>3, <2>1, <2>2 DEF TripAt
  <1>8. RiddenAt(v)'
    <2>1. e.park # 0 => e.park \in DOMAIN parkEvents
      BY <1>1, <1>2 DEF OwnRows, Owns, LastEvent
    <2>2. \A j \in DOMAIN trips' :
             trips'[j].vehicle = v /\ ~trips'[j].deleted /\ trips'[j].end # 0
             => e.park # 0 /\ trips'[j].end <= parkEvents[e.park].start
      BY <1>2, <1>4 DEF RiddenAt
    <2>3. QED
      BY <1>3, <1>6, <2>1, <2>2 DEF RiddenAt
  <1>9. ApartAt(v)'
    <2>1. ASSUME NEW i \in DOMAIN parkEvents', NEW j \in DOMAIN trips',
                 parkEvents'[i].vehicle = v, trips'[j].vehicle = v, ~trips'[j].deleted
          PROVE  Apart(i, j)'
      <3>1. /\ i \in DOMAIN parkEvents /\ j \in DOMAIN trips /\ trips'[j] = trips[j]
            /\ parkEvents[i].vehicle = v
            /\ parkEvents'[i].end = parkEvents[i].end /\ parkEvents'[i].start = parkEvents[i].start
        BY <1>4, <1>6, <2>1
      <3>2. ~Cancelling(i, j)
        BY <1>1, <2>1, <3>1, TableTypes DEF Cancelling, OwnRows, Owns
      <3>3. Apart(i, j)
        BY <2>1, <3>1, <3>2 DEF ApartAt
      <3>4. QED
        BY <3>1, <3>3 DEF Apart
    <2>2. QED
      BY <2>1 DEF ApartAt
  <1>10. QED
    BY <1>7, <1>8, <1>9

LEMMA HandlerRides ==
    ASSUME ~NightlyCleanup, CalmInv, RideInv, ProcessEvent, NEW v \in Vehicles
    PROVE  TripAt(v)' /\ RiddenAt(v)' /\ ApartAt(v)'
  <1>1. PICK s \in batch : /\ s \in Strands /\ Takes(s) /\ Head(s).vehicle \in Vehicles
                           /\ Outcome(Head(s), redis[Head(s).vehicle])
    BY EventHandled
  <1>2. UNCHANGED <<parkEvents, trips, redis>> /\ plan = <<>>
    BY EventHandled
  <1>3. LastEvent(v) = redis[v] /\ event.vehicle # v /\ v # NoVehicle
    BY <1>2, NoHandlerRuns, NoVehicleAssumption DEF CalmInv
  <1>4. OpenTrips(v)' = OpenTrips(v)
    BY <1>2 DEF OpenTrips
  <1>5. /\ \A j \in OpenTrips(v) : redis[v].kind = "check_out" /\ j = redis[v].trip
        /\ redis[v].kind = "check_out" => redis[v].trip \in OpenTrips(v)
        /\ \A j \in DOMAIN trips :
              trips[j].vehicle = v /\ ~trips[j].deleted /\ trips[j].end # 0
              => redis[v].park # 0 /\ trips[j].end <= parkEvents[redis[v].park].start
    BY <1>3 DEF RideInv, TripAt, RiddenAt, UnderWay
  <1>6. ApartAt(v)'
    BY <1>2 DEF RideInv, ApartAt, Apart, Cancelling
  <1>7. CASE event'.vehicle # v
    <2>1. LastEvent(v)' = redis[v] /\ (UnderWay(v)' <=> redis[v].kind = "check_out")
      BY <1>2, <1>7 DEF LastEvent, UnderWay
    <2>2. QED
      BY <1>2, <1>4, <1>5, <1>6, <1>7, <2>1 DEF TripAt, RiddenAt
  <1>8. CASE event'.vehicle = v
    <2>1. PICK e, last : e = Head(s) /\ last = redis[v]
      OBVIOUS
    <2>2. event' # NoEvent /\ e.vehicle = v
      BY <1>1, <1>3, <1>8, <2>1, NoEventIsNone DEF Outcome
    <2>3. Outcome(e, last)
      BY <1>1, <2>1, <2>2
    <2>4. e.kind = "correcting_check_out" => last.kind # "check_out"
      BY <1>1, <2>1, <2>2 DEF CalmInv, CorrectionInv, Corrects
    <2>5. LastEvent(v)' = event'
      BY <1>8 DEF LastEvent
    <2>6. UnderWay(v)' <=> \/ Head(plan') \in {"EndTrip", "ResetEndParkEvent", "CancelEndNonOperationalEvent", "CancelTrip"}
                           \/ Head(plan') = "LPush" /\ event'.kind = "check_out"
      BY <1>8 DEF UnderWay
    <2>7. /\ UnderWay(v)' <=> last.kind = "check_out"
          /\ last.kind = "check_out" => event'.trip = last.trip
          /\ Head(plan') = "StartParkEvent" \/ event'.park = last.park
      BY <2>2, <2>3, <2>4, <2>6, NoEventIsNone DEF Outcome, StageOf
    <2>8. TripAt(v)'
      BY <1>4, <1>5, <2>1, <2>5, <2>7 DEF TripAt
    <2>9. RiddenAt(v)'
      BY <1>2, <1>5, <1>8, <2>1, <2>5, <2>7 DEF RiddenAt
    <2>10. QED
      BY <1>6, <2>8, <2>9
  <1>9. QED
    BY <1>7, <1>8

LEMMA NextRideInv ==
    ASSUME Calm, ~NightlyCleanup, CalmInv, RideInv, [Next]_vars
    PROVE  RideInv'
  <1>1. CASE ProcessEvent
    BY <1>1, HandlerRides DEF RideInv
  <1>2. CASE StatementStep
    BY <1>2, OtherRides, StatementTrips, StatementRidden, StatementApart DEF RideInv
  <1>3. CASE UNCHANGED <<parkEvents, trips, nonOps, redis, event, plan>>
    BY <1>3 DEF RideInv, TripAt, RiddenAt, ApartAt, Apart, Cancelling, OpenTrips, UnderWay, LastEvent
  <1>4. QED
    BY <1>1, <1>2, <1>3, CalmSteps

LEMMA AlwaysRides ==
    ASSUME Calm, ~NightlyCleanup
    PROVE  Spec => [](CalmInv /\ RideInv)
  <1>1. Init => RideInv
    <2>1. SUFFICES ASSUME Init PROVE RideInv
      OBVIOUS
    <2>2. trips = <<>> /\ DOMAIN trips = {} /\ event = NoEvent /\ redis = [v \in Vehicles |-> NoEvent]
      BY <2>1 DEF Init, ProcessorInit
    <2>3. QED
      BY <2>2, NoEventIsNone, NoVehicleAssumption
         DEF RideInv, TripAt, RiddenAt, ApartAt, OpenTrips, UnderWay
  <1>2. CalmInv /\ RideInv /\ [Next]_vars => CalmInv' /\ RideInv'
    BY NextCalmInv, NextRideInv
  <1>3. QED
    BY <1>1, <1>2, InitCalmInv, PTL DEF Spec

(* The newest entry in Redis says what the tables say (event.go 78-165),   *)
(* unless a cleanup at night has corrected a vehicle that was leaving.     *)
THEOREM RedisTellsTheTables ==
    ASSUME Calm, ~NightlyCleanup
    PROVE  Spec => []LastEventMatchesTables
  <1>1. CalmInv /\ RideInv => LastEventMatchesTables
    <2>1. ASSUME CalmInv, RideInv, Idle, NEW v \in Vehicles
          PROVE  /\ OpenParks(v) = IF redis[v] = NoEvent \/ redis[v].kind \in {"check_out", "correcting_check_out"}
                                   THEN {} ELSE {redis[v].park}
                 /\ OpenTrips(v) = IF redis[v].kind = "check_out" THEN {redis[v].trip} ELSE {}
      <3>1. /\ LastEvent(v) = redis[v] /\ event.vehicle # v /\ ~Ending(v)
            /\ Closed(v) <=> StageOf(redis[v].kind) = "away"
        BY <2>1, NoHandlerRuns DEF CalmInv, Idle
      <3>2. /\ \A j \in OpenParks(v) : j = redis[v].park /\ StageOf(redis[v].kind) # "away"
            /\ StageOf(redis[v].kind) # "away" => redis[v].park \in OpenParks(v)
        BY <2>1, <3>1 DEF CalmInv, ParkInv, ParkedAt
      <3>3. StageOf(redis[v].kind) = "away" <=>
               redis[v] = NoEvent \/ redis[v].kind \in {"check_out", "correcting_check_out"}
        <4>1. redis[v] \in Events \/ redis[v] = NoEvent
          BY <2>1 DEF CalmInv, TypeOK, ProcessorTypeOK
        <4>2. redis[v] \in Events => redis[v].kind # "none"
          BY DEF Events, Kinds
        <4>3. QED
          BY <4>1, <4>2, NoEventIsNone DEF StageOf
      <3>4. /\ \A j \in OpenTrips(v) : redis[v].kind = "check_out" /\ j = redis[v].trip
            /\ redis[v].kind = "check_out" => redis[v].trip \in OpenTrips(v)
        BY <2>1, <3>1 DEF RideInv, TripAt, UnderWay
      <3>5. QED
        BY <3>2, <3>3, <3>4
    <2>2. QED
      BY <2>1 DEF LastEventMatchesTables
  <1>2. QED
    BY <1>1, AlwaysRides, PTL

(* No park event overlaps a trip of its vehicle (park_events.go, trips.go). *)
THEOREM ParkEventsAndTripsDoNotOverlap ==
    ASSUME Calm, ~NightlyCleanup
    PROVE  Spec => []ParkedOrUnderWay
  <1>1. CalmInv /\ RideInv => ParkedOrUnderWay
    <2>1. ASSUME CalmInv, RideInv, Idle, NEW i \in DOMAIN parkEvents, NEW j \in DOMAIN trips,
                 parkEvents[i].vehicle = trips[j].vehicle, ~trips[j].deleted
          PROVE  Apart(i, j)
      <3>1. parkEvents[i] \in ParkRows
        BY <2>1 DEF CalmInv, TypeOK, ProcessorTypeOK
      <3>2. PICK v \in Vehicles : v = parkEvents[i].vehicle
        BY <3>1 DEF ParkRows
      <3>3. QED
        BY <2>1, <3>2 DEF RideInv, ApartAt, Cancelling, Idle
    <2>2. QED
      BY <2>1 DEF ParkedOrUnderWay, Apart
  <1>2. QED
    BY <1>1, AlwaysRides, PTL

(* A trip that has ended is never touched again (trips.go).                *)
THEOREM TripsThatEndedStay ==
    ASSUME Calm, ~NightlyCleanup
    PROVE  Spec => EndedTripsStay
  <1>1. CalmInv /\ RideInv /\ [Next]_vars =>
           [\A i \in DOMAIN trips : trips[i].end # 0 => trips'[i] = trips[i]]_vars
    <2>1. SUFFICES ASSUME CalmInv, RideInv, [Next]_vars, NEW i \in DOMAIN trips, trips[i].end # 0
                   PROVE  trips'[i] = trips[i]
      OBVIOUS
    <2>2. CASE StatementStep
      <3>1. TypeOK /\ event \in Events
        BY <2>1, <2>2, StatementKeeps DEF CalmInv
      <3>2. PICK v \in Vehicles : event.vehicle = v
        BY <3>1 DEF Events
      <3>3. Head(plan) \in {"EndTrip", "CancelTrip"} => trips[event.trip].end = 0
        BY <2>1, <3>2 DEF RideInv, TripAt, UnderWay, LastEvent, OpenTrips
      <3>4. QED
        BY <2>1, <2>2, <3>1, <3>3, TripStatements
    <2>3. CASE ~StatementStep
      <3>1. UNCHANGED trips
        BY <2>1, <2>3, CalmSteps, EventHandled
      <3>2. QED
        BY <3>1
    <2>4. QED
      BY <2>2, <2>3
  <1>2. QED
    BY <1>1, AlwaysRides, PTL DEF Spec, EndedTripsStay

-----------------------------------------------------------------------------
(* The ids of park events, as long as Redis keeps what it has. Known is a  *)
(* vehicle with a last event, or with one whose handler runs; a vehicle    *)
(* that is in its feed is known, or an event in the queue will make it so, *)
(* before the first n batches of the channel are processed.                *)
Known(v) == redis[v] # NoEvent \/ event.vehicle = v

Heard(v, n) ==
    \/ Known(v)
    \/ \E s \in batch : Head(s).vehicle = v
    \/ \E k \in DOMAIN eventChan : k < n /\ \E s \in eventChan[k] : Head(s).vehicle = v

Opening(s) == Head(s).kind \in {"check_in", "correcting_check_out"}

HeardInv ==
    losses = 0 =>
        /\ \A s \in batch : Opening(s) \/ Known(Head(s).vehicle)
        /\ \A k \in DOMAIN eventChan : \A s \in eventChan[k] :
              Opening(s) \/ Heard(Head(s).vehicle, k)
        /\ \A v \in Vehicles : Present(lastImport[v]) => Heard(v, Len(eventChan) + 1)

(* So every last event names a park event, and so does the event of a      *)
(* handler, unless it is about to start one.                               *)
ParkIdInv ==
    losses = 0 =>
        /\ \A v \in Vehicles : redis[v] # NoEvent => redis[v].park # 0
        /\ plan # <<>> => event.park # 0 \/ Head(plan) = "StartParkEvent"

LEMMA NextHeardInv ==
    ASSUME TypeOK, RegularInv, PlanInv, HeardInv, [Next]_vars
    PROVE  HeardInv'
  <1> SUFFICES ASSUME losses' = 0
               PROVE  /\ \A s \in batch' : Opening(s) \/ Known(Head(s).vehicle)'
                      /\ \A k \in DOMAIN eventChan' : \A s \in eventChan'[k] :
                            Opening(s) \/ Heard(Head(s).vehicle, k)'
                      /\ \A v \in Vehicles :
                            Present(lastImport'[v]) => Heard(v, Len(eventChan) + 1)'
    BY DEF HeardInv, Opening
  <1>0. /\ losses = 0 /\ ~LoseRedis
        /\ now \in Nat \ {0} /\ ~Present(Absent) /\ Len(eventChan) \in Nat
    <2>1. losses \in Nat /\ (losses' = losses \/ LoseRedis)
      BY DEF TypeOK, Next, LoopStep, SkipCleanup, StartCleanup, CleanupQuery, CleanupSend,
             AlertPanic, Restart, ForeignKeyPanic, ProcessDies, ImportFeed, ImportNothing,
             ProcessorStep, vars, counters
    <2>2. QED
      BY <2>1 DEF LoseRedis, RegularInv, TypeOK, ProcessorTypeOK, Present, Absent
  <1>1. /\ \A s \in batch : Opening(s) \/ Known(Head(s).vehicle)
        /\ \A k \in DOMAIN eventChan : \A s \in eventChan[k] : Opening(s) \/ Heard(Head(s).vehicle, k)
        /\ \A v \in Vehicles : Present(lastImport[v]) => Heard(v, Len(eventChan) + 1)
    BY <1>0 DEF HeardInv
  <1>2. \A v \in Vehicles : \A k, n \in Nat : k <= n /\ Heard(v, k) => Heard(v, n)
    BY DEF Heard, TypeOK, ProcessorTypeOK
  <1>3. ASSUME NEW events, Send(events), UNCHANGED <<redis, batch, event>>,
               \A s \in events : Opening(s) \/ Heard(Head(s).vehicle, Len(eventChan) + 1),
               \A v \in Vehicles : Present(lastImport'[v]) =>
                  \/ Present(lastImport[v])
                  \/ \E s \in events : Head(s).vehicle = v
        PROVE  /\ \A s \in batch' : Opening(s) \/ Known(Head(s).vehicle)'
               /\ \A k \in DOMAIN eventChan' : \A s \in eventChan'[k] :
                     Opening(s) \/ Heard(Head(s).vehicle, k)'
               /\ \A v \in Vehicles :
                     Present(lastImport'[v]) => Heard(v, Len(eventChan) + 1)'
    <2>1. PICK n \in Nat : n = Len(eventChan) + 1
      BY <1>0
    <2>2. /\ DOMAIN eventChan = 1..(n - 1) /\ Len(eventChan') = n
          /\ DOMAIN eventChan' = DOMAIN eventChan \cup {n}
          /\ \A k \in DOMAIN eventChan : eventChan'[k] = eventChan[k]
          /\ eventChan'[n] = events
      <3>1. Len(eventChan) = n - 1 /\ Len(eventChan) + 1 = n
        BY <1>0, <2>1
      <3>2. QED
        BY <1>3, <3>1, BatchSent
    <2>3. \A v : Known(v) => Known(v)'
      BY <1>3 DEF Known
    <2>4. \A v, k : Heard(v, k) => Heard(v, k)'
      BY <1>3, <2>2, <2>3 DEF Heard
    <2>5. ASSUME NEW v \in Vehicles, Present(lastImport'[v])
          PROVE  Heard(v, Len(eventChan) + 1)'
      <3>1. CASE Present(lastImport[v])
        <4>1. Heard(v, n)'
          BY <1>1, <2>1, <2>4, <3>1
        <4>2. QED
          BY <2>2, <4>1 DEF Heard
      <3>2. CASE \E s \in events : Head(s).vehicle = v
        BY <2>2, <3>2 DEF Heard
      <3>3. QED
        BY <1>3, <2>5, <3>1, <3>2
    <2>6. ASSUME NEW k \in DOMAIN eventChan', NEW s \in eventChan'[k]
          PROVE  Opening(s) \/ Heard(Head(s).vehicle, k)'
      BY <1>1, <1>3, <2>1, <2>2, <2>4, <2>6
    <2>7. \A s \in batch' : Opening(s) \/ Known(Head(s).vehicle)'
      BY <1>1, <1>3, <2>3
    <2>8. QED
      BY <2>5, <2>6, <2>7
  <1>4. ASSUME NEW f \in Feeds, ImportFeed(f)
        PROVE  HeardInv'
    <2>1. PICK new \in [Vehicles -> Bikes \cup {Absent}] :
             /\ \A v \in Vehicles \ VehiclesOf(f) : new[v] = lastImport[v]
             /\ Send(CleanCompare(f, lastImport, new, now))
             /\ lastImport' = new
      BY <1>4 DEF ImportFeed, Downloads
    <2>2. UNCHANGED <<redis, batch, event>>
      BY <1>4 DEF ImportFeed
    <2>3. ASSUME NEW s \in CleanCompare(f, lastImport, new, now)
          PROVE  Opening(s) \/ Heard(Head(s).vehicle, Len(eventChan) + 1)
      <3>1. PICK v \in VehiclesOf(f) : v = Head(s).vehicle /\ Says(s, v, lastImport[v], new[v])
        BY <1>0, <2>3, CleanCompareSays DEF TypeOK
      <3>2. v \in Vehicles
        BY DEF VehiclesOf
      <3>3. Present(lastImport[v]) \/ Opening(s)
        <4>1. s \in Strands
          BY <2>3, <1>0, CleanCompareType DEF TypeOK
        <4>2. Head(s).kind \in Moves \cup {"check_out"} \/ Head(s).kind = "check_in"
          BY <3>1, <4>1, StrandHead DEF Says, Regular
        <4>3. QED
          BY <3>1, <4>2 DEF Says, Opening
      <3>4. QED
        BY <1>1, <3>1, <3>2, <3>3
    <2>4. ASSUME NEW v \in Vehicles, Present(new[v]), ~Present(lastImport[v])
          PROVE  \E s \in CleanCompare(f, lastImport, new, now) : Head(s).vehicle = v
      <3>1. v \in VehiclesOf(f)
        BY <2>1, <2>4
      <3>2. CompareBike(v, lastImport[v], new[v], now) # <<>>
        BY <2>4, NothingSaid
      <3>3. CompareBike(v, lastImport[v], new[v], now) \in CleanCompare(f, lastImport, new, now)
        BY <3>1, <3>2 DEF CleanCompare
      <3>4. Head(CompareBike(v, lastImport[v], new[v], now)).vehicle = v
        BY <1>0, <3>2, ComparedStrand DEF TypeOK, Says
      <3>5. QED
        BY <3>3, <3>4
    <2>5. QED
      BY <1>3, <2>1, <2>2, <2>3, <2>4 DEF HeardInv, Opening
  <1>5. ASSUME NEW f \in Feeds, ImportNothing(f)
        PROVE  HeardInv'
    <2>1. Send({}) /\ UNCHANGED <<redis, batch, event, lastImport>>
      BY <1>5 DEF ImportNothing
    <2>2. QED
      BY <1>3, <2>1 DEF HeardInv
  <1>6. CASE CleanupSend
    <2>1. /\ Send(corrections) /\ UNCHANGED <<redis, batch, event>>
          /\ \A v \in Vehicles : lastImport'[v] \in {lastImport[v], Absent}
      BY <1>6 DEF CleanupSend, NextRound, LoadFeeds
    <2>2. \A s \in corrections : Opening(s)
      BY DEF RegularInv, Opening
    <2>3. QED
      BY <1>0, <1>3, <2>1, <2>2 DEF HeardInv
  <1>7. ASSUME UNCHANGED <<redis, batch, event, eventChan>>,
               \A v \in Vehicles : lastImport'[v] \in {lastImport[v], Absent}
        PROVE  HeardInv'
    <2>1. \A v : Known(v)' <=> Known(v)
      BY <1>7 DEF Known
    <2>2. \A v, n : Heard(v, n) => Heard(v, n)'
      BY <1>7, <2>1 DEF Heard
    <2>3. \A v \in Vehicles : Present(lastImport'[v]) => Heard(v, Len(eventChan) + 1)'
      BY <1>0, <1>1, <1>7, <2>2 DEF Heard
    <2>4. QED
      BY <1>1, <1>7, <2>1, <2>2, <2>3 DEF HeardInv, Opening
  <1>8. CASE SkipCleanup \/ StartCleanup \/ CleanupQuery \/ UNCHANGED vars
    <2>1. /\ UNCHANGED <<redis, batch, event, eventChan>>
          /\ lastImport' = lastImport \/ \E active : LoadFeeds(active)
      BY <1>8 DEF SkipCleanup, StartCleanup, CleanupQuery, NextRound, vars, processorVars, importerVars
    <2>2. \A v \in Vehicles : lastImport'[v] \in {lastImport[v], Absent}
      BY <2>1 DEF LoadFeeds
    <2>3. QED
      BY <1>0, <1>7, <2>1, <2>2 DEF HeardInv, Opening
  <1>9. CASE ProcessDies
    <2>1. /\ batch' = {} /\ eventChan' = <<>> /\ \A v \in Vehicles : lastImport'[v] = Absent
      BY <1>9 DEF ProcessDies
    <2>2. QED
      BY <1>0, <2>1 DEF HeardInv
  <1>10. CASE ReceiveEvents /\ UNCHANGED lastImport
    <2>1. PICK n \in Nat : n = Len(eventChan)
      BY <1>0
    <2>2. /\ UNCHANGED <<redis, event>> /\ batch = {} /\ batch' = eventChan[1] /\ 1 \in DOMAIN eventChan
          /\ DOMAIN eventChan = 1..n /\ Len(eventChan') = n - 1 /\ DOMAIN eventChan' = 1..(n - 1)
          /\ \A k \in DOMAIN eventChan' : k + 1 \in DOMAIN eventChan /\ eventChan'[k] = eventChan[k + 1]
      BY <1>10, <2>1, BatchReceived
    <2>3. \A v : Known(v)' <=> Known(v)
      BY <2>2 DEF Known
    <2>4. ASSUME NEW v, NEW k \in Nat, Heard(v, k + 1)
          PROVE  Heard(v, k)'
      <3>1. CASE Known(v)
        BY <2>3, <3>1 DEF Heard
      <3>2. CASE \E j \in DOMAIN eventChan : j < k + 1 /\ \E s \in eventChan[j] : Head(s).vehicle = v
        <4>1. PICK j \in 1..n : j < k + 1 /\ \E s \in eventChan[j] : Head(s).vehicle = v
          BY <2>2, <3>2
        <4>2. CASE j = 1
          BY <2>2, <4>1, <4>2 DEF Heard
        <4>3. CASE j # 1
          <5>1. j - 1 \in DOMAIN eventChan' /\ eventChan'[j - 1] = eventChan[j] /\ j - 1 < k
            BY <2>2, <4>1, <4>3
          <5>2. QED
            BY <4>1, <5>1 DEF Heard
        <4>4. QED
          BY <4>2, <4>3
      <3>3. QED
        BY <2>2, <2>4, <3>1, <3>2 DEF Heard
    <2>5. \A s \in batch' : Opening(s) \/ Known(Head(s).vehicle)'
      BY <1>1, <2>2, <2>3 DEF Heard
    <2>6. ASSUME NEW k \in DOMAIN eventChan', NEW s \in eventChan'[k]
          PROVE  Opening(s) \/ Heard(Head(s).vehicle, k)'
      BY <1>1, <2>2, <2>4, <2>6
    <2>7. ASSUME NEW v \in Vehicles, Present(lastImport'[v])
          PROVE  Heard(v, Len(eventChan) + 1)'
      <3>1. Heard(v, n)'
        BY <1>1, <1>10, <2>1, <2>4, <2>7
      <3>2. QED
        BY <2>1, <2>2, <3>1 DEF Heard
    <2>8. QED
      BY <2>5, <2>6, <2>7 DEF HeardInv, Opening
  <1>11. ASSUME UNCHANGED <<eventChan, lastImport>>,
                \A v \in Vehicles : Known(v) => Known(v)',
                \A s \in batch : s \in batch' \/ Known(Head(s).vehicle)',
                \A s \in batch' : s \in batch \/ Known(Head(s).vehicle)'
         PROVE  HeardInv'
    <2>1. /\ \A s \in batch : Head(s).vehicle \in Vehicles
          /\ \A k \in DOMAIN eventChan : \A s \in eventChan[k] : Head(s).vehicle \in Vehicles
      BY StrandHead DEF TypeOK, ProcessorTypeOK
    <2>2. \A v \in Vehicles : \A n : Heard(v, n) => Heard(v, n)'
      BY <1>11 DEF Heard
    <2>3. \A v \in Vehicles : Present(lastImport'[v]) => Heard(v, Len(eventChan) + 1)'
      BY <1>1, <1>11, <2>2 DEF Heard
    <2>4. \A s \in batch' : Opening(s) \/ Known(Head(s).vehicle)'
      BY <1>1, <1>11, <2>1
    <2>5. \A k \in DOMAIN eventChan' : \A s \in eventChan'[k] : Opening(s) \/ Heard(Head(s).vehicle, k)'
      BY <1>1, <1>11, <2>1, <2>2
    <2>6. QED
      BY <2>3, <2>4, <2>5 DEF HeardInv, Opening
  <1>12. CASE ProcessEvent /\ UNCHANGED lastImport
    <2>1. PICK s \in batch : s \in Strands /\ Takes(s)
      BY <1>12, EventTaken
    <2>2. PICK e, last : e = Head(s) /\ last = redis[e.vehicle]
      OBVIOUS
    <2>3. e \in Events /\ e.vehicle \in Vehicles /\ last \in Events \cup {NoEvent} /\ Handled(e, last)
      BY <2>1, <2>2, StrandHead, HandlerOutcomes DEF Takes, TypeOK, ProcessorTypeOK
    <2>4. event'.vehicle = e.vehicle \/ last # NoEvent
      BY <2>3 DEF Handled, Goes
    <2>5. Known(e.vehicle)' /\ \A v \in Vehicles : Known(v) => Known(v)'
      <3>1. UNCHANGED redis /\ event.vehicle \notin Vehicles
        <4>1. UNCHANGED redis /\ plan = <<>>
          BY <1>12, EventTaken
        <4>2. QED
          BY <4>1, NoVehicleAssumption, NoEventIsNone DEF PlanInv
      <3>2. QED
        BY <2>2, <2>4, <3>1 DEF Known
    <2>6. \A t \in batch' : t \in batch \/ Head(t).vehicle = e.vehicle
      BY <2>1, <2>2, RegularTail DEF Takes, RegularInv
    <2>7. \A t \in batch : t \in batch' \/ t = s
      BY <2>1 DEF Takes
    <2>8. UNCHANGED eventChan
      BY <1>12, EventTaken
    <2>9. QED
      BY <1>0, <1>11, <1>12, <2>2, <2>5, <2>6, <2>7, <2>8 DEF HeardInv, Opening
  <1>13. CASE StatementStep /\ UNCHANGED lastImport
    <2>1. \A v \in Vehicles : Known(v) => Known(v)'
      BY <1>13, StatementKeeps, NoVehicleAssumption, NoEventIsNone DEF Known, Going
    <2>2. QED
      BY <1>0, <1>11, <1>13, <2>1, StatementKeeps DEF HeardInv, Opening
  <1>14. \/ \E f \in Feeds : ImportFeed(f) \/ ImportNothing(f)
         \/ SkipCleanup \/ StartCleanup \/ CleanupQuery \/ UNCHANGED vars
         \/ CleanupSend \/ ProcessDies
         \/ ReceiveEvents /\ UNCHANGED lastImport
         \/ ProcessEvent /\ UNCHANGED lastImport
         \/ StatementStep /\ UNCHANGED lastImport
    BY <1>0 DEF Next, LoopStep, ProcessorStep, ProcessorNext, Restart, ForeignKeyPanic, AlertPanic,
                importerVars
  <1>15. CASE \E f \in Feeds : ImportFeed(f) \/ ImportNothing(f)
    <2>1. HeardInv'
      BY <1>4, <1>5, <1>15
    <2>2. QED
      BY <1>0, <2>1 DEF HeardInv, Opening
  <1>16. QED
    BY <1>6, <1>8, <1>9, <1>10, <1>12, <1>13, <1>14, <1>15

LEMMA NextParkIdInv ==
    ASSUME TypeOK, RegularInv, PlanInv, HeardInv, ParkIdInv, [Next]_vars
    PROVE  ParkIdInv'
  <1> SUFFICES ASSUME losses' = 0
               PROVE  /\ \A v \in Vehicles : redis'[v] # NoEvent => redis'[v].park # 0
                      /\ plan' # <<>> => event'.park # 0 \/ Head(plan') = "StartParkEvent"
    BY DEF ParkIdInv
  <1>1. losses = 0 /\ ~LoseRedis
    <2>1. losses \in Nat /\ (losses' = losses \/ LoseRedis)
      BY DEF TypeOK, Next, LoopStep, SkipCleanup, StartCleanup, CleanupQuery, CleanupSend,
             AlertPanic, Restart, ForeignKeyPanic, ProcessDies, ImportFeed, ImportNothing,
             ProcessorStep, vars, counters
    <2>2. QED
      BY <2>1 DEF LoseRedis
  <1>2. /\ \A v \in Vehicles : redis[v] # NoEvent => redis[v].park # 0
        /\ plan # <<>> => event.park # 0 \/ Head(plan) = "StartParkEvent"
    BY <1>1 DEF ParkIdInv
  <1>3. CASE ProcessEvent
    <2>1. PICK s \in batch : s \in Strands /\ Takes(s)
      BY <1>3, EventTaken
    <2>2. UNCHANGED redis /\ plan = <<>> /\ event = NoEvent
      BY <1>3, EventTaken DEF PlanInv
    <2>3. PICK e, last : e = Head(s) /\ last = redis[e.vehicle]
      OBVIOUS
    <2>4. e \in Events /\ e.vehicle \in Vehicles /\ last \in Events \cup {NoEvent} /\ Handled(e, last)
      BY <2>1, <2>3, StrandHead, HandlerOutcomes DEF Takes, TypeOK, ProcessorTypeOK
    <2>5. last # NoEvent => last.park # 0
      BY <1>2, <2>3, <2>4
    <2>6. last = NoEvent => e.kind \in {"check_in", "correcting_check_out"}
      BY <1>1, <2>1, <2>2, <2>3, <2>4, NoVehicleAssumption, NoEventIsNone DEF HeardInv, Opening, Known
    <2>7. e.kind = "correcting_check_out" => e.park # 0
      <3>1. Regular(s) /\ 1 \in DOMAIN s /\ Head(s) = s[1]
        BY <2>1, StrandHead DEF RegularInv
      <3>2. QED
        BY <2>3, <3>1 DEF Regular, Moves
    <2>8. \A i \in GetLastParkEvent(e.vehicle) : i # 0
      BY DEF GetLastParkEvent, OpenParks, TypeOK, ProcessorTypeOK
    <2>9. plan' # <<>> => event'.park # 0 \/ Head(plan') = "StartParkEvent"
      <3>1. ASSUME NEW kind, NEW t, NEW park, NEW trip, park # 0 \/ t = "StartParkEvent",
                   Goes(e, kind, t, park, trip)
            PROVE  event'.park # 0 \/ Head(plan') = "StartParkEvent"
        BY <3>1 DEF Goes, Runs
      <3>2. last.kind = "check_out" => last # NoEvent
        BY NoEventIsNone
      <3>3. \/ plan' = <<>>
            \/ \E kind, t, park, trip : (park # 0 \/ t = "StartParkEvent") /\ Goes(e, kind, t, park, trip)
        BY <2>4, <2>5, <2>6, <2>7, <2>8, <3>2 DEF Handled
      <3>4. QED
        BY <3>1, <3>3
    <2>10. QED
      BY <1>2, <2>2, <2>9
  <1>4. CASE StatementStep
    <2>1. /\ plan # <<>> /\ event \in Events
          /\ \/ /\ plan' = <<>> /\ Head(plan) = "LPush"
                /\ redis'[event.vehicle] = event
                /\ \A v \in Vehicles : v # event.vehicle => redis'[v] = redis[v]
             \/ redis' = redis /\ Head(plan) # "LPush"
      BY <1>4, StatementKeeps
    <2>2. Head(plan) # "LPush" => event'.park # 0
      BY <1>2, <1>4, <2>1, ParkStatements
    <2>3. QED
      BY <1>2, <2>1, <2>2
  <1>5. CASE ProcessDies
    BY <1>2, <1>5 DEF ProcessDies
  <1>6. CASE UNCHANGED <<redis, event, plan>>
    BY <1>2, <1>6
  <1>7. QED
    BY <1>1, <1>3, <1>4, <1>5, <1>6
       DEF Next, LoopStep, ProcessorStep, ProcessorNext, ReceiveEvents, Restart, ForeignKeyPanic,
           AlertPanic, ImportFeed, ImportNothing, SkipCleanup, StartCleanup, CleanupQuery,
           CleanupSend, vars, processorVars

(* Whatever dies and restarts: as long as Redis keeps what it has, no       *)
(* non-operational event is inserted for a park event that does not exist,  *)
(* which would make MustExec panic (non_operational_events.go 13).          *)
THEOREM PanicsNeedALoss == Spec => []PanicsOnlyAfterLoss
  <1>1. Init => PlanInv /\ HeardInv /\ ParkIdInv
    <2>1. ASSUME Init
          PROVE  PlanInv /\ HeardInv /\ ParkIdInv
      <3>1. /\ plan = <<>> /\ event = NoEvent /\ batch = {} /\ eventChan = <<>>
            /\ \A v \in Vehicles : redis[v] = NoEvent /\ ~Present(lastImport[v])
        BY <2>1 DEF Init, ProcessorInit, Present, Absent
      <3>2. QED
        BY <3>1 DEF PlanInv, Ordered, Writing, HeardInv, ParkIdInv
    <2>2. QED
      BY <2>1
  <1>2. /\ TypeOK /\ RegularInv
        /\ PlanInv /\ HeardInv /\ ParkIdInv /\ [Next]_vars
        => PlanInv' /\ HeardInv' /\ ParkIdInv'
    BY NextPlanInv, NextHeardInv, NextParkIdInv
  <1>3. TypeOK /\ OwnRows /\ PlanInv /\ ParkIdInv => PanicsOnlyAfterLoss
    BY DEF PanicsOnlyAfterLoss, ParkIdInv, OwnRows, Owns
  <1>4. QED
    BY <1>1, <1>2, <1>3, TypeCorrect, RowsAreOwned, AlwaysRegular, PTL DEF Spec

=============================================================================
