--------------------------- MODULE VehicleImporter ---------------------------
(***************************************************************************)
(* The vehicle importer: importLoop, importFeed and cleanup of main.go,    *)
(* composed with the goroutine EventProcessor through EventChan, with the  *)
(* crashes and restarts of the process and the loss of Redis' contents.    *)
(*                                                                         *)
(* A feed holds more vehicles than the ones modelled, so a download that   *)
(* holds none of these is not an empty feed.                               *)
(***************************************************************************)
EXTENDS EventProcessor, HttpImport

CONSTANTS
    Operators, OperatorOf, \* the system_id of each feed
    QueueCapacity,         \* make(chan []Event, 100)
    MaxTime,               \* bound: ticks
    MaxChanges,            \* bound: downloads in which a vehicle appears or changes
    MaxRestarts,           \* bound: times the process dies
    MaxRedisLosses,        \* bound: times Redis loses its contents
    CrashMidHandler,       \* may the process die between two statements?
    NightlyCleanup,        \* does the importer run past 02:00?
    ConfigChanges,         \* are feeds deactivated and activated again?
    TelegramMayBeMissing   \* may the importer run without Telegram's variables?

ASSUME OperatorAssumption == OperatorOf \in [Feeds -> Operators]
ASSUME BoundAssumption ==
    /\ QueueCapacity \in Nat \ {0}
    /\ MaxTime \in Nat /\ MaxChanges \in Nat
    /\ MaxRestarts \in Nat /\ MaxRedisLosses \in Nat
    /\ CrashMidHandler \in BOOLEAN /\ NightlyCleanup \in BOOLEAN
    /\ ConfigChanges \in BOOLEAN /\ TelegramMayBeMissing \in BOOLEAN

VARIABLES
    now,          \* the clock, in ticks
    feeds,        \* the feeds of the last LoadFeeds
    lastImport,   \* LastImport of the feeds, per vehicle
    imported,     \* the feeds whose LastImport is not empty
    pending,      \* the importFeed goroutines waitGroup.Wait() waits for
    phase,        \* where importLoop is: "import", "wait", "send"
    firstImport,
    corrections,  \* the events cleanup returned
    changes, restarts, losses   \* counters for the bounds

importerVars == <<feeds, lastImport, imported, pending, phase, firstImport, corrections>>
counters == <<changes, restarts, losses>>
vars == <<processorVars, importerVars, now, counters>>

-----------------------------------------------------------------------------
TypeOK ==
    /\ ProcessorTypeOK
    /\ now \in Nat
    /\ feeds \in SUBSET Feeds
    /\ lastImport \in [Vehicles -> Bikes \cup {Absent}]
    /\ imported \in SUBSET feeds
    /\ pending \in SUBSET feeds
    /\ phase \in {"import", "wait", "send"}
    /\ firstImport \in BOOLEAN
    /\ corrections \in SUBSET Strands
    /\ changes \in Nat /\ restarts \in Nat /\ losses \in Nat

Init ==
    /\ ProcessorInit
    /\ now = 1
    /\ feeds = Feeds /\ pending = Feeds
    /\ lastImport = [v \in Vehicles |-> Absent]
    /\ imported = {}
    /\ phase = "import"
    /\ firstImport = TRUE
    /\ corrections = {}
    /\ changes = 0 /\ restarts = 0 /\ losses = 0

-----------------------------------------------------------------------------
(* importFeed *)

(* A download that only repeats what is known or misses vehicles; there is *)
(* no bound on these, so the bound on the others stops nothing else.       *)
Quiet(f, new) == \A v \in VehiclesOf(f) : new[v] \in {lastImport[v], Absent}

Downloads(f) == {new \in [Vehicles -> Bikes \cup {Absent}] :
                    \A v \in Vehicles \ VehiclesOf(f) : new[v] = lastImport[v]}

(* ProcessNewData: EventChan <- result.CreatedEvents *)
Send(events) ==
    /\ Len(eventChan) < QueueCapacity
    /\ eventChan' = Append(eventChan, events)

ImportFeed(f) ==
    /\ phase = "import" /\ f \in pending
    /\ \E new \in Downloads(f) :
          /\ Quiet(f, new) \/ changes < MaxChanges
          /\ changes' = IF Quiet(f, new) THEN changes ELSE changes + 1
          /\ Send(CleanCompare(f, lastImport, new, now))
          /\ lastImport' = new
    /\ imported' = imported \cup {f}
    /\ pending' = pending \ {f}
    /\ UNCHANGED <<parkEvents, trips, nonOps, redis, batch, event, plan>>
    /\ UNCHANGED <<feeds, phase, firstImport, corrections, now, restarts, losses>>

(* The reader returned no vehicles: an error, or an empty feed. *)
ImportNothing(f) ==
    /\ phase = "import" /\ f \in pending
    /\ Send({})
    /\ pending' = pending \ {f}
    /\ UNCHANGED <<parkEvents, trips, nonOps, redis, batch, event, plan>>
    /\ UNCHANGED <<feeds, lastImport, imported, phase, firstImport, corrections, now, counters>>

-----------------------------------------------------------------------------
(* importLoop *)

(* Mutant: a feed that is no longer active is remembered as imported. *)
LoadFeedsKeepingImported(active) ==
    /\ feeds' = active
    /\ imported' = imported
    /\ lastImport' = [v \in Vehicles |-> IF FeedOf[v] \in active THEN lastImport[v] ELSE Absent]

(* LoadFeeds, at most once a minute: LastImport survives for the feeds that *)
(* are still active, a feed that comes back starts without one.             *)
LoadFeeds(active) ==
    /\ feeds' = active
    /\ imported' = imported \cap active
    /\ lastImport' = [v \in Vehicles |-> IF FeedOf[v] \in active THEN lastImport[v] ELSE Absent]

(* The next turn of the loop, at most a tick later. *)
NextRound ==
    /\ phase' = "import"
    /\ now' \in {t \in {now, now + 1} : t <= MaxTime}
    /\ \E active \in (IF ConfigChanges THEN {feeds} \cup SUBSET Feeds ELSE {feeds}) :
          LoadFeeds(active) /\ pending' = active

SkipCleanup ==
    /\ phase = "import" /\ pending = {}
    /\ ~firstImport
    /\ NextRound
    /\ UNCHANGED <<processorVars, firstImport, corrections, counters>>

(* Mutant: only the first import is followed by a cleanup. *)
StartCleanupOnce ==
    /\ phase = "import" /\ pending = {}
    /\ firstImport
    /\ phase' = "wait" /\ firstImport' = FALSE
    /\ UNCHANGED <<processorVars, feeds, lastImport, imported, pending, corrections, now, counters>>

StartCleanup ==
    /\ phase = "import" /\ pending = {}
    /\ firstImport \/ NightlyCleanup
    /\ phase' = "wait" /\ firstImport' = FALSE
    /\ UNCHANGED <<processorVars, feeds, lastImport, imported, pending, corrections, now, counters>>

(* cleanup. The query sees the tables as they are between two statements of *)
(* a handler. The bike of a correcting event has no location.               *)
CorrectingEvent(i) ==
    [NewEvent("correcting_check_out", parkEvents[i].vehicle, Absent, now) EXCEPT !.park = i]

(* Mutant: every open park event is taken for one of a vehicle that is gone. *)
AllOpenParks ==
    LET operators == {OperatorOf[f] : f \in imported} IN
    {i \in DOMAIN parkEvents :
        /\ parkEvents[i].end = 0
        /\ OperatorOf[FeedOf[parkEvents[i].vehicle]] \in operators}

StaleParks ==
    LET operators == {OperatorOf[f] : f \in imported} IN
    {i \in DOMAIN parkEvents :
        /\ parkEvents[i].end = 0
        /\ OperatorOf[FeedOf[parkEvents[i].vehicle]] \in operators
        /\ ~Present(lastImport[parkEvents[i].vehicle])}

CleanupQuery ==
    /\ phase = "wait"
    /\ eventChan = <<>>
    /\ corrections' = {<<CorrectingEvent(i)>> : i \in StaleParks}
    /\ phase' = "send"
    /\ UNCHANGED <<processorVars, feeds, lastImport, imported, pending, firstImport, now, counters>>

CleanupSend ==
    /\ phase = "send"
    /\ Send(corrections)
    /\ corrections' = {}
    /\ NextRound
    /\ UNCHANGED <<parkEvents, trips, nonOps, redis, batch, event, plan>>
    /\ UNCHANGED <<firstImport, counters>>

-----------------------------------------------------------------------------
(* Faults. What is in memory is lost, Postgres and Redis stay. *)

(* Mutant: the queue is lost, but not what was imported before. *)
ProcessDiesKeepingImport ==
    /\ eventChan' = <<>> /\ batch' = {} /\ event' = NoEvent /\ plan' = <<>>
    /\ feeds' = feeds /\ pending' = feeds
    /\ lastImport' = lastImport /\ imported' = imported
    /\ phase' = "import"
    /\ firstImport' = TRUE
    /\ corrections' = {}
    /\ now' \in {t \in {now, now + 1} : t <= MaxTime}
    /\ UNCHANGED <<parkEvents, trips, nonOps, redis, changes, losses>>

ProcessDies ==
    /\ eventChan' = <<>> /\ batch' = {} /\ event' = NoEvent /\ plan' = <<>>
    /\ feeds' \in (IF ConfigChanges THEN {feeds} \cup SUBSET Feeds ELSE {feeds})
    /\ pending' = feeds'
    /\ lastImport' = [v \in Vehicles |-> Absent]
    /\ imported' = {}
    /\ phase' = "import"
    /\ firstImport' = TRUE
    /\ corrections' = {}
    /\ now' \in {t \in {now, now + 1} : t <= MaxTime}
    /\ UNCHANGED <<parkEvents, trips, nonOps, redis, changes, losses>>

Restart ==
    /\ Idle \/ CrashMidHandler
    /\ restarts < MaxRestarts /\ restarts' = restarts + 1
    /\ ProcessDies

(* The statement before the one that panics has been committed. *)
ForeignKeyPanic ==
    /\ plan # <<>> /\ Head(plan) = "StartNonOperationalEvent"
    /\ event.park \notin DOMAIN parkEvents
    /\ ProcessDies
    /\ UNCHANGED restarts

(* Without Telegram's variables NewTelegramNotifier returns nil, and cleanup *)
(* panics in SendAlert before it returns the corrections it has found.      *)
AlertPanic ==
    /\ phase = "wait" /\ eventChan = <<>>
    /\ StaleParks # {}
    /\ TelegramMayBeMissing
    /\ ProcessDies
    /\ UNCHANGED restarts

LoseRedis ==
    /\ losses < MaxRedisLosses
    /\ losses' = losses + 1
    /\ redis' = [v \in Vehicles |-> NoEvent]
    /\ UNCHANGED <<parkEvents, trips, nonOps, eventChan, batch, event, plan>>
    /\ UNCHANGED <<importerVars, now, changes, restarts>>

-----------------------------------------------------------------------------
ProcessorStep == ProcessorNext /\ UNCHANGED <<importerVars, now, counters>>

LoopStep == SkipCleanup \/ StartCleanup \/ CleanupQuery \/ CleanupSend \/ AlertPanic

Next ==
    \/ \E f \in Feeds : ImportFeed(f) \/ ImportNothing(f)
    \/ LoopStep
    \/ ProcessorStep
    \/ Restart \/ ForeignKeyPanic \/ LoseRedis

Spec == Init /\ [][Next]_vars

(***************************************************************************)
(* Fairness. The goroutines of the process are scheduled, 02:00 comes      *)
(* every day, and a request that times out leaves its feed without         *)
(* vehicles. That no provider leaves a request unanswered, or is down for  *)
(* ever, is not up to the code. Faults and the changes in a feed are not   *)
(* owed to anyone.                                                         *)
(***************************************************************************)
Abandon(f) == VehicleFeedTimesOut /\ ImportNothing(f)
Returns(f) == ImportFeed(f) \/ ImportNothing(f)

Fairness ==
    /\ WF_vars(ProcessorStep) /\ WF_vars(LoopStep)
    /\ SF_vars(StartCleanup)
    /\ \A f \in Feeds : WF_vars(Abandon(f))

ProvidersAnswer == \A f \in Feeds : WF_vars(Returns(f)) /\ SF_vars(ImportFeed(f))

SilentSpec == Spec /\ Fairness
FairSpec == SilentSpec /\ ProvidersAnswer

-----------------------------------------------------------------------------
(* Properties. *)
Drained == Idle /\ batch = {} /\ eventChan = <<>>

(* Between two events, the newest entry in Redis says what the tables say:  *)
(* after a check_out only its trip is open, after a correction nothing is,  *)
(* after anything else only the park event it names is. Every handler       *)
(* chooses its statements by that entry (event.go 78-165).                  *)
LastEventMatchesTables ==
    Idle => \A v \in Vehicles :
        LET last == redis[v] IN
        /\ OpenParks(v) = IF last = NoEvent \/ last.kind \in {"check_out", "correcting_check_out"}
                          THEN {} ELSE {last.park}
        /\ OpenTrips(v) = IF last.kind = "check_out" THEN {last.trip} ELSE {}

(* The park events of a vehicle follow each other: only the newest one is   *)
(* open and none starts before the one before it has ended.                 *)
ParkEventsInOrder ==
    \A i, j \in DOMAIN parkEvents :
        i < j /\ parkEvents[i].vehicle = parkEvents[j].vehicle
        => /\ parkEvents[i].end # 0
           /\ parkEvents[i].start <= parkEvents[i].end
           /\ parkEvents[i].end <= parkEvents[j].start

(* Between two events, no vehicle is parked and under way at the same time: *)
(* the periods in park_events and those in trips do not overlap.            *)
ParkedOrUnderWay ==
    Idle => \A i \in DOMAIN parkEvents, j \in DOMAIN trips :
        parkEvents[i].vehicle = trips[j].vehicle /\ ~trips[j].deleted
        => \/ parkEvents[i].end # 0 /\ parkEvents[i].end <= trips[j].start
           \/ trips[j].end # 0 /\ trips[j].end <= parkEvents[i].start

(* Between two events, what is non-operational is parked: ending a park     *)
(* event has ended the non-operational events that refer to it.             *)
NonOperationalWhileParked ==
    Idle => \A i \in DOMAIN nonOps :
        nonOps[i].end = 0 => parkEvents[nonOps[i].park].end = 0

(* Once all events are processed, every vehicle that the feeds show has an  *)
(* open park event, wherever it was before and whatever was restarted.      *)
ShownVehiclesAreParked ==
    Drained => \A v \in Vehicles :
        Present(lastImport[v]) => \E i \in OpenParks(v) : TRUE

(* A trip that has ended stays as it is: no reset deletes it, no later      *)
(* check_in moves its end.                                                  *)
EndedTripsStay ==
    [][\A i \in DOMAIN trips : trips[i].end # 0 => trips'[i] = trips[i]]_vars

(* No period is negative, whatever fails: a row never ends before it began, *)
(* because the events reach the tables in the order they were seen          *)
(* (Documentation.md 42-43 has rows of less than 0 minutes cleaned up).     *)
NoNegativePeriods ==
    /\ \A i \in DOMAIN parkEvents : parkEvents[i].end = 0 \/ parkEvents[i].start <= parkEvents[i].end
    /\ \A i \in DOMAIN trips : trips[i].end = 0 \/ trips[i].start <= trips[i].end
    /\ \A i \in DOMAIN nonOps : nonOps[i].end = 0 \/ nonOps[i].start <= nonOps[i].end

(* Whatever fails, an id that travels through Redis, the queue or a         *)
(* correction names a row of the vehicle it travels with, and a vehicle's   *)
(* list in Redis holds that vehicle's events (event.go 24-26, 103-136).     *)
Owns(parks, rides, e) ==
    /\ e.park # 0 => e.park \in DOMAIN parks /\ parks[e.park].vehicle = e.vehicle
    /\ e.trip # 0 => e.trip \in DOMAIN rides /\ rides[e.trip].vehicle = e.vehicle

OwnsAll(parks, rides, events) == \A s \in events : \A i \in DOMAIN s : Owns(parks, rides, s[i])

OwnRows ==
    /\ \A v \in Vehicles : /\ redis[v] # NoEvent => redis[v].vehicle = v
                           /\ Owns(parkEvents, trips, redis[v])
    /\ Owns(parkEvents, trips, event)
    /\ OwnsAll(parkEvents, trips, batch)
    /\ \A k \in DOMAIN eventChan : OwnsAll(parkEvents, trips, eventChan[k])
    /\ OwnsAll(parkEvents, trips, corrections)

(* Whatever fails, the handler of one vehicle's event leaves the park       *)
(* events and trips of all other vehicles alone (park_events.go, trips.go). *)
OnlyOwnRowsChange ==
    /\ \A i \in DOMAIN parkEvents :
          parkEvents'[i] # parkEvents[i] => parkEvents[i].vehicle = event.vehicle
    /\ \A i \in DOMAIN trips :
          trips'[i] # trips[i] => trips[i].vehicle = event.vehicle

OthersUntouched == [][OnlyOwnRowsChange]_vars

(* Whatever dies and restarts, as long as Redis keeps what it has, the      *)
(* INSERT of a non-operational event names a park event that exists, so     *)
(* its MustExec does not violate the foreign key and bring the importer     *)
(* down (non_operational_events.go 13): a vehicle that is in LastImport has *)
(* a last event in Redis, or one before it in the queue.                    *)
PanicsOnlyAfterLoss ==
    losses = 0 /\ plan # <<>> /\ Head(plan) = "StartNonOperationalEvent"
    => event.park \in DOMAIN parkEvents

(* Also when a correction overtakes the check_out of its vehicle, no        *)
(* vehicle has two open park events.                                        *)
AtMostOneOpenPark ==
    \A i, j \in DOMAIN parkEvents :
        /\ parkEvents[i].vehicle = parkEvents[j].vehicle
        /\ parkEvents[i].end = 0 /\ parkEvents[j].end = 0
        => i = j

(* A park event left open by a restart is ended by a later cleanup, or the  *)
(* vehicle is in its feed again.                                            *)
StaleParkIsEnded ==
    \A v \in Vehicles :
        (OpenParks(v) # {} /\ ~Present(lastImport[v]))
        ~> (OpenParks(v) = {} \/ Present(lastImport[v]))

-----------------------------------------------------------------------------
(* What the repository says of the program and the code does not do.       *)

(* "Wait until all events are processed." (main.go 145): cleanup corrects   *)
(* no vehicle while an event of that vehicle is still being processed. This *)
(* holds at the first import, when only check_ins are under way, and fails  *)
(* at night: the channel is empty when its last batch is being processed.   *)
CorrectionsAreSettled ==
    \A s \in corrections :
        /\ event.vehicle # Head(s).vehicle
        /\ \A other \in batch : Head(other).vehicle # Head(s).vehicle

(* "checkOuts all the bikes that are not in a feed anymore" (main.go 143):  *)
(* only a feed that was imported can tell that a bike is not in it.         *)
CorrectsOnlyImportedFeeds ==
    \A s \in corrections : FeedOf[Head(s).vehicle] \in imported

(* "return feed.DownloadDataAllowTimeout(url, time.Second*15)" (feed/       *)
(* http_import.go 17): the download of a feed ends, one way or another, and *)
(* with it the wait for all feeds of importLoop, whatever a provider does.  *)
EveryDownloadEnds == \A f \in Feeds : (f \in pending) ~> (f \notin pending)
=============================================================================
