# Formal models of dd-importer

TLA+ models of the programs in this repository, TLC configurations that check
them on small instances, and proofs that TLAPS checks for every instance.

```
tlc -workers 2 -config VI_movement.cfg MCVehicleImporter.tla   # one run; the list is below
tlapm VehicleImporterProofs.tla                                # the proofs
tlapm VehicleTablesProofs.tla
tlapm VehicleRefinementProofs.tla
tlapm FeedMonitorProofs.tla
tlapm TripImporterProofs.tla
tlapm ServiceAreaProofs.tla
tlapm FeedReaderProofs.tla
tlapm BatchAggregationProofs.tla
```

Contents: [the system](#the-system), [modules](#modules-and-the-code),
[abstractions](#abstractions), [runs](#runs), [findings](#findings),
[fairness](#fairness), [proofs](#proofs), [not modelled](#what-is-not-modelled),
[plan](#plan).

## The system

Five programs share one Postgres database; hardly any of their
transactions span more than one statement or batch, so their steps interleave at statement
level, with each other and with crashes.

| component | state | operations | works with |
|---|---|---|---|
| vehicle importer: loop (`main.go`) | `LastImport` of each feed, `LastTimeUpdated`, `firstImport` | load feeds (once a minute), download every feed in a goroutine of its own, wait for all, clean up once after the start and at 02:00 | the channel `EventChan`, table `feeds` |
| vehicle importer: comparison (`process/clean.go`) | none | turns two downloads of a feed into events | called by `importFeed` |
| vehicle importer: event processor (`process/event.go`, `park_events.go`, `trips.go`, `non_operational_events.go`) | Redis list per vehicle; tables `park_events`, `trips`, `non_operational_event` | one handler per kind of event, each several statements and then a push to Redis | reads `EventChan`; its tables are read by the cleanup |
| feed monitor (`monitor/`, `cmd/feed_monitor`) | table `feed_downtime`, `LastCheck`, the queue of 100 notifications | check all feeds every minute, record and close downtimes, queue alerts; a worker posts them with retries | `feeds.last_time_successfully_imported`, stamped by the importer; Telegram |
| trip importer (`cmd/trip_importer`, `feed/mds*/import_trips.go`) | rows of `trips` with a `source_feed_id` (those of the vehicle importer have none), a cursor per feed in memory | resume after the newest stored trip, download hours in batches of 100 with two workers, store with three attempts | providers |
| batch aggregation (`cmd/batch_aggregation`) | two tables in DuckDB; `moment_statistics`, `day_statistics` in Postgres | pick the dates to do, compute indicators in chunks of 31 days, write to Postgres after every fifth; or delete the values of some indicators and compute them again | reads what the importers write |
| service area importer (`cmd/service_area_importer`, `process/service_area.go`) | tables `service_area_geometry` and `service_area` (versions with `valid_from` and `valid_until`) | a job: download the geofencing zones of all feeds, keep those where rides may start and end, look up or insert their geometries, compare the areas of each municipality with the valid version and replace it when they differ | providers |
| feed readers (`feed/gbfs`, `feed/mds`, `feed/mds-v2`, `feed/tomp`) | none beyond a download | one request (GBFS, TOMP), overview, vehicles and types (full GBFS), vehicles and states (MDS 2), the same by pages of 250 ("check"), following links (MDS 1) | called by `importFeed` |
| requests and tokens (`feed/http_import.go`, `feed/auth`) | `AccessToken` and `ExpireTime` of each feed | HTTP requests with a timeout, which overflows (finding 3); a new token when `ExpireTime`, 5 s before the token's end, has passed | called by all readers, and by the two workers of the trip importer at once; tokens are handed on by `LoadFeeds` |

What is hard here, and what makes each part correct:

* **Event processor.** A vehicle's handler decides by the newest entry of the
  vehicle's Redis list alone, and the tables are written before that entry. So
  the entry and the tables must agree between two events; if they part (a
  crash between two statements, Redis emptied) the following handlers act on a
  wrong picture. Correct means: one open park event at most, park events and
  trips of a vehicle follow each other, non-operational periods stay inside a
  park event, finished periods are final, a trip that is cancelled within 15
  minutes reopens the newest park event and none else, and no vehicle's
  event touches the rows of another.
* **Loop and cleanup.** The cleanup reads `park_events` and the loop's memory
  while the event processor is writing; "wait until the channel is empty" is
  not "wait until all events are processed". A restart forgets the last
  downloads. Correct means: what the restart left open is closed, and
  nothing else is.
* **Feed monitor.** A record, its alert and the mark that the alert was sent
  are three steps; the queue is bounded and dropped when full; a post may be
  delivered without an answer; the monitor may be restarted at any of them.
  Correct means: downtimes of a feed follow each other and add up, an outage
  that lasts is recorded and a recovery closes it, the chat never goes
  back in time, and it tells the status when nothing was lost.
* **Trip importer.** It resumes after the newest trip in the table, so
  whatever failed earlier must not leave a hole before that trip; the table
  has no key, so nothing stops a trip from being stored twice. Correct means:
  no hole, every trip arrives, and no trip is stored twice.
* **Batch aggregation.** It resumes after the newest day of one of the two
  tables it writes, one after the other, and a recalculation deletes first and
  computes afterwards. Correct means: no hole before the newest day, no write
  that a unique index refuses, a recalculation changes what it was asked for
  alone, and whatever went wrong the statistics keep up with the calendar.
* **Service areas.** Geometry and version are written by different statements,
  the array of hashes in a version is tied to the geometries by no key, every
  failure of a download or a statement counts as "nothing there", and nothing
  keeps two jobs apart. Correct means: a version names geometries that exist,
  versions of an operator in a municipality follow each other, a job that had
  no trouble leaves the areas it downloaded, and what is published arrives.
* **Readers.** A download is several requests to a fleet that changes between
  them, and each failure has its own fallback: nothing, what was read so far,
  or an empty page. `CleanCompare` ignores an empty list but takes any other
  for the whole fleet. Correct means: a list that is not empty has every
  vehicle that was there all the time, and none twice.
* **Tokens.** Time passes between the check of `ExpireTime`, the request and
  the provider's look at the token; two workers read and assign the fields
  without a lock; a refused refresh stores an empty token, an unreachable
  server panics. Correct means: no request carries a token that has come to
  its end, and whatever failed, requests succeed again.

All hazards, each at its line and with the properties that are about it, are
listed in `PROJECT.json`.

## Modules and the code

```
CleanCompare ── EventProcessor ──┐
                                 ├─ VehicleImporter ── VehicleRefinement ── MCVehicleImporter
                  HttpImport ────┘        │                  │
                                          │            VehicleLifecycle (abstract)
                              VehicleImporterProofs ── VehicleTablesProofs
                                                             │
                         (with VehicleRefinement)  VehicleRefinementProofs
FeedMonitor ── FeedMonitorProofs
TripImporter ─┬─ MCTripImporter
              └─ TripImporterProofs
BatchAggregation ── BatchAggregationProofs
ServiceArea ─┬─ MCServiceArea
             └─ ServiceAreaProofs
AccessToken ── FeedReader ─┬─ MCFeedReader
                           └─ FeedReaderProofs
```

**CleanCompare** (`process/clean.go`, `geoutil`). `CompareBike` is the sequence
of events one vehicle gives rise to; `CleanCompare` those of a feed.

**EventProcessor** (`process/event.go` and the three files of statements).
`Handle` is the switch of `ProcessEvent`; each handler (`FirstCheckIn`,
`ResetTrip`, `EndTripAndPark`, `CheckInAfterReboot`, `VehicleMoved`,
`CheckOut`, `CorrectingCheckOut`, `NonOperationalChange`, `NothingToGoOn`)
yields a plan, the list of its SQL statements. One action per statement
executes the head of the plan; `LPush`, the push to Redis, is the last one.
Between any two of them the cleanup may read and the process may die.

**HttpImport** (`feed/http_import.go`). The timeout as 64-bit arithmetic, in
four limbs of 16 bits.

**VehicleImporter** (`main.go`, `process/load_feeds.go`). `ImportFeed` and
`ImportNothing` are the goroutine `importFeed` with and without vehicles;
`pending` is what `waitGroup.Wait()` waits for; `SkipCleanup`, `StartCleanup`,
`CleanupQuery`, `CleanupSend` are the turn of `importLoop`. `Restart`,
`ForeignKeyPanic` (a non-operational event for park event 0), `AlertPanic` (the
cleanup without Telegram's variables) and `LoseRedis` are the faults.

**VehicleLifecycle** is what `Documentation.md` promises about one vehicle:
parked, rented, missing, with its number of stays and completed trips.
**VehicleRefinement** shows that VehicleImporter implements it: all statements
of a handler take effect at its push to Redis.

**FeedMonitor** (`monitor/feed_monitor.go`, `monitor/telegram.go`). A check
reads all feeds (`StartCheck`), then handles them in the order of their ids,
one statement or one queueing per action; `TakeNotification`, `Deliver`,
`Refuse`, `DeliverUnanswered`, `Reject` are the worker and `SendAlert`. The
importer that stamps the feeds and the administrator who switches them are
part of the model, as is the chat.

**TripImporter** (`cmd/trip_importer`). `StartJob`, `BeginFeed`
(`getLatestImportTime`), `NextBatch`, `Download`, `Downloaded`, `StoreTrips`,
`UpToDate`; failures are `BeginBlindly` (the ignored error of the query),
`DownloadFails`, `StoreFails`, `StoreUnanswered` and `Restart`. Providers
publish a trip within an hour after the hour it ended in, which is what the
comment on `importLag` says of them.

**BatchAggregation** (`cmd/batch_aggregation/main.go`, `analyze`). `RunDefault`
and `RunRecalculate` are the two commands; `DeleteMoments` and `DeleteDays` are
the statements of `deleteIndicatorData`, `DetermineDateRange` is the function of
that name, `AnalyzeChunk`, `LastChunkDone` and `Aggregate` are
`aggregateAndStoreData`, `WriteMoments` and `WriteDays` the statements of
`writeToPostgres`. `Refused` is a write that a unique index refuses, `Die` a
death at any step. A job that ends after it wrote one table and not the other,
or deleted and did not compute, is counted in `torn`; a recalculation of days
that the default run has not come to, in `early`, one of days that are not over in
`ahead`: `parseDateRange` takes any dates, and on days to come only open park events
can be counted (`HasBegun`).

**ServiceArea** (`cmd/service_area_importer`, `process/service_area.go`,
`feed/gbfs/import_geofencing.go`). `Download` and `DownloadFails` are
`downloadFeeds`, one feed at a time; `ShouldKeepFeature` with `ResolveRules` is
the filter of zones, as operators of the same names; `GeometryFound`,
`GeometryMissing`, `InsertGeofence` and `GeometryFails` are `processGeofence`;
`Unchanged`, `Changed`, `CompareFails` the comparison with the valid version;
`UpdateServiceArea` and `Commit` the transaction that replaces it: the UPDATE
reads the valid rows, waits for the locks of another job, and ends those that
the other did not. `trouble` records that a statement of the job failed or that
it ran beside another one.

**AccessToken** (`feed/auth`, `doRequest`). A caller goes from `Begin`
(`GetAccessToken`) by `Issue` or `Refuse`, `StoreToken` and `StoreExpireTime` to
`ReadToken`; what a caller does to a field that another is assigning is
nondeterministic: a comparison may come out either way, a string may be half of
each (`ReadTornToken`, and in `Die` the read that crashes). `FailToSign` is Dott's
own way to fail: it stores an empty token with a full expiry. `Unreachable` is
Moveyou's way to treat a server that cannot be reached, `Die` the panic of the
others. `Reload` is what `LoadFeeds` does to a token.

**FeedReader** (`feed/gbfs`, `feed/mds`, `feed/mds-v2`, `feed/tomp`, `importFeed`,
the workers of `cmd/trip_importer`). It extends AccessToken: every request of a
reader is a call of its caller. `reader.step` is the request a reader makes next,
one `Read...` action per answer; `RequestRejected`, `RequestFails` and
`AnswerGarbled` are the failures with the fallback of each reader (`GivesUp`).
`Join`, `Leave`, `Ride` and `Park` are the fleet of the provider. `reader.list` is the
set of vehicles read so far and `reader.twice` whether one of them was read twice:
the order of a list is of no interest to `importFeed`, its repetitions are.

`MC*` modules hold the values of the constants. Definitions that begin with
"Mutant:" are plausible bugs: each replaces the definition after it, and the
property they are listed with in `PROJECT.json` then fails.

## Abstractions

* Places lie on a line, in decimetres: the code only compares distances with
  10 cm, 100 m and 500 m. (0,0), which the code takes for "absent", is 0.
* Time is a counter of ticks. `TripWindow = 1` makes 15 minutes one tick, so
  "in the same tick" is inside the window and "a tick later" outside; the
  monitor's `Threshold` counts the same way; trips and cursors count hours.
* A row that is deleted stays and is marked; NULL is 0. Serial ids are
  positions: an insert that is rolled back has no counterpart in the code.
* The list of a vehicle in Redis is its newest entry, the only one read.
* A statistic is a pair of an indicator and a day, which is in a table or not;
  its values, zones, providers and moments of the day are left out, and every
  day has something to count. Six of the eleven indicators stand for the four
  ways they are computed. A unique index refuses a statement as a whole.
* A service area is an area: its geometry and the hash of it. An area that
  several zones or feeds of an operator offer is looked up once. `valid_until` is
  the row of the transaction that set it.
* The clock of AccessToken is counted down: a value is what is left until then.
  `MaxDelay` bounds how long one stretch of a call takes (from the token to its
  storage, from there or from the check to the answer), and three of them fit
  into the margin; tokens live no shorter than the margin. That three delays fit is
  an assumption about the environment: no timeout in the code enforces it. Schemes that get, use
  and lose a token alike are one: basic auth and Bolt are "oauth2".
* A provider lists its vehicles in one order, the last page of one vehicle each
  begins at their number less one, and MDS 1 links name positions.
  `DownloadDataPaginated` takes the offset of that last page for the number.
* An answer is a list, fails, or is empty. Of JSON with a field of another type
  Go keeps what it could decode; such an answer counts as failed or empty here.
* The order of vehicles in a batch is arbitrary (it is the order of a Go map).
* One feed holds more vehicles than are modelled, so a download without any of
  them is not an empty feed. What a feed repeats is unbounded; only appearing
  and changing vehicles are counted by `MaxChanges`.

## Runs

Every bound is a constant with a name that starts with `Max`, or the set a
constant ranges over.

| run | checks | bounds, and why they suffice |
|---|---|---|
| `VI_movement` | `TypeOK`, `LastEventMatchesTables`, `ParkEventsInOrder`, `ParkedOrUnderWay`, `NonOperationalWhileParked`, `ShownVehiclesAreParked`, `CorrectionsAreSettled`, `EndedTripsStay`, `ImplementsLifecycle` | one vehicle, three places such that all three distance classes occur (below 100 m, above 500 m, and a move of both), both statuses, three changes: enough for a trip, its return and one more event; a restart between events, a feed switched off and on, cleanup at the first import |
| `VI_night` | `AtMostOneOpenPark`, `StaleParkIsEnded` | two places, one status, three changes, a restart; the cleanup may run at any turn, so it overlaps with every event |
| `VI_crashes` | `NoNegativePeriods`, `OwnRows`, `PanicsOnlyAfterLoss` | two interchangeable vehicles in one feed, two ticks, three changes, two batches in the channel, death between any two statements, one loss of Redis, both panics; the constraint `OneOrBriefly` leaves either one vehicle with all of that, or two within a tick and two changes |
| `FM_monitor` | `TypeOK`, `DowntimesInOrder`, `AlertsInOrder`, `ChatTellsStatus`, `EndedDowntimesStay`, `DownIsRecorded`, `UpIsClosed` | one feed, three ticks with threshold 0 (down, up and down again), one each of switch, failing statement, restart, unanswered post and rejected post; a queue of two, which overflows while the worker retries |
| `TI_trips` | `TypeOK`, `StoredOnce`, `NothingSkipped`, `EveryTripIsStored` | two feeds of one system, batches of two hours over six hours with empty hours in between, two trips in one hour, a trip without a route; one each of failed request, lost answer, failed query, kill |
| `BA_daily` | `TypeOK`, `StatisticsAreComplete`, `NothingIsRefused`, `RecalculatedAreThere`, `OnlyRequestedChange`, `StatisticsKeepUp` | five days in chunks of two (`ChunkSize` is added to the first day), written after every second chunk and the last: an odd number of chunks and an even one, with and without a last write that is empty; one indicator that begins on the second day; one recalculation of any dates, past or to come, of four selections, one death at any step |
| `SA_areas` | `TypeOK`, `KnownAreas`, `VersionsFollowEachOther`, `AreasAreCurrent`, `AreasArePublished` | two feeds of one operator, an area in one municipality, one in two and one in none, rules in every position (feed, zone, both, unreadable, several, with a speed limit); two changes, so an area goes and comes back; one of: failing download or statement, death, overlap |
| `FR_reader` | `TypeOK`, `CompleteDownload`, `FreshToken`, `RequestsSucceedAgain` | every reader; fleets of up to four with pages of two, so the number of vehicles is one below, on and above the boundary, and links two deep of a page of one; two changes; tokens that live as long as the margin and longer, one user and two; two faults, enough for a refused token and a failing request after it |
| `VI_v_night`, `VI_v_feeds`, `VI_v_timeout`, `BA_v_recalculate` | one statement each of a comment or document that the code does not keep | see below |

Properties are about vehicles, feeds and trips one at a time, except
`OwnRows` and the trip importer's per-system order, which is
why the other runs of vehicles and feeds have one of each. The models are
symmetric in nothing but vehicles, and only `VI_crashes`, which has no liveness,
uses the symmetry.

`LastEventMatchesTables`, `ParkedOrUnderWay`, `EndedTripsStay`, `CorrectionsAreSettled`
and the refinement are checked with restarts between events and without the
nightly cleanup, because that is where they hold: with a cleanup at night, a
correction may overtake a `check_out`. The properties of park events alone do not need
that (they are proved with cleanups at night), but no crash between a statement and
the push either: after one the next `check_in` inserts a second open park event. What
still holds under those faults is what `VI_crashes` checks.

What a property excepts is history the model records, never a state: `ChatTellsStatus`
lost answers, dropped alerts and those that `NothingLost` cannot rule out because the worker
gave up after `MaxAttempts` refusals, `VersionsFollowEachOther` overlapping jobs,
`CompleteDownload` lists of pages that moved or are missing and the last vehicle
that `Overlooked` names, `FreshToken` a token kept because Moveyou's server was
out of reach, `RecalculatedAreThere` recalculations of dates that were not over.

## Findings

Each is a run that TLC must find violated.

1. `VI_v_night`: the cleanup says "wait until all events are processed"
   (`main.go:145`) but waits for an empty channel; the batch taken from the
   channel last is still being processed. A correcting check-out is then sent
   for a vehicle whose check-out is half done.
2. `VI_v_feeds`: a feed whose first import failed has its vehicles checked
   out, because the cleanup selects by operator and another feed of the
   operator was imported (`main.go:163-175`).
3. `VI_v_timeout`: `DownloadData` passes `time.Second*15`, `doRequest`
   multiplies by `time.Second` again; the product overflows to a negative
   number, which `http.Client` takes for no timeout. One silent provider stops
   the import of all feeds. With `VehicleFeedTimesOut` true the property holds.
4. `BA_v_recalculate`: "Removes all existing values for the selected indicators
   and recalculates them" (`cmd/batch_aggregation/main.go:43-44`), but
   `rentals_per_vehicle_per_day` asked for alone is only removed:
   `ComputeTripsPerVehiclePerDay` (`analyze/trips.go:48`) returns at once unless
   the two indicators it divides are selected too. In `BA_daily`, whose
   selections have all three or not the quotient, the property holds.

The models also reach states that carry no property. One of them a document speaks to:
an alert is marked as sent when the queue was full and dropped it, while
`cmd/feed_monitor/README.md:141` says of `notification_sent` "Whether initial alert was
sent". The others no document rules out: after a cancelled trip or a restart, the status a vehicle comes back
with is not recorded, and a second "disabled" opens a second non-operational
row; a cancelled trip keeps the location from before it; after Redis is
emptied a running trip is never ended and later handlers push events with park
event 0, which ends in the foreign-key panic (nothing else does:
`PanicsOnlyAfterLoss`); with Telegram unset the cleanup
panics at every start as long as it has something to correct; a feed that is
disabled while the monitor is away keeps its downtime open; an outage recorded
just before a crash or while the queue is full is never announced, for the next
check finds it ongoing; the query for the newest trip may fail, its error is ignored, and the
feed is imported once more from its start date (`StoredOnce` counts that); an
aggregation that dies between its two writes leaves days without day
statistics, because it resumes by the other table; a recalculation up to
yesterday before the default run makes that run skip the day or be refused, and so,
for longer, does one of days to come, of which most has no value yet;
a recalculation of rentals or vehicles alone leaves the quotient of the two
as it was; two jobs of the service area importer that overlap leave two valid
versions, between which the next comparison chooses at random; a service area
that has no zone left in a municipality stays valid (`service_area.go:56` says so);
a paged download misses the last vehicle when the number before it is a multiple
of the page size; a failing page of MDS 1, or a garbled page of MDS 2 states,
leaves a list that is taken for the whole fleet; and a token server that cannot
be reached, or an MDS 1 vehicle without any coordinates, ends the importer with
a panic.

## Fairness

* VehicleImporter `Fairness`: the event processor and the loop are goroutines,
  which Go schedules; 02:00 comes every day, and although it may not coincide
  with the end of one particular import it does so again and again (strong
  fairness of `StartCleanup`); a request that times out ends. `ProvidersAnswer`
  is an assumption about the environment and kept apart: since requests do not
  time out, that downloads end is up to the providers. `SilentSpec` leaves it
  out. `StaleParkIsEnded` uses it, `EveryDownloadEnds` must not.
* FeedMonitor: the check and the worker are goroutines. Importer,
  administrator, Telegram and database owe nothing, and the clock is free to
  stop, which is why the liveness properties are about status that lasts.
* TripImporter: the job is a cron job, started again when it has ended; hours
  pass and providers publish. Failures are not fair.
* BatchAggregation: days pass, the default run is started again when the job
  has ended, and a job that runs goes on. Nobody owes a recalculation, and
  deaths are not fair.
* ServiceArea: some job is started again and again, and one that runs goes on
  until it ends or dies: it is sequential, its statements are answered or fail.
* FeedReader: downloads are started again and go on, and the clock runs. That a
  token server and a provider answer is an assumption about them, for neither
  kind of request times out (finding 3; the token clients have no timeout at
  all). Failures, panics and revocations are not fair.

## Proofs

TLAPS proves, for all values of the constants that satisfy the `ASSUME`s (any
number of vehicles, feeds, places, faults):

| theorem | states | argument |
|---|---|---|
| `TypeCorrect` (VehicleImporterProofs) | `Spec => []TypeOK` | inductive as it stands: one lemma per statement and one for the handlers; the conjunct "a plan has an event" is what keeps the entry in Redis an event |
| `RowsAreOwned` | `Spec => []OwnRows` | inductive together with `TypeOK`: rows never disappear and never change vehicle (`Keeps`-style lemmas on `Owns`), so an id stays valid wherever it travels; each handler copies ids from an entry of its own vehicle |
| `OthersAreUntouched` | `Spec => OthersUntouched` | from the two invariants: a statement writes the row its event names, which `OwnRows` says is its vehicle's. It follows so closely from `OwnRows` that no run repeats it |
| `PeriodsAreNotNegative` | `Spec => []NoNegativePeriods` | `TimesInv`: no row starts, and no event that waits or is processed carries a time, later than an event after it. It holds under every fault: events are handled in the order in which their batches were sent |
| `CorrectionsAreOfSettledVehicles` (VehicleTablesProofs) | `~NightlyCleanup => (Spec => []CorrectionsAreSettled)` | the first cleanup follows the first round, in which the feeds can only have given check-ins (`OnlyCheckIns`); a vehicle found missing has none of them |
| `PanicsNeedALoss` | `Spec => []PanicsOnlyAfterLoss` | `HeardInv`: while Redis has lost nothing, a vehicle in `lastImport` has an entry in Redis, is being handled, or has an event waiting; so events that need an entry, all but a `check_in` and a correction, find one. `ParkIdInv`: such an entry carries the id of a park event, and the statement that inserts one comes before those that use its id (`PlanInv`). It holds under crashes between statements and cleanups at night |
| `OneOpenPark`, `ParkEventsFollowEachOther`, `NonOperationalIsParked`, `WhatIsShownIsParked` | `Calm => (Spec => []P)` for `AtMostOneOpenPark`, `ParkEventsInOrder`, `NonOperationalWhileParked`, `ShownVehiclesAreParked` | from `CalmInv`, see below |
| `RedisTellsTheTables`, `ParkEventsAndTripsDoNotOverlap`, `TripsThatEndedStay` | `Calm /\ ~NightlyCleanup => (Spec => ...)` for `LastEventMatchesTables`, `ParkedOrUnderWay`, `EndedTripsStay` | from `CalmInv` and `RideInv`, see below |
| `LifecycleIsImplemented` (VehicleRefinementProofs) | `Calm /\ ~NightlyCleanup => (Spec => ImplementsLifecycle)` | from `CalmInv`, `RideInv` and `ProgressInv`, see below |
| `MonitorTypeCorrect` (FeedMonitorProofs) | `Spec => []TypeOK` | inductive |
| `DowntimesAreInOrder` | `Spec => []DowntimesInOrder` | `DowntimesInOrder` alone is not inductive: a check uses the time at which it began. `MonitorInv` adds `Past`, that no recorded time is later than the running check's, and that one not later than the clock |
| `EndsAreFinal` | `Spec => EndedDowntimesStay` | from the invariants: only open rows are given an end |
| `AlertsAreInOrder` | `Spec => []AlertsInOrder` | the alerts of a feed in the chat, in the worker's hands, in the queue and about to be queued are one sequence; the invariant says of that sequence that it alternates and how its last element relates to the newest downtime |
| `ChatTellsTheStatus` | `Spec => []ChatTellsStatus` | the same sequence, when `NothingLost`, misses nothing: its last element is what the newest downtime says |
| `TripTypeCorrect` (TripImporterProofs) | `Spec => []TypeOK` | with `Timeline`: stored trips lie in the past, so the newest of them exists (`LatestImportIsNext`, by the least-number principle) and the cursor after it is a natural number |
| `TripsStoredOnce` | `Spec => []StoredOnce` | `StoredOnce` is not inductive, for a trip in the batch may have its allowed number of copies and get another. `OnceInv` adds that a trip the job may still store has one copy less than is allowed; a trip is `Wanted` no more once its batch is committed, and again only after an unanswered commit or a blind start |
| `NoTripSkipped` | `Spec => []NothingSkipped` | `NoHole` adds that every trip before the cursor is stored, still to be downloaded, or in the batch; `Timeline` that the cursor stays below a cutoff at which all trips of the hours are published, so an hour is complete when it is downloaded. A batch is committed whole, so its trips cannot be stored without those before them |
| `ServiceAreaTypeCorrect` (ServiceAreaProofs) | `Spec => []TypeOK` | inductive: the conjuncts about labels say which fields of a job are filled when, and the rows an UPDATE has read stay rows |
| `AreasAreKnown` | `Spec => []KnownAreas` | geometries are never deleted; the invariant adds that what a job has found is stored |
| `VersionsInOrder` | `Spec => []VersionsFollowEachOther` | without overlaps only one job runs, so the rows its UPDATE has read are all the valid ones when it commits (`targets` equals `ValidVersions`), and when nothing failed the areas it adds differ from those it read |
| `TokensAreFresh` (FeedReaderProofs) | `Spec => []FreshToken` | `FreshInv` bounds from below what is left of every token by what is left until `ExpireTime` and by how long each caller has waited: a token that is answered, stored or carried is worth its margin less one delay per stretch it went through, and three stretches fit. It is about AccessToken alone; every action of FeedReader is one of its steps or leaves it alone |
| `ReaderTypeCorrect` | `Spec => []TypeOK` | inductive together with what each kind of reader may ask for next (`Stepwise`) |
| `DownloadsAreComplete` | `Spec => []CompleteDownload` | `DownloadInv`: a reader with one list has nothing or all that the provider offers; a reader of pages has what is before its offset, pages begin at multiples of `Limit`, and so, when the last page is reached without pages having moved, either nothing is missing or only the last vehicle, the one `Overlooked` names. Links are followed until the last page or the list is marked as cut |
| `AggregationTypeCorrect` (BatchAggregationProofs) | `Spec => []TypeOK` | inductive, with the end of a chunk between its start and the last date; the newest date of the table exists by the least-number principle (`LatestDay`) |
| `RecalculationStaysInRange` | `Spec => OnlyRequestedChange` | `Safe`: DuckDB holds nothing between two runs nor before the first chunk, only a recalculation deletes, its chunks start in its range, and what is in DuckDB is of its indicators and dates |
| `NoDayIsSkipped` | `WholeSelections => (Spec => []StatisticsAreComplete)` | `CompleteInv`: there is a day n and the first day b of the batch such that each table holds exactly what is due up to n, but for the requested rows from b on, and DuckDB holds exactly the batch, each row once. Deleting opens rows, writing a batch moves b to `start`, and a default run that dies leaves everything up to b - 1 (`CutOff`) |
| `WritesAreAccepted` | `WholeSelections => (Spec => []NothingIsRefused)` | from the same invariant: a batch consists of open rows, which the table does not hold |
| `RecalculationIsWhole` | `WholeSelections => (Spec => []RecalculatedAreThere)` | `RecomputedInv`: the requested rows before b are stored, as long as `DatesAreOver`; it does without the exact contents of the tables, so it holds after torn runs, too |

`WholeSelections` says that a recalculation of the indicator per vehicle takes
along the two it is the quotient of. Without it the values are not there again:
that is what `BA_v_recalculate` shows.

`Calm` is `~CrashMidHandler /\ ~TelegramMayBeMissing /\ MaxRedisLosses = 0`: the process may
be stopped between any two events, feeds may be switched on and off, downloads
may fail, be empty or stay out, and cleanups may come at any time; it is not
killed between two statements and Redis is not emptied. `VI_crashes` runs
without these restrictions; `OwnRows`, `NoNegativePeriods` and, as long as Redis has lost
nothing, `PanicsOnlyAfterLoss` are proved without them. The four properties of park events hold with cleanups
at night, too, which goes beyond the runs: only `AtMostOneOpenPark` is run with
them. The invariant, `CalmInv`, is the conjunction of what each part of the importer
relies on:

* `RegularInv`: which lists of events are in the queue (a check-in, a check-out or
  a correction alone, or changes of a vehicle that stays); `QueueInv`: a batch has
  one list of a vehicle at most, and only changes are left of a list begun.
* `PlanInv`: the statements of a handler come in one order for each kind of event.
* `LoopInv`: when `importLoop` has finished what; nothing is corrected that is in
  `lastImport`.
* `TraceInv`: for every vehicle there is a sequence of stages, "parked" or "away",
  one before each batch of the queue, that starts with what the running event
  leads to, ends with whether the vehicle is in `lastImport`, and is what each
  batch says. This is what makes the guess of a handler right: `clean.go` decides
  by `lastImport`, far ahead of the entry in Redis the handler will read.
* `CorrectionInv`: a correction names the newest park event of its vehicle, and the
  batches before it hold a check-out of that vehicle at most (during the day nothing).
* `ParkInv`: rows beyond the newest entry's park event belong to the running event,
  and which statement is next tells whether the newest row is open; `NonOpInv`
  and `OrderInv` are the properties with the handler's progress in them.

`RideInv` adds the same for trips: the trip a check-out named is the only one
without an end, which statement is next tells whether it has got one, and trips
and park events keep `Apart`. It needs `~NightlyCleanup`, rightly: `VI_v_night`
shows a correction that overtakes a check-out at night and leaves the trip open
for ever, so that Redis no longer tells what the tables hold.

The refinement counts rows, and maps the push to Redis to a step of the life
cycle. `CalmInv` and `RideInv` relate the tables to the last event of a vehicle,
which during a handler is the running one; the life cycle starts from the entry
in Redis, the one before. `ProgressInv` relates these two, as long as a handler
runs:

* `FollowsOn`: which event follows which entry, so the stages before and after a
  push are those of a step.
* `StaysOn`: of the park events of the vehicle at most one is beyond the entry's,
  namely the running event's, which only the events that begin a stay have inserted.
* `RidesOn`: when the handler of a `check_in` is through, the trip of a `check_out`
  before it has an end, and when that of a `cancel` is, the trip is deleted.

From this follow `StatementsAreHidden`, that no statement before the push touches a
row that counts (a park event inserted lies beyond the entry's, the trip that
is given an end is the one the entry names), and `PushCounts`, that the push adds one
park event or none and one trip or none; with the cardinalities of finite sets,
`PushTurns` gives the steps of the life cycle one by one.

Constants need only the named assumptions of the modules: capacities and
bounds are natural numbers, vehicles belong to feeds, places keep away from
(0,0), no vehicle is `NoVehicle`; trips belong to feeds and end after the start
date of theirs; three delays fit into the margin. The sets of trips, feeds, jobs and
users may be infinite.

Only model-checked are the liveness properties (`StaleParkIsEnded`, `DownIsRecorded`,
`UpIsClosed`, `EveryTripIsStored`, `StatisticsKeepUp`, `AreasAreCurrent`, `AreasArePublished`,
`RequestsSucceedAgain`), because TLAPS cannot reason about fairness. Every other
property of a passing run is stated by a theorem.

## What is not modelled

* What the SQL of batch aggregation computes (`analyze`, `indicators`): values.
* Decoding of JSON, vehicle types and names: data without control.
* `process/vehicle.go`, `cache.go`: writes to tile38 that nothing reads back.
* `geoutil/fix_invalid_geojson.go`: geometry.
* Two monitors side by side (a rolling update of the deployment), duplicates
  of one vehicle in a download, and the graceful stop of the monitor.
* Two aggregation jobs at once.
* The vehicle types of a full GBFS feed (`feed/gbfs/vehicle_type_db.go`): the request
  is part of FeedReader, what is stored of its answer is not.
* Manifests that list more feeds, the repair of coordinates, and a list of
  municipalities that breaks off, in the service area importer.
* The waits after a 429 in the trip importer.

## Plan

In this order; all but steps 7 and 10 are done.

1. Vehicle importer: comparison, event processor, loop, cleanup, faults, life
   cycle, and the proofs of types and ownership. *Done.*
2. Feed monitor with its worker, and the proofs about downtimes. *Done.*
3. Trip importer, and the proofs that it skips and doubles nothing. *Done.*
4. Batch aggregation: dates, chunks, the two writes, deaths between them,
   resumption, recalculation, and the proofs that no day is skipped, no write
   refused and no other row touched. *Done.*
5. `ServiceArea`: rules, geometries, versions, overlapping jobs, and the proofs
   that versions name known areas and follow each other. *Done.*
6. `FeedReader` with `AccessToken`: paging, links, partial lists, token expiry and
   races, and the proof that tokens are fresh. *Done.*
7. Extensions: a second monitor in `FeedMonitor` (a rolling update); two jobs in
   `BatchAggregation`; trips that a provider reports under another hour;
   duplicates of a vehicle in one download; locations of park events.
8. Theorems about the tables of the vehicle importer, the alerts of the monitor
   and the completeness of downloads: all invariants and action properties of the
   runs. *Done.*
9. The refinement of VehicleLifecycle: each push is one of its steps, no other
   statement changes what is known of a vehicle. *Done.*
10. What the extensions of step 7 change in the invariants.
