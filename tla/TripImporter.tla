---------------------------- MODULE TripImporter ----------------------------
(***************************************************************************)
(* The trip importer: a job that is started again and again and copies the *)
(* trips the providers publish, hour by hour, to the table trips:          *)
(* cmd/trip_importer and the readers of feed/mds and feed/mds-v2.          *)
(*                                                                         *)
(* The clock and the cursors count hours; a trip belongs to the hour it    *)
(* ended in.                                                               *)
(***************************************************************************)
EXTENDS Integers

CONSTANTS
    Feeds,          \* the feed_ids
    SystemOf,       \* the system_id of each feed
    StartHour,      \* trip_import_start_date of each feed
    Trips,          \* the trips that end after their feed's start date
    FeedOf,         \* the feed a trip is published in
    EndHour,        \* the hour a trip ended in
    Routed,         \* the trips the importer can store: MDS 1 needs a route
    BatchHours,     \* hours per batch, 100
    MaxAttempts,    \* maxRetries of storeTrips, 3
    MaxTime,        \* bound: hours
    MaxErrors,      \* bound: requests and batches that fail
    MaxLostAnswers, \* bound: batches that are committed and reported as failed
    MaxBlindStarts, \* bound: queries for the newest trip that fail
    MaxRestarts     \* bound: times the job is killed

ASSUME FeedAssumption ==
    /\ Feeds \subseteq Nat
    /\ StartHour \in [Feeds -> Nat]
    /\ DOMAIN SystemOf = Feeds
ASSUME TripAssumption ==
    /\ FeedOf \in [Trips -> Feeds]
    /\ EndHour \in [Trips -> Nat]
    /\ \A t \in Trips : EndHour[t] >= StartHour[FeedOf[t]]
    /\ Routed \subseteq Trips
ASSUME TripBoundAssumption ==
    /\ BatchHours \in Nat \ {0} /\ MaxAttempts \in Nat \ {0}
    /\ MaxTime \in Nat /\ MaxErrors \in Nat /\ MaxLostAnswers \in Nat
    /\ MaxBlindStarts \in Nat /\ MaxRestarts \in Nat

VARIABLES
    now,        \* the clock
    published,  \* the trips the providers answer with
    stored,     \* how often each trip is in the table
    at,         \* where the job is with each feed
    cursor,     \* timeCursor of loadDataUntilNow
    cutoff,     \* its cutoff
    todo,       \* the hours of the batch that are still to be downloaded
    got,        \* the trips of the batch
    attempt,    \* attempts to store it
    errors, lostAnswers, blindStarts, restarts   \* counters for the bounds

feedVars == <<at, cursor, cutoff, todo, got, attempt>>
counters == <<errors, lostAnswers, blindStarts, restarts>>
vars == <<now, published, stored, feedVars, counters>>

-----------------------------------------------------------------------------
TypeOK ==
    /\ now \in Nat
    /\ published \in SUBSET Trips
    /\ stored \in [Trips -> Nat]
    /\ at \in [Feeds -> {"waiting", "cursor", "download", "store", "done"}]
    /\ cursor \in [Feeds -> Nat] /\ cutoff \in [Feeds -> Int]
    /\ todo \in [Feeds -> SUBSET Nat]
    /\ got \in [Feeds -> SUBSET Routed]
    /\ attempt \in [Feeds -> Nat]
    /\ errors \in Nat /\ lostAnswers \in Nat
    /\ blindStarts \in Nat /\ restarts \in Nat

Init ==
    /\ now = 0
    /\ published = {}
    /\ stored = [t \in Trips |-> 0]
    /\ at = [f \in Feeds |-> "done"]
    /\ cursor = [f \in Feeds |-> 0] /\ cutoff = [f \in Feeds |-> 0]
    /\ todo = [f \in Feeds |-> {}] /\ got = [f \in Feeds |-> {}]
    /\ attempt = [f \in Feeds |-> 0]
    /\ errors = 0 /\ lostAnswers = 0 /\ blindStarts = 0 /\ restarts = 0

-----------------------------------------------------------------------------
(* The providers. "Trip data is only complete once a provider has finalized *)
(* it, which takes up to an hour": a trip is published from the hour it     *)
(* ended in on, and at the latest an hour after that hour.                  *)
FinalBy(time) == {t \in Trips : EndHour[t] + 2 <= time}

Publish(t) ==
    /\ t \notin published /\ EndHour[t] <= now
    /\ published' = published \cup {t}
    /\ UNCHANGED <<now, stored, feedVars, counters>>

Tick ==
    /\ now < MaxTime /\ FinalBy(now + 1) \subseteq published
    /\ now' = now + 1
    /\ UNCHANGED <<published, stored, feedVars, counters>>

(* Mutant: trips without a route are stored without locations. *)
AnswerWithoutRoutes(f, hour) == {t \in published : FeedOf[t] = f /\ EndHour[t] = hour}

(* What a feed answers for an hour; 404 and 410 stand for nothing. Trips    *)
(* without a route are not converted.                                       *)
Answer(f, hour) == {t \in published \cap Routed : FeedOf[t] = f /\ EndHour[t] = hour}

-----------------------------------------------------------------------------
(* downloadFeeds: the feeds of a system one after the other.               *)
Forget ==
    /\ cursor' = [f \in Feeds |-> 0] /\ cutoff' = [f \in Feeds |-> 0]
    /\ todo' = [f \in Feeds |-> {}] /\ got' = [f \in Feeds |-> {}]
    /\ attempt' = [f \in Feeds |-> 0]

StartJob ==
    /\ \A f \in Feeds : at[f] = "done"
    /\ at' = [f \in Feeds |-> "waiting"]
    /\ Forget
    /\ UNCHANGED <<now, published, stored, counters>>

Go(f, label) == at' = [at EXCEPT ![f] = label]

StoredOf(f) == {t \in Trips : FeedOf[t] = f /\ stored[t] > 0}
Newest(t) == \A u \in StoredOf(FeedOf[t]) : EndHour[u] <= EndHour[t]

(* Mutant: the hour of the newest trip is asked for once more. *)
LatestImportInclusive(f) ==
    LET newest == {t \in StoredOf(f) : Newest(t) /\ EndHour[t] >= StartHour[f]} IN
    IF newest = {} THEN StartHour[f] ELSE EndHour[CHOOSE t \in newest : TRUE]

(* getLatestImportTime *)
LatestImport(f) ==
    LET newest == {t \in StoredOf(f) : Newest(t) /\ EndHour[t] >= StartHour[f]} IN
    IF newest = {} THEN StartHour[f] ELSE EndHour[CHOOSE t \in newest : TRUE] + 1

(* Mutant: hours that have just ended are asked for. *)
ImportCutoffWithoutLag == now

(* The hours that ended at least importLag, an hour, ago come before it. *)
ImportCutoff == now - 1

(* A cursor that is past the cutoff need not be put back to it: no hour is  *)
(* requested either way.                                                    *)
BeginAt(f, hour) ==
    /\ at[f] = "waiting"
    /\ \A g \in Feeds : g < f /\ SystemOf[g] = SystemOf[f] => at[g] = "done"
    /\ cursor' = [cursor EXCEPT ![f] = hour]
    /\ cutoff' = [cutoff EXCEPT ![f] = ImportCutoff]
    /\ Go(f, "cursor")
    /\ UNCHANGED <<now, published, stored, todo, got, attempt>>

BeginFeed(f) == BeginAt(f, LatestImport(f)) /\ UNCHANGED counters

(* The error of the query is not looked at: the feed starts from scratch. *)
BeginBlindly(f) ==
    /\ blindStarts < MaxBlindStarts /\ blindStarts' = blindStarts + 1
    /\ BeginAt(f, StartHour[f])
    /\ UNCHANGED <<errors, lostAnswers, restarts>>

-----------------------------------------------------------------------------
(* loadDataUntilNow *)
Batch(f) == {h \in cursor[f]..(cursor[f] + BatchHours - 1) : h < cutoff[f]}

NextBatch(f) ==
    /\ at[f] = "cursor" /\ cursor[f] < cutoff[f]
    /\ todo' = [todo EXCEPT ![f] = Batch(f)]
    /\ cursor' = [cursor EXCEPT ![f] = IF @ + BatchHours < cutoff[f] THEN @ + BatchHours ELSE cutoff[f]]
    /\ got' = [got EXCEPT ![f] = {}]
    /\ Go(f, "download")
    /\ UNCHANGED <<now, published, stored, cutoff, attempt, counters>>

UpToDate(f) ==
    /\ at[f] = "cursor" /\ cursor[f] >= cutoff[f]
    /\ Go(f, "done")
    /\ UNCHANGED <<now, published, stored, cursor, cutoff, todo, got, attempt, counters>>

(* Two workers take the hours; their answers come in any order. *)
Download(f, hour) ==
    /\ at[f] = "download" /\ hour \in todo[f]
    /\ todo' = [todo EXCEPT ![f] = @ \ {hour}]
    /\ got' = [got EXCEPT ![f] = @ \cup Answer(f, hour)]
    /\ UNCHANGED <<now, published, stored, at, cursor, cutoff, attempt, counters>>

(* Mutant: an hour that fails is left out of the batch. *)
SkipFailedHour(f) ==
    /\ at[f] = "download" /\ todo[f] # {}
    /\ errors < MaxErrors /\ errors' = errors + 1
    /\ \E hour \in todo[f] : todo' = [todo EXCEPT ![f] = @ \ {hour}]
    /\ UNCHANGED <<now, published, stored, at, cursor, cutoff, got, attempt, lostAnswers, blindStarts, restarts>>

(* An error of either worker, also one that is still rate limited after     *)
(* seven retries, discards what both have got.                              *)
DownloadFails(f) ==
    /\ at[f] = "download" /\ todo[f] # {}
    /\ errors < MaxErrors /\ errors' = errors + 1
    /\ Go(f, "done")
    /\ UNCHANGED <<now, published, stored, cursor, cutoff, todo, got, attempt, lostAnswers, blindStarts, restarts>>

(* Mutant: a batch without trips is taken for the end of the data. *)
StopAtEmptyBatch(f) ==
    /\ at[f] = "download" /\ todo[f] = {}
    /\ attempt' = [attempt EXCEPT ![f] = 1]
    /\ Go(f, IF got[f] = {} THEN "done" ELSE "store")
    /\ UNCHANGED <<now, published, stored, cursor, cutoff, todo, got, counters>>

Downloaded(f) ==
    /\ at[f] = "download" /\ todo[f] = {}
    /\ attempt' = [attempt EXCEPT ![f] = 1]
    /\ Go(f, "store")
    /\ UNCHANGED <<now, published, stored, cursor, cutoff, todo, got, counters>>

(* storeTrips. The statements of a pgx batch are one transaction. *)
Commit(f) == stored' = [t \in Trips |-> IF t \in got[f] THEN stored[t] + 1 ELSE stored[t]]

StoreTrips(f) ==
    /\ at[f] = "store"
    /\ Commit(f)
    /\ Go(f, "cursor")
    /\ UNCHANGED <<now, published, cursor, cutoff, todo, got, attempt, counters>>

Retry(f) ==
    IF attempt[f] < MaxAttempts
    THEN attempt' = [attempt EXCEPT ![f] = @ + 1] /\ UNCHANGED at
    ELSE Go(f, "done") /\ UNCHANGED attempt

StoreFails(f) ==
    /\ at[f] = "store"
    /\ errors < MaxErrors /\ errors' = errors + 1
    /\ Retry(f)
    /\ UNCHANGED <<now, published, stored, cursor, cutoff, todo, got, lostAnswers, blindStarts, restarts>>

(* The batch is committed, the connection is lost before the answer. *)
StoreUnanswered(f) ==
    /\ at[f] = "store"
    /\ lostAnswers < MaxLostAnswers /\ lostAnswers' = lostAnswers + 1
    /\ Commit(f)
    /\ Retry(f)
    /\ UNCHANGED <<now, published, cursor, cutoff, todo, got, errors, blindStarts, restarts>>

-----------------------------------------------------------------------------
(* The job is killed; the next StartJob is its next start. *)
Restart ==
    /\ restarts < MaxRestarts /\ restarts' = restarts + 1
    /\ at' = [f \in Feeds |-> "done"]
    /\ Forget
    /\ UNCHANGED <<now, published, stored, errors, lostAnswers, blindStarts>>

FeedStep(f) ==
    \/ BeginFeed(f) \/ NextBatch(f) \/ UpToDate(f)
    \/ \E hour \in todo[f] : Download(f, hour)
    \/ Downloaded(f) \/ StoreTrips(f)

Next ==
    \/ Tick \/ \E t \in Trips : Publish(t)
    \/ StartJob
    \/ \E f \in Feeds :
          \/ FeedStep(f) \/ BeginBlindly(f) \/ DownloadFails(f)
          \/ StoreFails(f) \/ StoreUnanswered(f)
    \/ Restart

Spec == Init /\ [][Next]_vars

(* The job is started again and again, its goroutines are scheduled, hours  *)
(* pass and the providers publish.                                          *)
Fairness ==
    /\ WF_vars(StartJob) /\ WF_vars(Tick)
    /\ \A t \in Trips : WF_vars(Publish(t))
    /\ \A f \in Feeds : WF_vars(FeedStep(f))

FairSpec == Spec /\ Fairness

-----------------------------------------------------------------------------
(* Properties. *)

(* However often requests and batches are repeated and jobs killed, a trip  *)
(* is stored once. Only a committed batch whose answer is lost, and a feed  *)
(* that starts from scratch, can each store a trip once more, for the table *)
(* has no key that would refuse it (store_trips.go 36-72).                  *)
StoredOnce == \A t \in Trips : stored[t] <= 1 + lostAnswers + blindStarts

(* The next run resumes after the newest trip (main.go 69-94), so no trip   *)
(* that ended before it may be missing, whatever failed on the way.         *)
NothingSkipped ==
    \A t, u \in Trips :
        /\ FeedOf[t] = FeedOf[u] /\ t \in Routed
        /\ stored[u] > 0 /\ EndHour[t] <= EndHour[u]
        => stored[t] > 0

(* A trip that has ended is stored, unless no bounded hour is left for it:  *)
(* empty hours at the end of a batch stop nobody (main.go 141-169).         *)
EveryTripIsStored ==
    \A t \in Routed : EndHour[t] + 2 <= MaxTime => <>(stored[t] > 0)
=============================================================================
