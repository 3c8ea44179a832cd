------------------------- MODULE TripImporterProofs -------------------------
(***************************************************************************)
(* Proofs about the trip importer, for any feeds, trips and failures: its  *)
(* variables keep their types, no trip is stored more than once except for *)
(* lost answers and blind starts, and none is skipped.                     *)
(***************************************************************************)
EXTENDS TripImporter, WellFoundedInduction, TLAPS

-----------------------------------------------------------------------------
(* The inductive invariant. *)
Busy(f) == at[f] \in {"cursor", "download", "store"}

(* Where the job is with a feed: it stays below the cutoff, and what is in  *)
(* its batch lies before the cursor.                                        *)
BatchInv ==
    \A f \in Feeds :
        /\ Busy(f) => cutoff[f] <= now - 1
        /\ at[f] \in {"download", "store"} =>
              /\ cursor[f] <= cutoff[f]
              /\ \A h \in todo[f] : h < cursor[f]
              /\ \A t \in got[f] : FeedOf[t] = f /\ EndHour[t] < cursor[f]
        /\ at[f] = "store" => todo[f] = {}

StoredArePast == \A t \in Trips : stored[t] > 0 => EndHour[t] <= now
FinalArePublished == FinalBy(now) \subseteq published

Timeline == BatchInv /\ StoredArePast /\ FinalArePublished

(* The trips the job may still store before it is done with the feed. *)
Wanted(t) ==
    LET f == FeedOf[t] IN
    /\ Busy(f)
    /\ \/ EndHour[t] >= cursor[f]
       \/ at[f] = "download" /\ EndHour[t] \in todo[f]
       \/ at[f] \in {"download", "store"} /\ t \in got[f]

(* A trip that may still be stored is stored once less than others may be. *)
Once(t) ==
    /\ stored[t] <= 1 + lostAnswers + blindStarts
    /\ Wanted(t) => stored[t] <= lostAnswers + blindStarts
OnceInv == \A t \in Trips : Once(t)

(* What lies before the cursor is stored, or part of the batch. *)
Handled(t) ==
    LET f == FeedOf[t] IN
    Busy(f) /\ EndHour[t] < cursor[f] =>
        \/ stored[t] > 0
        \/ at[f] = "download" /\ EndHour[t] \in todo[f]
        \/ at[f] \in {"download", "store"} /\ t \in got[f]

NoHole == NothingSkipped /\ \A t \in Routed : Handled(t)

-----------------------------------------------------------------------------
(* The steps of one feed. *)
FeedAction(f) ==
    \/ BeginFeed(f) \/ NextBatch(f) \/ UpToDate(f)
    \/ \E hour \in todo[f] : Download(f, hour)
    \/ Downloaded(f) \/ StoreTrips(f)
    \/ BeginBlindly(f) \/ DownloadFails(f) \/ StoreFails(f) \/ StoreUnanswered(f)

(* Every step is one of these. *)
LEMMA Steps ==
    ASSUME [Next]_vars
    PROVE  \/ Tick
           \/ \E t \in Trips : Publish(t)
           \/ StartJob
           \/ \E f \in Feeds : FeedAction(f)
           \/ Restart
           \/ UNCHANGED vars
  BY DEF Next, FeedStep, FeedAction

(* A bounded set of naturals that is not empty has a greatest element. *)
LEMMA GreatestNatural ==
    ASSUME NEW S \in SUBSET Nat, S # {}, NEW bound \in Nat, \A n \in S : n <= bound
    PROVE  \E n \in S : \A m \in S : m <= n
  <1> DEFINE gaps == {k \in Nat : \E n \in S : n + k = bound}
  <1>1. \A n \in S : bound - n \in gaps
    <2> TAKE n \in S
    <2>1. n \in Nat /\ n <= bound
      OBVIOUS
    <2>2. bound - n \in Nat /\ n + (bound - n) = bound
      BY <2>1
    <2> QED
      BY <2>2
  <1>2. gaps \in SUBSET Nat /\ gaps # {}
    BY <1>1
  <1>3. PICK g \in gaps : \A h \in gaps : g <= h
    <2> HIDE DEF gaps
    <2> DEFINE R == {ss \in Nat \X Nat : ss[1] < ss[2]}
    <2>1. IsWellFoundedOn(R, Nat)
      BY NatLessThanWellFounded, Zenon DEF OpToRel
    <2>2. \A x, y \in Nat : y < x => <<y, x>> \in R
      OBVIOUS
    <2> HIDE DEF R
    <2>3. PICK g \in gaps : \A h \in gaps : ~ (<<h, g>> \in R)
      BY <1>2, <2>1, WFMin
    <2>4. ASSUME NEW h \in gaps PROVE g <= h
      <3>1. g \in Nat /\ h \in Nat /\ ~ (h < g)
        BY <1>2, <2>2, <2>3
      <3> QED
        BY <3>1
    <2> QED
      BY <2>4
  <1>4. PICK n \in S : n + g = bound
    BY <1>3
  <1>5. ASSUME NEW m \in S PROVE m <= n
    <2>1. g <= bound - m /\ bound - m \in Nat
      BY <1>1, <1>3
    <2>2. m \in Nat /\ n \in Nat /\ g \in Nat
      BY <1>3
    <2> QED
      BY <2>1, <2>2, <1>4
  <1> QED
    BY <1>5

(* getLatestImportTime: all stored trips of the feed ended before the hour *)
(* it returns, and the newest of them, if there is one, in the hour before. *)
LEMMA LatestImportIsNext ==
    ASSUME TypeOK, StoredArePast, NEW f \in Feeds
    PROVE  /\ LatestImport(f) \in Nat
           /\ \A t \in StoredOf(f) : EndHour[t] < LatestImport(f)
           /\ \/ StoredOf(f) = {} /\ LatestImport(f) = StartHour[f]
              \/ \E u \in StoredOf(f) : LatestImport(f) = EndHour[u] + 1
  <1> DEFINE newest == {t \in StoredOf(f) : Newest(t) /\ EndHour[t] >= StartHour[f]}
  <1> USE FeedAssumption, TripAssumption
  <1>1. StoredOf(f) \subseteq Trips /\ now \in Nat
    BY DEF StoredOf, TypeOK
  <1>2. \A t \in StoredOf(f) : EndHour[t] \in Nat /\ EndHour[t] <= now /\ FeedOf[t] = f
    BY DEF StoredOf, StoredArePast
  <1>3. CASE StoredOf(f) = {}
    <2>1. newest = {}
      BY <1>3
    <2> QED
      BY <1>3, <2>1 DEF LatestImport
  <1>4. CASE StoredOf(f) # {}
    <2> DEFINE hours == {EndHour[t] : t \in StoredOf(f)}
    <2>1. hours \in SUBSET Nat /\ hours # {} /\ \A h \in hours : h <= now
      BY <1>2, <1>4
    <2>2. \E h \in hours : \A k \in hours : k <= h
      <3> HIDE DEF hours
      <3> QED
        BY <2>1, <1>1, GreatestNatural
    <2>3. PICK t \in StoredOf(f) : \A u \in StoredOf(f) : EndHour[u] <= EndHour[t]
      BY <2>2
    <2>4. t \in newest
      <3>1. Newest(t)
        BY <2>3, <1>2 DEF Newest
      <3>2. EndHour[t] >= StartHour[f]
        BY <1>1, <1>2
      <3> QED
        BY <3>1, <3>2
    <2> DEFINE u == CHOOSE x \in newest : TRUE
    <2>5. u \in newest
      BY <2>4
    <2>6. LatestImport(f) = EndHour[u] + 1
      BY <2>4 DEF LatestImport
    <2>7. u \in StoredOf(f) /\ \A x \in StoredOf(f) : EndHour[x] <= EndHour[u]
      BY <2>5, <1>2 DEF Newest
    <2> HIDE DEF u, newest
    <2> QED
      BY <2>6, <2>7, <1>2
  <1> QED
    BY <1>3, <1>4

-----------------------------------------------------------------------------
(* Types. *)
LEMMA FeedActionType ==
    ASSUME TypeOK, StoredArePast, NEW f \in Feeds, FeedAction(f)
    PROVE  TypeOK'
  <1> USE FeedAssumption, TripAssumption, TripBoundAssumption
  <1>1. CASE BeginFeed(f)
    <2>1. LatestImport(f) \in Nat
      BY LatestImportIsNext
    <2> QED
      BY <1>1, <2>1 DEF BeginFeed, BeginAt, Go, ImportCutoff, TypeOK, counters
  <1>2. CASE BeginBlindly(f)
    BY <1>2 DEF BeginBlindly, BeginAt, Go, ImportCutoff, TypeOK
  <1>3. CASE NextBatch(f)
    <2>1. Batch(f) \in SUBSET Nat
      BY DEF Batch, TypeOK
    <2> QED
      BY <1>3, <2>1 DEF NextBatch, Go, TypeOK, counters
  <1>4. CASE UpToDate(f)
    BY <1>4 DEF UpToDate, Go, TypeOK, counters
  <1>5. ASSUME NEW hour \in todo[f], Download(f, hour) PROVE TypeOK'
    BY <1>5 DEF Download, Answer, TypeOK, counters
  <1>6. CASE Downloaded(f)
    BY <1>6 DEF Downloaded, Go, TypeOK, counters
  <1>7. CASE StoreTrips(f)
    BY <1>7 DEF StoreTrips, Commit, Go, TypeOK, counters
  <1>8. CASE DownloadFails(f)
    BY <1>8 DEF DownloadFails, Go, TypeOK
  <1>9. CASE StoreFails(f)
    BY <1>9 DEF StoreFails, Retry, Go, TypeOK
  <1>10. CASE StoreUnanswered(f)
    BY <1>10 DEF StoreUnanswered, Commit, Retry, Go, TypeOK
  <1> QED
    BY <1>1, <1>2, <1>3, <1>4, <1>5, <1>6, <1>7, <1>8, <1>9, <1>10 DEF FeedAction

LEMMA StepType ==
    ASSUME TypeOK, StoredArePast, [Next]_vars
    PROVE  TypeOK'
  <1>1. CASE Tick
    BY <1>1 DEF Tick, TypeOK, feedVars, counters
  <1>2. ASSUME NEW t \in Trips, Publish(t) PROVE TypeOK'
    BY <1>2 DEF Publish, TypeOK, feedVars, counters
  <1>3. CASE StartJob
    BY <1>3 DEF StartJob, Forget, TypeOK, counters
  <1>4. CASE Restart
    BY <1>4 DEF Restart, Forget, TypeOK
  <1>5. CASE UNCHANGED vars
    BY <1>5 DEF vars, TypeOK, feedVars, counters
  <1> QED
    BY <1>1, <1>2, <1>3, <1>4, <1>5, FeedActionType, Steps
-----------------------------------------------------------------------------
(* What a step of one feed leaves alone. *)
LEMMA OtherFeedsStay ==
    ASSUME TypeOK, NEW f \in Feeds, FeedAction(f), NEW g \in Feeds \ {f}
    PROVE  /\ at'[g] = at[g] /\ cursor'[g] = cursor[g] /\ cutoff'[g] = cutoff[g]
           /\ todo'[g] = todo[g] /\ got'[g] = got[g]
  <1>1. CASE BeginFeed(f) \/ BeginBlindly(f)
    BY <1>1 DEF BeginFeed, BeginBlindly, BeginAt, Go, TypeOK
  <1>2. CASE NextBatch(f) \/ UpToDate(f) \/ Downloaded(f)
    BY <1>2 DEF NextBatch, UpToDate, Downloaded, Go, TypeOK
  <1>3. CASE \E hour \in todo[f] : Download(f, hour)
    BY <1>3 DEF Download, TypeOK
  <1>4. CASE StoreTrips(f) \/ DownloadFails(f)
    BY <1>4 DEF StoreTrips, DownloadFails, Go, TypeOK
  <1>5. CASE StoreFails(f) \/ StoreUnanswered(f)
    BY <1>5 DEF StoreFails, StoreUnanswered, Retry, Go, TypeOK
  <1> QED
    BY <1>1, <1>2, <1>3, <1>4, <1>5 DEF FeedAction

(* The table only grows, by the trips of the batch; the counters only grow. *)
LEMMA TableGrows ==
    ASSUME TypeOK, NEW f \in Feeds, FeedAction(f)
    PROVE  /\ \A t \in Trips : /\ stored'[t] >= stored[t]
                               /\ t \notin got[f] => stored'[t] = stored[t]
                               /\ stored'[t] # stored[t] => at[f] = "store"
           /\ lostAnswers' \in Nat /\ lostAnswers' >= lostAnswers
           /\ blindStarts' \in Nat /\ blindStarts' >= blindStarts
           /\ now' = now /\ published' = published
  <1>1. CASE StoreTrips(f)
    BY <1>1 DEF StoreTrips, Commit, TypeOK, counters
  <1>2. CASE StoreUnanswered(f)
    BY <1>2 DEF StoreUnanswered, Commit, TypeOK
  <1>3. CASE BeginFeed(f) \/ BeginBlindly(f)
    BY <1>3 DEF BeginFeed, BeginBlindly, BeginAt, TypeOK, counters
  <1>4. CASE NextBatch(f) \/ UpToDate(f) \/ Downloaded(f)
    BY <1>4 DEF NextBatch, UpToDate, Downloaded, TypeOK, counters
  <1>5. CASE \E hour \in todo[f] : Download(f, hour)
    BY <1>5 DEF Download, TypeOK, counters
  <1>6. CASE DownloadFails(f) \/ StoreFails(f)
    BY <1>6 DEF DownloadFails, StoreFails, TypeOK
  <1> QED
    BY <1>1, <1>2, <1>3, <1>4, <1>5, <1>6 DEF FeedAction

(* The hours of a batch lie between the cursor and its next place. *)
LEMMA BatchHoursInRange ==
    ASSUME TypeOK, NEW f \in Feeds, NextBatch(f)
    PROVE  /\ cursor[f] <= cursor'[f] /\ cursor'[f] <= cutoff[f]
           /\ \A h \in Int : h \in todo'[f] <=> cursor[f] <= h /\ h < cursor'[f]
           /\ got'[f] = {} /\ at[f] = "cursor" /\ at'[f] = "download"
           /\ cutoff' = cutoff
  <1> USE TripBoundAssumption
  <1>1. cursor[f] \in Nat /\ cutoff[f] \in Int /\ cursor[f] < cutoff[f]
    BY DEF TypeOK, NextBatch
  <1>2. /\ cursor'[f] = IF cursor[f] + BatchHours < cutoff[f] THEN cursor[f] + BatchHours ELSE cutoff[f]
        /\ todo'[f] = Batch(f)
        /\ got'[f] = {} /\ at[f] = "cursor" /\ at'[f] = "download" /\ cutoff' = cutoff
    BY DEF NextBatch, Go, TypeOK
  <1>3. \A h \in Int : h \in Batch(f) <=>
            cursor[f] <= h /\ h <= cursor[f] + BatchHours - 1 /\ h < cutoff[f]
    BY <1>1 DEF Batch
  <1> QED
    BY <1>1, <1>2, <1>3

-----------------------------------------------------------------------------
(* The time line. *)
LEMMA FeedActionTimeline ==
    ASSUME TypeOK, Timeline, NEW f \in Feeds, FeedAction(f)
    PROVE  Timeline'
  <1> USE FeedAssumption, TripAssumption
  <1>1. FinalArePublished'
    BY TableGrows DEF Timeline, FinalArePublished, FinalBy
  <1>2. StoredArePast'
    <2> SUFFICES ASSUME NEW t \in Trips, stored'[t] > 0 PROVE EndHour[t] <= now'
      BY DEF StoredArePast
    <2>1. CASE stored'[t] = stored[t]
      BY <2>1, TableGrows DEF Timeline, StoredArePast
    <2>2. CASE stored'[t] # stored[t]
      <3>1. t \in got[f] /\ at[f] = "store"
        BY <2>2, TableGrows
      <3>2. EndHour[t] < cursor[f] /\ cursor[f] <= cutoff[f] /\ cutoff[f] <= now - 1
        BY <3>1 DEF Timeline, BatchInv, Busy
      <3>3. cursor[f] \in Nat /\ cutoff[f] \in Int /\ now \in Nat /\ EndHour[t] \in Nat
        BY DEF TypeOK
      <3> QED
        BY <3>2, <3>3, TableGrows
    <2> QED
      BY <2>1, <2>2
  <1>3. BatchInv'
    <2> DEFINE InBatch(g) ==
          /\ Busy(g) => cutoff[g] <= now - 1
          /\ at[g] \in {"download", "store"} =>
                /\ cursor[g] <= cutoff[g]
                /\ \A h \in todo[g] : h < cursor[g]
                /\ \A t \in got[g] : FeedOf[t] = g /\ EndHour[t] < cursor[g]
          /\ at[g] = "store" => todo[g] = {}
    <2>0. \A g \in Feeds : InBatch(g)
      BY DEF Timeline, BatchInv
    <2>1. ASSUME NEW g \in Feeds, g # f PROVE InBatch(g)'
      BY <2>0, <2>1, OtherFeedsStay, TableGrows DEF Busy
    <2>2. InBatch(f)'
      <3>1. CASE BeginFeed(f) \/ BeginBlindly(f)
        BY <3>1, TableGrows DEF BeginFeed, BeginBlindly, BeginAt, Go, ImportCutoff, Busy, TypeOK
      <3>2. CASE NextBatch(f)
        <4>1. \A h \in todo'[f] : h \in Int /\ h < cursor'[f]
          <5>1. todo'[f] = Batch(f) /\ Batch(f) \subseteq Int
            BY <3>2 DEF NextBatch, Batch, TypeOK
          <5> QED
            BY <3>2, <5>1, BatchHoursInRange
        <4> QED
          BY <2>0, <3>2, <4>1, BatchHoursInRange, TableGrows DEF Busy
      <3>3. ASSUME NEW hour \in todo[f], Download(f, hour) PROVE InBatch(f)'
        BY <2>0, <3>3, TableGrows DEF Download, Answer, Busy, TypeOK
      <3>4. CASE Downloaded(f)
        BY <2>0, <3>4, TableGrows DEF Downloaded, Go, Busy, TypeOK
      <3>5. CASE StoreTrips(f)
        BY <2>0, <3>5, TableGrows DEF StoreTrips, Go, Busy, TypeOK
      <3>6. CASE UpToDate(f) \/ DownloadFails(f)
        BY <2>0, <3>6, TableGrows DEF UpToDate, DownloadFails, Go, Busy, TypeOK
      <3>7. CASE StoreFails(f) \/ StoreUnanswered(f)
        BY <2>0, <3>7, TableGrows DEF StoreFails, StoreUnanswered, Retry, Go, Busy, TypeOK
      <3> QED
        BY <3>1, <3>2, <3>3, <3>4, <3>5, <3>6, <3>7 DEF FeedAction
    <2> QED
      BY <2>1, <2>2 DEF BatchInv
  <1> QED
    BY <1>1, <1>2, <1>3 DEF Timeline

LEMMA StepTimeline ==
    ASSUME TypeOK, Timeline, [Next]_vars
    PROVE  Timeline'
  <1> USE FeedAssumption, TripAssumption DEF Timeline, BatchInv, StoredArePast, FinalArePublished, FinalBy, Busy
  <1>1. CASE Tick
    BY <1>1 DEF Tick, TypeOK, feedVars
  <1>2. ASSUME NEW t \in Trips, Publish(t) PROVE Timeline'
    BY <1>2 DEF Publish, feedVars
  <1>3. CASE StartJob
    BY <1>3 DEF StartJob
  <1>4. CASE Restart
    BY <1>4 DEF Restart
  <1>5. CASE UNCHANGED vars
    BY <1>5 DEF vars, feedVars
  <1> QED
    BY <1>1, <1>2, <1>3, <1>4, <1>5, FeedActionTimeline, Steps

-----------------------------------------------------------------------------
(* Each trip is stored once. *)

(* A step of one feed stores no trip of another. *)
LEMMA OtherTripsStay ==
    ASSUME TypeOK, Timeline, NEW f \in Feeds, FeedAction(f),
           NEW t \in Trips, FeedOf[t] # f
    PROVE  stored'[t] = stored[t]
  <1>1. stored'[t] # stored[t] => t \in got[f] /\ at[f] = "store"
    BY TableGrows
  <1>2. at[f] = "store" => \A u \in got[f] : FeedOf[u] = f
    BY DEF Timeline, BatchInv
  <1> QED
    BY <1>1, <1>2

LEMMA FeedActionOnce ==
    ASSUME TypeOK, Timeline, OnceInv, NEW f \in Feeds, FeedAction(f)
    PROVE  OnceInv'
  <1> USE FeedAssumption, TripAssumption
  <1> SUFFICES ASSUME NEW t \in Trips PROVE Once(t)'
    BY DEF OnceInv
  <1>1. /\ stored[t] \in Nat /\ EndHour[t] \in Nat /\ FeedOf[t] \in Feeds
        /\ lostAnswers \in Nat /\ blindStarts \in Nat
        /\ stored[t] <= 1 + lostAnswers + blindStarts
        /\ Wanted(t) => stored[t] <= lostAnswers + blindStarts
    BY DEF TypeOK, OnceInv, Once
  <1>2. /\ lostAnswers' \in Nat /\ lostAnswers' >= lostAnswers
        /\ blindStarts' \in Nat /\ blindStarts' >= blindStarts
        /\ stored'[t] # stored[t] => t \in got[f] /\ at[f] = "store"
    BY TableGrows
  (* What is stored again, and wanted no more, is within the bounds. *)
  <1>3. ASSUME stored'[t] = stored[t], Wanted(t)' => Wanted(t) PROVE Once(t)'
    BY <1>1, <1>2, <1>3 DEF Once
  <1>4. CASE FeedOf[t] # f
    <2> DEFINE g == FeedOf[t]
    <2>1. at'[g] = at[g] /\ cursor'[g] = cursor[g] /\ todo'[g] = todo[g] /\ got'[g] = got[g]
      <3>1. g \in Feeds \ {f}
        BY <1>1, <1>4
      <3> QED
        BY <3>1, OtherFeedsStay
    <2>2. Wanted(t)' => Wanted(t)
      BY <2>1 DEF Wanted, Busy
    <2> QED
      BY <1>3, <1>4, <2>2, OtherTripsStay
  <1>5. CASE FeedOf[t] = f
    <2> USE <1>5
    <2>0. /\ cursor[f] \in Nat
          /\ at[f] \in {"download", "store"} => \A u \in got[f] : EndHour[u] < cursor[f]
          /\ at[f] = "store" => todo[f] = {}
      BY DEF TypeOK, Timeline, BatchInv
    <2>1. CASE BeginFeed(f)
      <3>1. stored' = stored /\ at'[f] = "cursor" /\ cursor'[f] = LatestImport(f)
        BY <2>1 DEF BeginFeed, BeginAt, Go, TypeOK
      <3>2. t \in StoredOf(f) => ~ Wanted(t)'
        <4>1. t \in StoredOf(f) => EndHour[t] < LatestImport(f) /\ LatestImport(f) \in Nat
          BY LatestImportIsNext DEF Timeline
        <4> QED
          BY <1>1, <3>1, <4>1 DEF Wanted
      <3>3. t \notin StoredOf(f) => stored[t] = 0
        BY <1>1 DEF StoredOf
      <3> QED
        BY <1>1, <1>2, <3>1, <3>2, <3>3 DEF Once
    <2>2. CASE BeginBlindly(f)
      <3>1. stored' = stored /\ blindStarts' = blindStarts + 1 /\ lostAnswers' = lostAnswers
        BY <2>2 DEF BeginBlindly, BeginAt
      <3> QED
        BY <1>1, <3>1 DEF Once
    <2>3. CASE NextBatch(f)
      <3>1. stored' = stored
        BY <2>3 DEF NextBatch
      <3>2. Wanted(t)' => EndHour[t] >= cursor[f]
        <4>1. cursor'[f] \in Int /\ cursor[f] <= cursor'[f]
          BY <2>0, <2>3, FeedActionType, BatchHoursInRange DEF Timeline, TypeOK, FeedAction
        <4> QED
          BY <1>1, <2>0, <2>3, <4>1, BatchHoursInRange DEF Wanted
      <3>3. Wanted(t)' => Wanted(t)
        BY <2>3, <3>2, BatchHoursInRange DEF Wanted, Busy
      <3> QED
        BY <1>3, <3>1, <3>3
    <2>4. CASE UpToDate(f) \/ DownloadFails(f)
      <3>1. stored' = stored /\ at'[f] = "done"
        BY <2>4 DEF UpToDate, DownloadFails, Go, TypeOK
      <3> QED
        BY <1>3, <3>1 DEF Wanted, Busy
    <2>5. ASSUME NEW hour \in todo[f], Download(f, hour) PROVE Once(t)'
      <3>1. /\ stored' = stored /\ at' = at /\ cursor' = cursor /\ at[f] = "download"
            /\ todo'[f] = todo[f] \ {hour} /\ got'[f] = got[f] \cup Answer(f, hour)
        BY <2>5 DEF Download, TypeOK
      <3>2. t \in Answer(f, hour) => EndHour[t] \in todo[f]
        BY DEF Answer
      <3> QED
        BY <1>3, <3>1, <3>2 DEF Wanted, Busy
    <2>6. CASE Downloaded(f)
      BY <1>3, <2>6 DEF Downloaded, Go, TypeOK, Wanted, Busy
    <2>7. CASE StoreTrips(f)
      <3>1. /\ at[f] = "store" /\ at'[f] = "cursor" /\ cursor' = cursor
            /\ lostAnswers' = lostAnswers /\ blindStarts' = blindStarts
            /\ stored'[t] = IF t \in got[f] THEN stored[t] + 1 ELSE stored[t]
        BY <2>7 DEF StoreTrips, Commit, Go, TypeOK, counters
      <3>2. CASE t \in got[f]
        <4>1. Wanted(t) /\ ~ Wanted(t)'
          BY <1>1, <2>0, <3>1, <3>2 DEF Wanted, Busy
        <4> QED
          BY <1>1, <3>1, <3>2, <4>1 DEF Once
      <3>3. CASE t \notin got[f]
        <4>1. Wanted(t)' => Wanted(t)
          BY <3>1, <3>3 DEF Wanted, Busy
        <4> QED
          BY <1>3, <3>1, <3>3, <4>1
      <3> QED
        BY <3>2, <3>3
    <2>8. CASE StoreFails(f)
      <3>1. /\ at[f] = "store" /\ at'[f] \in {"store", "done"}
            /\ stored' = stored /\ cursor' = cursor /\ todo' = todo /\ got' = got
        BY <2>8 DEF StoreFails, Retry, Go, TypeOK
      <3> QED
        BY <1>3, <3>1 DEF Wanted, Busy
    <2>9. CASE StoreUnanswered(f)
      <3>1. /\ at[f] = "store" /\ at'[f] \in {"store", "done"}
            /\ cursor' = cursor /\ todo' = todo /\ got' = got
            /\ lostAnswers' = lostAnswers + 1 /\ blindStarts' = blindStarts
            /\ stored'[t] = IF t \in got[f] THEN stored[t] + 1 ELSE stored[t]
        BY <2>9 DEF StoreUnanswered, Commit, Retry, Go, TypeOK
      <3>2. t \in got[f] => Wanted(t)
        BY <3>1 DEF Wanted, Busy
      <3> QED
        BY <1>1, <3>1, <3>2 DEF Once
    <2> QED
      BY <2>1, <2>2, <2>3, <2>4, <2>5, <2>6, <2>7, <2>8, <2>9 DEF FeedAction
  <1> QED
    BY <1>4, <1>5

LEMMA StepOnce ==
    ASSUME TypeOK, Timeline, OnceInv, [Next]_vars
    PROVE  OnceInv'
  <1> USE DEF OnceInv, Once, Wanted, Busy
  <1>1. CASE Tick
    BY <1>1 DEF Tick, feedVars, counters
  <1>2. ASSUME NEW t \in Trips, Publish(t) PROVE OnceInv'
    BY <1>2 DEF Publish, feedVars, counters
  <1>3. CASE StartJob
    BY <1>3, TripAssumption DEF StartJob, counters
  <1>4. CASE Restart
    BY <1>4, TripAssumption DEF Restart
  <1>5. CASE UNCHANGED vars
    BY <1>5 DEF vars, feedVars, counters
  <1> QED
    BY <1>1, <1>2, <1>3, <1>4, <1>5, FeedActionOnce, Steps

-----------------------------------------------------------------------------
(* No trip is skipped. *)

(* If a step stores any trip, it stores the whole batch. *)
LEMMA BatchIsStoredWhole ==
    ASSUME TypeOK, NEW f \in Feeds, FeedAction(f),
           NEW u \in Trips, stored'[u] # stored[u], NEW t \in got[f]
    PROVE  stored'[t] > 0
  <1>1. t \in Trips /\ stored[t] \in Nat
    BY TripAssumption DEF TypeOK
  <1>2. CASE StoreTrips(f) \/ StoreUnanswered(f)
    BY <1>1, <1>2 DEF StoreTrips, StoreUnanswered, Commit
  <1>3. CASE BeginFeed(f) \/ BeginBlindly(f)
    BY <1>3 DEF BeginFeed, BeginBlindly, BeginAt
  <1>4. CASE NextBatch(f) \/ UpToDate(f) \/ Downloaded(f) \/ DownloadFails(f) \/ StoreFails(f)
    BY <1>4 DEF NextBatch, UpToDate, Downloaded, DownloadFails, StoreFails
  <1>5. CASE \E hour \in todo[f] : Download(f, hour)
    BY <1>5 DEF Download
  <1> QED
    BY <1>2, <1>3, <1>4, <1>5 DEF FeedAction

LEMMA FeedActionSkipsNothing ==
    ASSUME TypeOK, Timeline, NoHole, NEW f \in Feeds, FeedAction(f)
    PROVE  NothingSkipped'
  <1> USE TripAssumption
  <1> SUFFICES ASSUME NEW t \in Trips, NEW u \in Trips, FeedOf[t] = FeedOf[u], t \in Routed,
                      stored'[u] > 0, EndHour[t] <= EndHour[u]
               PROVE  stored'[t] > 0
    BY DEF NothingSkipped
  <1>1. stored[t] \in Nat /\ stored'[t] >= stored[t] /\ stored' \in [Trips -> Nat]
    BY TableGrows, FeedActionType DEF TypeOK, Timeline
  <1>2. CASE stored'[u] = stored[u]
    <2>1. stored[t] > 0
      BY <1>2 DEF NoHole, NothingSkipped
    <2> QED
      BY <1>1, <2>1
  <1>3. CASE stored'[u] # stored[u]
    <2>1. u \in got[f] /\ at[f] = "store"
      BY <1>3, TableGrows
    <2>2. FeedOf[u] = f /\ EndHour[u] < cursor[f] /\ cursor[f] \in Nat
      BY <2>1 DEF Timeline, BatchInv, TypeOK
    <2>3. EndHour[t] < cursor[f] /\ FeedOf[t] = f
      BY <2>2
    <2>4. stored[t] > 0 \/ t \in got[f]
      BY <2>1, <2>3 DEF NoHole, Handled, Busy
    <2> QED
      BY <1>1, <1>3, <2>4, BatchIsStoredWhole
  <1> QED
    BY <1>2, <1>3

LEMMA FeedActionHandles ==
    ASSUME TypeOK, Timeline, NoHole, NEW f \in Feeds, FeedAction(f), NEW t \in Routed
    PROVE  Handled(t)'
  <1> USE FeedAssumption, TripAssumption
  <1>0. /\ EndHour[t] \in Nat /\ FeedOf[t] \in Feeds /\ t \in Trips
        /\ stored[t] \in Nat /\ stored'[t] >= stored[t] /\ stored'[t] \in Nat
    BY TableGrows, FeedActionType DEF TypeOK, Timeline
  <1>1. stored[t] > 0 => Handled(t)'
    BY <1>0 DEF Handled
  <1>2. Handled(t)
    BY DEF NoHole
  <1>3. CASE FeedOf[t] # f
    <2> DEFINE g == FeedOf[t]
    <2>1. at'[g] = at[g] /\ cursor'[g] = cursor[g] /\ todo'[g] = todo[g] /\ got'[g] = got[g]
      <3>1. g \in Feeds \ {f}
        BY <1>0, <1>3
      <3> QED
        BY <3>1, OtherFeedsStay
    <2> QED
      BY <1>1, <1>2, <2>1 DEF Handled, Busy
  <1>4. CASE FeedOf[t] = f
    <2> USE <1>4
    <2>0. cursor[f] \in Nat /\ cutoff[f] \in Int /\ now \in Nat
      BY DEF TypeOK
    <2>1. CASE BeginFeed(f)
      <3>1. cursor'[f] = LatestImport(f)
        BY <2>1 DEF BeginFeed, BeginAt, TypeOK
      <3>2. CASE LatestImport(f) = StartHour[f]
        <4>1. StartHour[f] \in Nat /\ EndHour[t] >= StartHour[f]
          BY <1>0
        <4> QED
          BY <1>0, <3>1, <3>2, <4>1 DEF Handled
      <3>3. ASSUME NEW u \in StoredOf(f), LatestImport(f) = EndHour[u] + 1 PROVE Handled(t)'
        <4>1. u \in Trips /\ FeedOf[u] = f /\ stored[u] > 0 /\ EndHour[u] \in Nat
          BY DEF StoredOf
        <4>2. EndHour[t] < cursor'[f] => EndHour[t] <= EndHour[u]
          BY <1>0, <3>1, <3>3, <4>1
        <4>3. EndHour[t] < cursor'[f] => stored[t] > 0
          BY <1>0, <4>1, <4>2 DEF NoHole, NothingSkipped
        <4> QED
          BY <1>1, <4>3 DEF Handled
      <3> QED
        BY <3>2, <3>3, LatestImportIsNext DEF Timeline
    <2>2. CASE BeginBlindly(f)
      <3>1. cursor'[f] = StartHour[f] /\ StartHour[f] \in Nat /\ EndHour[t] >= StartHour[f]
        BY <1>0, <2>2 DEF BeginBlindly, BeginAt, TypeOK
      <3> QED
        BY <1>0, <3>1 DEF Handled
    <2>3. CASE NextBatch(f)
      <3>1. at[f] = "cursor" /\ at'[f] = "download" /\ \A h \in Int :
                h \in todo'[f] <=> cursor[f] <= h /\ h < cursor'[f]
        BY <2>3, BatchHoursInRange
      <3>2. CASE EndHour[t] < cursor[f]
        BY <1>1, <1>2, <3>1, <3>2 DEF Handled, Busy
      <3>3. CASE cursor[f] <= EndHour[t]
        BY <1>0, <3>1, <3>3 DEF Handled
      <3> QED
        BY <1>0, <2>0, <3>2, <3>3
    <2>4. CASE UpToDate(f) \/ DownloadFails(f)
      <3>1. at'[f] = "done"
        BY <2>4 DEF UpToDate, DownloadFails, Go, TypeOK
      <3> QED
        BY <3>1 DEF Handled, Busy
    <2>5. ASSUME NEW hour \in todo[f], Download(f, hour) PROVE Handled(t)'
      <3>1. /\ at' = at /\ cursor' = cursor /\ at[f] = "download"
            /\ todo'[f] = todo[f] \ {hour} /\ got'[f] = got[f] \cup Answer(f, hour)
        BY <2>5 DEF Download, TypeOK
      <3>2. EndHour[t] = hour => t \in Answer(f, hour)
        <4>1. hour < cursor[f] /\ cursor[f] <= cutoff[f] /\ cutoff[f] <= now - 1
          BY <3>1 DEF Timeline, BatchInv, Busy
        <4>2. EndHour[t] = hour => EndHour[t] + 2 <= now
          BY <1>0, <2>0, <4>1
        <4>3. EndHour[t] = hour => t \in published
          BY <1>0, <4>2 DEF Timeline, FinalArePublished, FinalBy
        <4> QED
          BY <4>3 DEF Answer
      <3> QED
        BY <1>1, <1>2, <3>1, <3>2 DEF Handled, Busy
    <2>6. CASE Downloaded(f)
      <3>1. /\ cursor' = cursor /\ todo' = todo /\ got' = got
            /\ at[f] = "download" /\ todo[f] = {} /\ at'[f] = "store"
        BY <2>6 DEF Downloaded, Go, TypeOK
      <3> QED
        BY <1>1, <1>2, <3>1 DEF Handled, Busy
    <2>7. CASE StoreTrips(f)
      <3>1. /\ cursor' = cursor /\ at[f] = "store"
            /\ t \in got[f] => stored'[t] = stored[t] + 1
        BY <1>0, <2>7 DEF StoreTrips, Commit
      <3>2. t \in got[f] => Handled(t)'
        BY <1>0, <3>1 DEF Handled
      <3> QED
        BY <1>1, <1>2, <3>1, <3>2 DEF Handled, Busy
    <2>8. CASE StoreFails(f) \/ StoreUnanswered(f)
      <3>1. /\ at[f] = "store" /\ at'[f] \in {"store", "done"}
            /\ cursor' = cursor /\ todo' = todo /\ got' = got
        BY <2>8 DEF StoreFails, StoreUnanswered, Retry, Go, TypeOK
      <3> QED
        BY <1>1, <1>2, <3>1 DEF Handled, Busy
    <2> QED
      BY <2>1, <2>2, <2>3, <2>4, <2>5, <2>6, <2>7, <2>8 DEF FeedAction
  <1> QED
    BY <1>3, <1>4

LEMMA StepNoHole ==
    ASSUME TypeOK, Timeline, NoHole, [Next]_vars
    PROVE  NoHole'
  <1> USE TripAssumption DEF NoHole, NothingSkipped, Handled, Busy
  <1>1. CASE Tick
    BY <1>1 DEF Tick, feedVars
  <1>2. ASSUME NEW t \in Trips, Publish(t) PROVE NoHole'
    BY <1>2 DEF Publish, feedVars
  <1>3. CASE StartJob
    BY <1>3 DEF StartJob
  <1>4. CASE Restart
    BY <1>4 DEF Restart
  <1>5. CASE UNCHANGED vars
    BY <1>5 DEF vars, feedVars
  <1>6. ASSUME NEW f \in Feeds, FeedAction(f) PROVE NoHole'
    <2> USE DEF NoHole
    <2> HIDE DEF NothingSkipped, Handled
    <2> QED
      BY <1>6, FeedActionSkipsNothing, FeedActionHandles
  <1> QED
    BY <1>1, <1>2, <1>3, <1>4, <1>5, <1>6, Steps

-----------------------------------------------------------------------------
TripInv == TypeOK /\ Timeline /\ OnceInv /\ NoHole

LEMMA InitTripInv == Init => TripInv
  <1> SUFFICES ASSUME Init PROVE TripInv
    OBVIOUS
  <1> USE FeedAssumption, TripAssumption DEF Init
  <1>1. TypeOK
    BY DEF TypeOK
  <1>2. Timeline
    BY DEF Timeline, BatchInv, StoredArePast, FinalArePublished, FinalBy, Busy
  <1>3. OnceInv
    BY DEF OnceInv, Once, Wanted, Busy
  <1>4. NoHole
    BY DEF NoHole, NothingSkipped, Handled, Busy
  <1> QED
    BY <1>1, <1>2, <1>3, <1>4 DEF TripInv

LEMMA TripInvInductive == TripInv /\ [Next]_vars => TripInv'
  <1> SUFFICES ASSUME TripInv, [Next]_vars PROVE TripInv'
    OBVIOUS
  <1>1. TypeOK /\ Timeline /\ OnceInv /\ NoHole
    BY DEF TripInv
  <1>2. StoredArePast
    BY <1>1 DEF Timeline
  <1> QED
    BY <1>1, <1>2, StepType, StepTimeline, StepOnce, StepNoHole DEF TripInv

LEMMA TripInvHolds == Spec => []TripInv
  BY InitTripInv, TripInvInductive, PTL DEF Spec

(* The variables keep their types: no cursor is ever negative, and a batch *)
(* holds routed trips only, whatever the feeds answer.                     *)
THEOREM TripTypeCorrect == Spec => []TypeOK
  <1>1. TripInv => TypeOK
    BY DEF TripInv
  <1> QED
    BY <1>1, TripInvHolds, PTL

(* For any feeds and trips, any size of the batches and any number of       *)
(* failures and restarts, a trip is stored once, and once more for each     *)
(* lost answer and each start from scratch at most.                         *)
THEOREM TripsStoredOnce == Spec => []StoredOnce
  <1>1. TripInv => StoredOnce
    BY DEF TripInv, OnceInv, Once, StoredOnce
  <1> QED
    BY <1>1, TripInvHolds, PTL

(* Before a stored trip of a feed no routed trip is missing, so the job     *)
(* that resumes after the newest stored trip loses none.                    *)
THEOREM NoTripSkipped == Spec => []NothingSkipped
  <1>1. TripInv => NothingSkipped
    BY DEF TripInv, NoHole
  <1> QED
    BY <1>1, TripInvHolds, PTL
=============================================================================
