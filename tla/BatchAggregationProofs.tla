----------------------- MODULE BatchAggregationProofs -----------------------
(***************************************************************************)
(* Proofs about the batch aggregation, for any number of days, chunk size, *)
(* selections, recalculations and deaths: its variables keep their types,  *)
(* a recalculation changes what it was asked for and nothing else, and, as *)
(* long as no run was torn and no recalculation was ahead of the default   *)
(* run, no day is skipped and no write is refused.                         *)
(***************************************************************************)
EXTENDS BatchAggregation, WellFoundedInduction, TLAPS

-----------------------------------------------------------------------------
(* Days are natural numbers, and the newest of those with a row exists.    *)
LEMMA DaysAreNaturals ==
    /\ Days \subseteq Nat /\ 0 \in Days /\ MaxDay \in Nat
    /\ \A d \in Nat : d <= MaxDay => d \in Days
  BY AggregationAssumption DEF Days

(* A set of days that is not empty has a latest one.                       *)
LEMMA LatestDay ==
    ASSUME NEW S \in SUBSET Days, S # {}
    PROVE  \E n \in S : \A m \in S : m <= n
  <1> DEFINE gaps == {MaxDay - n : n \in S}
  <1>1. MaxDay \in Nat /\ \A n \in S : n \in Nat /\ n <= MaxDay
    BY DaysAreNaturals DEF Days
  <1>2. gaps # {} /\ gaps \subseteq Nat
    BY <1>1
  <1>3. PICK g \in gaps : \A h \in gaps : g <= h
    <2> HIDE DEF gaps
    <2> DEFINE R == {ss \in Nat \X Nat : ss[1] < ss[2]}
    <2>1. IsWellFoundedOn(R, Nat)
      BY NatLessThanWellFounded, Zenon DEF OpToRel
    <2>2. \A x, y \in Nat : y < x => <<y, x>> \in R
      OBVIOUS
    <2> HIDE DEF R
    <2>3. PICK g \in gaps : \A h \in gaps : ~ (<<h, g>> \in R)
      BY <1>2, <2>1, WFMin
    <2>4. ASSUME NEW h \in gaps PROVE g <= h
      <3>1. g \in Nat /\ h \in Nat /\ ~ (h < g)
        BY <1>2, <2>2, <2>3
      <3> QED
        BY <3>1
    <2> QED
      BY <2>4
  <1>4. PICK n \in S : MaxDay - n = g
    BY <1>3
  <1>5. ASSUME NEW m \in S PROVE m <= n
    BY <1>1, <1>3, <1>4
  <1> QED
    BY <1>5

LEMMA NewestIsADay ==
    ASSUME TypeOK
    PROVE  Newest \in Days
  <1> DEFINE S == {0} \cup {r.day : r \in moments}
  <1>1. S \in SUBSET Days /\ S # {}
    BY DaysAreNaturals DEF TypeOK, Rows
  <1>2. PICK n \in S : \A m \in S : m <= n
    BY <1>1, LatestDay
  <1>3. n \in Days /\ (n = 0 \/ \E r \in moments : r.day = n) /\ \A r \in moments : r.day <= n
    BY <1>1, <1>2
  <1> QED
    BY <1>3 DEF Newest

-----------------------------------------------------------------------------
(* Types. *)
Labels == {"idle", "deleteMoments", "deleteDays", "range", "chunk",
           "aggregate", "writeMoments", "writeDays", "refresh"}

LEMMA EmptyType == Empty \in [Rows -> Nat]
  BY DEF Empty

(* A job that ends keeps nothing.                                          *)
LEMMA EndType ==
    ASSUME End
    PROVE  /\ selected' \in SUBSET Indicators /\ recalculate' \in BOOLEAN
           /\ from' \in Days /\ to' \in Days /\ start' \in Nat /\ batches' \in Nat
           /\ tmpMoments' \in [Rows -> Nat] /\ tmpDays' \in [Rows -> Nat]
           /\ pc' = "idle"
  BY EmptyType, DaysAreNaturals DEF End

LEMMA Products == \A x, y \in Nat : x * y \in Nat /\ (x * y > 0 => x > 0 /\ y > 0)
  OBVIOUS

(* The two steps of the aggregation in DuckDB, as functions of the rows.   *)
maximum(r)  == r.indicator \in selected \cap MaxPerDay /\ tmpMoments[r] > 0
withMaxima  == [r \in Rows |-> IF maximum(r) THEN tmpDays[r] + 1 ELSE tmpDays[r]]
Sibling(i, r) == [r EXCEPT !.indicator = i]

LEMMA Siblings ==
    ASSUME NEW r \in Rows, NEW i \in Indicators
    PROVE  /\ Sibling(i, r) \in Rows
           /\ Sibling(i, r).day = r.day /\ Sibling(i, r).indicator = i
  BY DEF Sibling, Rows

(* What the aggregation writes, and where a value greater than 0 is from.  *)
LEMMA Aggregated ==
    ASSUME Aggregate, TypeOK
    PROVE  /\ tmpDays' \in [Rows -> Nat]
           /\ \A r \in Rows : tmpDays'[r] > 0 =>
                 \/ tmpDays[r] > 0 \/ tmpMoments[r] > 0
                 \/ /\ r.indicator \in selected
                    /\ \E s \in Rows : /\ s.day = r.day
                                       /\ tmpDays[s] > 0 \/ tmpMoments[s] > 0
  <1>1. withMaxima \in [Rows -> Nat]
    BY DEF withMaxima, TypeOK
  <1>2. \A r \in Rows : withMaxima[r] > 0 => tmpDays[r] > 0 \/ tmpMoments[r] > 0
    BY DEF withMaxima, maximum, TypeOK
  <1>3. tmpDays' = [r \in Rows |->
              IF r.indicator = "perVehicle" /\ PerVehicleNeeds \subseteq selected
              THEN withMaxima[r] + withMaxima[Sibling("rentals", r)]
                                   * withMaxima[Sibling("vehicles", r)]
              ELSE withMaxima[r]]
    BY DEF Aggregate, Plus, withMaxima, maximum, Sibling
  <1> "rentals" \in Indicators /\ "vehicles" \in Indicators
    BY DEF Indicators, AtMoments, PerDay
  <1> HIDE DEF withMaxima
  <1>4. ASSUME NEW r \in Rows
        PROVE  /\ tmpDays'[r] \in Nat
               /\ tmpDays'[r] > 0 =>
                    \/ tmpDays[r] > 0 \/ tmpMoments[r] > 0
                    \/ /\ r.indicator \in selected
                       /\ \E s \in Rows : /\ s.day = r.day
                                          /\ tmpDays[s] > 0 \/ tmpMoments[s] > 0
    <2> DEFINE a == Sibling("rentals", r)
    <2> DEFINE b == Sibling("vehicles", r)
    <2>1. a \in Rows /\ b \in Rows /\ a.day = r.day
      BY Siblings
    <2> HIDE DEF a, b
    <2>2. withMaxima[r] \in Nat /\ withMaxima[a] \in Nat /\ withMaxima[b] \in Nat
      BY <1>1, <2>1
    <2>3. /\ withMaxima[a] * withMaxima[b] \in Nat
          /\ withMaxima[a] * withMaxima[b] > 0 => withMaxima[a] > 0
      BY <2>2, Products
    <2>4. CASE r.indicator = "perVehicle" /\ PerVehicleNeeds \subseteq selected
      <3>1. tmpDays'[r] = withMaxima[r] + withMaxima[a] * withMaxima[b]
        BY <1>3, <2>4 DEF a, b
      <3>2. r.indicator \in selected
        BY <2>4 DEF PerVehicleNeeds
      <3>3. tmpDays'[r] \in Nat
        BY <2>2, <2>3, <3>1
      <3>4. ASSUME tmpDays'[r] > 0 PROVE withMaxima[r] > 0 \/ withMaxima[a] > 0
        BY <2>2, <2>3, <3>1, <3>4
      <3> QED
        BY <1>2, <2>1, <3>2, <3>3, <3>4
    <2>5. CASE ~ (r.indicator = "perVehicle" /\ PerVehicleNeeds \subseteq selected)
      <3>1. tmpDays'[r] = withMaxima[r]
        BY <1>3, <2>5
      <3> QED
        BY <1>2, <2>2, <3>1
    <2> QED
      BY <2>4, <2>5
  <1> QED
    BY <1>3, <1>4

(* The end of a chunk lies between its start and the last date.            *)
LEMMA ChunkBounds ==
    ASSUME TypeOK, pc = "chunk", start <= to
    PROVE  /\ ChunkEnd \in Nat /\ start <= ChunkEnd /\ ChunkEnd <= to
           /\ NextStart \in Nat /\ start <= NextStart /\ NextStart <= to + 1
  BY DaysAreNaturals, AggregationAssumption DEF TypeOK, ChunkEnd, Earliest, NextStart

LEMMA BatchesCount ==
    ASSUME TypeOK
    PROVE  batches + 1 \in Nat
  BY DEF TypeOK

-----------------------------------------------------------------------------
(* Every variable keeps its type; a chunk never starts more than a day after  *)
(* the last date.                                                          *)
THEOREM AggregationTypeCorrect == Spec => []TypeOK
  <1>1. Init => TypeOK
    <2>1. 0 \in Days /\ 1 \in Days
      BY DaysAreNaturals, AggregationAssumption
    <2>2. {} \in SUBSET Rows /\ {} \in SUBSET Indicators /\ 1 # 0
      OBVIOUS
    <2> SUFFICES ASSUME Init PROVE TypeOK
      OBVIOUS
    <2>3. today \in Days \ {0} /\ from \in Days /\ to \in Days
      BY <2>1, <2>2 DEF Init
    <2>4. moments \in SUBSET Rows /\ days \in SUBSET Rows /\ selected \in SUBSET Indicators
      BY <2>2 DEF Init
    <2> QED
      BY <2>3, <2>4, EmptyType DEF Init, TypeOK
  <1>2. TypeOK /\ [Next]_vars => TypeOK'
    <2> SUFFICES ASSUME TypeOK, [Next]_vars PROVE TypeOK'
      OBVIOUS
    <2> USE DaysAreNaturals, AggregationAssumption
    <2>1. CASE NextDay
      BY <2>1 DEF NextDay, TypeOK, tables, request, progress, duckDB, counters, Days
    <2>2. CASE RunDefault
      BY <2>2 DEF RunDefault, TypeOK, tables, progress, duckDB, counters, Indicators
    <2>3. CASE RunRecalculate
      <3>1. selected' \in SUBSET Indicators
        BY <2>3, SelectionAssumption DEF RunRecalculate
      <3>2. to' \in Days /\ from' \in Days
        BY <2>3 DEF RunRecalculate, TypeOK, Days
      <3>3. early' \in Nat /\ ahead' \in Nat
        BY <2>3 DEF RunRecalculate, TypeOK
      <3> QED
        BY <2>3, <3>1, <3>2, <3>3 DEF RunRecalculate, TypeOK, tables, duckDB
    <2>4. CASE DeleteMoments
      BY <2>4 DEF DeleteMoments, TypeOK, request, progress, duckDB, counters
    <2>5. CASE DeleteDays
      BY <2>5 DEF DeleteDays, TypeOK, request, progress, duckDB, counters
    <2>6. CASE DetermineDateRange
      <3>1. StartDate \in Nat /\ EndDate \in Days
        BY NewestIsADay DEF StartDate, EndDate, TypeOK, Days
      <3>2. CASE StartDate > EndDate
        BY <2>6, <3>2 DEF DetermineDateRange, TypeOK, tables, request, progress, duckDB, counters
      <3>3. CASE ~ (StartDate > EndDate)
        <4>1. StartDate \in Days /\ StartDate <= EndDate + 1
          BY <3>1, <3>3 DEF Days
        <4> QED
          BY <2>6, <3>1, <3>3, <4>1
             DEF DetermineDateRange, TypeOK, tables, request, duckDB, counters
      <3> QED
        BY <3>2, <3>3
    <2>7. CASE AnalyzeChunk
      <3>1. start' \in Nat /\ start' <= to' + 1
        BY <2>7, ChunkBounds DEF AnalyzeChunk
      <3>2. batches' \in Nat
        BY <2>7, BatchesCount DEF AnalyzeChunk
      <3>3. tmpMoments' \in [Rows -> Nat] /\ tmpDays' \in [Rows -> Nat]
        BY <2>7 DEF AnalyzeChunk, TypeOK, Plus
      <3> QED
        BY <2>7, <3>1, <3>2, <3>3 DEF AnalyzeChunk, TypeOK, tables, request, counters
    <2>8. CASE LastChunkDone
      BY <2>8 DEF LastChunkDone, TypeOK, tables, request, duckDB, counters
    <2>9. CASE Aggregate
      <3>1. tmpDays' \in [Rows -> Nat]
        BY <2>9, Aggregated
      <3> QED
        BY <2>9, <3>1 DEF Aggregate, TypeOK, tables, request, progress, counters
    <2>10. CASE WriteMoments
      BY <2>10 DEF WriteMoments, TypeOK, RowsOf, request, progress, duckDB, counters
    <2>11. CASE WriteDays
      BY <2>11, EmptyType DEF WriteDays, TypeOK, RowsOf, request, progress, counters
    <2>12. CASE Refused
      <3>1. End /\ UNCHANGED <<today, moments, days>>
        BY <2>12 DEF Refused, tables
      <3>2. /\ recalculations' \in Nat /\ early' \in Nat /\ ahead' \in Nat
            /\ deaths' \in Nat /\ torn' \in Nat
        BY <2>12 DEF Refused, TypeOK
      <3> QED
        BY <3>1, <3>2, EndType DEF TypeOK
    <2>13. CASE Refresh
      BY <2>13, EndType DEF Refresh, TypeOK, tables, counters
    <2>14. CASE Die
      <3>1. End /\ UNCHANGED <<today, moments, days>>
        BY <2>14 DEF Die, tables
      <3>2. /\ recalculations' \in Nat /\ early' \in Nat /\ ahead' \in Nat
            /\ deaths' \in Nat /\ torn' \in Nat
        BY <2>14 DEF Die, TypeOK
      <3> QED
        BY <3>1, <3>2, EndType DEF TypeOK
    <2>15. CASE UNCHANGED vars
      BY <2>15 DEF vars, TypeOK, tables, request, progress, duckDB, counters
    <2> QED
      BY <2>1, <2>2, <2>3, <2>4, <2>5, <2>6, <2>7, <2>8, <2>9, <2>10, <2>11,
         <2>12, <2>13, <2>14, <2>15 DEF Next, JobStep
  <1> QED
    BY <1>1, <1>2, PTL DEF Spec

-----------------------------------------------------------------------------
(* What the job has to know of a recalculation for its rows to be requested *)
(* ones: between two runs, and until the first chunk, DuckDB holds no rows; *)
(* a chunk of a recalculation never starts before the first date; and what  *)
(* is in DuckDB is of the indicators and dates that were asked for.         *)
Unfilled == {"idle", "deleteMoments", "deleteDays", "range", "refresh"}

NothingLeftOver == pc \in Unfilled => tmpMoments = Empty /\ tmpDays = Empty
OnlyThenDeletes == pc \in {"deleteMoments", "deleteDays"} => recalculate
StartsInRange   == recalculate /\ pc \notin Unfilled => from <= start
ComputesRequested ==
    recalculate => \A r \in Rows : tmpMoments[r] > 0 \/ tmpDays[r] > 0 => r \in Requested

Safe == NothingLeftOver /\ OnlyThenDeletes /\ StartsInRange /\ ComputesRequested

LEMMA EmptyIsSafe ==
    \A r \in Rows : Empty[r] = 0 /\ ~ (Empty[r] > 0)
  BY DEF Empty

LEMMA InitSafe == Init => Safe
  BY EmptyIsSafe DEF Init, Safe, NothingLeftOver, OnlyThenDeletes, StartsInRange,
     ComputesRequested, Unfilled

(* A chunk adds only rows that were asked for.                             *)
LEMMA ChunkSafe ==
    ASSUME TypeOK, Safe, AnalyzeChunk
    PROVE  Safe'
  <1>1. pc = "chunk" /\ start <= to /\ UNCHANGED <<recalculate, selected, from, to>>
    BY DEF AnalyzeChunk, request
  <1>2. pc' \notin Unfilled /\ pc' \notin {"deleteMoments", "deleteDays"}
    BY DEF AnalyzeChunk, Unfilled
  <1>3. recalculate => from <= start
    BY <1>1 DEF Safe, StartsInRange, Unfilled
  <1>4. from \in Int /\ start \in Int /\ start' \in Int /\ start <= start' /\ ChunkEnd <= to
        /\ ChunkEnd \in Int /\ to \in Int
    BY <1>1, ChunkBounds, DaysAreNaturals DEF AnalyzeChunk, TypeOK
  <1>5. recalculate' => from' <= start'
    BY <1>1, <1>3, <1>4
  <1>6. ASSUME recalculate', NEW r \in Rows, tmpMoments'[r] > 0 \/ tmpDays'[r] > 0
        PROVE  r \in Requested'
    <2>1. \/ tmpMoments[r] > 0 \/ tmpDays[r] > 0
          \/ InChunk(r, AtMoments) \/ InChunk(r, PerDay)
      BY <1>6 DEF AnalyzeChunk, Plus
    <2>2. CASE tmpMoments[r] > 0 \/ tmpDays[r] > 0
      <3>1. r \in Requested
        BY <1>1, <1>6, <2>2 DEF Safe, ComputesRequested
      <3> QED
        BY <1>1, <3>1 DEF Requested
    <2>3. CASE InChunk(r, AtMoments) \/ InChunk(r, PerDay)
      <3>1. r.indicator \in selected /\ start <= r.day /\ r.day <= ChunkEnd
        BY <2>3 DEF InChunk
      <3>2. r.day \in Nat
        <4>1. r.day \in Days
          BY DEF Rows
        <4> QED
          BY <4>1, DaysAreNaturals
      <3>3. from <= r.day /\ r.day <= to
        BY <1>1, <1>3, <1>4, <1>6, <3>1, <3>2
      <3> QED
        BY <1>1, <3>1, <3>3 DEF Requested
    <2> QED
      BY <2>1, <2>2, <2>3
  <1> QED
    BY <1>2, <1>5, <1>6 DEF Safe, NothingLeftOver, OnlyThenDeletes, StartsInRange,
       ComputesRequested

(* The maxima and the quotient are of the days and indicators asked for.   *)
LEMMA AggregateSafe ==
    ASSUME TypeOK, Safe, Aggregate
    PROVE  Safe'
  <1>1. /\ pc = "aggregate" /\ pc' = "writeMoments"
        /\ UNCHANGED <<recalculate, selected, from, to, start, tmpMoments>>
    BY DEF Aggregate, request, progress
  <1>2. ASSUME recalculate', NEW r \in Rows, tmpMoments'[r] > 0 \/ tmpDays'[r] > 0
        PROVE  r \in Requested'
    <2>1. \/ tmpDays[r] > 0 \/ tmpMoments[r] > 0
          \/ /\ r.indicator \in selected
             /\ \E s \in Rows : s.day = r.day /\ (tmpDays[s] > 0 \/ tmpMoments[s] > 0)
      BY <1>1, <1>2, Aggregated
    <2>2. r \in Requested
      BY <1>1, <1>2, <2>1 DEF Safe, ComputesRequested, Requested
    <2> QED
      BY <1>1, <2>2 DEF Requested
  <1> QED
    BY <1>1, <1>2 DEF Safe, NothingLeftOver, OnlyThenDeletes, StartsInRange,
       ComputesRequested, Unfilled

(* Where DuckDB is empty afterwards, only the first three parts are left.  *)
LEMMA EmptySafe ==
    ASSUME tmpMoments' = Empty, tmpDays' = Empty,
           pc' \in {"deleteMoments", "deleteDays"} => recalculate',
           recalculate' /\ pc' \notin Unfilled => from' <= start'
    PROVE  Safe'
  <1>1. \A r \in Rows : ~ (tmpMoments'[r] > 0) /\ ~ (tmpDays'[r] > 0)
    BY EmptyIsSafe
  <1>2. Empty' = Empty
    BY DEF Empty
  <1> QED
    BY <1>1, <1>2 DEF Safe, NothingLeftOver, OnlyThenDeletes, StartsInRange, ComputesRequested

LEMMA EndSafe ==
    ASSUME End
    PROVE  Safe'
  BY EmptySafe DEF End, Unfilled

LEMMA NextSafe ==
    ASSUME TypeOK, Safe, [Next]_vars
    PROVE  Safe'
  <1>1. CASE NextDay \/ UNCHANGED vars
    BY <1>1 DEF NextDay, vars, tables, request, progress, duckDB, counters, Safe,
       NothingLeftOver, OnlyThenDeletes, StartsInRange, ComputesRequested, Requested, Empty
  <1>2. CASE pc \in Unfilled /\ (RunDefault \/ RunRecalculate \/ DeleteMoments \/ DeleteDays)
    BY <1>2, EmptySafe DEF RunDefault, RunRecalculate, DeleteMoments, DeleteDays, Safe,
       NothingLeftOver, duckDB, Unfilled, OnlyThenDeletes, request
  <1>3. CASE DetermineDateRange
    <2>1. pc = "range" /\ UNCHANGED <<recalculate, tmpMoments, tmpDays>>
      BY <1>3 DEF DetermineDateRange, request, duckDB
    <2>2. tmpMoments' = Empty /\ tmpDays' = Empty
      BY <2>1 DEF Safe, NothingLeftOver, Unfilled
    <2>3. StartDate \in Int
      <3>1. from \in Days /\ Newest \in Days
        BY NewestIsADay DEF TypeOK
      <3>2. from \in Nat /\ Newest \in Nat
        BY <3>1, DaysAreNaturals
      <3> QED
        BY <3>2 DEF StartDate
    <2>4. pc' \in {"refresh", "chunk"} /\ (pc' = "chunk" => from' = StartDate /\ start' = StartDate)
      BY <1>3 DEF DetermineDateRange
    <2> QED
      BY <2>2, <2>3, <2>4, EmptySafe DEF Unfilled
  <1>4. CASE AnalyzeChunk
    BY <1>4, ChunkSafe
  <1>5. CASE LastChunkDone \/ WriteMoments
    BY <1>5 DEF LastChunkDone, WriteMoments, request, progress, duckDB, Safe,
       NothingLeftOver, OnlyThenDeletes, StartsInRange, ComputesRequested, Requested, Unfilled
  <1>6. CASE Aggregate
    BY <1>6, AggregateSafe
  <1>7. CASE WriteDays
    <2>1. recalculate => from <= start
      BY <1>7 DEF WriteDays, Safe, StartsInRange, Unfilled
    <2> QED
      BY <1>7, <2>1, EmptySafe DEF WriteDays, request, progress, Unfilled
  <1>8. CASE Refused \/ Refresh \/ Die
    BY <1>8, EndSafe DEF Refused, Refresh, Die
  <1> QED
    BY <1>1, <1>2, <1>3, <1>4, <1>5, <1>6, <1>7, <1>8
       DEF Next, JobStep, RunDefault, RunRecalculate, DeleteMoments, DeleteDays, Unfilled

(* A recalculation leaves every row but those it was asked for as it is,   *)
(* and nothing else ever removes one: deleteIndicatorData and the writes   *)
(* (main.go 174-176, 402-442) stay within the indicators and dates given.  *)
THEOREM RecalculationStaysInRange == Spec => OnlyRequestedChange
  <1> DEFINE Removed == (moments \ moments') \cup (days \ days')
  <1> DEFINE Written == (moments' \ moments) \cup (days' \ days)
  <1> DEFINE Kept == /\ \A r \in Removed : recalculate /\ r \in Requested
                     /\ recalculate => Written \subseteq Requested
  <1>1. ASSUME TypeOK, Safe, [Next]_vars
        PROVE  [Kept]_vars
    <2>1. CASE UNCHANGED <<moments, days>>
      BY <2>1
    <2>2. CASE DeleteMoments
      BY <1>1, <2>2 DEF DeleteMoments, Safe, OnlyThenDeletes
    <2>3. CASE DeleteDays
      BY <1>1, <2>3 DEF DeleteDays, Safe, OnlyThenDeletes
    <2>4. CASE WriteMoments
      BY <1>1, <2>4 DEF WriteMoments, RowsOf, Safe, ComputesRequested
    <2>5. CASE WriteDays
      BY <1>1, <2>5 DEF WriteDays, RowsOf, Safe, ComputesRequested
    <2> QED
      BY <1>1, <2>1, <2>2, <2>3, <2>4, <2>5
         DEF Next, JobStep, NextDay, RunDefault, RunRecalculate, DetermineDateRange,
             AnalyzeChunk, LastChunkDone, Aggregate, Refused, Refresh, Die, tables, vars
  <1>2. TypeOK /\ Safe /\ [Next]_vars => Safe'
    BY NextSafe
  <1> QED
    BY <1>1, <1>2, InitSafe, AggregationTypeCorrect, PTL DEF Spec, OnlyRequestedChange

-----------------------------------------------------------------------------
(* Completeness: which rows the tables hold.                               *)

(* A recalculation of the quotient takes what the quotient is made of       *)
(* along. Without it RecalculatedAreThere is violated, and so are these.    *)
WholeSelections ==
    \A S \in Selections : "perVehicle" \in S => PerVehicleNeeds \subseteq S

Clean == torn = 0 /\ early = 0

InDays == Indicators \ {"parkedLong"}

DueMoments == {r \in Rows : r.indicator \in AtMoments /\ FirstDay(r.indicator) <= r.day}
DueDays    == {r \in Rows : r.indicator \in InDays /\ FirstDay(r.indicator) <= r.day}

(* The rows a run still has to write: those it was asked for from day b on. *)
Open(b) == {r \in Requested : r.day >= b}

(* The rows of DuckDB: those of the chunks since the last write.           *)
Batch(kinds, b) == {r \in Rows : /\ r.indicator \in selected \cap kinds
                                 /\ FirstDay(r.indicator) <= r.day
                                 /\ b <= r.day /\ r.day < start}

Once(S) == [r \in Rows |-> IF r \in S THEN 1 ELSE 0]

(* A table holds what is due up to day n and nothing later, but for the     *)
(* missing rows. Of the day before the first, day 0, a recalculation may    *)
(* have written some rows.                                                  *)
UpTo(table, due, n, missing) ==
    /\ table \cap missing = {}
    /\ \A r \in Rows : 1 <= r.day /\ r \notin missing =>
          (r \in table <=> r \in due /\ r.day <= n)

Filling == {"chunk", "aggregate", "writeMoments", "writeDays"}
Settled == {"idle", "deleteMoments", "refresh"}

(* The strengthened invariant: n is the newest day that is complete or will *)
(* be, b the first day of the chunks that are not written yet.              *)
Consistent(n, b) ==
    /\ pc \in Settled \/ (pc = "range" /\ ~recalculate) =>
          UpTo(moments, DueMoments, n, {}) /\ UpTo(days, DueDays, n, {})
    /\ pc = "deleteDays" =>
          UpTo(moments, DueMoments, n, Requested) /\ UpTo(days, DueDays, n, {})
    /\ pc = "range" /\ recalculate =>
          UpTo(moments, DueMoments, n, Requested) /\ UpTo(days, DueDays, n, Requested)
    /\ pc \in Filling =>
          /\ UpTo(moments, DueMoments, n, Open(IF pc = "writeDays" THEN start ELSE b))
          /\ UpTo(days, DueDays, n, Open(b))
          /\ from <= b /\ b <= start
          /\ tmpMoments = Once(Batch(AtMoments, b))
          /\ tmpDays = Once(Batch(IF pc \in {"chunk", "aggregate"} THEN PerDay ELSE InDays, b))
          /\ pc # "chunk" /\ batches = 0 => start > to
          /\ ~recalculate => n = to /\ 1 <= from

(* What a run is about.                                                    *)
Request(n) ==
    /\ pc # "idle" /\ recalculate => to <= n /\ selected \in Selections
    /\ pc # "idle" /\ ~recalculate => selected = Indicators
    /\ pc \in {"deleteMoments", "deleteDays"} => recalculate
    /\ pc \in Filling => to <= n

CompleteInv == Clean => \E n \in Days, b \in Nat :
                  n < today /\ Consistent(n, b) /\ Request(n)

-----------------------------------------------------------------------------
(* The tables. *)
LEMMA RowDays ==
    \A r \in Rows : r.day \in Days /\ r.day \in Nat /\ r.indicator \in Indicators
  <1>1. ASSUME NEW r \in Rows PROVE r.day \in Days /\ r.indicator \in Indicators
    BY DEF Rows
  <1> QED
    BY <1>1, DaysAreNaturals

LEMMA FirstDays == \A i \in Indicators : FirstDay(i) \in Nat
  BY AggregationAssumption DEF FirstDay

(* The newest date of moment_statistics is the day it is complete up to:   *)
(* vehicles are counted on every day.                                      *)
LEMMA NewestIsComplete ==
    ASSUME TypeOK, NEW n \in Days, UpTo(moments, DueMoments, n, {})
    PROVE  Newest = n
  <1> DEFINE v == [indicator |-> "vehicles", day |-> n]
  <1>1. n \in Nat /\ v \in Rows /\ v.day = n /\ v.indicator = "vehicles"
    BY DaysAreNaturals DEF Rows, Indicators, AtMoments
  <1>2. v \in DueMoments
    BY <1>1 DEF DueMoments, FirstDay, AtMoments
  <1>3. n = 0 \/ v \in moments
    BY <1>1, <1>2 DEF UpTo
  <1>4. ASSUME NEW r \in moments PROVE r.day <= n
    <2>1. r \in Rows /\ r.day \in Nat
      BY RowDays DEF TypeOK
    <2> QED
      BY <1>1, <2>1 DEF UpTo
  <1>5. ASSUME NEW d \in Days, d = 0 \/ \E r \in moments : r.day = d,
               \A r \in moments : r.day <= d
        PROVE  d = n
    <2>1. d \in Nat
      BY DaysAreNaturals
    <2> QED
      BY <1>1, <1>3, <1>4, <1>5, <2>1
  <1>6. n \in Days /\ (n = 0 \/ \E r \in moments : r.day = n)
    BY <1>1, <1>3
  <1> HIDE DEF v
  <1> QED
    BY <1>4, <1>5, <1>6 DEF Newest

(* Deleting rows makes them missing.                                       *)
LEMMA DeletedAreMissing ==
    ASSUME NEW table, NEW due, NEW n, NEW S, UpTo(table, due, n, {})
    PROVE  UpTo(table \ S, due, n, S)
  BY DEF UpTo

(* Nothing is open after the last date.                                    *)
LEMMA NothingOpen ==
    ASSUME TypeOK, start > to
    PROVE  Open(start) = {}
  <1>1. to \in Nat /\ start \in Nat
    BY DaysAreNaturals DEF TypeOK
  <1>2. \A r \in Requested : r.day \in Nat /\ r.day <= to
    BY RowDays DEF Requested
  <1> QED
    BY <1>1, <1>2 DEF Open

(* A batch holds open rows only, and writing it leaves those of the days   *)
(* that come after it.                                                     *)
LEMMA BatchIsOpen ==
    ASSUME TypeOK, NEW kinds, NEW b \in Nat, from <= b, start <= to + 1
    PROVE  Batch(kinds, b) \subseteq Open(b)
  <1>1. from \in Nat /\ to \in Nat /\ start \in Nat
    BY DaysAreNaturals DEF TypeOK
  <1>2. ASSUME NEW r \in Batch(kinds, b) PROVE r \in Open(b)
    <2>1. r \in Rows /\ r.indicator \in selected /\ b <= r.day /\ r.day < start
      BY DEF Batch
    <2>2. r.day \in Nat
      BY <2>1, RowDays
    <2>3. from <= r.day /\ r.day <= to
      BY <1>1, <2>1, <2>2
    <2> QED
      BY <2>1, <2>3, <2>2 DEF Open, Requested
  <1> QED
    BY <1>2

LEMMA WrittenUpTo ==
    ASSUME TypeOK, NEW table, NEW kinds, NEW b \in Nat, NEW n \in Nat,
           NEW due, due = {r \in Rows : r.indicator \in kinds /\ FirstDay(r.indicator) <= r.day},
           from <= b, b <= start, start <= to + 1, to <= n,
           UpTo(table, due, n, Open(b))
    PROVE  UpTo(table \cup Batch(kinds, b), due, n, Open(start))
  <1>1. from \in Nat /\ to \in Nat /\ start \in Nat
    BY DaysAreNaturals DEF TypeOK
  <1>2. ASSUME NEW r \in Open(start) PROVE r \in Open(b) /\ r \notin Batch(kinds, b)
    <2>1. r \in Rows /\ r \in Requested /\ r.day >= start /\ r.day \in Nat
      BY RowDays DEF Open, Requested
    <2> QED
      BY <1>1, <2>1 DEF Open, Batch
  <1>3. (table \cup Batch(kinds, b)) \cap Open(start) = {}
    BY <1>2 DEF UpTo
  <1>4. ASSUME NEW r \in Rows, 1 <= r.day, r \notin Open(start)
        PROVE  r \in table \cup Batch(kinds, b) <=> r \in due /\ r.day <= n
    <2>1. r.day \in Nat
      BY RowDays
    <2>2. CASE r \in Open(b)
      <3>1. /\ r.indicator \in selected /\ from <= r.day /\ r.day <= to
            /\ b <= r.day /\ r.day < start
        BY <1>1, <1>4, <2>1, <2>2 DEF Open, Requested
      <3>2. r \notin table
        BY <2>2 DEF UpTo
      <3>3. r \in Batch(kinds, b) <=> r \in due
        BY <3>1 DEF Batch
      <3> QED
        BY <1>1, <2>1, <3>1, <3>2, <3>3
    <2>3. CASE r \notin Open(b)
      <3>1. r \notin Batch(kinds, b)
        BY <2>3, BatchIsOpen
      <3> QED
        BY <1>4, <2>3, <3>1 DEF UpTo
    <2> QED
      BY <2>2, <2>3
  <1> QED
    BY <1>3, <1>4 DEF UpTo

(* The rows that are there more than once are none, and those that are     *)
(* there at all are the set.                                               *)
LEMMA OnceIsASet ==
    ASSUME NEW S \in SUBSET Rows
    PROVE  RowsOf(Once(S)) = S /\ \A r \in Rows : Once(S)[r] <= 1
  BY DEF RowsOf, Once

LEMMA OnceFits ==
    ASSUME NEW S \in SUBSET Rows, NEW table, table \cap S = {}
    PROVE  Fits(Once(S), table)
  BY OnceIsASet DEF Fits

LEMMA OnceOfNone == Once({}) = Empty
  BY DEF Once, Empty

-----------------------------------------------------------------------------
(* Every step leads from a consistent state to a consistent one.           *)
LEMMA ConstantSets ==
    /\ DueMoments' = DueMoments /\ DueDays' = DueDays /\ Empty' = Empty
    /\ DueMoments = {r \in Rows : r.indicator \in AtMoments /\ FirstDay(r.indicator) <= r.day}
    /\ DueDays = {r \in Rows : r.indicator \in InDays /\ FirstDay(r.indicator) <= r.day}
  BY DEF DueMoments, DueDays, Empty

LEMMA ConsistentInit == Init => CompleteInv
  <1> SUFFICES ASSUME Init PROVE 0 < today /\ Consistent(0, 0) /\ Request(0)
    BY DaysAreNaturals DEF CompleteInv
  <1>1. /\ pc = "idle" /\ moments = {} /\ days = {} /\ today = 1
    BY DEF Init
  <1>2. \A r \in Rows : r.day \in Nat
    BY RowDays
  <1>3. UpTo(moments, DueMoments, 0, {}) /\ UpTo(days, DueDays, 0, {})
    BY <1>1, <1>2 DEF UpTo
  <1> QED
    BY <1>1, <1>3 DEF Consistent, Request, Filling

(* What only looks at the calendar, or begins a default run.               *)
LEMMA ConsistentIdle ==
    ASSUME TypeOK, NEW n \in Days, NEW b \in Nat,
           n < today, Consistent(n, b), Request(n), NextDay \/ RunDefault \/ UNCHANGED vars
    PROVE  \E m \in Days, c \in Nat : m < today' /\ Consistent(m, c)' /\ Request(m)'
  <1>1. n < today'
    <2>1. n \in Nat /\ today \in Nat
      BY DaysAreNaturals DEF TypeOK
    <2> QED
      BY <2>1 DEF NextDay, RunDefault, vars
  <1>2. CASE NextDay \/ UNCHANGED vars
    <2>1. UNCHANGED <<tables, pc, request, progress, duckDB>>
      BY <1>2 DEF NextDay, vars
    <2>2. Consistent(n, b)'
      BY <2>1, ConstantSets
         DEF Consistent, UpTo, Open, Batch, Once, Requested, tables, request, progress, duckDB
    <2>3. Request(n)'
      BY <2>1 DEF Request, request, progress
    <2> QED
      BY <1>1, <2>2, <2>3
  <1>3. CASE RunDefault
    <2>1. /\ pc = "idle" /\ pc' = "range" /\ ~ recalculate' /\ selected' = Indicators
          /\ UNCHANGED <<moments, days>>
      BY <1>3 DEF RunDefault, tables
    <2>2. Consistent(n, b)'
      BY <2>1, ConstantSets DEF Consistent, UpTo, Filling, Settled
    <2>3. Request(n)'
      BY <2>1 DEF Request, Filling
    <2> QED
      BY <1>1, <2>2, <2>3
  <1> QED
    BY <1>2, <1>3

(* A recalculation that is not ahead of the default run.                   *)
LEMMA ConsistentRecalculate ==
    ASSUME TypeOK, NEW n \in Days, NEW b \in Nat,
           n < today, Consistent(n, b), Request(n), RunRecalculate, Clean, Clean'
    PROVE  \E m \in Days, c \in Nat : m < today' /\ Consistent(m, c)' /\ Request(m)'
  <1>1. /\ pc = "idle" /\ pc' = "deleteMoments" /\ recalculate'
        /\ selected' \in Selections /\ UNCHANGED <<moments, days, today>>
    BY DEF RunRecalculate, tables
  <1>2. UpTo(moments, DueMoments, n, {}) /\ UpTo(days, DueDays, n, {})
    BY <1>1 DEF Consistent, Settled
  <1>3. Newest = n
    BY <1>2, NewestIsComplete
  <1>4. to' <= n
    <2>1. n \in Nat /\ to' \in Int /\ (to' > n => early' = 1) /\ early' = 0
      BY <1>3, DaysAreNaturals DEF RunRecalculate, Clean, TypeOK
    <2> QED
      BY <2>1
  <1>5. Consistent(n, b)'
    BY <1>1, <1>2, ConstantSets DEF Consistent, UpTo, Filling, Settled
  <1>6. Request(n)'
    BY <1>1, <1>4 DEF Request, Filling
  <1> QED
    BY <1>1, <1>5, <1>6

LEMMA ConsistentDelete ==
    ASSUME TypeOK, NEW n \in Days, NEW b \in Nat,
           n < today, Consistent(n, b), Request(n), DeleteMoments \/ DeleteDays
    PROVE  \E m \in Days, c \in Nat : m < today' /\ Consistent(m, c)' /\ Request(m)'
  <1>1. recalculate /\ recalculate' /\ UNCHANGED <<today, selected, from, to>>
    BY DEF Request, DeleteMoments, DeleteDays, request, progress
  <1>2. Requested' = Requested
    BY <1>1 DEF Requested
  <1>3. Request(n)'
    BY <1>1 DEF Request, DeleteMoments, DeleteDays, Filling
  <1>4. CASE DeleteMoments
    <2>1. pc = "deleteMoments" /\ pc' = "deleteDays" /\ moments' = moments \ Requested /\ days' = days
      BY <1>4 DEF DeleteMoments
    <2>2. UpTo(moments, DueMoments, n, {}) /\ UpTo(days, DueDays, n, {})
      BY <2>1 DEF Consistent, Settled
    <2>3. UpTo(moments', DueMoments, n, Requested)
      BY <2>1, <2>2, DeletedAreMissing
    <2> QED
      BY <1>1, <1>2, <1>3, <2>1, <2>2, <2>3, ConstantSets DEF Consistent, UpTo, Settled, Filling
  <1>5. CASE DeleteDays
    <2>1. pc = "deleteDays" /\ pc' = "range" /\ days' = days \ Requested /\ moments' = moments
      BY <1>5 DEF DeleteDays
    <2>2. UpTo(moments, DueMoments, n, Requested) /\ UpTo(days, DueDays, n, {})
      BY <2>1 DEF Consistent
    <2>3. UpTo(days', DueDays, n, Requested)
      BY <2>1, <2>2, DeletedAreMissing
    <2> QED
      BY <1>1, <1>2, <1>3, <2>1, <2>2, <2>3, ConstantSets DEF Consistent, UpTo, Settled, Filling
  <1> QED
    BY <1>4, <1>5

(* The default run starts after the complete days and covers the ones up   *)
(* to yesterday; a recalculation starts where it has deleted.              *)
LEMMA ConsistentRange ==
    ASSUME TypeOK, Safe, NEW n \in Days, NEW b \in Nat,
           n < today, Consistent(n, b), Request(n), DetermineDateRange
    PROVE  \E m \in Days, c \in Nat : m < today' /\ Consistent(m, c)' /\ Request(m)'
  <1> USE ConstantSets
  <1>1. /\ pc = "range" /\ tmpMoments' = Empty /\ tmpDays' = Empty
        /\ UNCHANGED <<today, moments, days, recalculate, selected>>
    BY DEF DetermineDateRange, tables, request, duckDB, Safe, NothingLeftOver, Unfilled
  <1>2. n \in Nat /\ today \in Nat /\ from \in Nat /\ to \in Nat /\ recalculate \in BOOLEAN
    BY DaysAreNaturals DEF TypeOK
  <1>3. ASSUME pc' = "chunk", NEW m \in Days, NEW c \in Nat, from' = c, start' = c,
               UpTo(moments, DueMoments, m, Requested'), UpTo(days, DueDays, m, Requested'),
               ~ recalculate => m = to' /\ 1 <= c
        PROVE  Consistent(m, c)'
    <2>1. Requested' = Open(c)'
      <3>1. \A r \in Requested' : r.day >= c
        BY RowDays, <1>3 DEF Requested
      <3> QED
        BY <3>1 DEF Open
    <2>2. ASSUME NEW kinds PROVE Batch(kinds, c)' = {}
      <3>1. \A r \in Rows : ~ (c <= r.day /\ r.day < start')
        BY RowDays, <1>3
      <3> QED
        BY <3>1 DEF Batch
    <2>3. Once(Batch(AtMoments, c))' = Empty /\ Once(Batch(PerDay, c))' = Empty
      BY <2>2 DEF Once, Empty
    <2> QED
      BY <1>1, <1>3, <2>1, <2>3 DEF Consistent, Settled, UpTo
  <1>4. CASE recalculate
    <2>1. UpTo(moments, DueMoments, n, Requested) /\ UpTo(days, DueDays, n, Requested) /\ to <= n
      BY <1>1, <1>4 DEF Consistent, Request
    <2>2. CASE from > to
      <3>1. Requested = {}
        BY <1>2, <2>2, RowDays DEF Requested
      <3>2. pc' = "refresh" /\ UNCHANGED <<from, to>>
        BY <1>4, <2>2 DEF DetermineDateRange, StartDate, EndDate, progress
      <3>3. Consistent(n, b)' /\ Request(n)'
        BY <1>1, <1>4, <2>1, <3>1, <3>2 DEF Consistent, Request, Settled, Filling, UpTo
      <3> QED
        BY <1>1, <3>3
    <2>3. CASE ~ (from > to)
      <3>1. pc' = "chunk" /\ from' = from /\ to' = to /\ start' = from
        BY <1>4, <2>3 DEF DetermineDateRange, StartDate, EndDate
      <3>2. Requested' = Requested
        BY <1>1, <3>1 DEF Requested
      <3>3. PICK c \in Nat : c = from
        BY <1>2
      <3>4. Consistent(n, c)'
        BY <1>2, <1>3, <1>4, <2>1, <3>1, <3>2, <3>3
      <3>5. Request(n)'
        BY <1>1, <1>4, <2>1, <3>1 DEF Request
      <3> QED
        BY <1>1, <3>4, <3>5
    <2> QED
      BY <2>2, <2>3
  <1>5. CASE ~ recalculate
    <2>1. UpTo(moments, DueMoments, n, {}) /\ UpTo(days, DueDays, n, {})
      BY <1>1, <1>5 DEF Consistent
    <2>2. StartDate = n + 1 /\ EndDate = today - 1
      BY <1>5, <2>1, NewestIsComplete DEF StartDate, EndDate
    <2>3. selected = Indicators
      BY <1>1, <1>5 DEF Request
    <2>4. CASE n + 1 > today - 1
      <3>1. pc' = "refresh"
        BY <2>2, <2>4 DEF DetermineDateRange
      <3>2. Consistent(n, b)' /\ Request(n)'
        BY <1>1, <1>5, <2>1, <2>3, <3>1 DEF Consistent, Request, Settled, Filling, UpTo
      <3> QED
        BY <1>1, <3>2
    <2>5. CASE ~ (n + 1 > today - 1)
      <3>1. pc' = "chunk" /\ from' = n + 1 /\ to' = today - 1 /\ start' = n + 1
        BY <2>2, <2>5 DEF DetermineDateRange
      <3>2. PICK m \in Days : m = today - 1
        <4>1. today - 1 \in Nat /\ today - 1 <= MaxDay
          BY <1>2, <2>5, DaysAreNaturals DEF TypeOK, Days
        <4> QED
          BY <4>1, DaysAreNaturals
      <3>3. PICK c \in Nat : c = n + 1
        BY <1>2
      <3>4. \A r \in Rows : r \in Requested' <=> n < r.day /\ r.day <= m
        BY <1>1, <1>2, <2>3, <3>1, <3>2, <3>3, RowDays DEF Requested
      <3>5. ASSUME NEW table \in SUBSET Rows, NEW due, UpTo(table, due, n, {})
            PROVE  UpTo(table, due, m, Requested')
        <4>1. \A r \in table : r.day <= n
          BY <1>2, <3>5, RowDays DEF UpTo
        <4>2. table \cap Requested' = {}
          BY <1>2, <3>4, <4>1, RowDays
        <4>3. ASSUME NEW r \in Rows, 1 <= r.day, r \notin Requested'
              PROVE  r \in table <=> r \in due /\ r.day <= m
          <5>1. r.day \in Nat /\ ~ (n < r.day /\ r.day <= m) /\ n < m + 1 /\ m \in Nat
            BY <1>2, <2>5, <3>2, <3>4, <4>3, RowDays
          <5>2. r \in table <=> r \in due /\ r.day <= n
            BY <3>5, <4>3 DEF UpTo
          <5>3. r.day <= n <=> r.day <= m
            BY <1>2, <5>1
          <5> QED
            BY <5>2, <5>3
        <4> QED
          BY <4>2, <4>3 DEF UpTo
      <3>6. UpTo(moments, DueMoments, m, Requested') /\ UpTo(days, DueDays, m, Requested')
        BY <2>1, <3>5 DEF TypeOK
      <3>7. m = to' /\ 1 <= c /\ from' = c /\ start' = c /\ m < today
        BY <1>2, <3>1, <3>2, <3>3
      <3>8. Consistent(m, c)'
        BY <1>3, <3>1, <3>6, <3>7
      <3>9. Request(m)'
        BY <1>1, <1>2, <1>5, <2>3, <3>1, <3>7, DaysAreNaturals DEF Request
      <3> QED
        BY <1>1, <3>7, <3>8, <3>9
    <2> QED
      BY <2>4, <2>5
  <1> QED
    BY <1>2, <1>4, <1>5

(* A chunk adds its days, which are over, to the batch.                    *)
LEMMA ChunkGrowsBatch ==
    ASSUME TypeOK, NEW b \in Nat, b <= start, pc = "chunk", start <= to, to < today,
           AnalyzeChunk,
           NEW kinds, NEW table, NEW table2, table = Once(Batch(kinds, b)),
           table2 = [r \in Rows |-> IF InChunk(r, kinds) THEN table[r] + 1 ELSE table[r]]
    PROVE  table2 = Once(Batch(kinds, b))'
  <1>1. /\ selected' = selected /\ start' = ChunkEnd + 1
        /\ ChunkEnd \in Nat /\ start \in Nat /\ start <= ChunkEnd
        /\ ChunkEnd < today /\ today \in Nat
    <2>1. to \in Nat /\ today \in Nat
      BY DaysAreNaturals DEF TypeOK
    <2> QED
      BY <2>1, ChunkBounds DEF AnalyzeChunk, request, NextStart, TypeOK
  <1>2. ASSUME NEW r \in Rows
        PROVE  table2[r] = IF r \in Batch(kinds, b)' THEN 1 ELSE 0
    <2>1. r.day \in Nat /\ r.indicator \in Indicators
      BY RowDays
    <2>2. FirstDay(r.indicator) \in Nat
      BY <2>1, FirstDays
    <2>3. start <= r.day /\ r.day <= ChunkEnd => HasBegun(r)
      BY <1>1, <2>1 DEF HasBegun
    <2>4. r \in Batch(kinds, b)' <=> r \in Batch(kinds, b) \/ InChunk(r, kinds)
      BY <1>1, <2>1, <2>2, <2>3 DEF Batch, InChunk
    <2>5. ~ (r \in Batch(kinds, b) /\ InChunk(r, kinds))
      BY <1>1, <2>1 DEF Batch, InChunk
    <2>6. table[r] = IF r \in Batch(kinds, b) THEN 1 ELSE 0
      BY DEF Once
    <2> QED
      BY <2>4, <2>5, <2>6
  <1>3. Once(Batch(kinds, b))' = [r \in Rows |-> IF r \in Batch(kinds, b)' THEN 1 ELSE 0]
    BY DEF Once
  <1> QED
    BY <1>2, <1>3

LEMMA ConsistentChunk ==
    ASSUME TypeOK, NEW n \in Days, NEW b \in Nat,
           n < today, Consistent(n, b), Request(n), AnalyzeChunk
    PROVE  \E m \in Days, c \in Nat : m < today' /\ Consistent(m, c)' /\ Request(m)'
  <1>1. /\ pc = "chunk" /\ pc' \in {"chunk", "aggregate"} /\ start <= to
        /\ UNCHANGED <<today, moments, days, recalculate, selected, from, to>>
    BY DEF AnalyzeChunk, tables, request
  <1>2. /\ UpTo(moments, DueMoments, n, Open(b)) /\ UpTo(days, DueDays, n, Open(b))
        /\ from <= b /\ b <= start /\ (~ recalculate => n = to /\ 1 <= from)
        /\ tmpMoments = Once(Batch(AtMoments, b)) /\ tmpDays = Once(Batch(PerDay, b))
        /\ to < today
    <2>1. to <= n /\ to \in Nat /\ n \in Nat /\ today \in Nat
      BY <1>1, DaysAreNaturals DEF Request, Filling, TypeOK
    <2> QED
      BY <1>1, <2>1 DEF Consistent, Filling
  <1>3. b <= start' /\ batches' # 0
    <2>1. start \in Nat /\ batches \in Nat
      BY DEF TypeOK
    <2> QED
      BY <1>1, <1>2, <2>1, ChunkBounds DEF AnalyzeChunk
  <1>4. /\ tmpMoments' = [r \in Rows |-> IF InChunk(r, AtMoments) THEN tmpMoments[r] + 1
                                                                  ELSE tmpMoments[r]]
        /\ tmpDays' = [r \in Rows |-> IF InChunk(r, PerDay) THEN tmpDays[r] + 1 ELSE tmpDays[r]]
    BY DEF AnalyzeChunk, Plus
  <1>5. tmpMoments' = Once(Batch(AtMoments, b))' /\ tmpDays' = Once(Batch(PerDay, b))'
    BY <1>1, <1>2, <1>4, ChunkGrowsBatch
  <1>6. Open(b)' = Open(b)
    BY <1>1 DEF Open, Requested
  <1>7. Consistent(n, b)'
    BY <1>1, <1>2, <1>3, <1>5, <1>6, ConstantSets DEF Consistent, UpTo, Settled, Filling
  <1>8. Request(n)'
    BY <1>1 DEF Request, Filling
  <1> QED
    BY <1>1, <1>7, <1>8

LEMMA ConsistentLastChunk ==
    ASSUME TypeOK, NEW n \in Days, NEW b \in Nat,
           n < today, Consistent(n, b), Request(n), LastChunkDone
    PROVE  \E m \in Days, c \in Nat : m < today' /\ Consistent(m, c)' /\ Request(m)'
  <1>1. /\ pc = "chunk" /\ pc' = "aggregate" /\ start > to
        /\ UNCHANGED <<today, moments, days, recalculate, selected, from, to, start,
                       tmpMoments, tmpDays>>
    BY DEF LastChunkDone, tables, request, duckDB
  <1>2. Open(b)' = Open(b) /\ (\A kinds : Once(Batch(kinds, b))' = Once(Batch(kinds, b)))
    BY <1>1 DEF Open, Requested, Once, Batch
  <1>3. Consistent(n, b)'
    BY <1>1, <1>2, ConstantSets DEF Consistent, UpTo, Settled, Filling, Once, Batch
  <1>4. Request(n)'
    BY <1>1 DEF Request, Filling
  <1> QED
    BY <1>1, <1>3, <1>4

(* The maxima of the day and the quotient complete the values per day.     *)
LEMMA AggregateCompletes ==
    ASSUME TypeOK, NEW b \in Nat, Aggregate,
           "perVehicle" \in selected => PerVehicleNeeds \subseteq selected,
           tmpMoments = Once(Batch(AtMoments, b)), tmpDays = Once(Batch(PerDay, b))
    PROVE  tmpDays' = Once(Batch(InDays, b))
  <1>1. withMaxima = [r \in Rows |->
            IF r \in Batch(MaxPerDay \cup PerDay, b) THEN 1 ELSE 0]
    <2>1. ASSUME NEW r \in Rows
          PROVE  withMaxima[r] = IF r \in Batch(MaxPerDay \cup PerDay, b) THEN 1 ELSE 0
      <3>1. /\ tmpMoments[r] = IF r \in Batch(AtMoments, b) THEN 1 ELSE 0
            /\ tmpDays[r] = IF r \in Batch(PerDay, b) THEN 1 ELSE 0
        BY DEF Once
      <3>2. maximum(r) <=> r \in Batch(MaxPerDay, b)
        BY <3>1 DEF maximum, Batch, MaxPerDay, AtMoments
      <3>3. ~ (r \in Batch(MaxPerDay, b) /\ r \in Batch(PerDay, b))
        BY DEF Batch, MaxPerDay, PerDay
      <3>4. r \in Batch(MaxPerDay \cup PerDay, b) <=> r \in Batch(MaxPerDay, b) \/ r \in Batch(PerDay, b)
        BY DEF Batch
      <3>5. withMaxima[r] = IF maximum(r) THEN tmpDays[r] + 1 ELSE tmpDays[r]
        BY DEF withMaxima
      <3> QED
        BY <3>1, <3>2, <3>3, <3>4, <3>5
    <2> QED
      BY <2>1 DEF withMaxima
  <1>2. tmpDays' = [r \in Rows |->
              IF r.indicator = "perVehicle" /\ PerVehicleNeeds \subseteq selected
              THEN withMaxima[r] + withMaxima[Sibling("rentals", r)]
                                   * withMaxima[Sibling("vehicles", r)]
              ELSE withMaxima[r]]
    BY DEF Aggregate, Plus, withMaxima, maximum, Sibling
  <1>3. ASSUME NEW r \in Rows
        PROVE  tmpDays'[r] = IF r \in Batch(InDays, b) THEN 1 ELSE 0
    <2> DEFINE x == Sibling("rentals", r)
    <2> DEFINE y == Sibling("vehicles", r)
    <2>1. /\ x \in Rows /\ y \in Rows /\ x.day = r.day /\ y.day = r.day
          /\ x.indicator = "rentals" /\ y.indicator = "vehicles"
      BY Siblings DEF Indicators, AtMoments, PerDay
    <2> HIDE DEF x, y
    <2>2. r.indicator \in Indicators
      BY RowDays
    <2>3. CASE r.indicator = "perVehicle" /\ PerVehicleNeeds \subseteq selected
      <3>1. withMaxima[r] = 0
        BY <1>1, <2>3 DEF Batch, MaxPerDay, PerDay
      <3>2. "rentals" \in selected /\ "vehicles" \in selected /\ "perVehicle" \in selected
        BY <2>3 DEF PerVehicleNeeds
      <3>3. /\ x \in Batch(MaxPerDay \cup PerDay, b) <=> r \in Batch(InDays, b)
            /\ y \in Batch(MaxPerDay \cup PerDay, b) <=> r \in Batch(InDays, b)
        BY <2>1, <2>3, <3>2
           DEF Batch, MaxPerDay, PerDay, InDays, Indicators, AtMoments, FirstDay
      <3>4. /\ withMaxima[x] = IF r \in Batch(InDays, b) THEN 1 ELSE 0
            /\ withMaxima[y] = IF r \in Batch(InDays, b) THEN 1 ELSE 0
        BY <1>1, <2>1, <3>3
      <3>5. tmpDays'[r] = withMaxima[r] + withMaxima[x] * withMaxima[y]
        BY <1>2, <2>3 DEF x, y
      <3> QED
        BY <3>1, <3>4, <3>5
    <2>4. CASE ~ (r.indicator = "perVehicle" /\ PerVehicleNeeds \subseteq selected)
      <3>1. tmpDays'[r] = withMaxima[r]
        BY <1>2, <2>4
      <3>2. r \in Batch(MaxPerDay \cup PerDay, b) <=> r \in Batch(InDays, b)
        BY <2>2, <2>4 DEF Batch, MaxPerDay, PerDay, InDays, Indicators, AtMoments
      <3> QED
        BY <1>1, <3>1, <3>2
    <2> QED
      BY <2>3, <2>4
  <1> QED
    BY <1>2, <1>3 DEF Once

LEMMA ConsistentAggregate ==
    ASSUME TypeOK, NEW n \in Days, NEW b \in Nat,
           n < today, Consistent(n, b), Request(n), WholeSelections, Aggregate
    PROVE  \E m \in Days, c \in Nat : m < today' /\ Consistent(m, c)' /\ Request(m)'
  <1>1. /\ pc = "aggregate" /\ pc' = "writeMoments"
        /\ UNCHANGED <<today, moments, days, recalculate, selected, from, to, start, batches,
                       tmpMoments>>
    BY DEF Aggregate, tables, request, progress
  <1>2. "perVehicle" \in selected => PerVehicleNeeds \subseteq selected
    BY <1>1 DEF Request, WholeSelections, PerVehicleNeeds, Indicators, AtMoments, PerDay, TypeOK
  <1>3. tmpMoments = Once(Batch(AtMoments, b)) /\ tmpDays = Once(Batch(PerDay, b))
    BY <1>1 DEF Consistent, Filling
  <1>4. tmpDays' = Once(Batch(InDays, b))
    BY <1>2, <1>3, AggregateCompletes
  <1>5. /\ Open(b)' = Open(b) /\ Once(Batch(InDays, b))' = Once(Batch(InDays, b))
        /\ Once(Batch(AtMoments, b))' = Once(Batch(AtMoments, b))
    BY <1>1 DEF Open, Requested, Once, Batch
  <1>6. Consistent(n, b)'
    BY <1>1, <1>3, <1>4, <1>5, ConstantSets DEF Consistent, UpTo, Settled, Filling
  <1>7. Request(n)'
    BY <1>1 DEF Request, Filling
  <1> QED
    BY <1>1, <1>6, <1>7

LEMMA BatchesAreRows ==
    ASSUME NEW kinds, NEW b
    PROVE  Batch(kinds, b) \in SUBSET Rows /\ RowsOf(Once(Batch(kinds, b))) = Batch(kinds, b)
  <1>1. Batch(kinds, b) \in SUBSET Rows
    BY DEF Batch
  <1> QED
    BY <1>1, OnceIsASet

LEMMA ConsistentWriteMoments ==
    ASSUME TypeOK, NEW n \in Days, NEW b \in Nat,
           n < today, Consistent(n, b), Request(n), WriteMoments
    PROVE  \E m \in Days, c \in Nat : m < today' /\ Consistent(m, c)' /\ Request(m)'
  <1>1. /\ pc = "writeMoments" /\ pc' = "writeDays"
        /\ moments' = moments \cup RowsOf(tmpMoments)
        /\ UNCHANGED <<today, days, recalculate, selected, from, to, start, batches,
                       tmpMoments, tmpDays>>
    BY DEF WriteMoments, request, progress, duckDB
  <1>2. /\ UpTo(moments, DueMoments, n, Open(b)) /\ from <= b /\ b <= start
        /\ tmpMoments = Once(Batch(AtMoments, b)) /\ start <= to + 1 /\ to <= n
    BY <1>1 DEF Consistent, Request, Filling, TypeOK
  <1>3. moments' = moments \cup Batch(AtMoments, b)
    BY <1>1, <1>2, BatchesAreRows
  <1>4. UpTo(moments', DueMoments, n, Open(start))
    BY <1>2, <1>3, ConstantSets, WrittenUpTo, DaysAreNaturals
  <1>5. /\ Open(b)' = Open(b) /\ Open(start)' = Open(start)
        /\ Once(Batch(InDays, b))' = Once(Batch(InDays, b))
        /\ Once(Batch(AtMoments, b))' = Once(Batch(AtMoments, b))
    BY <1>1 DEF Open, Requested, Once, Batch
  <1>6. Consistent(n, b)'
    BY <1>1, <1>2, <1>4, <1>5, ConstantSets DEF Consistent, UpTo, Settled, Filling
  <1>7. Request(n)'
    BY <1>1 DEF Request, Filling
  <1> QED
    BY <1>1, <1>6, <1>7

LEMMA ConsistentWriteDays ==
    ASSUME TypeOK, NEW n \in Days, NEW b \in Nat,
           n < today, Consistent(n, b), Request(n), WriteDays
    PROVE  \E m \in Days, c \in Nat : m < today' /\ Consistent(m, c)' /\ Request(m)'
  <1>1. /\ pc = "writeDays" /\ pc' = IF batches = 0 THEN "refresh" ELSE "chunk"
        /\ days' = days \cup RowsOf(tmpDays) /\ tmpMoments' = Empty /\ tmpDays' = Empty
        /\ UNCHANGED <<today, moments, recalculate, selected, from, to, start, batches>>
    BY DEF WriteDays, request, progress
  <1>2. /\ UpTo(moments, DueMoments, n, Open(start)) /\ UpTo(days, DueDays, n, Open(b))
        /\ from <= b /\ b <= start /\ start <= to + 1 /\ to <= n
        /\ tmpDays = Once(Batch(InDays, b)) /\ (batches = 0 => start > to)
        /\ (~ recalculate => n = to /\ 1 <= from)
    BY <1>1 DEF Consistent, Request, Filling, TypeOK
  <1>3. days' = days \cup Batch(InDays, b)
    BY <1>1, <1>2, BatchesAreRows
  <1>4. UpTo(days', DueDays, n, Open(start))
    BY <1>2, <1>3, ConstantSets, WrittenUpTo, DaysAreNaturals
  <1>5. Request(n)'
    BY <1>1 DEF Request, Filling
  <1>6. CASE batches = 0
    <2>1. Open(start) = {}
      BY <1>2, <1>6, NothingOpen
    <2>2. Consistent(n, b)'
      BY <1>1, <1>2, <1>4, <1>6, <2>1, ConstantSets DEF Consistent, UpTo, Settled, Filling
    <2> QED
      BY <1>1, <1>5, <2>2
  <1>7. CASE batches # 0
    <2>1. PICK c \in Nat : c = start
      BY DEF TypeOK
    <2>2. from <= c
      BY <1>2, <2>1, DaysAreNaturals DEF TypeOK
    <2>3. Open(c)' = Open(start)
      BY <1>1, <2>1 DEF Open, Requested
    <2>4. ASSUME NEW kinds PROVE Batch(kinds, c)' = {}
      <3>1. \A r \in Rows : ~ (c <= r.day /\ r.day < start')
        BY RowDays, <1>1, <2>1
      <3> QED
        BY <3>1 DEF Batch
    <2>5. Once(Batch(AtMoments, c))' = Empty /\ Once(Batch(PerDay, c))' = Empty
      BY <2>4 DEF Once, Empty
    <2>6. Consistent(n, c)'
      BY <1>1, <1>2, <1>4, <1>7, <2>1, <2>2, <2>3, <2>5, ConstantSets
         DEF Consistent, UpTo, Settled
    <2> QED
      BY <1>1, <1>5, <2>6
  <1> QED
    BY <1>6, <1>7

(* A batch never meets a row that is there, so no write is refused.        *)
LEMMA BatchFits ==
    ASSUME TypeOK, NEW n \in Days, NEW b \in Nat, Consistent(n, b)
    PROVE  /\ pc = "writeMoments" => Fits(tmpMoments, moments) /\ Fits(tmpDays, days)
           /\ pc = "writeDays" => Fits(tmpDays, days)
  <1> SUFFICES ASSUME pc \in {"writeMoments", "writeDays"}
               PROVE  /\ pc = "writeMoments" => Fits(tmpMoments, moments)
                      /\ Fits(tmpDays, days)
    OBVIOUS
  <1>1. /\ pc = "writeMoments" => moments \cap Open(b) = {}
        /\ days \cap Open(b) = {}
        /\ from <= b /\ start <= to + 1
        /\ tmpMoments = Once(Batch(AtMoments, b)) /\ tmpDays = Once(Batch(InDays, b))
    BY DEF Consistent, UpTo, Filling, TypeOK
  <1>2. Batch(AtMoments, b) \subseteq Open(b) /\ Batch(InDays, b) \subseteq Open(b)
    BY <1>1, BatchIsOpen
  <1>3. Batch(AtMoments, b) \in SUBSET Rows /\ Batch(InDays, b) \in SUBSET Rows
    BY BatchesAreRows
  <1>4. Fits(tmpDays, days)
    BY <1>1, <1>2, <1>3, OnceFits
  <1>5. pc = "writeMoments" => Fits(tmpMoments, moments)
    BY <1>1, <1>2, <1>3, OnceFits
  <1> QED
    BY <1>4, <1>5

(* What a default run that dies leaves behind is complete up to the day     *)
(* before its batch.                                                        *)
LEMMA CutOff ==
    ASSUME TypeOK, NEW b \in Nat, NEW table, NEW due, selected = Indicators,
           from <= b, b <= to + 1, UpTo(table, due, to, Open(b))
    PROVE  UpTo(table, due, b - 1, {})
  <1>1. from \in Nat /\ to \in Nat
    BY DaysAreNaturals DEF TypeOK
  <1> SUFFICES ASSUME NEW r \in Rows, 1 <= r.day
               PROVE  r \in table <=> r \in due /\ r.day <= b - 1
    BY DEF UpTo
  <1>2. r.day \in Nat /\ r.indicator \in selected
    BY RowDays
  <1>3. CASE r.day < b
    <2>1. r \notin Open(b) /\ r.day <= to /\ r.day <= b - 1
      BY <1>1, <1>2, <1>3 DEF Open
    <2> QED
      BY <2>1 DEF UpTo
  <1>4. CASE b <= r.day /\ r.day <= to
    <2>1. r \in Open(b)
      BY <1>1, <1>2, <1>4 DEF Open, Requested
    <2> QED
      BY <1>2, <1>4, <2>1 DEF UpTo
  <1>5. CASE to < r.day
    <2>1. r \notin Open(b) /\ ~ (r.day <= to) /\ ~ (r.day <= b - 1)
      BY <1>1, <1>2, <1>5 DEF Open, Requested
    <2> QED
      BY <2>1 DEF UpTo
  <1> QED
    BY <1>1, <1>2, <1>3, <1>4, <1>5

LEMMA ConsistentEnd ==
    ASSUME TypeOK, NEW n \in Days, NEW b \in Nat,
           n < today, Consistent(n, b), Request(n), Refused \/ Refresh \/ Die, Clean, Clean'
    PROVE  \E m \in Days, c \in Nat : m < today' /\ Consistent(m, c)' /\ Request(m)'
  <1>1. /\ pc' = "idle" /\ UNCHANGED <<today, moments, days>>
    BY DEF Refused, Refresh, Die, End, tables
  <1>2. ASSUME NEW m \in Days, m < today, UpTo(moments, DueMoments, m, {}),
               UpTo(days, DueDays, m, {})
        PROVE  m < today' /\ Consistent(m, b)' /\ Request(m)'
    BY <1>1, <1>2, ConstantSets DEF Consistent, Request, UpTo, Filling
  <1>3. torn = 0 /\ torn' = 0
    BY DEF Clean
  <1>4. CASE pc \in Settled \/ (pc = "range" /\ ~ recalculate)
    BY <1>2, <1>4 DEF Consistent
  <1>5. CASE pc = "deleteDays" \/ pc = "writeDays" \/ (recalculate /\ pc \in Filling \cup {"range"})
    <2>1. Refused \/ Die
      BY <1>5 DEF Refresh, Filling
    <2>2. Die => HalfDone
      BY <1>5 DEF HalfDone, Filling, Request
    <2>3. torn' = torn + 1
      BY <1>5, <2>1, <2>2 DEF Die, Refused, Request
    <2> QED
      BY <1>3, <2>3
  <1>6. CASE ~ recalculate /\ pc \in Filling \ {"writeDays"}
    <2>1. /\ UpTo(moments, DueMoments, to, Open(b)) /\ UpTo(days, DueDays, to, Open(b))
          /\ from <= b /\ b <= start /\ start <= to + 1 /\ n = to /\ 1 <= from
          /\ selected = Indicators
      BY <1>6 DEF Consistent, Request, Filling, TypeOK
    <2>2. from \in Nat /\ to \in Nat /\ start \in Nat /\ to <= MaxDay /\ today \in Nat
      BY DaysAreNaturals DEF TypeOK, Days
    <2>3. b - 1 \in Nat /\ b - 1 <= MaxDay /\ b - 1 < today /\ b <= to + 1
      BY <2>1, <2>2, DaysAreNaturals
    <2>4. PICK m \in Days : m = b - 1
      BY <2>3, DaysAreNaturals
    <2>5. UpTo(moments, DueMoments, b - 1, {}) /\ UpTo(days, DueDays, b - 1, {})
      BY <2>1, <2>3, CutOff
    <2> QED
      BY <1>2, <2>3, <2>4, <2>5
  <1> QED
    BY <1>4, <1>5, <1>6 DEF Settled, Filling, TypeOK

-----------------------------------------------------------------------------
(* What was torn or overtaken stays so.                                    *)
LEMMA CleanBefore ==
    ASSUME TypeOK, [Next]_vars, Clean'
    PROVE  Clean
  <1>1. torn \in Nat /\ early \in Nat /\ torn' = 0 /\ early' = 0
    BY DEF TypeOK, Clean
  <1>2. torn' \in {torn, torn + 1} /\ early' \in {early, early + 1}
    BY DEF Next, JobStep, NextDay, RunDefault, RunRecalculate, DeleteMoments, DeleteDays,
       DetermineDateRange, AnalyzeChunk, LastChunkDone, Aggregate, WriteMoments, WriteDays,
       Refused, Refresh, Die, counters, vars
  <1> QED
    BY <1>1, <1>2 DEF Clean

LEMMA ConsistentNext ==
    ASSUME WholeSelections, TypeOK, Safe, CompleteInv, [Next]_vars
    PROVE  CompleteInv'
  <1> SUFFICES ASSUME Clean'
               PROVE  \E m \in Days, c \in Nat :
                          m < today' /\ Consistent(m, c)' /\ Request(m)'
    <2>1. Days' = Days /\ Nat' = Nat
      BY DEF Days
    <2> QED
      BY <2>1 DEF CompleteInv
  <1>1. Clean
    BY CleanBefore
  <1>2. PICK n \in Days, b \in Nat : n < today /\ Consistent(n, b) /\ Request(n)
    BY <1>1 DEF CompleteInv
  <1>3. CASE NextDay \/ RunDefault \/ UNCHANGED vars
    BY <1>2, <1>3, ConsistentIdle
  <1>4. CASE RunRecalculate
    BY <1>1, <1>2, <1>4, ConsistentRecalculate
  <1>5. CASE DeleteMoments \/ DeleteDays
    BY <1>2, <1>5, ConsistentDelete
  <1>6. CASE DetermineDateRange
    BY <1>2, <1>6, ConsistentRange
  <1>7. CASE AnalyzeChunk
    BY <1>2, <1>7, ConsistentChunk
  <1>8. CASE LastChunkDone
    BY <1>2, <1>8, ConsistentLastChunk
  <1>9. CASE Aggregate
    BY <1>2, <1>9, ConsistentAggregate
  <1>10. CASE WriteMoments
    BY <1>2, <1>10, ConsistentWriteMoments
  <1>11. CASE WriteDays
    BY <1>2, <1>11, ConsistentWriteDays
  <1>12. CASE Refused \/ Refresh \/ Die
    BY <1>1, <1>2, <1>12, ConsistentEnd
  <1> QED
    BY <1>3, <1>4, <1>5, <1>6, <1>7, <1>8, <1>9, <1>10, <1>11, <1>12 DEF Next, JobStep

(* Between two runs the tables hold what is due up to the newest date.     *)
LEMMA CompleteWhenIdle ==
    ASSUME TypeOK, CompleteInv
    PROVE  StatisticsAreComplete
  <1> SUFFICES ASSUME pc = "idle", Clean, NEW d \in 1..Newest
               PROVE  /\ \A i \in AtMoments :
                            Due(i, d) => [indicator |-> i, day |-> d] \in moments
                      /\ \A i \in Indicators \ {"parkedLong"} :
                            Due(i, d) => [indicator |-> i, day |-> d] \in days
    BY DEF StatisticsAreComplete, Clean
  <1>1. PICK n \in Days : UpTo(moments, DueMoments, n, {}) /\ UpTo(days, DueDays, n, {})
    BY DEF CompleteInv, Consistent, Settled
  <1>2. Newest = n /\ n \in Nat /\ n <= MaxDay
    BY <1>1, NewestIsComplete, DaysAreNaturals DEF Days
  <1>3. d \in Nat /\ 1 <= d /\ d <= n /\ d \in Days
    BY <1>2, DaysAreNaturals
  <1>4. ASSUME NEW i \in Indicators, Due(i, d), NEW table, NEW due, UpTo(table, due, n, {}),
               [indicator |-> i, day |-> d] \in due
        PROVE  [indicator |-> i, day |-> d] \in table
    <2>1. [indicator |-> i, day |-> d] \in Rows
      BY <1>3 DEF Rows
    <2> QED
      BY <1>3, <1>4, <2>1 DEF UpTo
  <1>5. ASSUME NEW i \in AtMoments, Due(i, d)
        PROVE  [indicator |-> i, day |-> d] \in moments
    <2>1. i \in Indicators /\ [indicator |-> i, day |-> d] \in DueMoments
      BY <1>3, <1>5 DEF DueMoments, Due, Rows, Indicators
    <2> QED
      BY <1>1, <1>4, <1>5, <2>1
  <1>6. ASSUME NEW i \in Indicators \ {"parkedLong"}, Due(i, d)
        PROVE  [indicator |-> i, day |-> d] \in days
    <2>1. [indicator |-> i, day |-> d] \in DueDays
      BY <1>3, <1>6 DEF DueDays, Due, Rows, InDays
    <2> QED
      BY <1>1, <1>4, <1>6, <2>1
  <1> QED
    BY <1>5, <1>6

LEMMA CompleteAlways ==
    ASSUME WholeSelections
    PROVE  Spec => [](TypeOK /\ CompleteInv)
  <1>1. TypeOK /\ Safe /\ CompleteInv /\ [Next]_vars => CompleteInv'
    BY ConsistentNext
  <1>2. TypeOK /\ Safe /\ [Next]_vars => Safe'
    BY NextSafe
  <1> QED
    BY <1>1, <1>2, InitSafe, ConsistentInit, AggregationTypeCorrect, PTL DEF Spec

(* The default run resumes after the newest day of moment_statistics: no   *)
(* day up to it is without a statistic, wherever the job died, unless it   *)
(* was torn or a recalculation was ahead of it (main.go 257-278).          *)
THEOREM NoDayIsSkipped ==
    WholeSelections => (Spec => []StatisticsAreComplete)
  <1> SUFFICES ASSUME WholeSelections PROVE Spec => []StatisticsAreComplete
    OBVIOUS
  <1>1. TypeOK /\ CompleteInv => StatisticsAreComplete
    BY CompleteWhenIdle
  <1> QED
    BY <1>1, CompleteAlways, PTL

(* No row is computed twice and none that is there is written again, so a  *)
(* unique index never ends the job between its two tables (main.go         *)
(* 402-442), unless a run was torn or overtaken before.                    *)
THEOREM WritesAreAccepted ==
    WholeSelections => (Spec => []NothingIsRefused)
  <1> SUFFICES ASSUME WholeSelections PROVE Spec => []NothingIsRefused
    OBVIOUS
  <1>1. TypeOK /\ CompleteInv => NothingIsRefused
    BY BatchFits DEF CompleteInv, Clean, NothingIsRefused
  <1> QED
    BY <1>1, CompleteAlways, PTL

-----------------------------------------------------------------------------
(* A recalculation of dates that are over, which may follow a torn run: the *)
(* requested rows before day b are stored, those from b on are in DuckDB or  *)
(* still to come.                                                          *)
DatesAreOver == recalculate /\ ahead = 0 => to < today

Stored(table, due, d) == \A r \in Requested \cap due : r.day < d => r \in table

Recomputed(b) ==
    recalculate /\ ahead = 0 =>
        /\ selected \in Selections
        /\ pc \in Filling =>
              /\ from <= b /\ b <= start
              /\ tmpMoments = Once(Batch(AtMoments, b))
              /\ tmpDays = Once(Batch(IF pc \in {"chunk", "aggregate"} THEN PerDay ELSE InDays, b))
              /\ pc # "chunk" /\ batches = 0 => start > to
              /\ Stored(moments, DueMoments, IF pc = "writeDays" THEN start ELSE b)
              /\ Stored(days, DueDays, b)
        /\ pc = "refresh" =>
              Stored(moments, DueMoments, to + 1) /\ Stored(days, DueDays, to + 1)

RecomputedInv == \E b \in Nat : Recomputed(b)

LEMMA NotAheadBefore ==
    ASSUME TypeOK, [Next]_vars, ahead' = 0
    PROVE  ahead = 0
  <1>1. ahead' \in {ahead, ahead + 1}
    BY DEF Next, JobStep, NextDay, RunDefault, RunRecalculate, DeleteMoments, DeleteDays,
       DetermineDateRange, AnalyzeChunk, LastChunkDone, Aggregate, WriteMoments, WriteDays,
       Refused, Refresh, Die, counters, vars
  <1> QED
    BY <1>1 DEF TypeOK

(* The calendar only moves on, and a recalculation keeps its last date.     *)
LEMMA NextDatesAreOver ==
    ASSUME TypeOK, DatesAreOver, [Next]_vars
    PROVE  DatesAreOver'
  <1> SUFFICES ASSUME recalculate', ahead' = 0 PROVE to' < today'
    BY DEF DatesAreOver
  <1>1. ahead = 0 /\ to \in Nat /\ today \in Nat
    BY NotAheadBefore, DaysAreNaturals DEF TypeOK
  <1>2. CASE RunRecalculate
    <2>1. today' = today /\ to' \in Nat /\ ahead' = IF to' >= today THEN ahead + 1 ELSE ahead
      BY <1>2, DaysAreNaturals DEF RunRecalculate
    <2> QED
      BY <1>1, <2>1
  <1>3. CASE RunDefault \/ Refused \/ Refresh \/ Die
    BY <1>3 DEF RunDefault, Refused, Refresh, Die, End
  <1>4. CASE NextDay
    BY <1>1, <1>4 DEF NextDay, DatesAreOver, request, progress
  <1>5. CASE DetermineDateRange
    BY <1>1, <1>5 DEF DetermineDateRange, DatesAreOver, EndDate, request, progress
  <1>6. CASE \/ DeleteMoments \/ DeleteDays \/ AnalyzeChunk \/ LastChunkDone \/ Aggregate
             \/ WriteMoments \/ WriteDays \/ UNCHANGED vars
    <2>1. UNCHANGED <<today, recalculate, to>>
      BY <1>6 DEF DeleteMoments, DeleteDays, AnalyzeChunk, LastChunkDone, Aggregate,
                  WriteMoments, WriteDays, vars, request, progress
    <2> QED
      BY <1>1, <2>1 DEF DatesAreOver
  <1> QED
    BY <1>2, <1>3, <1>4, <1>5, <1>6 DEF Next, JobStep

(* Writing a batch stores the rows of its days.                            *)
LEMMA BatchStored ==
    ASSUME TypeOK, NEW table, NEW kinds, NEW b \in Nat,
           NEW due, due = {r \in Rows : r.indicator \in kinds /\ FirstDay(r.indicator) <= r.day},
           Stored(table, due, b)
    PROVE  Stored(table \cup Batch(kinds, b), due, start)
  <1> SUFFICES ASSUME NEW r \in Requested \cap due, r.day < start
               PROVE  r \in table \cup Batch(kinds, b)
    BY DEF Stored
  <1>1. r \in Rows /\ r.indicator \in selected /\ r.day \in Nat
    BY RowDays DEF Requested
  <1>2. CASE r.day < b
    BY <1>2 DEF Stored
  <1>3. CASE b <= r.day
    BY <1>1, <1>3 DEF Batch
  <1> QED
    BY <1>1, <1>2, <1>3

LEMMA RecomputedRange ==
    ASSUME TypeOK, Safe, NEW b \in Nat, Recomputed(b), recalculate, ahead = 0,
           DetermineDateRange
    PROVE  \E c \in Nat : Recomputed(c)'
  <1>1. /\ pc = "range" /\ tmpMoments' = Empty /\ tmpDays' = Empty
        /\ UNCHANGED <<moments, days, recalculate, selected>>
    BY DEF DetermineDateRange, tables, request, duckDB, Safe, NothingLeftOver, Unfilled
  <1>2. from \in Nat /\ to \in Nat
    BY DaysAreNaturals DEF TypeOK
  <1>3. CASE from > to
    <2>1. pc' = "refresh" /\ UNCHANGED <<from, to>>
      BY <1>3 DEF DetermineDateRange, StartDate, EndDate, progress
    <2>2. Requested' = {}
      BY <1>1, <1>2, <1>3, <2>1, RowDays DEF Requested
    <2>3. Recomputed(b)'
      BY <1>1, <2>1, <2>2 DEF Recomputed, Stored, Filling
    <2> QED
      BY <2>3
  <1>4. CASE ~ (from > to)
    <2>1. PICK c \in Nat : c = from
      BY <1>2
    <2>2. pc' = "chunk" /\ from' = c /\ to' = to /\ start' = c
      BY <1>4, <2>1 DEF DetermineDateRange, StartDate, EndDate
    <2>3. ASSUME NEW kinds PROVE Batch(kinds, c)' = {}
      <3>1. \A r \in Rows : ~ (c <= r.day /\ r.day < start')
        BY RowDays, <2>2
      <3> QED
        BY <3>1 DEF Batch
    <2>4. Once(Batch(AtMoments, c))' = Empty /\ Once(Batch(PerDay, c))' = Empty
      BY <2>3 DEF Once, Empty
    <2>5. \A r \in Requested' : ~ (r.day < c)
      BY <2>2, RowDays DEF Requested
    <2>6. Recomputed(c)'
      BY <1>1, <2>2, <2>4, <2>5 DEF Recomputed, Stored
    <2> QED
      BY <2>6
  <1> QED
    BY <1>3, <1>4

LEMMA RecomputedWriteDays ==
    ASSUME TypeOK, NEW b \in Nat, Recomputed(b), recalculate, ahead = 0, WriteDays
    PROVE  \E c \in Nat : Recomputed(c)'
  <1>1. /\ pc = "writeDays" /\ pc' = IF batches = 0 THEN "refresh" ELSE "chunk"
        /\ days' = days \cup RowsOf(tmpDays) /\ tmpMoments' = Empty /\ tmpDays' = Empty
        /\ UNCHANGED <<moments, recalculate, selected, from, to, start, batches>>
    BY DEF WriteDays, request, progress
  <1>2. /\ Stored(moments, DueMoments, start) /\ Stored(days, DueDays, b)
        /\ from <= b /\ b <= start /\ selected \in Selections
        /\ tmpDays = Once(Batch(InDays, b)) /\ (batches = 0 => start > to)
    BY <1>1 DEF Recomputed, Filling
  <1>3. days' = days \cup Batch(InDays, b)
    BY <1>1, <1>2, BatchesAreRows
  <1>4. Stored(days', DueDays, start)
    BY <1>2, <1>3, ConstantSets, BatchStored
  <1>5. PICK c \in Nat : c = start
    BY DEF TypeOK
  <1>6. Requested' = Requested
    BY <1>1 DEF Requested
  <1>7. CASE batches = 0
    <2>1. \A r \in Requested : r.day < to + 1 => r.day < start
      <3>1. to \in Nat /\ start \in Nat
        BY DaysAreNaturals DEF TypeOK
      <3> QED
        BY <1>2, <1>7, <3>1, RowDays DEF Requested
    <2>2. Recomputed(c)'
      BY <1>1, <1>2, <1>4, <1>6, <1>7, <2>1, ConstantSets DEF Recomputed, Stored, Filling
    <2> QED
      BY <2>2
  <1>8. CASE batches # 0
    <2>1. from <= c
      BY <1>2, <1>5, DaysAreNaturals DEF TypeOK
    <2>2. ASSUME NEW kinds PROVE Batch(kinds, c)' = {}
      <3>1. \A r \in Rows : ~ (c <= r.day /\ r.day < start')
        BY RowDays, <1>1, <1>5
      <3> QED
        BY <3>1 DEF Batch
    <2>3. Once(Batch(AtMoments, c))' = Empty /\ Once(Batch(PerDay, c))' = Empty
      BY <2>2 DEF Once, Empty
    <2>4. Recomputed(c)'
      BY <1>1, <1>2, <1>4, <1>5, <1>6, <1>8, <2>1, <2>3, ConstantSets DEF Recomputed, Stored
    <2> QED
      BY <2>4
  <1> QED
    BY <1>7, <1>8

LEMMA RecomputedNext ==
    ASSUME WholeSelections, TypeOK, Safe, DatesAreOver, RecomputedInv, [Next]_vars
    PROVE  RecomputedInv'
  <1> SUFFICES ASSUME recalculate', ahead' = 0 PROVE \E c \in Nat : Recomputed(c)'
    BY DEF RecomputedInv, Recomputed
  <1> ahead = 0
    BY NotAheadBefore
  <1>1. PICK b \in Nat : Recomputed(b)
    BY DEF RecomputedInv
  <1>2. CASE NextDay \/ UNCHANGED vars
    <2>1. UNCHANGED <<tables, pc, request, progress, duckDB>>
      BY <1>2 DEF NextDay, vars
    <2>2. Recomputed(b)'
      BY <1>1, <2>1, ConstantSets
         DEF Recomputed, Stored, Batch, Once, Requested, tables, request, progress, duckDB
    <2> QED
      BY <2>2
  <1>3. CASE RunDefault \/ Refused \/ Refresh \/ Die
    BY <1>3 DEF RunDefault, Refused, Refresh, Die, End
  <1>4. CASE RunRecalculate
    <2>1. Recomputed(b)'
      BY <1>4 DEF RunRecalculate, Recomputed, Filling
    <2> QED
      BY <2>1
  <1>5. CASE DeleteMoments \/ DeleteDays
    <2>1. Recomputed(b)'
      BY <1>1, <1>5 DEF DeleteMoments, DeleteDays, request, Recomputed, Filling
    <2> QED
      BY <2>1
  <1>6. CASE DetermineDateRange
    BY <1>1, <1>6, RecomputedRange DEF DetermineDateRange, request
  <1>7. CASE AnalyzeChunk
    <2>1. /\ pc = "chunk" /\ pc' \in {"chunk", "aggregate"} /\ start <= to /\ recalculate
          /\ UNCHANGED <<moments, days, selected, from, to, recalculate>>
          /\ to < today
      BY <1>7 DEF AnalyzeChunk, tables, request, DatesAreOver
    <2>2. /\ Stored(moments, DueMoments, b) /\ Stored(days, DueDays, b)
          /\ from <= b /\ b <= start /\ selected \in Selections
          /\ tmpMoments = Once(Batch(AtMoments, b)) /\ tmpDays = Once(Batch(PerDay, b))
      BY <1>1, <2>1 DEF Recomputed, Filling
    <2>3. b <= start' /\ batches' # 0
      <3>1. start \in Nat /\ batches \in Nat
        BY DEF TypeOK
      <3> QED
        BY <1>7, <2>1, <2>2, <3>1, ChunkBounds DEF AnalyzeChunk
    <2>4. /\ tmpMoments' = [r \in Rows |-> IF InChunk(r, AtMoments) THEN tmpMoments[r] + 1
                                                                    ELSE tmpMoments[r]]
          /\ tmpDays' = [r \in Rows |-> IF InChunk(r, PerDay) THEN tmpDays[r] + 1 ELSE tmpDays[r]]
      BY <1>7 DEF AnalyzeChunk, Plus
    <2>5. tmpMoments' = Once(Batch(AtMoments, b))' /\ tmpDays' = Once(Batch(PerDay, b))'
      BY <1>7, <2>1, <2>2, <2>4, ChunkGrowsBatch
    <2>6. Requested' = Requested
      BY <2>1 DEF Requested
    <2>7. Recomputed(b)'
      BY <2>1, <2>2, <2>3, <2>5, <2>6, ConstantSets DEF Recomputed, Stored, Filling
    <2> QED
      BY <2>7
  <1>8. CASE LastChunkDone
    <2>1. Recomputed(b)'
      BY <1>1, <1>8, ConstantSets
         DEF LastChunkDone, tables, request, duckDB, Recomputed, Stored, Batch, Once,
             Requested, Filling
    <2> QED
      BY <2>1
  <1>9. CASE Aggregate
    <2>1. /\ pc = "aggregate" /\ pc' = "writeMoments" /\ recalculate
          /\ UNCHANGED <<moments, days, selected, from, to, start, batches, tmpMoments>>
      BY <1>9 DEF Aggregate, tables, request, progress
    <2>2. /\ selected \in Selections
          /\ tmpMoments = Once(Batch(AtMoments, b)) /\ tmpDays = Once(Batch(PerDay, b))
      BY <1>1, <2>1 DEF Recomputed, Filling
    <2>3. tmpDays' = Once(Batch(InDays, b))
      BY <1>9, <2>2, AggregateCompletes DEF WholeSelections
    <2>4. /\ Requested' = Requested /\ Once(Batch(InDays, b))' = Once(Batch(InDays, b))
          /\ Once(Batch(AtMoments, b))' = Once(Batch(AtMoments, b))
      BY <2>1 DEF Requested, Once, Batch
    <2>5. Recomputed(b)'
      BY <1>1, <2>1, <2>2, <2>3, <2>4, ConstantSets DEF Recomputed, Stored, Filling
    <2> QED
      BY <2>5
  <1>10. CASE WriteMoments
    <2>1. /\ pc = "writeMoments" /\ pc' = "writeDays" /\ recalculate
          /\ moments' = moments \cup RowsOf(tmpMoments)
          /\ UNCHANGED <<days, selected, from, to, start, batches, tmpMoments, tmpDays>>
      BY <1>10 DEF WriteMoments, request, progress, duckDB
    <2>2. tmpMoments = Once(Batch(AtMoments, b)) /\ Stored(moments, DueMoments, b)
      BY <1>1, <2>1 DEF Recomputed, Filling
    <2>3. moments' = moments \cup Batch(AtMoments, b)
      BY <2>1, <2>2, BatchesAreRows
    <2>4. Stored(moments', DueMoments, start)
      BY <2>2, <2>3, ConstantSets, BatchStored
    <2>5. /\ Requested' = Requested /\ Once(Batch(InDays, b))' = Once(Batch(InDays, b))
          /\ Once(Batch(AtMoments, b))' = Once(Batch(AtMoments, b))
      BY <2>1 DEF Requested, Once, Batch
    <2>6. Recomputed(b)'
      BY <1>1, <2>1, <2>4, <2>5, ConstantSets DEF Recomputed, Stored, Filling
    <2> QED
      BY <2>6
  <1>11. CASE WriteDays
    BY <1>1, <1>11, RecomputedWriteDays DEF WriteDays, request
  <1> QED
    BY <1>2, <1>3, <1>4, <1>5, <1>6, <1>7, <1>8, <1>9, <1>10, <1>11 DEF Next, JobStep

(* What recalculate promises (main.go 43-44): when it is through, every    *)
(* value of the indicators and dates it was asked for is there again,      *)
(* whatever was torn before, if it takes along what the quotient is of, as  *)
(* long as nobody asked for dates that were not over.                      *)
THEOREM RecalculationIsWhole ==
    WholeSelections => (Spec => []RecalculatedAreThere)
  <1> SUFFICES ASSUME WholeSelections PROVE Spec => []RecalculatedAreThere
    OBVIOUS
  <1>1. Init => RecomputedInv
    BY DEF Init, RecomputedInv, Recomputed
  <1>2. Init => DatesAreOver
    BY DEF Init, DatesAreOver
  <1>3. TypeOK /\ DatesAreOver /\ [Next]_vars => DatesAreOver'
    BY NextDatesAreOver
  <1>4. TypeOK /\ Safe /\ DatesAreOver /\ RecomputedInv /\ [Next]_vars => RecomputedInv'
    BY RecomputedNext
  <1>5. ASSUME TypeOK, RecomputedInv PROVE RecalculatedAreThere
    <2> SUFFICES ASSUME pc = "refresh", recalculate, ahead = 0, NEW r \in Requested,
                        Due(r.indicator, r.day)
                 PROVE  /\ r.indicator \in AtMoments => r \in moments
                        /\ r.indicator # "parkedLong" => r \in days
      BY DEF RecalculatedAreThere
    <2>1. Stored(moments, DueMoments, to + 1) /\ Stored(days, DueDays, to + 1)
      BY <1>5 DEF RecomputedInv, Recomputed
    <2>2. r \in Rows /\ r.day < to + 1 /\ r.indicator \in Indicators
      <3>1. r \in Rows /\ r.day <= to /\ to \in Nat /\ r.day \in Nat
        BY <1>5, RowDays, DaysAreNaturals DEF Requested, TypeOK
      <3> QED
        BY <3>1, RowDays
    <2> QED
      BY <2>1, <2>2 DEF Stored, DueMoments, DueDays, Due, InDays
  <1>6. TypeOK /\ Safe /\ [Next]_vars => Safe'
    BY NextSafe
  <1> QED
    BY <1>1, <1>2, <1>3, <1>4, <1>5, <1>6, InitSafe, AggregationTypeCorrect, PTL DEF Spec
=============================================================================
