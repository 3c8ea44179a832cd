-------------------------- MODULE BatchAggregation --------------------------
(***************************************************************************)
(* The batch aggregation, cmd/batch_aggregation: a job that is started     *)
(* every day, computes the statistics of the days since the newest one in  *)
(* the table moment_statistics, and writes them to that table and to       *)
(* day_statistics; and its command "recalculate", which deletes the values *)
(* of some indicators and computes them again.                             *)
(*                                                                         *)
(* A statistic is there or it is not: the zones, providers, vehicle types  *)
(* and moments of the day it is computed for, and its value, are left out. *)
(* Every day that has begun has vehicles, rentals and ended stays to count. *)
(***************************************************************************)
EXTENDS Integers

CONSTANTS
    AvailableFrom,     \* first_day of available_vehicles_in_public_space
    Selections,        \* the sets of indicators a recalculation may be asked for
    ChunkSize,         \* chunkSize, 30
    BatchesPerWrite,   \* chunks between two writes, 5
    MaxDay,            \* bound: days
    MaxRecalculations, \* bound: recalculations
    MaxDeaths          \* bound: times the job dies

(* Six of the eleven indicators stand for all: those that are counted at    *)
(* moments of the day, two of which have their maximum taken per day, those *)
(* that are counted per day, and the quotient of two others.                *)
AtMoments  == {"vehicles", "parkedLong", "available"}
MaxPerDay  == {"vehicles", "available"}
PerDay     == {"rentals", "wronglyParked"}
Indicators == AtMoments \cup PerDay \cup {"perVehicle"}
PerVehicleNeeds == {"perVehicle", "rentals", "vehicles"}

ASSUME SelectionAssumption == Selections \subseteq (SUBSET Indicators) \ {{}}
ASSUME AggregationAssumption ==
    /\ AvailableFrom \in Nat /\ ChunkSize \in Nat
    /\ BatchesPerWrite \in Nat \ {0}
    /\ MaxDay \in Nat \ {0} /\ MaxRecalculations \in Nat /\ MaxDeaths \in Nat

(* Day 0 is DefaultFirstDay, 31 December 2019. *)
Days == 0..MaxDay
Rows == [indicator : Indicators, day : Days]
FirstDay(i) == IF i = "available" THEN AvailableFrom ELSE 0

VARIABLES
    today,
    moments,     \* moment_statistics, which a unique index makes a set
    days,        \* day_statistics, the same way
    pc,          \* where the job is
    recalculate, \* is it a recalculation?
    selected,    \* the indicators it computes
    from, to,    \* the dates it was asked for, then the dates it does
    start,       \* the first day of the next chunk
    batches,     \* processedBatches
    tmpMoments,  \* moment_statistics in DuckDB, without an index: how often each row
    tmpDays,     \* day_statistics in DuckDB
    recalculations, early, ahead, deaths, torn   \* counters

tables   == <<moments, days>>
request  == <<recalculate, selected>>
progress == <<from, to, start, batches>>
duckDB   == <<tmpMoments, tmpDays>>
counters == <<recalculations, early, ahead, deaths, torn>>
vars == <<today, tables, pc, request, progress, duckDB, counters>>

Empty == [r \in Rows |-> 0]

TypeOK ==
    /\ today \in Days \ {0}
    /\ moments \in SUBSET Rows /\ days \in SUBSET Rows
    /\ pc \in {"idle", "deleteMoments", "deleteDays", "range", "chunk",
               "aggregate", "writeMoments", "writeDays", "refresh"}
    /\ recalculate \in BOOLEAN
    /\ selected \in SUBSET Indicators
    /\ from \in Days /\ to \in Days
    /\ start \in Nat /\ batches \in Nat
    /\ pc \in {"chunk", "aggregate", "writeMoments", "writeDays"} => start <= to + 1
    /\ tmpMoments \in [Rows -> Nat] /\ tmpDays \in [Rows -> Nat]
    /\ recalculations \in Nat /\ early \in Nat /\ ahead \in Nat
    /\ deaths \in Nat /\ torn \in Nat

Init ==
    /\ today = 1
    /\ moments = {} /\ days = {}
    /\ pc = "idle" /\ recalculate = FALSE /\ selected = {}
    /\ from = 0 /\ to = 0 /\ start = 0 /\ batches = 0
    /\ tmpMoments = Empty /\ tmpDays = Empty
    /\ recalculations = 0 /\ early = 0 /\ ahead = 0 /\ deaths = 0 /\ torn = 0

-----------------------------------------------------------------------------
NextDay ==
    /\ today < MaxDay /\ today' = today + 1
    /\ UNCHANGED <<tables, pc, request, progress, duckDB, counters>>

(* getNewestDateInMomentStatistics *)
Newest == CHOOSE d \in Days :
    /\ d = 0 \/ \E r \in moments : r.day = d
    /\ \A r \in moments : r.day <= d

-----------------------------------------------------------------------------
(* The two commands. *)
RunDefault ==
    /\ pc = "idle" /\ pc' = "range"
    /\ recalculate' = FALSE /\ selected' = Indicators
    /\ UNCHANGED <<today, tables, progress, duckDB, counters>>

(* Any dates, yesterday being the default. A recalculation of dates that   *)
(* the default run has not come to yet is counted as an early one, one of  *)
(* dates that are not over as one that is ahead.                           *)
RunRecalculate ==
    /\ pc = "idle" /\ pc' = "deleteMoments"
    /\ recalculations < MaxRecalculations /\ recalculations' = recalculations + 1
    /\ recalculate' = TRUE
    /\ selected' \in Selections
    /\ to' \in Days
    /\ from' \in 0..to'
    /\ early' = IF to' > Newest THEN early + 1 ELSE early
    /\ ahead' = IF to' >= today THEN ahead + 1 ELSE ahead
    /\ UNCHANGED <<today, tables, start, batches, duckDB, deaths, torn>>

Requested == {r \in Rows : r.indicator \in selected /\ from <= r.day /\ r.day <= to}

(* deleteIndicatorData *)
DeleteMoments ==
    /\ pc = "deleteMoments" /\ pc' = "deleteDays"
    /\ moments' = moments \ Requested
    /\ UNCHANGED <<today, days, request, progress, duckDB, counters>>

(* Mutant: all values of the indicators are deleted, whatever their date. *)
DeleteDaysOfAllDates ==
    /\ pc = "deleteDays" /\ pc' = "range"
    /\ days' = {r \in days : r.indicator \notin selected}
    /\ UNCHANGED <<today, moments, request, progress, duckDB, counters>>

DeleteDays ==
    /\ pc = "deleteDays" /\ pc' = "range"
    /\ days' = days \ Requested
    /\ UNCHANGED <<today, moments, request, progress, duckDB, counters>>

(* Mutant: a recalculation resumes after the newest date, too. *)
StartDateAlwaysNext == Newest + 1

(* Mutant: the newest date is done once more. *)
StartDateInclusive == IF recalculate THEN from ELSE Newest

(* No first_day is before the requested start, so none moves it. *)
StartDate == IF recalculate THEN from ELSE Newest + 1
EndDate   == IF recalculate THEN to ELSE today - 1

DetermineDateRange ==
    /\ pc = "range"
    /\ IF StartDate > EndDate
       THEN pc' = "refresh" /\ UNCHANGED progress
       ELSE /\ pc' = "chunk"
            /\ from' = StartDate /\ to' = EndDate
            /\ start' = StartDate /\ batches' = 0
    /\ UNCHANGED <<today, tables, request, duckDB, counters>>

-----------------------------------------------------------------------------
(* aggregateAndStoreData *)
Earliest(d, e) == IF d <= e THEN d ELSE e

(* Mutant: the last chunk runs on past the end date. *)
ChunkEndUnclipped == start + ChunkSize

ChunkEnd == Earliest(start + ChunkSize, to)

(* Mutant: a chunk begins with the last day of the one before. *)
NextStartOverlapping == IF ChunkEnd = to THEN to + 1 ELSE ChunkEnd

NextStart == ChunkEnd + 1

(* Open park events are counted on days to come, too; rentals and stays are *)
(* counted when they have ended, and vehicles are available of systems that *)
(* have a trip in the chunk.                                                *)
HasBegun(r) == /\ r.indicator \in PerDay => r.day <= today
               /\ r.indicator = "available" => start <= today

InChunk(r, kinds) == /\ r.indicator \in selected \cap kinds
                     /\ start <= r.day /\ r.day <= ChunkEnd
                     /\ r.day >= FirstDay(r.indicator)
                     /\ HasBegun(r)

Plus(table, Added(_)) == [r \in Rows |-> IF Added(r) THEN table[r] + 1 ELSE table[r]]

AnalyzeChunk ==
    /\ pc = "chunk" /\ start <= to
    /\ LET counted(r) == InChunk(r, AtMoments)
           perDay(r)  == InChunk(r, PerDay)
       IN  /\ tmpMoments' = Plus(tmpMoments, counted)
           /\ tmpDays' = Plus(tmpDays, perDay)
    /\ start' = NextStart
    /\ batches' = batches + 1
    /\ pc' = IF batches' % BatchesPerWrite = 0 THEN "aggregate" ELSE "chunk"
    /\ UNCHANGED <<today, tables, request, from, to, counters>>

LastChunkDone ==
    /\ pc = "chunk" /\ start > to
    /\ pc' = "aggregate" /\ batches' = 0
    /\ UNCHANGED <<today, tables, request, from, to, start, duckDB, counters>>

(* The maximum of each day, then the quotient of two values of the day. *)
Aggregate ==
    /\ pc = "aggregate" /\ pc' = "writeMoments"
    /\ LET maximum(r) == /\ r.indicator \in selected \cap MaxPerDay
                         /\ tmpMoments[r] > 0
           withMaxima == Plus(tmpDays, maximum)
           Of(i, r) == withMaxima[[r EXCEPT !.indicator = i]]
       IN  tmpDays' = [r \in Rows |->
               IF r.indicator = "perVehicle" /\ PerVehicleNeeds \subseteq selected
               THEN withMaxima[r] + Of("rentals", r) * Of("vehicles", r)
               ELSE withMaxima[r]]
    /\ UNCHANGED <<today, tables, request, progress, tmpMoments, counters>>

(* writeToPostgres: two statements, each of which is refused as a whole     *)
(* when a row is there already or comes twice; then log.Fatal ends the job. *)
RowsOf(tmp) == {r \in Rows : tmp[r] > 0}
Fits(tmp, table) == (\A r \in Rows : tmp[r] <= 1) /\ RowsOf(tmp) \cap table = {}

End ==
    /\ pc' = "idle" /\ tmpMoments' = Empty /\ tmpDays' = Empty
    /\ recalculate' = FALSE /\ selected' = {}
    /\ from' = 0 /\ to' = 0 /\ start' = 0 /\ batches' = 0

WriteMoments ==
    /\ pc = "writeMoments" /\ Fits(tmpMoments, moments)
    /\ pc' = "writeDays"
    /\ moments' = moments \cup RowsOf(tmpMoments)
    /\ UNCHANGED <<today, days, request, progress, duckDB, counters>>

(* Mutant: after every five chunks the tables of DuckDB are only truncated. *)
WriteDaysAtTheEndOnly ==
    /\ pc = "writeDays"
    /\ days' = IF batches = 0 THEN days \cup RowsOf(tmpDays) ELSE days
    /\ tmpMoments' = Empty /\ tmpDays' = Empty
    /\ pc' = IF batches = 0 THEN "refresh" ELSE "chunk"
    /\ UNCHANGED <<today, moments, request, progress, counters>>

(* batches is 0 when this is the write after the last chunk. The tables of  *)
(* DuckDB are truncated.                                                    *)
WriteDays ==
    /\ pc = "writeDays" /\ Fits(tmpDays, days)
    /\ days' = days \cup RowsOf(tmpDays)
    /\ tmpMoments' = Empty /\ tmpDays' = Empty
    /\ pc' = IF batches = 0 THEN "refresh" ELSE "chunk"
    /\ UNCHANGED <<today, moments, request, progress, counters>>

Refused ==
    /\ \/ pc = "writeMoments" /\ ~Fits(tmpMoments, moments)
       \/ pc = "writeDays" /\ ~Fits(tmpDays, days)
    /\ End
    /\ torn' = IF recalculate \/ pc = "writeDays" THEN torn + 1 ELSE torn
    /\ UNCHANGED <<today, tables, recalculations, early, ahead, deaths>>

(* updateMaterializedViewsAndIndexes writes no statistics. *)
Refresh ==
    /\ pc = "refresh"
    /\ End
    /\ UNCHANGED <<today, tables, counters>>

-----------------------------------------------------------------------------
(* The job is killed, or log.Fatal ends it. It is torn when it has deleted  *)
(* or written something and not all.                                        *)
HalfDone == pc = "writeDays" \/ (recalculate /\ pc \notin {"deleteMoments", "refresh"})

Die ==
    /\ pc # "idle"
    /\ deaths < MaxDeaths /\ deaths' = deaths + 1
    /\ torn' = IF HalfDone THEN torn + 1 ELSE torn
    /\ End
    /\ UNCHANGED <<today, tables, recalculations, early, ahead>>

JobStep ==
    \/ RunDefault \/ DeleteMoments \/ DeleteDays \/ DetermineDateRange
    \/ AnalyzeChunk \/ LastChunkDone \/ Aggregate
    \/ WriteMoments \/ WriteDays \/ Refused \/ Refresh

Next == NextDay \/ JobStep \/ RunRecalculate \/ Die

Spec == Init /\ [][Next]_vars

(* Days pass, and the job is started every day. Nobody owes recalculations. *)
FairSpec == Spec /\ WF_vars(NextDay) /\ WF_vars(JobStep)

-----------------------------------------------------------------------------
(* Properties. *)
Due(i, d) == FirstDay(i) <= d

(* The default run resumes after the newest day of moment_statistics        *)
(* (main.go 257-278), so no day up to it may be without a statistic. That   *)
(* is so whenever the job dies, unless it dies half done, as long as no     *)
(* recalculation is ahead of the default run.                               *)
StatisticsAreComplete ==
    pc = "idle" /\ torn = 0 /\ early = 0 =>
        \A d \in 1..Newest :
            /\ \A i \in AtMoments : Due(i, d) => [indicator |-> i, day |-> d] \in moments
            /\ \A i \in Indicators \ {"parkedLong"} :
                  Due(i, d) => [indicator |-> i, day |-> d] \in days

(* No row is computed twice and none that is there is written again, so the *)
(* unique indexes never refuse a write, which would end the job between its *)
(* two tables (main.go 402-442); again unless it was torn or overtaken.     *)
NothingIsRefused ==
    torn = 0 /\ early = 0 =>
        /\ pc = "writeMoments" => Fits(tmpMoments, moments) /\ Fits(tmpDays, days)
        /\ pc = "writeDays" => Fits(tmpDays, days)

(* A recalculation leaves everything but the indicators and dates it was    *)
(* asked for as it is, and the default run removes nothing.                 *)
OnlyRequestedChange ==
    [][ /\ \A r \in (moments \ moments') \cup (days \ days') :
              recalculate /\ r \in Requested
        /\ recalculate => (moments' \ moments) \cup (days' \ days) \subseteq Requested ]_vars

(* Whatever died, was torn, overtaken or refused, the statistics keep up    *)
(* with the calendar: no leftover stops the default run for good.           *)
StatisticsKeepUp == \A d \in Days : (today > d) ~> (Newest >= d)

(* "Removes all existing values for the selected indicators and             *)
(* recalculates them for the requested date range." (main.go 43-44), which   *)
(* it can as long as the dates are over.                                    *)
RecalculatedAreThere ==
    pc = "refresh" /\ recalculate /\ ahead = 0 =>
        \A r \in Requested : Due(r.indicator, r.day) =>
            /\ r.indicator \in AtMoments => r \in moments
            /\ r.indicator # "parkedLong" => r \in days
=============================================================================
