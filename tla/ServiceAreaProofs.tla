------------------------- MODULE ServiceAreaProofs -------------------------
(***************************************************************************)
(* Theorems about ServiceArea, for any jobs, feeds, zones and              *)
(* municipalities, with every fault the module allows.                     *)
(***************************************************************************)
EXTENDS ServiceArea, TLAPS

-----------------------------------------------------------------------------
(* Type correctness. *)

(* What TypeOK says of the state of one job. *)
JobOK(s) ==
    /\ s \in JobStates
    /\ s.pc \in {"update", "commit"} <=> s.changed # {}
    /\ s.pc = "insert" <=> s.new # {}
    /\ s.new \subseteq s.wanted
    /\ s.changed \subseteq s.municipalities
    /\ s.targets \subseteq DOMAIN versions

LEMMA NothingIsOffer == Nothing \in AnyOffer
  <1>1. <<>> \in Seq(Rules)
    OBVIOUS
  <1>2. QED
    BY <1>1 DEF Nothing, AnyOffer

LEMMA IdleOK == JobOK(Idle)
  <1>1. [f \in Feeds |-> Nothing] \in [Feeds -> AnyOffer]
    BY NothingIsOffer
  <1>2. Idle \in JobStates
    BY <1>1 DEF Idle, JobStates, Labels
  <1>3. QED
    BY <1>2 DEF Idle, JobOK

LEMMA TypeOfJob == ASSUME TypeOK, NEW j \in Jobs PROVE JobOK(job[j])
  BY DEF TypeOK, JobOK

LEMMA BecomesJob ==
    ASSUME TypeOK, NEW j \in Jobs, NEW s, Becomes(j, s)
    PROVE  job'[j] = s /\ \A k \in Jobs \ {j} : job'[k] = job[k]
  BY DEF TypeOK, Becomes

(* A step of one job keeps the types if it keeps those of what it writes. *)
LEMMA StepType ==
    ASSUME TypeOK, NEW j \in Jobs, NEW s, Becomes(j, s), JobOK(s),
           offers' \in [Feeds -> AnyOffer], geometries' \subseteq Areas,
           versions' \in Seq(Versions), DOMAIN versions \subseteq DOMAIN versions',
           changes' \in Nat, failures' \in Nat, deaths' \in Nat, overlaps' \in Nat
    PROVE  TypeOK'
  <1>1. job' \in [Jobs -> JobStates]
    BY DEF TypeOK, Becomes, JobOK
  <1>2. \A k \in Jobs : JobOK(job'[k])
    BY BecomesJob, TypeOfJob
  <1>3. \A k \in Jobs : job'[k].targets \subseteq DOMAIN versions'
    BY <1>2 DEF JobOK
  <1>4. QED
    BY <1>1, <1>2, <1>3 DEF TypeOK, JobOK

LEMMA Kept ==
    ASSUME TypeOK
    PROVE  /\ offers \in [Feeds -> AnyOffer] /\ geometries \subseteq Areas
           /\ versions \in Seq(Versions)
           /\ changes \in Nat /\ failures \in Nat /\ deaths \in Nat /\ overlaps \in Nat
  BY DEF TypeOK

LEMMA DownloadType ==
    ASSUME TypeOK, NEW j \in Jobs, NEW f \in Feeds, NEW offer \in AnyOffer,
           NextFeed(j, f), Downloaded(j, f, offer), UNCHANGED <<offers, tables>>,
           changes' \in Nat, failures' \in Nat, deaths' \in Nat, overlaps' \in Nat
    PROVE  TypeOK'
  <1> DEFINE s == [job[j] EXCEPT !.feeds = @ \ {f}, !.data = [@ EXCEPT ![f] = offer],
                                 !.pc = IF job[j].feeds = {f} THEN "operator" ELSE "download"]
  <1>1. JobOK(job[j]) /\ job[j].pc = "download"
    BY TypeOfJob DEF NextFeed
  <1>2. [job[j].data EXCEPT ![f] = offer] \in [Feeds -> AnyOffer]
    BY <1>1 DEF JobOK, JobStates
  <1>3. JobOK(s)
    BY <1>1, <1>2 DEF JobOK, JobStates, Labels
  <1>4. Becomes(j, s)
    BY DEF Downloaded
  <1> HIDE DEF s
  <1>5. QED
    BY <1>3, <1>4, StepType, Kept DEF tables

LEMMA FilterType ==
    ASSUME NEW offer \in AnyOffer
    PROVE  Filter(offer) \subseteq Areas
  BY DEF Filter, AnyOffer, Zones

LEMMA StartOperatorType ==
    ASSUME TypeOK, NEW j \in Jobs, NEW o \in Operators, StartOperator(j, o)
    PROVE  TypeOK'
  <1> DEFINE w == UNION {Filter(job[j].data[f]) : f \in {g \in Feeds : OperatorOf[g] = o}}
             s == [job[j] EXCEPT !.pc = "lookup", !.operators = @ \ {o}, !.operator = {o},
                                 !.found = {}, !.wanted = w]
  <1>1. JobOK(job[j]) /\ job[j].pc = "operator"
    BY TypeOfJob DEF StartOperator
  <1>2. w \subseteq Areas
    <2>1. \A f \in Feeds : job[j].data[f] \in AnyOffer
      BY <1>1 DEF JobOK, JobStates
    <2>2. QED
      BY <2>1, FilterType
  <1>3. Becomes(j, s)
    BY DEF StartOperator
  <1> HIDE DEF w
  <1>4. JobOK(s)
    BY <1>1, <1>2 DEF JobOK, JobStates, Labels
  <1> HIDE DEF s
  <1>5. QED
    BY <1>3, <1>4, StepType, Kept DEF tables, counters, StartOperator

LEMMA GeometryType ==
    ASSUME TypeOK, NEW j \in Jobs, NEW a \in Areas,
           \/ GeometryFound(j, a) \/ GeometryMissing(j, a)
           \/ InsertGeofence(j, a) \/ GeometryFails(j, a)
    PROVE  TypeOK'
  <1>1. JobOK(job[j])
    BY TypeOfJob
  <1>2. CASE GeometryFound(j, a)
    <2> DEFINE s == [job[j] EXCEPT !.wanted = @ \ {a}, !.found = @ \cup {a}]
    <2>1. JobOK(s)
      BY <1>1, <1>2 DEF JobOK, JobStates, GeometryFound
    <2>2. Becomes(j, s)
      BY <1>2 DEF GeometryFound
    <2> HIDE DEF s
    <2>3. QED
      BY <1>2, <2>1, <2>2, StepType, Kept DEF tables, counters, GeometryFound
  <1>3. CASE GeometryMissing(j, a)
    <2> DEFINE s == [job[j] EXCEPT !.pc = "insert", !.new = {a}]
    <2>1. JobOK(s)
      BY <1>1, <1>3 DEF JobOK, JobStates, Labels, GeometryMissing
    <2>2. Becomes(j, s)
      BY <1>3 DEF GeometryMissing
    <2> HIDE DEF s
    <2>3. QED
      BY <1>3, <2>1, <2>2, StepType, Kept DEF tables, counters, GeometryMissing
  <1>4. CASE InsertGeofence(j, a)
    <2> DEFINE s == [job[j] EXCEPT !.pc = "lookup", !.wanted = @ \ {a}, !.new = {},
                                   !.found = IF Inserts(a) THEN @ \cup {a} ELSE @]
    <2>1. job[j].pc = "insert" /\ job[j].changed = {}
      BY <1>1, <1>4 DEF JobOK, InsertGeofence
    <2>2. JobOK(s)
      BY <1>1, <2>1 DEF JobOK, JobStates, Labels
    <2>3. Becomes(j, s) /\ geometries' \subseteq Areas
      BY <1>4, Kept DEF InsertGeofence
    <2> HIDE DEF s
    <2>4. QED
      BY <1>4, <2>2, <2>3, StepType, Kept DEF counters, InsertGeofence
  <1>5. CASE GeometryFails(j, a)
    <2> DEFINE s == [job[j] EXCEPT !.pc = "lookup", !.wanted = @ \ {a}, !.new = {},
                                   !.trouble = TRUE]
    <2>1. job[j].pc \in {"lookup", "insert"} /\ job[j].changed = {}
      BY <1>1, <1>5 DEF JobOK, GeometryFails
    <2>2. JobOK(s)
      BY <1>1, <2>1 DEF JobOK, JobStates, Labels
    <2>3. Becomes(j, s) /\ geometries' \subseteq Areas
      BY <1>5, Kept DEF GeometryFails
    <2> HIDE DEF s
    <2>4. QED
      BY <1>5, <2>2, <2>3, StepType, Kept DEF GeometryFails
  <1>6. QED
    BY <1>2, <1>3, <1>4, <1>5

LEMMA ValidVersionsType ==
    ASSUME TypeOK, NEW o, NEW m
    PROVE  ValidVersions(o, m) \subseteq DOMAIN versions /\ DOMAIN versions \subseteq Nat
  BY DEF TypeOK, ValidVersions

LEMMA CompareType ==
    ASSUME TypeOK, NEW j \in Jobs, NEW o \in Operators, NEW m \in Municipalities,
           \/ Unchanged(j, o, m) \/ Changed(j, o, m) \/ UpdateServiceArea(j, o, m)
           \/ CompareFails(j, m) \/ CommitFails(j, m)
    PROVE  TypeOK'
  <1>1. JobOK(job[j])
    BY TypeOfJob
  <1>2. CASE Unchanged(j, o, m)
    <2> DEFINE s == [job[j] EXCEPT !.municipalities = @ \ {m}]
    <2>1. JobOK(s)
      BY <1>1, <1>2 DEF JobOK, JobStates, Unchanged
    <2>2. Becomes(j, s)
      BY <1>2 DEF Unchanged
    <2> HIDE DEF s
    <2>3. QED
      BY <1>2, <2>1, <2>2, StepType, Kept DEF tables, counters, Unchanged
  <1>3. CASE Changed(j, o, m)
    <2> DEFINE s == [job[j] EXCEPT !.pc = "update", !.changed = {m}]
    <2>1. JobOK(s)
      BY <1>1, <1>3 DEF JobOK, JobStates, Labels, Changed
    <2>2. Becomes(j, s)
      BY <1>3 DEF Changed
    <2> HIDE DEF s
    <2>3. QED
      BY <1>3, <2>1, <2>2, StepType, Kept DEF tables, counters, Changed
  <1>4. CASE UpdateServiceArea(j, o, m)
    <2> DEFINE s == [job[j] EXCEPT !.pc = "commit", !.targets = ValidVersions(o, m)]
    <2>1. JobOK(s)
      BY <1>1, <1>4, ValidVersionsType DEF JobOK, JobStates, Labels, UpdateServiceArea
    <2>2. Becomes(j, s)
      BY <1>4 DEF UpdateServiceArea
    <2> HIDE DEF s
    <2>3. QED
      BY <1>4, <2>1, <2>2, StepType, Kept DEF tables, counters, UpdateServiceArea
  <1>5. CASE CompareFails(j, m)
    <2> DEFINE s == [job[j] EXCEPT !.pc = "update", !.changed = {m}, !.trouble = TRUE]
    <2>1. JobOK(s)
      BY <1>1, <1>5 DEF JobOK, JobStates, Labels, CompareFails
    <2>2. Becomes(j, s)
      BY <1>5 DEF CompareFails
    <2> HIDE DEF s
    <2>3. QED
      BY <1>5, <2>1, <2>2, StepType, Kept DEF tables, CompareFails
  <1>6. CASE CommitFails(j, m)
    <2> DEFINE s == [Compared(j, m) EXCEPT !.trouble = TRUE]
    <2>1. job[j].pc \in {"update", "commit"} /\ job[j].new = {}
      BY <1>1, <1>6 DEF JobOK, CommitFails
    <2>2. JobOK(s)
      BY <1>1, <2>1 DEF JobOK, JobStates, Labels, Compared
    <2>3. Becomes(j, s)
      BY <1>6 DEF CommitFails
    <2> HIDE DEF s
    <2>4. QED
      BY <1>6, <2>2, <2>3, StepType, Kept DEF tables, CommitFails
  <1>7. QED
    BY <1>2, <1>3, <1>4, <1>5, <1>6

(* The table after a commit. *)
Replaced(j, o, m) ==
    \E n \in Nat \ {0} :
        /\ versions' \in Seq(Versions)
        /\ DOMAIN versions' = DOMAIN versions \cup {n}
        /\ \A i \in DOMAIN versions : i \in Nat /\ i < n
        /\ versions'[n].municipality = m /\ versions'[n].operator = o
        /\ versions'[n].until = 0 /\ versions'[n].areas = AreasIn(m, job[j].found)
        /\ \A i \in DOMAIN versions :
              /\ versions'[i].municipality = versions[i].municipality
              /\ versions'[i].operator = versions[i].operator
              /\ versions'[i].areas = versions[i].areas
              /\ versions'[i].until = IF i \in job[j].targets /\ versions[i].until = 0
                                      THEN n ELSE versions[i].until

LEMMA CommitTable ==
    ASSUME TypeOK, NEW j \in Jobs, NEW o \in Operators, NEW m \in Municipalities,
           Commit(j, o, m)
    PROVE  Replaced(j, o, m)
  <1> DEFINE n == Len(versions) + 1
             row == [municipality |-> m, operator |-> o, until |-> 0,
                     areas |-> AreasIn(m, job[j].found)]
             old == [i \in DOMAIN versions |->
                        IF i \in job[j].targets /\ versions[i].until = 0
                        THEN [versions[i] EXCEPT !.until = n] ELSE versions[i]]
  <1>1. versions \in Seq(Versions) /\ n \in Nat \ {0} /\ DOMAIN versions = 1..Len(versions)
        /\ \A i \in DOMAIN versions : versions[i] \in Versions
    BY Kept
  <1>2. row \in Versions
    <2>1. AreasIn(m, job[j].found) \subseteq Areas
      BY TypeOfJob DEF AreasIn, JobOK, JobStates
    <2>2. QED
      BY <2>1 DEF Versions
  <1>3. versions' = Append(old, row)
    BY DEF Commit
  <1>4. \A i \in DOMAIN versions :
           /\ old[i] \in Versions
           /\ old[i].municipality = versions[i].municipality
           /\ old[i].operator = versions[i].operator
           /\ old[i].areas = versions[i].areas
           /\ old[i].until = IF i \in job[j].targets /\ versions[i].until = 0
                             THEN n ELSE versions[i].until
    BY <1>1 DEF Versions
  <1>5. old \in Seq(Versions) /\ Len(old) = Len(versions) /\ DOMAIN old = DOMAIN versions
    BY <1>1, <1>4
  <1> HIDE DEF row, old
  <1>6. /\ versions' \in Seq(Versions) /\ DOMAIN versions' = DOMAIN versions \cup {n}
        /\ versions'[n] = row /\ \A i \in DOMAIN versions : versions'[i] = old[i]
    BY <1>1, <1>2, <1>3, <1>5
  <1>7. \A i \in DOMAIN versions : i \in Nat /\ i < n
    BY <1>1
  <1>8. /\ row.municipality = m /\ row.operator = o
        /\ row.until = 0 /\ row.areas = AreasIn(m, job[j].found)
    BY DEF row
  <1> HIDE DEF n
  <1>9. QED
    BY <1>1, <1>4, <1>6, <1>7, <1>8 DEF Replaced

LEMMA CommitType ==
    ASSUME TypeOK, NEW j \in Jobs, NEW o \in Operators, NEW m \in Municipalities,
           Commit(j, o, m)
    PROVE  TypeOK'
  <1> DEFINE s == Compared(j, m)
  <1>1. JobOK(job[j]) /\ job[j].pc = "commit"
    BY TypeOfJob DEF Commit
  <1>2. JobOK(s)
    BY <1>1 DEF JobOK, JobStates, Labels, Compared
  <1>3. Becomes(j, s)
    BY DEF Commit
  <1> HIDE DEF s
  <1>4. versions' \in Seq(Versions) /\ DOMAIN versions \subseteq DOMAIN versions'
    <2>1. Replaced(j, o, m)
      BY CommitTable
    <2>2. QED
      BY <2>1 DEF Replaced
  <1>5. QED
    BY <1>2, <1>3, <1>4, StepType, Kept DEF counters, Commit

LEMMA TurnType ==
    ASSUME TypeOK, NEW j \in Jobs,
           StartCompare(j) \/ FinishOperator(j) \/ FinishJob(j) \/ Die(j)
    PROVE  TypeOK'
  <1>1. JobOK(job[j])
    BY TypeOfJob
  <1>2. CASE StartCompare(j)
    <2> DEFINE u == UNION {MunicipalitiesOf[a] : a \in job[j].found}
               s == [job[j] EXCEPT !.pc = "compare", !.municipalities = u]
    <2>1. u \subseteq Municipalities
      BY <1>1, ServiceAreaAssumption DEF JobOK, JobStates
    <2>2. Becomes(j, s)
      BY <1>2 DEF StartCompare
    <2> HIDE DEF u
    <2>3. JobOK(s)
      BY <1>1, <1>2, <2>1 DEF JobOK, JobStates, Labels, StartCompare
    <2> HIDE DEF s
    <2>4. QED
      BY <1>2, <2>2, <2>3, StepType, Kept DEF tables, counters, StartCompare
  <1>3. CASE FinishOperator(j)
    <2> DEFINE s == [job[j] EXCEPT !.pc = "operator", !.operator = {}, !.found = {}]
    <2>1. JobOK(s)
      BY <1>1, <1>3 DEF JobOK, JobStates, Labels, FinishOperator
    <2>2. Becomes(j, s)
      BY <1>3 DEF FinishOperator
    <2> HIDE DEF s
    <2>3. QED
      BY <1>3, <2>1, <2>2, StepType, Kept DEF tables, counters, FinishOperator
  <1>4. CASE FinishJob(j) \/ Die(j)
    BY <1>4, IdleOK, StepType, Kept DEF tables, counters, FinishJob, Die
  <1>5. QED
    BY <1>2, <1>3, <1>4

LEMMA StartJobType ==
    ASSUME TypeOK, NEW j \in Jobs, StartJob(j)
    PROVE  TypeOK'
  <1> DEFINE others == {k \in Jobs : Running(k)}
             s == [Idle EXCEPT !.pc = "download", !.feeds = Feeds,
                               !.operators = Operators, !.trouble = others # {}]
  <1>1. JobOK(s)
    BY IdleOK DEF JobOK, JobStates, Labels, Idle
  <1>2. \A k \in Jobs : JobOK([job[k] EXCEPT !.trouble = TRUE])
    <2> SUFFICES ASSUME NEW k \in Jobs PROVE JobOK([job[k] EXCEPT !.trouble = TRUE])
      OBVIOUS
    <2>1. JobOK(job[k])
      BY TypeOfJob
    <2>2. QED
      BY <2>1 DEF JobOK, JobStates
  <1>3. job' = [k \in Jobs |-> IF k = j THEN s
                               ELSE IF k \in others THEN [job[k] EXCEPT !.trouble = TRUE]
                               ELSE job[k]]
    BY DEF StartJob
  <1>4. overlaps' \in Nat
    <2>1. overlaps \in Nat
      BY Kept
    <2>2. overlaps' = overlaps \/ overlaps' = overlaps + 1
      BY Zenon DEF StartJob
    <2>3. QED
      BY <2>1, <2>2
  <1> HIDE DEF s, others
  <1>5. \A k \in Jobs : JobOK(job'[k])
    BY <1>1, <1>2, <1>3, TypeOfJob
  <1>6. job' \in [Jobs -> JobStates]
    BY <1>3, <1>5 DEF JobOK
  <1>7. UNCHANGED <<offers, geometries, versions, changes, failures, deaths>>
    BY DEF StartJob, tables
  <1>8. QED
    BY <1>4, <1>5, <1>6, <1>7 DEF TypeOK, JobOK

LEMMA PublishType ==
    ASSUME TypeOK, NEW f \in Feeds, Publish(f)
    PROVE  TypeOK'
  <1>1. OffersOf[f] \subseteq AnyOffer
    BY ServiceAreaAssumption
  <1>2. offers' \in [Feeds -> AnyOffer]
    BY <1>1 DEF TypeOK, Publish
  <1>3. QED
    BY <1>2 DEF TypeOK, Publish, tables

LEMMA NextType == TypeOK /\ [Next]_vars => TypeOK'
  <1> SUFFICES ASSUME TypeOK, [Next]_vars PROVE TypeOK'
    OBVIOUS
  <1>1. ASSUME NEW j \in Jobs, NEW f \in Feeds, Download(j, f) PROVE TypeOK'
    <2>1. offers[f] \in AnyOffer
      BY Kept
    <2>2. QED
      BY <1>1, <2>1, DownloadType, Kept DEF Download, counters
  <1>2. ASSUME NEW j \in Jobs, NEW f \in Feeds, DownloadFails(j, f) PROVE TypeOK'
    BY <1>2, NothingIsOffer, DownloadType, Kept DEF DownloadFails
  <1>3. ASSUME NEW j \in Jobs, StartJob(j) PROVE TypeOK'
    BY <1>3, StartJobType
  <1>4. ASSUME NEW j \in Jobs, JobStep(j) PROVE TypeOK'
    BY <1>1, <1>4, StartOperatorType, GeometryType, CompareType, CommitType, TurnType DEF JobStep
  <1>5. ASSUME NEW j \in Jobs, Fail(j) PROVE TypeOK'
    <2>1. CASE \E m \in Municipalities : CompareFails(j, m) \/ CommitFails(j, m)
      <3>1. PICK m \in Municipalities : CompareFails(j, m) \/ CommitFails(j, m)
        BY <2>1
      <3>2. PICK f \in Feeds : TRUE
        BY ServiceAreaAssumption
      <3>3. OperatorOf[f] \in Operators
        BY ServiceAreaAssumption
      <3>4. QED
        BY <3>1, <3>3, CompareType
    <2>2. QED
      BY <1>2, <1>5, <2>1, GeometryType, TurnType DEF Fail
  <1>6. ASSUME NEW f \in Feeds, Publish(f) PROVE TypeOK'
    BY <1>6, PublishType
  <1>7. CASE UNCHANGED vars
    BY <1>7 DEF TypeOK, vars, tables, counters
  <1>8. QED
    BY <1>3, <1>4, <1>5, <1>6, <1>7 DEF Next

(* Every variable keeps its type; a job has a geofence to insert and a      *)
(* municipality to update exactly when it is about to.                      *)
THEOREM ServiceAreaTypeCorrect == Spec => []TypeOK
  <1>1. ASSUME Init PROVE TypeOK
    <2>1. offers \in [Feeds -> AnyOffer]
      <3>1. \A f \in Feeds : offers[f] \in AnyOffer
        BY <1>1, ServiceAreaAssumption DEF Init
      <3>2. QED
        BY <1>1, <3>1 DEF Init
    <2>2. \A j \in Jobs : JobOK(job[j])
      BY <1>1, IdleOK DEF Init
    <2>3. job \in [Jobs -> JobStates]
      BY <1>1, <2>2 DEF Init, JobOK
    <2>4. QED
      BY <1>1, <2>1, <2>2, <2>3 DEF Init, TypeOK, JobOK
  <1>2. QED
    BY <1>1, NextType, PTL DEF Spec

-----------------------------------------------------------------------------
(* The geometries of the versions are stored: those a job has found are, and *)
(* no row of service_area_geometry ever goes.                                *)
FoundKnown == \A j \in Jobs : job[j].found \subseteq geometries

LEMMA FoundStep ==
    ASSUME TypeOK, FoundKnown, NEW j \in Jobs, NEW s, Becomes(j, s),
           s.found \subseteq geometries', geometries \subseteq geometries'
    PROVE  FoundKnown'
  BY BecomesJob DEF FoundKnown

LEMMA NextFound ==
    ASSUME TypeOK, FoundKnown, [Next]_vars
    PROVE  FoundKnown' /\ geometries \subseteq geometries'
  <1> USE DEF FoundKnown, tables
  <1>0. \A k \in Jobs : JobOK(job[k])
    BY TypeOfJob
  <1>1. ASSUME NEW j \in Jobs, StartJob(j) PROVE FoundKnown' /\ geometries \subseteq geometries'
    <2>1. \A k \in Jobs : job'[k].found = {} \/ job'[k].found = job[k].found
      BY <1>0, <1>1 DEF StartJob, Idle, JobOK, JobStates
    <2>2. QED
      BY <1>1, <2>1 DEF StartJob
  <1>2. ASSUME NEW j \in Jobs, NEW f \in Feeds, NEW offer, Downloaded(j, f, offer), UNCHANGED tables
        PROVE  FoundKnown' /\ geometries \subseteq geometries'
    BY <1>0, <1>2, FoundStep DEF Downloaded, JobOK, JobStates
  <1>3. ASSUME NEW j \in Jobs, NEW o \in Operators, StartOperator(j, o)
        PROVE  FoundKnown' /\ geometries \subseteq geometries'
    BY <1>0, <1>3, FoundStep DEF StartOperator, JobOK, JobStates
  <1>4. ASSUME NEW j \in Jobs, NEW a \in Areas,
               \/ GeometryFound(j, a) \/ GeometryMissing(j, a)
               \/ InsertGeofence(j, a) \/ GeometryFails(j, a)
        PROVE  FoundKnown' /\ geometries \subseteq geometries'
    <2>1. CASE GeometryFound(j, a) \/ GeometryMissing(j, a)
      BY <1>0, <2>1, FoundStep DEF GeometryFound, GeometryMissing, JobOK, JobStates
    <2>2. CASE InsertGeofence(j, a)
      BY <1>0, <2>2, FoundStep DEF InsertGeofence, JobOK, JobStates
    <2>3. CASE GeometryFails(j, a)
      BY <1>0, <2>3, FoundStep DEF GeometryFails, JobOK, JobStates
    <2>4. QED
      BY <1>4, <2>1, <2>2, <2>3
  <1>5. ASSUME NEW j \in Jobs, NEW o, NEW m,
               \/ Unchanged(j, o, m) \/ Changed(j, o, m) \/ UpdateServiceArea(j, o, m)
               \/ Commit(j, o, m) \/ CompareFails(j, m) \/ CommitFails(j, m)
        PROVE  FoundKnown' /\ geometries \subseteq geometries'
    BY <1>0, <1>5, FoundStep
       DEF Unchanged, Changed, UpdateServiceArea, Commit, CompareFails, CommitFails, Compared,
           JobOK, JobStates
  <1>6. ASSUME NEW j \in Jobs, StartCompare(j) \/ FinishOperator(j) \/ FinishJob(j) \/ Die(j)
        PROVE  FoundKnown' /\ geometries \subseteq geometries'
    BY <1>0, <1>6, FoundStep DEF StartCompare, FinishOperator, FinishJob, Die, Idle, JobOK, JobStates
  <1>7. ASSUME NEW f \in Feeds, Publish(f) PROVE FoundKnown' /\ geometries \subseteq geometries'
    BY <1>7 DEF Publish
  <1>8. ASSUME NEW j \in Jobs, JobStep(j) PROVE FoundKnown' /\ geometries \subseteq geometries'
    BY <1>2, <1>3, <1>4, <1>5, <1>6, <1>8 DEF JobStep, Download
  <1>9. ASSUME NEW j \in Jobs, Fail(j) PROVE FoundKnown' /\ geometries \subseteq geometries'
    BY <1>2, <1>4, <1>5, <1>6, <1>9 DEF Fail, DownloadFails
  <1>10. CASE UNCHANGED vars
    BY <1>10 DEF vars
  <1>11. QED
    BY <1>1, <1>7, <1>8, <1>9, <1>10 DEF Next

(* Commit is the only step that writes service_area. *)
LEMMA OnlyCommits ==
    ASSUME [Next]_vars
    PROVE  \/ UNCHANGED versions
           \/ \E j \in Jobs, o \in Operators, m \in Municipalities : Commit(j, o, m)
  <1>1. ASSUME NEW j \in Jobs, Fail(j) PROVE UNCHANGED versions
    BY <1>1 DEF Fail, DownloadFails, GeometryFails, CompareFails, CommitFails, Die, tables
  <1>2. ASSUME NEW j \in Jobs, JobStep(j)
        PROVE  UNCHANGED versions \/ \E o \in Operators, m \in Municipalities : Commit(j, o, m)
    BY <1>2 DEF JobStep, Download, StartOperator, GeometryFound, GeometryMissing, InsertGeofence,
                StartCompare, Unchanged, Changed, UpdateServiceArea, FinishOperator, FinishJob, tables
  <1>3. QED
    BY <1>1, <1>2 DEF Next, StartJob, Publish, vars, tables

LEMMA NextKnown ==
    TypeOK /\ FoundKnown /\ KnownAreas /\ [Next]_vars => FoundKnown' /\ KnownAreas'
  <1> SUFFICES ASSUME TypeOK, FoundKnown, KnownAreas, [Next]_vars
               PROVE  FoundKnown' /\ KnownAreas'
    OBVIOUS
  <1>1. FoundKnown' /\ geometries \subseteq geometries'
    BY NextFound
  <1>2. CASE UNCHANGED versions
    BY <1>1, <1>2 DEF KnownAreas
  <1>3. ASSUME NEW j \in Jobs, NEW o \in Operators, NEW m \in Municipalities, Commit(j, o, m)
        PROVE  KnownAreas'
    <2>0. Replaced(j, o, m)
      BY <1>3, CommitTable
    <2>1. PICK n \in Nat :
             /\ DOMAIN versions' = DOMAIN versions \cup {n}
             /\ versions'[n].municipality = m
             /\ versions'[n].areas = AreasIn(m, job[j].found)
             /\ \A i \in DOMAIN versions : /\ versions'[i].municipality = versions[i].municipality
                                           /\ versions'[i].areas = versions[i].areas
      BY <2>0 DEF Replaced
    <2>2. \A a \in AreasIn(m, job[j].found) : a \in geometries /\ m \in MunicipalitiesOf[a]
      BY DEF FoundKnown, AreasIn
    <2>3. QED
      BY <1>1, <2>1, <2>2 DEF KnownAreas
  <1>4. QED
    BY <1>1, <1>2, <1>3, OnlyCommits

(* Whatever fails, dies or overlaps, a version is made of stored geometries  *)
(* that lie in its municipality.                                             *)
THEOREM AreasAreKnown == Spec => []KnownAreas
  <1>1. Init => FoundKnown /\ KnownAreas
    BY DEF Init, FoundKnown, KnownAreas, Idle
  <1>2. QED
    BY <1>1, NextKnown, ServiceAreaTypeCorrect, PTL DEF Spec

-----------------------------------------------------------------------------
(* The versions follow each other as long as jobs do not overlap: one job is *)
(* under way, the rows it is about to end are the valid ones, and they are    *)
(* not what it is about to insert.                                            *)
Alone == \A j, k \in Jobs : Running(j) /\ Running(k) => j = k

EndsTheValid ==
    \A j \in Jobs, o \in Operators, m \in Municipalities :
        job[j].pc = "commit" /\ job[j].operator = {o} /\ job[j].changed = {m}
        => job[j].targets = ValidVersions(o, m)

ReplacesOther ==
    \A j \in Jobs, o \in Operators, m \in Municipalities :
        job[j].pc \in {"update", "commit"} /\ job[j].operator = {o} /\ job[j].changed = {m}
        => \A i \in ValidVersions(o, m) : versions[i].areas # AreasIn(m, job[j].found)

VersionsInv ==
    /\ VersionsFollowEachOther
    /\ overlaps = 0 => Alone /\ EndsTheValid /\ (failures = 0 => ReplacesOther)

LEMMA SameTable ==
    ASSUME TypeOK, VersionsFollowEachOther, UNCHANGED versions, overlaps' = 0 => overlaps = 0,
           failures' = 0 => failures = 0
    PROVE  VersionsFollowEachOther'
  BY DEF VersionsFollowEachOther, Later

(* A step of the only job that has nothing to commit after it. *)
LEMMA QuietStep ==
    ASSUME TypeOK, VersionsInv, NEW j \in Jobs, NEW s, Becomes(j, s), UNCHANGED <<versions, overlaps>>,
           failures' = 0 => failures = 0,
           s.pc \notin {"update", "commit"}, s.pc # "idle" => Running(j)
    PROVE  VersionsInv'
  <1>1. VersionsFollowEachOther'
    BY SameTable DEF VersionsInv
  <1>2. job'[j] = s /\ \A k \in Jobs \ {j} : job'[k] = job[k]
    BY BecomesJob
  <1>3. overlaps = 0 => Alone'
    BY <1>2 DEF VersionsInv, Alone, Running
  <1>4. overlaps = 0 => EndsTheValid'
    BY <1>2 DEF VersionsInv, EndsTheValid, ValidVersions
  <1>5. overlaps = 0 /\ failures' = 0 => ReplacesOther'
    BY <1>2 DEF VersionsInv, ReplacesOther, ValidVersions
  <1>6. QED
    BY <1>1, <1>3, <1>4, <1>5 DEF VersionsInv

LEMMA QuietSteps ==
    ASSUME TypeOK, VersionsInv, NEW j \in Jobs, JobStep(j) \/ Fail(j),
           \A o \in Operators, m \in Municipalities :
              ~Changed(j, o, m) /\ ~UpdateServiceArea(j, o, m) /\ ~Commit(j, o, m) /\ ~CompareFails(j, m)
    PROVE  VersionsInv'
  <1> USE DEF tables, counters
  <1>0. JobOK(job[j]) /\ failures \in Nat /\ (failures' = failures + 1 => failures' # 0)
    BY TypeOfJob, Kept
  <1>1. ASSUME NEW f \in Feeds, Download(j, f) \/ DownloadFails(j, f) PROVE VersionsInv'
    BY <1>0, <1>1, QuietStep
       DEF Download, DownloadFails, Downloaded, NextFeed, Running, JobOK, JobStates
  <1>2. ASSUME NEW o \in Operators, StartOperator(j, o) PROVE VersionsInv'
    BY <1>0, <1>2, QuietStep DEF StartOperator, Running, JobOK, JobStates
  <1>3. ASSUME NEW a \in Areas,
               \/ GeometryFound(j, a) \/ GeometryMissing(j, a)
               \/ InsertGeofence(j, a) \/ GeometryFails(j, a)
        PROVE  VersionsInv'
    <2>1. CASE GeometryFound(j, a)
      BY <1>0, <2>1, QuietStep DEF GeometryFound, Running, JobOK, JobStates
    <2>2. CASE GeometryMissing(j, a)
      BY <1>0, <2>2, QuietStep DEF GeometryMissing, Running, JobOK, JobStates
    <2>3. CASE InsertGeofence(j, a)
      BY <1>0, <2>3, QuietStep DEF InsertGeofence, Running, JobOK, JobStates
    <2>4. CASE GeometryFails(j, a)
      BY <1>0, <2>4, QuietStep DEF GeometryFails, Running, JobOK, JobStates
    <2>5. QED
      BY <1>3, <2>1, <2>2, <2>3, <2>4
  <1>4. ASSUME NEW o \in Operators, NEW m \in Municipalities, Unchanged(j, o, m) PROVE VersionsInv'
    BY <1>0, <1>4, QuietStep DEF Unchanged, Running, JobOK, JobStates
  <1>5. ASSUME NEW m \in Municipalities, CommitFails(j, m) PROVE VersionsInv'
    BY <1>0, <1>5, QuietStep DEF CommitFails, Compared, Running, JobOK, JobStates
  <1>6. CASE StartCompare(j) \/ FinishOperator(j)
    BY <1>0, <1>6, QuietStep DEF StartCompare, FinishOperator, Running, JobOK, JobStates
  <1>7. CASE FinishJob(j) \/ Die(j)
    BY <1>7, QuietStep DEF FinishJob, Die, Idle
  <1>8. CASE JobStep(j)
    BY <1>1, <1>2, <1>3, <1>4, <1>6, <1>7, <1>8 DEF JobStep
  <1>9. CASE Fail(j)
    <2>1. ASSUME NEW m \in Municipalities PROVE ~CompareFails(j, m)
      <3>1. PICK f \in Feeds : TRUE
        BY ServiceAreaAssumption
      <3>2. OperatorOf[f] \in Operators
        BY ServiceAreaAssumption
      <3>3. QED
        BY <3>2
    <2>2. QED
      BY <1>1, <1>3, <1>5, <1>7, <1>9, <2>1 DEF Fail
  <1>10. QED
    BY <1>8, <1>9

LEMMA StartAlone ==
    ASSUME TypeOK, VersionsInv, NEW j \in Jobs, StartJob(j)
    PROVE  VersionsInv'
  <1>1. UNCHANGED <<versions, failures>> /\ overlaps \in Nat
    BY Kept DEF StartJob, tables
  <1>2. overlaps' = 0 => overlaps = 0 /\ {k \in Jobs : Running(k)} = {}
    <2>1. overlaps' = IF {k \in Jobs : Running(k)} = {} THEN overlaps ELSE overlaps + 1
      BY Zenon DEF StartJob
    <2>2. QED
      BY <1>1, <2>1
  <1>3. VersionsFollowEachOther'
    BY <1>1, <1>2, SameTable DEF VersionsInv
  <1>4. ASSUME overlaps' = 0 PROVE Alone' /\ EndsTheValid' /\ ReplacesOther'
    <2>1. job'[j].pc = "download" /\ \A k \in Jobs \ {j} : job'[k] = job[k] /\ job[k].pc = "idle"
      BY <1>2, <1>4 DEF StartJob, Running, Idle
    <2>2. Alone'
      BY <2>1 DEF Alone, Running
    <2>3. EndsTheValid'
      BY <2>1 DEF EndsTheValid
    <2>4. ReplacesOther'
      BY <2>1 DEF ReplacesOther
    <2>5. QED
      BY <2>2, <2>3, <2>4
  <1>5. QED
    BY <1>3, <1>4 DEF VersionsInv

(* Nobody else runs while the job works towards a commit. *)
LEMMA OthersIdle ==
    ASSUME Alone, NEW j \in Jobs, Running(j)
    PROVE  \A k \in Jobs \ {j} : job[k].pc = "idle"
  BY DEF Alone, Running

(* The valid version is the only one. *)
LEMMA OneValid ==
    ASSUME TypeOK, VersionsFollowEachOther, overlaps = 0, NEW o, NEW m
    PROVE  \A i, k \in ValidVersions(o, m) : i = k
  <1> SUFFICES ASSUME NEW i \in ValidVersions(o, m), NEW k \in ValidVersions(o, m), i # k
               PROVE  FALSE
    OBVIOUS
  <1>1. i \in Nat /\ k \in Nat /\ i \in DOMAIN versions /\ k \in DOMAIN versions
    BY ValidVersionsType
  <1>2. Later(i) = {} /\ Later(k) = {}
    BY <1>1 DEF VersionsFollowEachOther, ValidVersions
  <1>3. i < k \/ k < i
    BY <1>1
  <1>4. QED
    BY <1>1, <1>2, <1>3 DEF Later, ValidVersions

LEMMA ChangedStep ==
    ASSUME TypeOK, VersionsInv, NEW j \in Jobs, NEW o \in Operators, NEW m \in Municipalities,
           Changed(j, o, m) \/ UpdateServiceArea(j, o, m) \/ CompareFails(j, m)
    PROVE  VersionsInv'
  <1>0. JobOK(job[j]) /\ failures \in Nat
    BY TypeOfJob, Kept
  <1>1. UNCHANGED <<versions, overlaps>> /\ (failures' = 0 => failures = 0)
    BY <1>0 DEF Changed, UpdateServiceArea, CompareFails, tables, counters
  <1>2. VersionsFollowEachOther'
    BY <1>1, SameTable DEF VersionsInv
  <1>3. Running(j) /\ (\A k \in Jobs \ {j} : job'[k] = job[k])
    BY BecomesJob DEF Changed, UpdateServiceArea, CompareFails, Running
  <1>4. ASSUME overlaps = 0
        PROVE  Alone' /\ EndsTheValid' /\ (failures' = 0 => ReplacesOther')
    <2>1. \A k \in Jobs \ {j} : job'[k].pc = "idle"
      BY <1>3, <1>4, OthersIdle DEF VersionsInv
    <2>2. Alone'
      BY <2>1 DEF Alone, Running
    <2>3. CASE Changed(j, o, m)
      <3>1. /\ job'[j] = [job[j] EXCEPT !.pc = "update", !.changed = {m}]
            /\ job[j].operator = {o}
            /\ \/ ValidVersions(o, m) = {}
               \/ \E i \in ValidVersions(o, m) : IsChanged(versions[i].areas, AreasIn(m, job[j].found))
        BY <2>3, BecomesJob DEF Changed
      <3>2. /\ job'[j].pc = "update" /\ job'[j].operator = {o} /\ job'[j].changed = {m}
            /\ job'[j].found = job[j].found
        BY <1>0, <3>1 DEF JobOK, JobStates
      <3>3. \A i \in ValidVersions(o, m) : versions[i].areas # AreasIn(m, job[j].found)
        BY <1>4, <3>1, OneValid DEF VersionsInv, IsChanged
      <3>4. \A p \in Operators, q \in Municipalities :
               job'[j].operator = {p} /\ job'[j].changed = {q} => p = o /\ q = m
        BY <3>2
      <3>5. EndsTheValid'
        BY <2>1, <3>2 DEF EndsTheValid
      <3>6. ReplacesOther'
        BY <1>1, <2>1, <3>2, <3>3, <3>4 DEF ReplacesOther, ValidVersions
      <3>7. QED
        BY <2>2, <3>5, <3>6
    <2>4. CASE UpdateServiceArea(j, o, m)
      <3>1. /\ job'[j] = [job[j] EXCEPT !.pc = "commit", !.targets = ValidVersions(o, m)]
            /\ job[j].operator = {o} /\ job[j].changed = {m} /\ job[j].pc = "update"
        BY <2>4, BecomesJob DEF UpdateServiceArea
      <3>2. /\ job'[j].pc = "commit" /\ job'[j].operator = {o} /\ job'[j].changed = {m}
            /\ job'[j].found = job[j].found /\ job'[j].targets = ValidVersions(o, m)
        BY <1>0, <3>1 DEF JobOK, JobStates
      <3>3. \A p \in Operators, q \in Municipalities :
               job'[j].operator = {p} /\ job'[j].changed = {q} => p = o /\ q = m
        BY <3>2
      <3>4. EndsTheValid'
        BY <1>1, <2>1, <3>2, <3>3 DEF EndsTheValid, ValidVersions
      <3>5. failures' = 0 => ReplacesOther'
        <4>1. failures = 0 => \A i \in ValidVersions(o, m) : versions[i].areas # AreasIn(m, job[j].found)
          BY <1>4, <3>1 DEF VersionsInv, ReplacesOther
        <4>2. QED
          BY <1>1, <2>1, <3>2, <3>3, <4>1 DEF ReplacesOther, ValidVersions
      <3>6. QED
        BY <2>2, <3>4, <3>5
    <2>5. CASE CompareFails(j, m)
      <3>1. job'[j].pc = "update" /\ failures' = failures + 1
        <4>1. job'[j] = [job[j] EXCEPT !.pc = "update", !.changed = {m}, !.trouble = TRUE]
          BY <2>5, BecomesJob DEF CompareFails
        <4>2. QED
          BY <1>0, <2>5, <4>1 DEF CompareFails, JobOK, JobStates
      <3>2. EndsTheValid'
        BY <2>1, <3>1 DEF EndsTheValid
      <3>3. QED
        BY <1>0, <2>2, <3>1, <3>2
    <2>6. QED
      BY <2>3, <2>4, <2>5
  <1>5. QED
    BY <1>1, <1>2, <1>4 DEF VersionsInv

LEMMA CommitStep ==
    ASSUME TypeOK, VersionsInv, NEW j \in Jobs, NEW o \in Operators, NEW m \in Municipalities,
           Commit(j, o, m)
    PROVE  VersionsInv'
  <1> DEFINE areas == AreasIn(m, job[j].found)
  <1>0. Replaced(j, o, m)
    BY CommitTable
  <1>1. PICK n \in Nat \ {0} :
        /\ DOMAIN versions' = DOMAIN versions \cup {n}
        /\ \A i \in DOMAIN versions : i \in Nat /\ i < n
        /\ versions'[n].municipality = m /\ versions'[n].operator = o
        /\ versions'[n].until = 0 /\ versions'[n].areas = areas
        /\ \A i \in DOMAIN versions :
              /\ versions'[i].municipality = versions[i].municipality
              /\ versions'[i].operator = versions[i].operator
              /\ versions'[i].areas = versions[i].areas
              /\ versions'[i].until = IF i \in job[j].targets /\ versions[i].until = 0
                                      THEN n ELSE versions[i].until
    BY <1>0 DEF Replaced, areas
  <1>2. JobOK(job[j]) /\ job[j].pc = "commit" /\ job[j].operator = {o} /\ job[j].changed = {m}
        /\ UNCHANGED <<overlaps, failures>>
    BY TypeOfJob DEF Commit, counters
  <1> HIDE DEF areas
  <1>3. ASSUME overlaps = 0
        PROVE  VersionsFollowEachOther' /\ Alone' /\ EndsTheValid' /\ ReplacesOther'
    <2>1. job[j].targets = ValidVersions(o, m)
      BY <1>2, <1>3 DEF VersionsInv, EndsTheValid
    <2>2. failures = 0 => \A i \in ValidVersions(o, m) : versions[i].areas # areas
      BY <1>2, <1>3 DEF VersionsInv, ReplacesOther, areas
    <2>3. job'[j].pc = "compare" /\ \A k \in Jobs \ {j} : job'[k].pc = "idle"
      <3>1. Running(j) /\ job'[j] = Compared(j, m) /\ \A k \in Jobs \ {j} : job'[k] = job[k]
        BY <1>2, BecomesJob DEF Commit, Running
      <3>2. QED
        BY <1>2, <1>3, <3>1, OthersIdle DEF VersionsInv, Compared, JobOK, JobStates
    <2>4. Alone' /\ EndsTheValid' /\ ReplacesOther'
      BY <2>3 DEF Alone, Running, EndsTheValid, ReplacesOther
    <2>5. ASSUME NEW i \in DOMAIN versions'
          PROVE  /\ versions'[i].until = 0 <=> Later(i)' = {}
                 /\ versions'[i].until # 0 =>
                       /\ versions'[i].until \in Later(i)'
                       /\ \A k \in Later(i)' : versions'[i].until <= k
                       /\ failures' = 0 => versions'[versions'[i].until].areas # versions'[i].areas
      <3>1. CASE i = n
        <4>1. Later(i)' = {}
          BY <1>1, <3>1 DEF Later
        <4>2. QED
          BY <1>1, <3>1, <4>1
      <3>2. CASE i # n /\ versions[i].municipality = m /\ versions[i].operator = o
        <4>1. i \in DOMAIN versions /\ Later(i)' = Later(i) \cup {n}
          BY <1>1, <3>2 DEF Later
        <4>2. CASE versions[i].until = 0
          <5>1. i \in ValidVersions(o, m) /\ versions'[i].until = n
            BY <1>1, <2>1, <3>2, <4>1, <4>2 DEF ValidVersions
          <5>2. Later(i) = {}
            BY <1>3, <4>1, <4>2 DEF VersionsInv, VersionsFollowEachOther
          <5>3. QED
            BY <1>1, <1>2, <2>2, <4>1, <5>1, <5>2
        <4>3. CASE versions[i].until # 0
          <5>1. versions'[i].until = versions[i].until
            BY <1>1, <4>1, <4>3
          <5>2. /\ versions[i].until \in Later(i) /\ \A k \in Later(i) : versions[i].until <= k
                /\ failures = 0 => versions[versions[i].until].areas # versions[i].areas
            BY <1>3, <4>1, <4>3 DEF VersionsInv, VersionsFollowEachOther
          <5>3. versions[i].until \in DOMAIN versions /\ versions[i].until < n
                /\ versions[i].until \in Nat
            BY <1>1, <5>2 DEF Later
          <5>4. QED
            BY <1>1, <1>2, <4>1, <4>3, <5>1, <5>2, <5>3
        <4>4. QED
          BY <4>2, <4>3
      <3>3. CASE i # n /\ ~(versions[i].municipality = m /\ versions[i].operator = o)
        <4>1. i \in DOMAIN versions /\ Later(i)' = Later(i)
          BY <1>1, <3>3 DEF Later
        <4>2. i \notin ValidVersions(o, m)
          BY <3>3 DEF ValidVersions
        <4>3. versions'[i].until = versions[i].until
          BY <1>1, <2>1, <4>1, <4>2
        <4>4. /\ versions[i].until = 0 <=> Later(i) = {}
              /\ versions[i].until # 0 =>
                    /\ versions[i].until \in Later(i) /\ \A k \in Later(i) : versions[i].until <= k
                    /\ failures = 0 => versions[versions[i].until].areas # versions[i].areas
          BY <1>3, <4>1 DEF VersionsInv, VersionsFollowEachOther
        <4>5. Later(i) \subseteq DOMAIN versions
          BY DEF Later
        <4>6. QED
          BY <1>1, <1>2, <4>1, <4>3, <4>4, <4>5
      <3>4. QED
        BY <3>1, <3>2, <3>3
    <2>6. VersionsFollowEachOther'
      BY <2>5 DEF VersionsFollowEachOther
    <2>7. QED
      BY <2>4, <2>6
  <1>4. CASE overlaps # 0
    BY <1>2, <1>4 DEF VersionsInv, VersionsFollowEachOther
  <1>5. QED
    BY <1>2, <1>3, <1>4 DEF VersionsInv

LEMMA NextVersions == TypeOK /\ VersionsInv /\ [Next]_vars => VersionsInv'
  <1> SUFFICES ASSUME TypeOK, VersionsInv, [Next]_vars PROVE VersionsInv'
    OBVIOUS
  <1>1. ASSUME NEW j \in Jobs, JobStep(j) \/ Fail(j) PROVE VersionsInv'
    BY <1>1, QuietSteps, ChangedStep, CommitStep
  <1>2. ASSUME NEW j \in Jobs, StartJob(j) PROVE VersionsInv'
    BY <1>2, StartAlone
  <1>3. CASE (\E f \in Feeds : Publish(f)) \/ UNCHANGED vars
    <2>1. UNCHANGED <<versions, job, failures, overlaps>>
      BY <1>3 DEF Publish, vars, tables, counters
    <2>2. VersionsFollowEachOther'
      BY <2>1, SameTable DEF VersionsInv
    <2>3. QED
      BY <2>1, <2>2 DEF VersionsInv, Alone, Running, EndsTheValid, ReplacesOther, ValidVersions
  <1>4. QED
    BY <1>1, <1>2, <1>3 DEF Next

(* Without overlapping jobs, and whatever fails or dies, each version ends   *)
(* as the next begins, the newest alone is valid, and none repeats the one   *)
(* before it unless a statement failed.                                      *)
THEOREM VersionsInOrder == Spec => []VersionsFollowEachOther
  <1>1. Init => VersionsInv
    <2> SUFFICES ASSUME Init PROVE VersionsInv
      OBVIOUS
    <2>1. \A j \in Jobs : job[j].pc = "idle"
      BY DEF Init, Idle
    <2>2. QED
      BY <2>1 DEF Init, VersionsInv, VersionsFollowEachOther, Alone, Running, EndsTheValid, ReplacesOther
  <1>2. VersionsInv => VersionsFollowEachOther
    BY DEF VersionsInv
  <1>3. QED
    BY <1>1, <1>2, NextVersions, ServiceAreaTypeCorrect, PTL DEF Spec
=============================================================================
