---------------------------- MODULE ServiceArea ----------------------------
(***************************************************************************)
(* The service area importer: a job that downloads the geofencing zones of *)
(* the feeds, keeps those where a ride may start and end, stores their     *)
(* geometries once, and records in the table service_area which of them    *)
(* make up the service area of an operator in a municipality, from when    *)
(* until when. Around it the providers, who change their zones.            *)
(* An area stands for a geometry and for its hash.                         *)
(***************************************************************************)
EXTENDS Integers, Sequences, SequencesExt

CONSTANTS
    Jobs,             \* runs of the importer that can be under way at a time
    Feeds,            \* the feed_ids of the feeds with import_service_area
    Operators, OperatorOf,
    Areas,
    Municipalities,
    MunicipalitiesOf, \* the zones of the type municipality an area intersects
    OffersOf,         \* what the provider of a feed may publish in it
    MaxChanges,       \* bound: times a provider publishes something else
    MaxFaults         \* bound: downloads and statements that fail, jobs that
                      \* die and jobs that start while another one runs

(* A rule says of starting and of ending a ride "yes", "no" or nothing.    *)
Rules == [start : {"yes", "no", "unset"}, end : {"yes", "no", "unset"}, speed : BOOLEAN]

(* A zone without rules, with rules that cannot be parsed, or with a list. *)
Zones == [area : Areas, rules : {"none", "unreadable", "list"}, list : Seq(Rules)]
AnyOffer == [global : Seq(Rules), zones : SUBSET Zones]

ASSUME ServiceAreaAssumption ==
    /\ Feeds \subseteq Nat /\ Feeds # {}
    /\ OperatorOf \in [Feeds -> Operators]
    /\ MunicipalitiesOf \in [Areas -> SUBSET Municipalities]
    /\ OffersOf \in [Feeds -> SUBSET AnyOffer]
    /\ MaxChanges \in Nat /\ MaxFaults \in Nat

VARIABLES
    offers,       \* what the providers publish
    geometries,   \* table service_area_geometry: the areas it holds
    versions,     \* table service_area: row i has service_area_version_id i
    job,          \* the state of each job
    changes, failures, deaths, overlaps   \* counters for the bounds

tables == <<geometries, versions>>
counters == <<changes, failures, deaths, overlaps>>
vars == <<offers, tables, job, counters>>

-----------------------------------------------------------------------------
(* until is 0 for NULL, and otherwise the row that was inserted by the     *)
(* transaction that ended this one: both carry its NOW().                  *)
Versions == [municipality : Municipalities, operator : Operators, until : Nat,
             areas : SUBSET Areas]

Labels == {"idle", "download", "operator", "lookup", "insert", "compare", "update", "commit"}

JobStates == [
    pc : Labels,
    feeds : SUBSET Feeds,                  \* still to download
    data : [Feeds -> AnyOffer],            \* downloaded
    operators : SUBSET Operators,          \* still to process
    operator : SUBSET Operators,           \* the one being processed, if any
    wanted : SUBSET Areas,                 \* its areas still to look up
    new : SUBSET Areas,                    \* the one that was not there, if any
    found : SUBSET Areas,                  \* its geofences
    municipalities : SUBSET Municipalities,\* still to compare
    changed : SUBSET Municipalities,       \* the one that needs a version, if any
    targets : SUBSET Nat,                  \* the rows the UPDATE has read
    trouble : BOOLEAN]                     \* history: a statement failed or jobs overlapped

Nothing == [global |-> <<>>, zones |-> {}]

Idle == [pc |-> "idle", feeds |-> {}, data |-> [f \in Feeds |-> Nothing],
         operators |-> {}, operator |-> {}, wanted |-> {}, new |-> {}, found |-> {},
         municipalities |-> {}, changed |-> {}, targets |-> {}, trouble |-> FALSE]

TypeOK ==
    /\ offers \in [Feeds -> AnyOffer]
    /\ geometries \subseteq Areas
    /\ versions \in Seq(Versions)
    /\ job \in [Jobs -> JobStates]
    /\ \A j \in Jobs :
          /\ job[j].pc \in {"update", "commit"} <=> job[j].changed # {}
          /\ job[j].pc = "insert" <=> job[j].new # {}
          /\ job[j].new \subseteq job[j].wanted
          /\ job[j].changed \subseteq job[j].municipalities
          /\ job[j].targets \subseteq DOMAIN versions
    /\ changes \in Nat /\ failures \in Nat /\ deaths \in Nat /\ overlaps \in Nat

Init ==
    /\ offers \in [Feeds -> UNION {OffersOf[f] : f \in Feeds}]
    /\ \A f \in Feeds : offers[f] \in OffersOf[f]
    /\ geometries = {} /\ versions = <<>>
    /\ job = [j \in Jobs |-> Idle]
    /\ changes = 0 /\ failures = 0 /\ deaths = 0 /\ overlaps = 0

-----------------------------------------------------------------------------
(* Which zones are part of a service area. *)

(* effectiveRules.apply *)
Apply(rules, rule) ==
    [start |-> IF rule.start = "unset" THEN rules.start ELSE rule.start = "yes",
     end   |-> IF rule.end   = "unset" THEN rules.end   ELSE rule.end   = "yes"]

DefaultRules == [start |-> TRUE, end |-> TRUE]

(* Mutant: the rules of the feed overrule those of the zone. *)
ResolveRulesGlobalLast(global, list) == FoldLeft(Apply, FoldLeft(Apply, DefaultRules, list), global)

ResolveRules(global, list) == FoldLeft(Apply, FoldLeft(Apply, DefaultRules, global), list)

IsDisallowed(rules) == ~rules.start \/ ~rules.end

HasMaximumSpeed(list) == \E i \in DOMAIN list : list[i].speed

ShouldKeepFeature(zone, global) ==
    \/ zone.rules = "none" /\ ~IsDisallowed(ResolveRules(global, <<>>))
    \/ zone.rules = "unreadable"
    \/ /\ zone.rules = "list"
       /\ ~HasMaximumSpeed(zone.list)
       /\ ~IsDisallowed(ResolveRules(global, zone.list))

(* filterFeaturesThatBlockBikes *)
Filter(offer) == {zone.area : zone \in {z \in offer.zones : ShouldKeepFeature(z, offer.global)}}

-----------------------------------------------------------------------------
(* The job. *)
FaultsLeft == failures + deaths + overlaps < MaxFaults

Becomes(j, state) == job' = [job EXCEPT ![j] = state]

Running(j) == job[j].pc # "idle"

(* Nothing keeps a run from starting while another one is under way. *)
StartJob(j) ==
    /\ ~Running(j)
    /\ LET others == {k \in Jobs : Running(k)} IN
          /\ others # {} => FaultsLeft
          /\ overlaps' = IF others = {} THEN overlaps ELSE overlaps + 1
          /\ job' = [k \in Jobs |->
                        IF k = j THEN [Idle EXCEPT !.pc = "download", !.feeds = Feeds,
                                                   !.operators = Operators,
                                                   !.trouble = others # {}]
                        ELSE IF k \in others THEN [job[k] EXCEPT !.trouble = TRUE]
                        ELSE job[k]]
    /\ UNCHANGED <<offers, tables, changes, failures, deaths>>

(* Feed by feed, by id. A feed that cannot be downloaded or decoded counts  *)
(* as one that offers nothing; the others of its operator go on.            *)
NextFeed(j, f) == job[j].pc = "download" /\ f \in job[j].feeds /\ \A g \in job[j].feeds : f <= g

Downloaded(j, f, offer) ==
    Becomes(j, [job[j] EXCEPT !.feeds = @ \ {f},
                              !.data = [@ EXCEPT ![f] = offer],
                              !.pc = IF job[j].feeds = {f} THEN "operator" ELSE "download"])

Download(j, f) ==
    /\ NextFeed(j, f)
    /\ Downloaded(j, f, offers[f])
    /\ UNCHANGED <<offers, tables, counters>>

DownloadFails(j, f) ==
    /\ NextFeed(j, f)
    /\ FaultsLeft /\ failures' = failures + 1
    /\ Downloaded(j, f, Nothing)
    /\ UNCHANGED <<offers, tables, changes, deaths, overlaps>>

(* processGeofencesPerOperator, for the operators in any order. *)
StartOperator(j, o) ==
    /\ job[j].pc = "operator" /\ o \in job[j].operators
    /\ Becomes(j, [job[j] EXCEPT
                      !.pc = "lookup", !.operators = @ \ {o}, !.operator = {o}, !.found = {},
                      !.wanted = UNION {Filter(job[j].data[f]) : f \in {g \in Feeds : OperatorOf[g] = o}}])
    /\ UNCHANGED <<offers, tables, counters>>

(* processGeofence: the geometry is looked up by its hash, *)
GeometryFound(j, a) ==
    /\ job[j].pc = "lookup" /\ a \in job[j].wanted /\ a \in geometries
    /\ Becomes(j, [job[j] EXCEPT !.wanted = @ \ {a}, !.found = @ \cup {a}])
    /\ UNCHANGED <<offers, tables, counters>>

GeometryMissing(j, a) ==
    /\ job[j].pc = "lookup" /\ a \in job[j].wanted /\ a \notin geometries
    /\ Becomes(j, [job[j] EXCEPT !.pc = "insert", !.new = {a}])
    /\ UNCHANGED <<offers, tables, counters>>

(* and inserted when it is not there, unless it lies in no municipality. An *)
(* insert that another job has made in the meantime is refused.             *)
Inserts(a) == MunicipalitiesOf[a] # {} /\ a \notin geometries

(* Mutant: the geometry is not taken off the list. *)
InsertGeofenceAgain(j, a) ==
    /\ job[j].new = {a}
    /\ geometries' = IF Inserts(a) THEN geometries \cup {a} ELSE geometries
    /\ Becomes(j, [job[j] EXCEPT !.pc = "lookup", !.wanted = @ \ {a},
                                 !.found = IF Inserts(a) THEN @ \cup {a} ELSE @])
    /\ UNCHANGED <<offers, versions, counters>>

InsertGeofence(j, a) ==
    /\ job[j].new = {a}
    /\ geometries' = IF Inserts(a) THEN geometries \cup {a} ELSE geometries
    /\ Becomes(j, [job[j] EXCEPT !.pc = "lookup", !.wanted = @ \ {a}, !.new = {},
                                 !.found = IF Inserts(a) THEN @ \cup {a} ELSE @])
    /\ UNCHANGED <<offers, versions, counters>>

(* Mutant: a geometry counts as stored whatever the statement says. *)
GeometryFailsUnnoticed(j, a) ==
    /\ \/ job[j].pc = "lookup" /\ a \in job[j].wanted
       \/ job[j].new = {a}
    /\ FaultsLeft /\ failures' = failures + 1
    /\ Becomes(j, [job[j] EXCEPT !.pc = "lookup", !.wanted = @ \ {a}, !.new = {},
                                 !.found = @ \cup {a}, !.trouble = TRUE])
    /\ UNCHANGED <<offers, tables, changes, deaths, overlaps>>

(* A statement fails: the geofence is left out. The insert may have been    *)
(* made all the same, with its answer lost.                                 *)
GeometryFails(j, a) ==
    /\ \/ job[j].pc = "lookup" /\ a \in job[j].wanted
       \/ job[j].new = {a}
    /\ FaultsLeft /\ failures' = failures + 1
    /\ \/ UNCHANGED geometries
       \/ job[j].new = {a} /\ Inserts(a) /\ geometries' = geometries \cup {a}
    /\ Becomes(j, [job[j] EXCEPT !.pc = "lookup", !.wanted = @ \ {a}, !.new = {}, !.trouble = TRUE])
    /\ UNCHANGED <<offers, versions, changes, deaths, overlaps>>

(* getServiceAreaPerMunicipality *)
AreasIn(m, found) == {a \in found : m \in MunicipalitiesOf[a]}

StartCompare(j) ==
    /\ job[j].pc = "lookup" /\ job[j].wanted = {}
    /\ Becomes(j, [job[j] EXCEPT !.pc = "compare",
                                 !.municipalities = UNION {MunicipalitiesOf[a] : a \in job[j].found}])
    /\ UNCHANGED <<offers, tables, counters>>

ValidVersions(o, m) ==
    {i \in DOMAIN versions : /\ versions[i].operator = o /\ versions[i].municipality = m
                             /\ versions[i].until = 0}

(* Mutant: an area that was taken away is no change. *)
IsChangedWhenGrown(stored, areas) == ~(areas \subseteq stored)

IsChanged(stored, areas) == ~(areas \subseteq stored /\ stored \subseteq areas)

(* Of several valid rows the query returns any. *)
Unchanged(j, o, m) ==
    /\ job[j].pc = "compare" /\ job[j].operator = {o} /\ m \in job[j].municipalities
    /\ \E i \in ValidVersions(o, m) : ~IsChanged(versions[i].areas, AreasIn(m, job[j].found))
    /\ Becomes(j, [job[j] EXCEPT !.municipalities = @ \ {m}])
    /\ UNCHANGED <<offers, tables, counters>>

Changed(j, o, m) ==
    /\ job[j].pc = "compare" /\ job[j].operator = {o} /\ m \in job[j].municipalities
    /\ \/ ValidVersions(o, m) = {}
       \/ \E i \in ValidVersions(o, m) : IsChanged(versions[i].areas, AreasIn(m, job[j].found))
    /\ Becomes(j, [job[j] EXCEPT !.pc = "update", !.changed = {m}])
    /\ UNCHANGED <<offers, tables, counters>>

(* A comparison that fails counts as a change. *)
CompareFails(j, m) ==
    /\ job[j].pc = "compare" /\ m \in job[j].municipalities
    /\ FaultsLeft /\ failures' = failures + 1
    /\ Becomes(j, [job[j] EXCEPT !.pc = "update", !.changed = {m}, !.trouble = TRUE])
    /\ UNCHANGED <<offers, tables, changes, deaths, overlaps>>

(* Mutant: the version that is replaced is not ended. *)
UpdateServiceAreaLeavingOld(j, o, m) ==
    /\ job[j].pc = "update" /\ job[j].operator = {o} /\ job[j].changed = {m}
    /\ Becomes(j, [job[j] EXCEPT !.pc = "commit", !.targets = {}])
    /\ UNCHANGED <<offers, tables, counters>>

(* updateServiceArea: the UPDATE reads the valid rows, *)
UpdateServiceArea(j, o, m) ==
    /\ job[j].pc = "update" /\ job[j].operator = {o} /\ job[j].changed = {m}
    /\ Becomes(j, [job[j] EXCEPT !.pc = "commit", !.targets = ValidVersions(o, m)])
    /\ UNCHANGED <<offers, tables, counters>>

Compared(j, m) ==
    [job[j] EXCEPT !.pc = "compare", !.changed = {}, !.targets = {}, !.municipalities = @ \ {m}]

(* ends those that another job did not end before, and the transaction adds *)
(* the new one. A row that a job running beside it has added is not seen.   *)
Commit(j, o, m) ==
    /\ job[j].pc = "commit" /\ job[j].operator = {o} /\ job[j].changed = {m}
    /\ versions' = Append([i \in DOMAIN versions |->
                              IF i \in job[j].targets /\ versions[i].until = 0
                              THEN [versions[i] EXCEPT !.until = Len(versions) + 1]
                              ELSE versions[i]],
                          [municipality |-> m, operator |-> o, until |-> 0,
                           areas |-> AreasIn(m, job[j].found)])
    /\ Becomes(j, Compared(j, m))
    /\ UNCHANGED <<offers, geometries, counters>>

(* A statement of the transaction fails, which undoes it; the job goes on.  *)
(* When only the answer to the commit gets lost that is logged, no more.    *)
CommitFails(j, m) ==
    /\ job[j].changed = {m}
    /\ FaultsLeft /\ failures' = failures + 1
    /\ Becomes(j, [Compared(j, m) EXCEPT !.trouble = TRUE])
    /\ UNCHANGED <<offers, tables, changes, deaths, overlaps>>

FinishOperator(j) ==
    /\ job[j].pc = "compare" /\ job[j].municipalities = {}
    /\ Becomes(j, [job[j] EXCEPT !.pc = "operator", !.operator = {}, !.found = {}])
    /\ UNCHANGED <<offers, tables, counters>>

FinishJob(j) ==
    /\ job[j].pc = "operator" /\ job[j].operators = {}
    /\ Becomes(j, Idle)
    /\ UNCHANGED <<offers, tables, counters>>

JobStep(j) ==
    \/ \E f \in Feeds : Download(j, f)
    \/ \E o \in Operators : StartOperator(j, o)
    \/ \E a \in Areas : GeometryFound(j, a) \/ GeometryMissing(j, a) \/ InsertGeofence(j, a)
    \/ StartCompare(j)
    \/ \E o \in Operators, m \in Municipalities :
          Unchanged(j, o, m) \/ Changed(j, o, m) \/ UpdateServiceArea(j, o, m) \/ Commit(j, o, m)
    \/ FinishOperator(j)
    \/ FinishJob(j)

-----------------------------------------------------------------------------
(* A statement panics on a connection that is gone, or the job is killed.   *)
Die(j) ==
    /\ Running(j)
    /\ FaultsLeft /\ deaths' = deaths + 1
    /\ Becomes(j, Idle)
    /\ UNCHANGED <<offers, tables, changes, failures, overlaps>>

Fail(j) ==
    \/ \E f \in Feeds : DownloadFails(j, f)
    \/ \E a \in Areas : GeometryFails(j, a)
    \/ \E m \in Municipalities : CompareFails(j, m) \/ CommitFails(j, m)
    \/ Die(j)

(* A provider publishes something else. *)
Publish(f) ==
    /\ changes < MaxChanges /\ changes' = changes + 1
    /\ \E offer \in OffersOf[f] \ {offers[f]} : offers' = [offers EXCEPT ![f] = offer]
    /\ UNCHANGED <<tables, job, failures, deaths, overlaps>>

Next ==
    \/ \E j \in Jobs : StartJob(j) \/ JobStep(j) \/ Fail(j)
    \/ \E f \in Feeds : Publish(f)

Spec == Init /\ [][Next]_vars

(* A job is started again and again, and goes on until it ends or dies. *)
Fairness == /\ WF_vars(\E j \in Jobs : StartJob(j))
            /\ \A j \in Jobs : WF_vars(JobStep(j))
FairSpec == Spec /\ Fairness

-----------------------------------------------------------------------------
(* Properties. *)

(* The geometries of a version are in the table of geometries, though no    *)
(* foreign key ties the array to it: whatever fails, dies or overlaps, no   *)
(* version names the hash of a geometry that was not stored, or that lies   *)
(* in another municipality (service_area.go 225-228).                       *)
KnownAreas ==
    \A i \in DOMAIN versions : \A a \in versions[i].areas :
        a \in geometries /\ versions[i].municipality \in MunicipalitiesOf[a]

(* As long as jobs do not overlap, the versions of an operator in a         *)
(* municipality follow each other: each ends as the next one begins and     *)
(* the newest alone is valid. When no comparison failed, a version begins   *)
(* because the areas are others. Nothing in the schema demands this.        *)
Later(i) == {k \in DOMAIN versions : /\ k > i
                                     /\ versions[k].municipality = versions[i].municipality
                                     /\ versions[k].operator = versions[i].operator}
VersionsFollowEachOther ==
    overlaps = 0 =>
        \A i \in DOMAIN versions :
            /\ versions[i].until = 0 <=> Later(i) = {}
            /\ versions[i].until # 0 =>
                  /\ versions[i].until \in Later(i)
                  /\ \A k \in Later(i) : versions[i].until <= k
                  /\ failures = 0 => versions[versions[i].until].areas # versions[i].areas

(* What the rules mean: the last word on starting and on ending a ride      *)
(* counts, the zone's own after those of the feed, and silence allows it.   *)
(* Zones with a speed limit are restrictions within an area, not areas.     *)
LastWord(words) ==
    LET spoken == {i \in DOMAIN words : words[i] # "unset"}
    IN  IF spoken = {} THEN "yes" ELSE words[CHOOSE i \in spoken : \A k \in spoken : k <= i]
Welcomes(list) == /\ LastWord([i \in DOMAIN list |-> list[i].start]) = "yes"
                  /\ LastWord([i \in DOMAIN list |-> list[i].end]) = "yes"
IsServiceArea(zone, global) ==
    CASE zone.rules = "none"       -> Welcomes(global)
      [] zone.rules = "unreadable" -> TRUE
      [] OTHER                     -> /\ \A i \in DOMAIN zone.list : ~zone.list[i].speed
                                      /\ Welcomes(global \o zone.list)
Expected(data, o, m) ==
    {a \in Areas : /\ m \in MunicipalitiesOf[a]
                   /\ \E f \in Feeds : /\ OperatorOf[f] = o
                                       /\ \E zone \in data[f].zones :
                                             zone.area = a /\ IsServiceArea(zone, data[f].global)}

IsPublished(data, o, m) == \E i \in ValidVersions(o, m) : versions[i].areas = Expected(data, o, m)

(* When a job comes to its end without a failed statement and without       *)
(* another job beside it, the tables say what it downloaded, wherever that  *)
(* is anything, and whatever earlier jobs that died left behind.            *)
AreasAreCurrent ==
    [][\A j \in Jobs :
          FinishJob(j) /\ ~job[j].trouble =>
              \A o \in Operators, m \in Municipalities :
                  Expected(job[j].data, o, m) # {} => IsPublished(job[j].data, o, m)]_vars

(* What the providers publish for good ends up in the tables, and stays,    *)
(* after failures, deaths and overlapping jobs.                             *)
AreasArePublished ==
    \A o \in Operators, m \in Municipalities :
        <>[](Expected(offers, o, m) # {} => IsPublished(offers, o, m))
=============================================================================
