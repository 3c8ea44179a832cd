----------------------------- MODULE FeedReader -----------------------------
(***************************************************************************)
(* How the vehicles of a feed are downloaded: the readers of feed/gbfs,    *)
(* feed/tomp, feed/mds and feed/mds-v2, from the first request until       *)
(* importFeed has the list, with the access token every request needs; and *)
(* the two workers of the trip importer, which share a token. Around them  *)
(* the provider, whose vehicles come and go between two requests.          *)
(***************************************************************************)
EXTENDS AccessToken, Sequences, SequencesExt

CONSTANTS
    Vehicles,
    Setups,       \* the feeds there may be: [kind, scheme, life]
    Fleets,       \* the sequences of vehicles a provider may begin with
    Limit,        \* 250: the page size of DownloadDataPaginated
    PageSize,     \* the provider's page size in MDS 1
    MaxDepth,     \* 50: how many links are followed in MDS 1
    MaxChanges    \* bound: changes of the fleet

(* One request for all vehicles (GBFS, TOMP); after the overview and before *)
(* the vehicle types (full GBFS); vehicles and then their status (MDS 2);   *)
(* the same by page ("check"); following links (MDS 1); trips.              *)
Kinds == {"single", "full", "pair", "paged", "linked", "trips"}

ASSUME FeedReaderAssumption ==
    /\ 1 \in Users
    /\ Setups \subseteq [kind : Kinds, scheme : Schemes, life : Nat]
    /\ \A s \in Setups : s.scheme # "token" => s.life >= Margin
    /\ Fleets \subseteq Seq(Vehicles) /\ \A f \in Fleets : IsInjective(f)
    /\ Limit \in Nat \ {0} /\ PageSize \in Nat \ {0} /\ MaxDepth \in Nat /\ MaxChanges \in Nat

VARIABLES
    kind,         \* which reader the feed needs
    fleet,        \* the provider's vehicles, in the order in which it lists them
    riding,       \* those whose state is not one of the states that are imported
    reader,       \* the download under way
    changes       \* counter for the bound

vars == <<authVars, kind, fleet, riding, reader, changes>>

Steps == {"idle", "overview", "last", "vehicles", "status", "types", "done"}
Requests == Steps \ {"idle", "done"}

Readers == [
    step    : Steps,
    offset  : Nat,                  \* of the page being read
    total   : Nat,                  \* the number of vehicles by the last link
    depth   : 0..MaxDepth,          \* links followed
    devices : SUBSET Vehicles,      \* vehiclesLookup
    list    : SUBSET Vehicles,      \* the vehicles with a status that is imported
    twice   : BOOLEAN,              \* one of them was read twice
    steady  : SUBSET Vehicles,      \* history: on offer since the download began
    moved   : BOOLEAN,              \* history: the list changed since then
    cut     : BOOLEAN]              \* history: a page is missing

IdleReader == [step |-> "idle", offset |-> 0, total |-> 0, depth |-> 0, devices |-> {},
               list |-> {}, twice |-> FALSE, steady |-> {}, moved |-> FALSE, cut |-> FALSE]

TypeOK ==
    /\ AuthTypeOK
    /\ kind \in Kinds
    /\ fleet \in Seq(Vehicles) /\ IsInjective(fleet)
    /\ riding \subseteq Vehicles
    /\ reader \in Readers
    /\ changes \in 0..MaxChanges
    /\ kind = "trips" => reader = IdleReader
    /\ kind # "trips" => \A u \in Users \ {1} : caller[u] = IdleCaller
    /\ reader.step \notin Requests /\ kind # "trips" => AllIdle

Init ==
    /\ \E s \in Setups : kind = s.kind /\ AuthInit(s.scheme, s.life)
    /\ fleet \in IF kind = "trips" THEN {<<>>} ELSE Fleets
    /\ riding = {}
    /\ reader = IdleReader
    /\ changes = 0

-----------------------------------------------------------------------------
(* What the provider answers. *)
Shown(page) == page \ riding
Offered == Shown(ToSet(fleet))

Page(offset, size) == {fleet[i] : i \in {j \in DOMAIN fleet : offset < j /\ j <= offset + size}}

(* The last page of one vehicle each begins after all others.              *)
LastOffset == IF fleet = <<>> THEN 0 ELSE Len(fleet) - 1

-----------------------------------------------------------------------------
(* The download. *)
Reads(state) == reader' = state
Done(list) == [reader EXCEPT !.step = "done", !.list = list]

Adding(page) == [reader EXCEPT !.list = @ \cup page,
                               !.twice = @ \/ reader.list \cap page # {}]

(* A status of a vehicle that is not in the list voids the whole feed.     *)
CombineFeeds(devices, list) == IF list \subseteq devices THEN list ELSE {}

FirstStep == CASE kind = "full"  -> "overview"
               [] kind = "paged" -> "last"
               [] OTHER          -> "vehicles"

StartDownload ==
    /\ reader.step = "idle" /\ kind # "trips"
    /\ Reads([IdleReader EXCEPT !.step = FirstStep, !.steady = Offered])
    /\ UNCHANGED <<authVars, kind, fleet, riding, changes>>

Ask(u) ==
    /\ kind # "trips" => u = 1 /\ reader.step \in Requests
    /\ Begin(u)
    /\ UNCHANGED <<kind, fleet, riding, reader, changes>>

(* An answer that can be decoded, *)
Answered(u) ==
    /\ Accepts(u) /\ Return(u)
    /\ UNCHANGED <<faults, kind, fleet, riding, changes>>

Reading(step, kinds) == reader.step = step /\ kind \in kinds

ReadTrips(u) == Answered(u) /\ kind = "trips" /\ UNCHANGED reader

ReadOverview(u) ==
    /\ Answered(u) /\ Reading("overview", {"full"})
    /\ Reads([reader EXCEPT !.step = "vehicles"])

ReadVehicles(u) ==
    /\ Answered(u) /\ Reading("vehicles", {"single", "full"})
    /\ Reads(IF kind = "full" THEN [reader EXCEPT !.step = "types", !.list = Offered]
             ELSE Done(Offered))

(* getVehicleTypes; what it returns is left out. *)
ReadTypes(u) ==
    /\ Answered(u) /\ Reading("types", {"full"})
    /\ Reads(Done(reader.list))

ReadLastLink(u) ==
    /\ Answered(u) /\ Reading("last", {"paged"})
    /\ Reads(IF LastOffset = 0 THEN Done({})
             ELSE [reader EXCEPT !.step = "vehicles", !.total = LastOffset])

PageOf(kindOfFeed) == IF kindOfFeed = "paged" THEN Page(reader.offset, Limit) ELSE ToSet(fleet)

Devices(page) == Reads([reader EXCEPT !.step = "status", !.devices = @ \cup page])

ReadDevices(u) ==
    /\ Answered(u) /\ Reading("vehicles", {"pair", "paged"})
    /\ Devices(PageOf(kind))

(* Mutant: a page begins one vehicle too late. *)
NextOffsetAfterPage(offset) == offset + Limit + 1

NextOffset(offset) == offset + Limit

Statuses(page, cut) ==
    LET all == Adding(Shown(page))
        next == NextOffset(reader.offset)
    IN  Reads(IF kind = "paged" /\ next < reader.total
              THEN [all EXCEPT !.step = "vehicles", !.offset = next, !.cut = @ \/ cut]
              ELSE [all EXCEPT !.step = "done", !.list = CombineFeeds(reader.devices, @),
                               !.cut = @ \/ cut])

ReadStatus(u) ==
    /\ Answered(u) /\ Reading("status", {"pair", "paged"})
    /\ Statuses(PageOf(kind), FALSE)

(* getDataRecursively: the list is what was read until there is no next     *)
(* link, a page fails or the links are too many.                            *)
HasNext == reader.offset + PageSize < Len(fleet)

(* Mutant: links are followed without end. *)
TooDeepNever(depth) == FALSE

TooDeep(depth) == depth > MaxDepth

ReadLinkedPage(u) ==
    /\ Answered(u) /\ Reading("vehicles", {"linked"})
    /\ LET all == Adding(Shown(Page(reader.offset, PageSize))) IN
          Reads(IF ~HasNext THEN [all EXCEPT !.step = "done"]
                ELSE IF TooDeep(reader.depth + 1) THEN [all EXCEPT !.step = "done", !.cut = TRUE]
                ELSE [all EXCEPT !.depth = @ + 1, !.offset = @ + PageSize])

(* A request without a usable answer: what there is when it is not needed,  *)
(* nothing otherwise; MDS 1 keeps the pages before it.                      *)
GivesUp ==
    IF kind = "trips" THEN UNCHANGED reader
    ELSE Reads(CASE Reading("vehicles", {"full"})   -> [reader EXCEPT !.step = "types"]
                 [] Reading("types", {"full"})      -> Done(reader.list)
                 [] Reading("vehicles", {"linked"}) -> [Done(reader.list) EXCEPT !.cut = TRUE]
                 [] OTHER                           -> Done({}))

RequestRejected(u) ==
    /\ Rejects(u) /\ Return(u)
    /\ GivesUp
    /\ UNCHANGED <<faults, kind, fleet, riding, changes>>

RequestFails(u) ==
    /\ At(u, "sent") /\ Return(u) /\ Fault
    /\ GivesUp
    /\ UNCHANGED <<kind, fleet, riding, changes>>

(* An answer that cannot be decoded: the error is ignored where MDS is      *)
(* read, and the answer counts as an empty page without links.              *)
AnswerGarbled(u) ==
    /\ Accepts(u) /\ Return(u) /\ Fault
    /\ IF kind \in {"pair", "paged"} /\ reader.step = "vehicles" THEN Devices({})
       ELSE IF kind \in {"pair", "paged"} /\ reader.step = "status" THEN Statuses({}, TRUE)
       ELSE GivesUp
    /\ UNCHANGED <<kind, fleet, riding, changes>>

(* importFeed has the list: CleanCompare ignores an empty one.             *)
Deliver ==
    /\ reader.step = "done"
    /\ Reads(IdleReader)
    /\ UNCHANGED <<authVars, kind, fleet, riding, changes>>

UserStep(u) ==
    \/ AuthStep(u) /\ UNCHANGED <<kind, fleet, riding, reader, changes>>
    \/ Ask(u)
    \/ ReadTrips(u) \/ ReadOverview(u) \/ ReadVehicles(u) \/ ReadTypes(u) \/ ReadLastLink(u)
    \/ ReadDevices(u) \/ ReadStatus(u) \/ ReadLinkedPage(u)
    \/ RequestRejected(u)

-----------------------------------------------------------------------------
(* The world around. *)
LoadFeeds ==
    /\ reader.step = "idle" /\ Reload
    /\ UNCHANGED <<kind, fleet, riding, reader, changes>>

(* MDS 1 takes the coordinates of a vehicle by index, without looking       *)
(* whether there are any.                                                   *)
PlaceMissing(u) ==
    /\ Accepts(u) /\ Reading("vehicles", {"linked"}) /\ fleet # <<>>
    /\ Fault /\ WithoutToken

Restart(u) ==
    /\ Die(u) \/ PlaceMissing(u)
    /\ Reads(IdleReader)
    /\ UNCHANGED <<kind, fleet, riding, changes>>

Changes == changes < MaxChanges /\ changes' = changes + 1 /\ UNCHANGED <<authVars, kind>>

(* The vehicles in the list after a change; those that stayed stay steady. *)
Becomes(list, rides) ==
    /\ fleet' = list /\ riding' = rides
    /\ reader' = IF reader.step = "idle" THEN reader
                 ELSE [reader EXCEPT !.steady = @ \cap (ToSet(list) \ rides),
                                     !.moved = @ \/ list # fleet]

Join(v, i) ==
    /\ kind # "trips" /\ Changes
    /\ v \notin ToSet(fleet) /\ i \in 1..(Len(fleet) + 1)
    /\ Becomes(InsertAt(fleet, i, v), riding)

Leave(i) ==
    /\ kind # "trips" /\ Changes
    /\ i \in DOMAIN fleet
    /\ Becomes(RemoveAt(fleet, i), riding \ {fleet[i]})

Ride(v) ==
    /\ kind # "trips" /\ Changes
    /\ v \in Offered
    /\ Becomes(fleet, riding \cup {v})

Park(v) ==
    /\ kind # "trips" /\ Changes
    /\ v \in riding
    /\ Becomes(fleet, riding \ {v})

UserFault(u) == \/ AuthFault(u) /\ UNCHANGED <<kind, fleet, riding, reader, changes>>
                \/ RequestFails(u) \/ AnswerGarbled(u) \/ Restart(u)

Next ==
    \/ StartDownload \/ Deliver \/ LoadFeeds
    \/ \E u \in Users : UserStep(u) \/ UserFault(u)
    \/ \E v \in Vehicles : Ride(v) \/ Park(v) \/ \E i \in 1..(Len(fleet) + 1) : Join(v, i)
    \/ \E i \in DOMAIN fleet : Leave(i)
    \/ (Revoke \/ Tick) /\ UNCHANGED <<kind, fleet, riding, reader, changes>>

Spec == Init /\ [][Next]_vars

(* Downloads go on, requests are answered, and the clock runs.             *)
Fairness ==
    /\ WF_vars(StartDownload) /\ WF_vars(Deliver)
    /\ \A u \in Users : WF_vars(UserStep(u))
    /\ WF_vars(Tick /\ UNCHANGED <<kind, fleet, riding, reader, changes>>)
FairSpec == Spec /\ Fairness

-----------------------------------------------------------------------------
(* Properties. *)

(* A download of pages misses the last vehicle when the offset of the last  *)
(* link, one less than the number of vehicles, is a multiple of the page    *)
(* size (import.go 128-146).                                                *)
Overlooked == IF kind = "paged" /\ reader.total % Limit = 0 THEN {Last(fleet)} ELSE {}

(* A list that is not empty, and so will be compared with the one before,   *)
(* holds every vehicle that was on offer all the time, and none twice:      *)
(* otherwise CleanCompare gives check_outs of vehicles that are there. That *)
(* fails in two ways only: a page of vehicles moved while pages were read,  *)
(* or a page is missing.                                                    *)
CompleteDownload ==
    reader.step = "done" /\ reader.list # {} =>
        \/ reader.cut
        \/ (reader.moved /\ kind \in {"paged", "linked"})
        \/ reader.steady \ reader.list \subseteq Overlooked /\ ~reader.twice

(* However often servers and connections fail, a provider that answers lets *)
(* requests in again: after an error, an empty token or one that was taken  *)
(* back, a new one is asked for in the end, though a rejection is no reason *)
(* to ask.                                                                  *)
Succeeds(u) == /\ Accepts(u)
               /\ \/ ReadTrips(u) \/ ReadOverview(u) \/ ReadVehicles(u) \/ ReadTypes(u)
                  \/ ReadLastLink(u) \/ ReadDevices(u) \/ ReadStatus(u) \/ ReadLinkedPage(u)
RequestsSucceedAgain == []<><<\E u \in Users : Succeeds(u)>>_vars
=============================================================================
