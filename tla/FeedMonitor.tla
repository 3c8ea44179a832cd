---------------------------- MODULE FeedMonitor ----------------------------
(***************************************************************************)
(* The feed monitor: the loop of monitor/feed_monitor.go that writes the   *)
(* table feed_downtime, its notification worker with the sender of         *)
(* monitor/telegram.go, and, around them, the vehicle importer that stamps *)
(* the feeds it imported, the administrator who switches feeds on and off, *)
(* and the Telegram chat.                                                  *)
(***************************************************************************)
EXTENDS Integers, Sequences

CONSTANTS
    Feeds,          \* the feed_ids
    Threshold,      \* 5 minutes, in ticks
    QueueCapacity,  \* make(chan Notification, 100)
    MaxAttempts,    \* maxRetries of SendAlert
    MaxTime,        \* bound: ticks
    MaxSwitches,    \* bound: times a feed is switched on or off
    MaxErrors,      \* bound: database statements that fail
    MaxRestarts,    \* bound: times the monitor dies
    MaxRefusals,    \* bound: posts that Telegram refuses for now or does not answer
    MaxRejections   \* bound: posts that Telegram refuses for good

ASSUME FeedsAssumption == Feeds \subseteq Nat
ASSUME MonitorAssumption ==
    /\ Threshold \in Nat
    /\ QueueCapacity \in Nat \ {0} /\ MaxAttempts \in Nat \ {0}
    /\ MaxTime \in Nat /\ MaxSwitches \in Nat /\ MaxErrors \in Nat
    /\ MaxRestarts \in Nat /\ MaxRefusals \in Nat /\ MaxRejections \in Nat

VARIABLES
    now,          \* the clock, in ticks
    feeds,        \* table feeds: is_active, import_vehicles, last import (0 is NULL)
    loaded,       \* the feeds the vehicle importer has loaded
    downtimes,    \* table feed_downtime: row i has downtime_id i; end 0 is NULL
    lastCheck,    \* LastCheck: "active", "inactive" or "unseen"
    rows,         \* the feeds the running check has read and not finished
    currentTime,  \* when it began
    pc,           \* where it is
    current,      \* the downtime_id it is working on
    queue,        \* notificationChan
    dropped,      \* history: notifications that found the queue full
    sending,      \* the notification in SendAlert, none when the set is empty
    attempt,      \* posts made for it
    chat,         \* the messages in the Telegram chat
    switches, errors, restarts, refusals, rejections   \* counters for the bounds

world   == <<now, feeds, loaded>>
checker == <<lastCheck, rows, currentTime, pc, current>>
channel == <<queue, dropped>>
worker  == <<sending, attempt, chat>>
counters == <<switches, errors, restarts, refusals, rejections>>
vars == <<world, downtimes, checker, channel, worker, counters>>

-----------------------------------------------------------------------------
FeedRows == [active : BOOLEAN, import : BOOLEAN, last : Nat]
Downtimes == [feed : Feeds, start : Nat, end : Nat, notified : BOOLEAN, recovered : BOOLEAN]
Notifications == [type : {"downtime", "recovery", "enabled", "disabled"},
                  feed : Feeds, downtime : Nat]
Labels == {"sleep", "feed", "close", "alert", "mark", "recovery", "markRecovery"}

TypeOK ==
    /\ now \in Nat
    /\ feeds \in [Feeds -> FeedRows]
    /\ loaded \in SUBSET Feeds
    /\ downtimes \in Seq(Downtimes)
    /\ lastCheck \in [Feeds -> {"unseen", "active", "inactive"}]
    /\ DOMAIN rows \subseteq Feeds
    /\ rows \in [DOMAIN rows -> FeedRows]
    /\ currentTime \in Nat
    /\ pc \in Labels
    /\ current \in Nat
    /\ pc \in {"alert", "mark", "recovery", "markRecovery"} => current \in DOMAIN downtimes
    /\ queue \in Seq(Notifications) /\ dropped \in Nat
    /\ sending \in SUBSET Notifications
    /\ attempt \in Nat
    /\ chat \in Seq(Notifications)
    /\ switches \in Nat /\ errors \in Nat /\ restarts \in Nat
    /\ refusals \in Nat /\ rejections \in Nat

Init ==
    /\ now = 1
    /\ \E on \in SUBSET Feeds :
          feeds = [f \in Feeds |-> [active |-> f \in on, import |-> TRUE, last |-> 0]]
    /\ loaded = {}
    /\ downtimes = <<>>
    /\ lastCheck = [f \in Feeds |-> "unseen"]
    /\ rows = <<>>
    /\ currentTime = 0 /\ pc = "sleep" /\ current = 0
    /\ queue = <<>> /\ dropped = 0
    /\ sending = {} /\ attempt = 0 /\ chat = <<>>
    /\ switches = 0 /\ errors = 0 /\ restarts = 0 /\ refusals = 0 /\ rejections = 0

-----------------------------------------------------------------------------
(* The world of the monitor. *)
Tick ==
    /\ now < MaxTime /\ now' = now + 1
    /\ UNCHANGED <<feeds, loaded, downtimes, checker, channel, worker, counters>>

(* LoadFeeds of the vehicle importer. *)
ImporterLoads ==
    /\ loaded' = {f \in Feeds : feeds[f].active /\ feeds[f].import}
    /\ UNCHANGED <<now, feeds, downtimes, checker, channel, worker, counters>>

(* UpdateLastTimeSuccesfullyImported *)
ImporterSucceeds ==
    /\ \E succeeded \in SUBSET loaded :
          feeds' = [f \in Feeds |-> IF f \in succeeded THEN [feeds[f] EXCEPT !.last = now]
                                                       ELSE feeds[f]]
    /\ UNCHANGED <<now, loaded, downtimes, checker, channel, worker, counters>>

Switch(f) ==
    /\ switches < MaxSwitches /\ switches' = switches + 1
    /\ \/ feeds' = [feeds EXCEPT ![f].active = ~@]
       \/ feeds' = [feeds EXCEPT ![f].import = ~@]
    /\ UNCHANGED <<now, loaded, downtimes, checker, channel, worker, errors, restarts, refusals, rejections>>

-----------------------------------------------------------------------------
(* checkFeeds *)
Ongoing(f) == {i \in DOMAIN downtimes : downtimes[i].feed = f /\ downtimes[i].end = 0}

(* The one getOngoingDowntime returns. *)
NewestOngoing(f) == {i \in Ongoing(f) : \A j \in Ongoing(f) : downtimes[j].start <= downtimes[i].start}

(* A feed that never imported counts as down for 24 hours. *)
IsDown(row, time) == row.last = 0 \/ time - row.last > Threshold

(* A full queue drops the notification. *)
QueueNotification(n) ==
    IF Len(queue) < QueueCapacity
    THEN queue' = Append(queue, n) /\ UNCHANGED dropped
    ELSE dropped' = dropped + 1 /\ UNCHANGED queue

Notify(type, f, i) == QueueNotification([type |-> type, feed |-> f, downtime |-> i])

StartCheck ==
    /\ pc = "sleep"
    /\ rows' = feeds
    /\ currentTime' = now
    /\ pc' = "feed"
    /\ UNCHANGED <<world, downtimes, lastCheck, current, channel, worker, counters>>

(* The feeds come in the order of their ids. *)
Checking(f, label) == pc = label /\ f \in DOMAIN rows /\ \A g \in DOMAIN rows : f <= g

GoTo(label, i) == pc' = label /\ current' = i /\ UNCHANGED <<lastCheck, rows, currentTime>>

Seen(row) == IF row.active THEN "active" ELSE "inactive"

Finish(f) ==
    /\ lastCheck' = [lastCheck EXCEPT ![f] = Seen(rows[f])]
    /\ rows' = [g \in DOMAIN rows \ {f} |-> rows[g]]
    /\ IF DOMAIN rows = {f} THEN pc' = "sleep" /\ currentTime' = 0
                            ELSE pc' = "feed" /\ UNCHANGED currentTime
    /\ current' = 0

Switched(f) == lastCheck[f] \notin {"unseen", Seen(rows[f])}
(* Mutant: a feed that never imported anything is not monitored. *)
MonitoredOnceImported(f) == rows[f].import /\ rows[f].active /\ rows[f].last # 0

Monitored(f) == rows[f].import /\ rows[f].active

NoticeDisabled(f) ==
    /\ Checking(f, "feed") /\ Switched(f) /\ ~rows[f].active
    /\ Notify("disabled", f, 0)
    /\ GoTo("close", 0)
    /\ UNCHANGED <<world, downtimes, worker, counters>>

(* Mutant: the downtime of a feed that was disabled stays open. *)
CloseOngoingDowntimeSkipped(f) ==
    /\ Checking(f, "close")
    /\ Finish(f)
    /\ UNCHANGED <<world, downtimes, channel, worker, counters>>

(* Mutant: without the condition downtime_end IS NULL. *)
CloseAllDowntimes(f) ==
    /\ Checking(f, "close")
    /\ downtimes' = [i \in DOMAIN downtimes |->
                        IF downtimes[i].feed = f THEN [downtimes[i] EXCEPT !.end = currentTime]
                                                 ELSE downtimes[i]]
    /\ Finish(f)
    /\ UNCHANGED <<world, channel, worker, counters>>

CloseOngoingDowntime(f) ==
    /\ Checking(f, "close")
    /\ downtimes' = [i \in DOMAIN downtimes |->
                        IF i \in Ongoing(f) THEN [downtimes[i] EXCEPT !.end = currentTime]
                                            ELSE downtimes[i]]
    /\ Finish(f)
    /\ UNCHANGED <<world, channel, worker, counters>>

(* An enabled feed is announced, then its downtime is checked like that of  *)
(* all others. LastCheck is assigned at the end; nobody reads it before.    *)
NoticeEnabled(f) ==
    /\ Checking(f, "feed") /\ Switched(f) /\ rows[f].active
    /\ Notify("enabled", f, 0)
    /\ lastCheck' = [lastCheck EXCEPT ![f] = Seen(rows[f])]
    /\ UNCHANGED <<world, downtimes, rows, currentTime, pc, current, worker, counters>>

(* Mutant: the ongoing downtime of a feed that is up may be overlooked. *)
NothingNewWhenUp(f) ==
    /\ Checking(f, "feed") /\ ~Switched(f)
    /\ Monitored(f) => (IsDown(rows[f], currentTime) => Ongoing(f) # {})
    /\ Finish(f)
    /\ UNCHANGED <<world, downtimes, channel, worker, counters>>

(* checkDowntime, when there is nothing to record, or no reason to look. *)
NothingNew(f) ==
    /\ Checking(f, "feed") /\ ~Switched(f)
    /\ Monitored(f) => (IsDown(rows[f], currentTime) <=> Ongoing(f) # {})
    /\ Finish(f)
    /\ UNCHANGED <<world, downtimes, channel, worker, counters>>

(* Mutant: a monitor that has just started does not look for ongoing ones. *)
InsertDowntimeAtFirstSight(f) ==
    /\ IsDown(rows[f], currentTime) /\ (lastCheck[f] = "unseen" \/ Ongoing(f) = {})
    /\ downtimes' = Append(downtimes, [feed |-> f, start |-> currentTime, end |-> 0,
                                       notified |-> FALSE, recovered |-> FALSE])

(* createDowntimeRecord *)
InsertDowntime(f) ==
    /\ IsDown(rows[f], currentTime) /\ Ongoing(f) = {}
    /\ downtimes' = Append(downtimes, [feed |-> f, start |-> currentTime, end |-> 0,
                                       notified |-> FALSE, recovered |-> FALSE])

(* closeDowntimeRecord *)
EndDowntime(f, i) ==
    /\ ~IsDown(rows[f], currentTime) /\ i \in NewestOngoing(f)
    /\ downtimes' = [downtimes EXCEPT ![i].end = currentTime]

CheckDowntime(f) == Checking(f, "feed") /\ ~Switched(f) /\ Monitored(f)

(* Mutant: the id of the new row is not returned. *)
RecordDowntimeWithoutId(f) ==
    /\ CheckDowntime(f)
    /\ InsertDowntime(f)
    /\ GoTo("alert", 0)
    /\ UNCHANGED <<world, channel, worker, counters>>

RecordDowntime(f) ==
    /\ CheckDowntime(f)
    /\ InsertDowntime(f)
    /\ GoTo("alert", Len(downtimes) + 1)
    /\ UNCHANGED <<world, channel, worker, counters>>

QueueAlert(f) ==
    /\ Checking(f, "alert")
    /\ Notify("downtime", f, current)
    /\ GoTo("mark", current)
    /\ UNCHANGED <<world, downtimes, worker, counters>>

MarkNotificationSent(f) ==
    /\ Checking(f, "mark")
    /\ downtimes' = [downtimes EXCEPT ![current].notified = TRUE]
    /\ Finish(f)
    /\ UNCHANGED <<world, channel, worker, counters>>

CloseDowntime(f) ==
    /\ CheckDowntime(f)
    /\ \E i \in DOMAIN downtimes : EndDowntime(f, i) /\ GoTo("recovery", i)
    /\ UNCHANGED <<world, channel, worker, counters>>

QueueRecovery(f) ==
    /\ Checking(f, "recovery")
    /\ Notify("recovery", f, current)
    /\ GoTo("markRecovery", current)
    /\ UNCHANGED <<world, downtimes, worker, counters>>

MarkRecoveryNotificationSent(f) ==
    /\ Checking(f, "markRecovery")
    /\ downtimes' = [downtimes EXCEPT ![current].recovered = TRUE]
    /\ Finish(f)
    /\ UNCHANGED <<world, channel, worker, counters>>

(* A statement of the check fails, or only its answer gets lost. It is      *)
(* logged, or checkDowntime returns, and the check goes on with the next    *)
(* feed; no later check knows of it.                                        *)
StatementFails(f) ==
    /\ errors < MaxErrors /\ errors' = errors + 1
    /\ \/ /\ CheckDowntime(f)
          /\ \/ UNCHANGED downtimes
             \/ InsertDowntime(f)
             \/ \E i \in DOMAIN downtimes : EndDowntime(f, i)
       \/ /\ \E label \in {"close", "mark", "markRecovery"} : Checking(f, label)
          /\ UNCHANGED downtimes
    /\ Finish(f)
    /\ UNCHANGED <<world, channel, worker, switches, restarts, refusals, rejections>>

CheckStep ==
    \/ StartCheck
    \/ \E f \in Feeds :
          \/ NoticeDisabled(f) \/ CloseOngoingDowntime(f) \/ NoticeEnabled(f)
          \/ NothingNew(f)
          \/ RecordDowntime(f) \/ QueueAlert(f) \/ MarkNotificationSent(f)
          \/ CloseDowntime(f) \/ QueueRecovery(f) \/ MarkRecoveryNotificationSent(f)

-----------------------------------------------------------------------------
(* notificationProcessor and SendAlert *)
TakeNotification ==
    /\ sending = {} /\ queue # <<>>
    /\ sending' = {Head(queue)} /\ attempt' = 1
    /\ queue' = Tail(queue) /\ UNCHANGED dropped
    /\ UNCHANGED <<world, downtimes, checker, chat, counters>>

Sent == sending' = {} /\ attempt' = 0

Deliver ==
    /\ \E n \in sending : chat' = Append(chat, n)
    /\ Sent
    /\ UNCHANGED <<world, downtimes, checker, channel, counters>>

(* The next attempt, unless this was the last one. *)
TryAgain ==
    IF attempt < MaxAttempts THEN attempt' = attempt + 1 /\ UNCHANGED sending ELSE Sent

(* Mutant: what cannot be sent goes to the end of the queue. *)
TryAgainLater ==
    /\ sending # {}
    /\ refusals < MaxRefusals /\ refusals' = refusals + 1
    /\ \E n \in sending : QueueNotification(n)
    /\ Sent
    /\ UNCHANGED <<world, downtimes, checker, chat, switches, errors, restarts, rejections>>

(* The post fails or is answered by 429 or 5xx. *)
Refuse ==
    /\ sending # {}
    /\ refusals < MaxRefusals /\ refusals' = refusals + 1
    /\ TryAgain
    /\ UNCHANGED <<world, downtimes, checker, channel, chat, switches, errors, restarts, rejections>>

(* Telegram has the message, its answer is lost. *)
DeliverUnanswered ==
    /\ refusals < MaxRefusals /\ refusals' = refusals + 1
    /\ \E n \in sending : chat' = Append(chat, n)
    /\ TryAgain
    /\ UNCHANGED <<world, downtimes, checker, channel, switches, errors, restarts, rejections>>

(* 400, 401 or 403: not tried again. *)
Reject ==
    /\ sending # {}
    /\ rejections < MaxRejections /\ rejections' = rejections + 1
    /\ Sent
    /\ UNCHANGED <<world, downtimes, checker, channel, chat, switches, errors, restarts, refusals>>

WorkerStep == TakeNotification \/ Deliver

-----------------------------------------------------------------------------
(* The monitor is killed and started again: the queue and LastCheck are gone. *)
Restart ==
    /\ restarts < MaxRestarts /\ restarts' = restarts + 1
    /\ lastCheck' = [f \in Feeds |-> "unseen"]
    /\ rows' = <<>> /\ currentTime' = 0 /\ pc' = "sleep" /\ current' = 0
    /\ queue' = <<>> /\ UNCHANGED dropped /\ Sent
    /\ UNCHANGED <<world, downtimes, chat, switches, errors, refusals, rejections>>

Next ==
    \/ Tick \/ ImporterLoads \/ ImporterSucceeds \/ \E f \in Feeds : Switch(f)
    \/ CheckStep \/ \E f \in Feeds : StatementFails(f)
    \/ WorkerStep \/ Refuse \/ DeliverUnanswered \/ Reject
    \/ Restart

Spec == Init /\ [][Next]_vars

(* The loop of MonitorFeeds and the worker are goroutines that are always  *)
(* scheduled, and a check begins every minute. What the importer, the      *)
(* administrator, Telegram and the database do is not owed to anyone.      *)
Fairness == WF_vars(CheckStep) /\ WF_vars(WorkerStep)
FairSpec == Spec /\ Fairness

-----------------------------------------------------------------------------
(* Properties. *)

(* Whatever fails and whenever the monitor restarts, the downtimes of a     *)
(* feed follow each other: only the newest one is open, none begins before  *)
(* the one before it has ended, none ends before it began. The statistics   *)
(* of cmd/feed_monitor/README.md add these periods up.                      *)
DowntimesInOrder ==
    /\ \A i \in DOMAIN downtimes :
          downtimes[i].end = 0 \/ downtimes[i].start <= downtimes[i].end
    /\ \A i, j \in DOMAIN downtimes :
          i < j /\ downtimes[i].feed = downtimes[j].feed
          => downtimes[i].end # 0 /\ downtimes[i].end <= downtimes[j].start

(* The end of a downtime is written once: neither a feed that is disabled   *)
(* later nor a later recovery moves it (feed_monitor.go 308-326).           *)
EndedDowntimesStay ==
    [][\A i \in DOMAIN downtimes :
          downtimes[i].end # 0 => downtimes'[i].end = downtimes[i].end]_vars

(* Whatever is lost, dropped or sent twice, the chat never goes back: about *)
(* a feed it tells of one downtime after the other, and no alert follows    *)
(* the recovery of its own downtime.                                        *)
AlertsInOrder ==
    \A k, l \in DOMAIN chat :
        /\ k < l /\ chat[k].feed = chat[l].feed
        /\ chat[k].downtime # 0 /\ chat[l].downtime # 0
        => /\ chat[k].downtime <= chat[l].downtime
           /\ chat[k].downtime = chat[l].downtime /\ chat[k].type = "recovery"
              => chat[l].type = "recovery"

(* When no statement failed, no restart and no refused or dropped message   *)
(* lost an alert and all is quiet, who reads the chat knows which feeds     *)
(* have a downtime: those whose last message tells of one.                  *)
Quiet == pc = "sleep" /\ queue = <<>> /\ sending = {}
NothingLost ==
    /\ errors = 0 /\ restarts = 0 /\ rejections = 0 /\ dropped = 0
    /\ refusals < MaxAttempts
LastMessage(f) == {k \in DOMAIN chat : /\ chat[k].feed = f
                                       /\ \A l \in DOMAIN chat : chat[l].feed = f => l <= k}
ChatTellsStatus ==
    Quiet /\ NothingLost => \A f \in Feeds :
        Ongoing(f) # {} <=> \E k \in LastMessage(f) : chat[k].type = "downtime"

(* A monitored feed that stays down gets a downtime, also when it never     *)
(* imported anything and when the monitor was away as it went down.         *)
MonitoredNow(f) == feeds[f].active /\ feeds[f].import
DownIsRecorded ==
    \A f \in Feeds :
        (MonitoredNow(f) /\ IsDown(feeds[f], now))
        ~> (Ongoing(f) # {} \/ ~MonitoredNow(f) \/ ~IsDown(feeds[f], now))

(* The downtime of a monitored feed that stays up is closed, also when it   *)
(* was recorded by a monitor that is gone.                                  *)
UpIsClosed ==
    \A f \in Feeds :
        (MonitoredNow(f) /\ ~IsDown(feeds[f], now) /\ Ongoing(f) # {})
        ~> (Ongoing(f) = {} \/ ~MonitoredNow(f) \/ IsDown(feeds[f], now))
=============================================================================
