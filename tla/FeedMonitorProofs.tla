------------------------- MODULE FeedMonitorProofs -------------------------
(***************************************************************************)
(* Theorems about FeedMonitor, for any set of feeds, any threshold and     *)
(* queue and any bounds, with every fault the module allows.               *)
(***************************************************************************)
EXTENDS FeedMonitor, TLAPS

-----------------------------------------------------------------------------
(* What can happen to the table feed_downtime in one step. *)

Opened(f) ==
    /\ Ongoing(f) = {}
    /\ downtimes' = Append(downtimes, [feed |-> f, start |-> currentTime, end |-> 0,
                                       notified |-> FALSE, recovered |-> FALSE])

Ended(S) == downtimes' = [i \in DOMAIN downtimes |->
                             IF i \in S THEN [downtimes[i] EXCEPT !.end = currentTime]
                                        ELSE downtimes[i]]

Marked == \E i \in DOMAIN downtimes :
             \/ downtimes' = [downtimes EXCEPT ![i].notified = TRUE]
             \/ downtimes' = [downtimes EXCEPT ![i].recovered = TRUE]

LEMMA OpenedType ==
    ASSUME TypeOK, NEW f \in Feeds, Opened(f)
    PROVE  /\ downtimes' \in Seq(Downtimes)
           /\ DOMAIN downtimes' = DOMAIN downtimes \cup {Len(downtimes) + 1}
           /\ \A i \in DOMAIN downtimes : downtimes'[i] = downtimes[i]
           /\ downtimes'[Len(downtimes) + 1].feed = f
           /\ downtimes'[Len(downtimes) + 1].start = currentTime
           /\ downtimes'[Len(downtimes) + 1].end = 0
  <1> DEFINE row == [feed |-> f, start |-> currentTime, end |-> 0,
                     notified |-> FALSE, recovered |-> FALSE]
  <1>1. downtimes \in Seq(Downtimes) /\ row \in Downtimes
    BY DEF TypeOK, Downtimes
  <1>2. downtimes' = Append(downtimes, row)
    BY DEF Opened
  <1>3. row.feed = f /\ row.start = currentTime /\ row.end = 0
    OBVIOUS
  <1> HIDE DEF row
  <1>4. QED
    BY <1>1, <1>2, <1>3

LEMMA EndedType ==
    ASSUME TypeOK, NEW S, Ended(S)
    PROVE  /\ downtimes' \in Seq(Downtimes)
           /\ DOMAIN downtimes' = DOMAIN downtimes
           /\ \A i \in DOMAIN downtimes :
                 /\ downtimes'[i].feed = downtimes[i].feed
                 /\ downtimes'[i].start = downtimes[i].start
                 /\ downtimes'[i].end = IF i \in S THEN currentTime ELSE downtimes[i].end
  <1>1. downtimes \in Seq(Downtimes) /\ currentTime \in Nat
    BY DEF TypeOK
  <1>2. DOMAIN downtimes = 1..Len(downtimes) /\ Len(downtimes) \in Nat
    BY <1>1
  <1>3. \A i \in DOMAIN downtimes :
           /\ downtimes'[i] \in Downtimes
           /\ downtimes'[i].feed = downtimes[i].feed
           /\ downtimes'[i].start = downtimes[i].start
           /\ downtimes'[i].end = IF i \in S THEN currentTime ELSE downtimes[i].end
    <2> SUFFICES ASSUME NEW i \in DOMAIN downtimes
                 PROVE  /\ downtimes'[i] \in Downtimes
                        /\ downtimes'[i].feed = downtimes[i].feed
                        /\ downtimes'[i].start = downtimes[i].start
                        /\ downtimes'[i].end = IF i \in S THEN currentTime ELSE downtimes[i].end
      OBVIOUS
    <2>1. downtimes[i] \in Downtimes
      BY <1>1
    <2>2. downtimes'[i] = IF i \in S THEN [downtimes[i] EXCEPT !.end = currentTime]
                                     ELSE downtimes[i]
      BY DEF Ended
    <2>3. QED
      BY <1>1, <2>1, <2>2 DEF Downtimes
  <1>4. DOMAIN downtimes' = DOMAIN downtimes
    BY DEF Ended
  <1>5. downtimes' \in [1..Len(downtimes) -> Downtimes]
    BY <1>2, <1>3, <1>4 DEF Ended
  <1>6. QED
    BY <1>2, <1>3, <1>4, <1>5

LEMMA MarkedType ==
    ASSUME TypeOK, Marked
    PROVE  /\ downtimes' \in Seq(Downtimes)
           /\ DOMAIN downtimes' = DOMAIN downtimes
           /\ \A i \in DOMAIN downtimes : /\ downtimes'[i].feed = downtimes[i].feed
                                          /\ downtimes'[i].start = downtimes[i].start
                                          /\ downtimes'[i].end = downtimes[i].end
  <1>1. downtimes \in Seq(Downtimes)
    BY DEF TypeOK
  <1>2. PICK i \in DOMAIN downtimes :
           \/ downtimes' = [downtimes EXCEPT ![i].notified = TRUE]
           \/ downtimes' = [downtimes EXCEPT ![i].recovered = TRUE]
    BY DEF Marked
  <1>3. DOMAIN downtimes' = DOMAIN downtimes
    BY <1>2
  <1>4. \A j \in DOMAIN downtimes :
           /\ downtimes'[j] \in Downtimes
           /\ downtimes'[j].feed = downtimes[j].feed
           /\ downtimes'[j].start = downtimes[j].start
           /\ downtimes'[j].end = downtimes[j].end
    <2> SUFFICES ASSUME NEW j \in DOMAIN downtimes
                 PROVE  /\ downtimes'[j] \in Downtimes
                        /\ downtimes'[j].feed = downtimes[j].feed
                        /\ downtimes'[j].start = downtimes[j].start
                        /\ downtimes'[j].end = downtimes[j].end
      OBVIOUS
    <2>1. downtimes[j] \in Downtimes
      BY <1>1
    <2>2. \/ downtimes'[j] = downtimes[j]
          \/ downtimes'[j] = [downtimes[j] EXCEPT !.notified = TRUE]
          \/ downtimes'[j] = [downtimes[j] EXCEPT !.recovered = TRUE]
      BY <1>2
    <2>3. QED
      BY <2>1, <2>2 DEF Downtimes
  <1>5. downtimes' \in [1..Len(downtimes) -> Downtimes] /\ Len(downtimes) \in Nat
    BY <1>1, <1>2, <1>3, <1>4
  <1>6. QED
    BY <1>3, <1>4, <1>5

LEMMA EndDowntimeEnds ==
    ASSUME TypeOK, NEW f \in Feeds, NEW i \in DOMAIN downtimes, EndDowntime(f, i)
    PROVE  i \in Ongoing(f) /\ Ended({i})
  <1>1. downtimes \in Seq(Downtimes) /\ i \in Ongoing(f)
    BY DEF TypeOK, EndDowntime, NewestOngoing
  <1>2. downtimes' = [downtimes EXCEPT ![i].end = currentTime]
    BY DEF EndDowntime
  <1>3. QED
    BY <1>1, <1>2 DEF Ended

-----------------------------------------------------------------------------
(* Type correctness. *)

CheckerType ==
    /\ lastCheck \in [Feeds -> {"unseen", "active", "inactive"}]
    /\ DOMAIN rows \subseteq Feeds
    /\ rows \in [DOMAIN rows -> FeedRows]
    /\ currentTime \in Nat
    /\ pc \in Labels
    /\ current \in Nat
    /\ pc \in {"alert", "mark", "recovery", "markRecovery"} => current \in DOMAIN downtimes

LEMMA NotifyType ==
    ASSUME TypeOK, NEW type \in {"downtime", "recovery", "enabled", "disabled"},
           NEW f \in Feeds, NEW i \in Nat, Notify(type, f, i)
    PROVE  queue' \in Seq(Notifications) /\ dropped' \in Nat
  <1> DEFINE n == [type |-> type, feed |-> f, downtime |-> i]
  <1>1. n \in Notifications
    BY DEF Notifications
  <1>2. /\ queue \in Seq(Notifications) /\ (queue' = queue \/ queue' = Append(queue, n))
        /\ dropped \in Nat /\ (dropped' = dropped \/ dropped' = dropped + 1)
    BY DEF TypeOK, Notify, QueueNotification
  <1> HIDE DEF n
  <1>3. QED
    BY <1>1, <1>2

LEMMA FinishType ==
    ASSUME TypeOK, NEW f \in Feeds, f \in DOMAIN rows, Finish(f)
    PROVE  CheckerType'
  <1>1. /\ lastCheck \in [Feeds -> {"unseen", "active", "inactive"}]
        /\ rows \in [DOMAIN rows -> FeedRows] /\ DOMAIN rows \subseteq Feeds
        /\ currentTime \in Nat
    BY DEF TypeOK
  <1>2. Seen(rows[f]) \in {"unseen", "active", "inactive"}
    BY DEF Seen
  <1>3. lastCheck' \in [Feeds -> {"unseen", "active", "inactive"}]
    BY <1>1, <1>2 DEF Finish
  <1>4. /\ rows' = [g \in DOMAIN rows \ {f} |-> rows[g]]
        /\ DOMAIN rows' = DOMAIN rows \ {f}
    BY DEF Finish
  <1>5. rows' \in [DOMAIN rows' -> FeedRows]
    BY <1>1, <1>4
  <1>6. currentTime' \in Nat /\ pc' \in {"sleep", "feed"} /\ current' = 0
    BY <1>1 DEF Finish
  <1>7. QED
    BY <1>1, <1>3, <1>4, <1>5, <1>6 DEF CheckerType, Labels

LEMMA GoToType ==
    ASSUME TypeOK, NEW label \in Labels \ {"sleep", "feed"}, NEW i, GoTo(label, i),
           (label = "close" /\ i = 0) \/ i \in DOMAIN downtimes', downtimes' \in Seq(Downtimes)
    PROVE  CheckerType'
  <1>1. i \in Nat
    OBVIOUS
  <1>2. QED
    BY <1>1 DEF GoTo, TypeOK, CheckerType, Labels

(* A step of the check keeps the types if it keeps those of what it writes. *)
LEMMA CheckType ==
    ASSUME TypeOK, CheckerType', downtimes' \in Seq(Downtimes), queue' \in Seq(Notifications),
           dropped' \in Nat,
           UNCHANGED <<world, worker, switches, restarts, refusals, rejections>>,
           errors' \in Nat
    PROVE  TypeOK'
  BY DEF TypeOK, CheckerType, world, worker

LEMMA CheckStepType == ASSUME TypeOK, CheckStep PROVE TypeOK'
  <1> USE DEF counters, channel
  <1>0. queue \in Seq(Notifications) /\ dropped \in Nat /\ downtimes \in Seq(Downtimes) /\ errors \in Nat
    BY DEF TypeOK
  <1>1. CASE StartCheck
    <2>1. CheckerType'
      BY <1>1 DEF StartCheck, TypeOK, CheckerType, Labels, world
    <2>2. QED
      BY <1>0, <1>1, <2>1, CheckType DEF StartCheck
  <1>2. ASSUME NEW f \in Feeds, NoticeDisabled(f) PROVE TypeOK'
    <2>1. queue' \in Seq(Notifications) /\ dropped' \in Nat
      BY <1>2, NotifyType DEF NoticeDisabled
    <2>2. CheckerType'
      BY <1>0, <1>2, GoToType DEF NoticeDisabled, Labels
    <2>3. QED
      BY <1>0, <1>2, <2>1, <2>2, CheckType DEF NoticeDisabled
  <1>3. ASSUME NEW f \in Feeds, CloseOngoingDowntime(f) PROVE TypeOK'
    <2>1. Ended(Ongoing(f))
      BY <1>3 DEF CloseOngoingDowntime, Ended
    <2>2. CheckerType'
      BY <1>3, FinishType DEF CloseOngoingDowntime, Checking
    <2>3. QED
      BY <1>0, <1>3, <2>1, <2>2, EndedType, CheckType DEF CloseOngoingDowntime
  <1>4. ASSUME NEW f \in Feeds, NoticeEnabled(f) PROVE TypeOK'
    <2>1. queue' \in Seq(Notifications) /\ dropped' \in Nat
      BY <1>4, NotifyType DEF NoticeEnabled
    <2>2. CheckerType'
      BY <1>4 DEF NoticeEnabled, TypeOK, CheckerType, Seen
    <2>3. QED
      BY <1>0, <1>4, <2>1, <2>2, CheckType DEF NoticeEnabled
  <1>5. ASSUME NEW f \in Feeds, NothingNew(f) PROVE TypeOK'
    <2>1. CheckerType'
      BY <1>5, FinishType DEF NothingNew, Checking
    <2>2. QED
      BY <1>0, <1>5, <2>1, CheckType DEF NothingNew
  <1>6. ASSUME NEW f \in Feeds, RecordDowntime(f) PROVE TypeOK'
    <2>1. Opened(f)
      BY <1>6 DEF RecordDowntime, InsertDowntime, Opened
    <2>2. CheckerType'
      BY <1>6, <2>1, OpenedType, GoToType DEF RecordDowntime, Labels
    <2>3. QED
      BY <1>0, <1>6, <2>1, <2>2, OpenedType, CheckType DEF RecordDowntime
  <1>7. ASSUME NEW f \in Feeds, QueueAlert(f) \/ QueueRecovery(f) PROVE TypeOK'
    <2>1. current \in DOMAIN downtimes /\ current \in Nat
      BY <1>7 DEF QueueAlert, QueueRecovery, Checking, TypeOK
    <2>2. queue' \in Seq(Notifications) /\ dropped' \in Nat
      BY <1>7, <2>1, NotifyType DEF QueueAlert, QueueRecovery
    <2>3. CheckerType'
      BY <1>0, <1>7, <2>1, GoToType DEF QueueAlert, QueueRecovery, Labels
    <2>4. QED
      BY <1>0, <1>7, <2>2, <2>3, CheckType DEF QueueAlert, QueueRecovery
  <1>8. ASSUME NEW f \in Feeds, MarkNotificationSent(f) \/ MarkRecoveryNotificationSent(f)
        PROVE  TypeOK'
    <2>1. current \in DOMAIN downtimes
      BY <1>8 DEF MarkNotificationSent, MarkRecoveryNotificationSent, Checking, TypeOK
    <2>2. Marked
      BY <1>8, <2>1 DEF MarkNotificationSent, MarkRecoveryNotificationSent, Marked
    <2>3. CheckerType'
      BY <1>8, FinishType DEF MarkNotificationSent, MarkRecoveryNotificationSent, Checking
    <2>4. QED
      BY <1>0, <1>8, <2>2, <2>3, MarkedType, CheckType
         DEF MarkNotificationSent, MarkRecoveryNotificationSent
  <1>9. ASSUME NEW f \in Feeds, CloseDowntime(f) PROVE TypeOK'
    <2>1. PICK i \in DOMAIN downtimes : EndDowntime(f, i) /\ GoTo("recovery", i)
      BY <1>9 DEF CloseDowntime
    <2>2. Ended({i})
      BY <2>1, EndDowntimeEnds
    <2>3. downtimes' \in Seq(Downtimes) /\ DOMAIN downtimes' = DOMAIN downtimes
      BY <2>2, EndedType
    <2>4. CheckerType'
      BY <2>1, <2>3, GoToType DEF Labels
    <2>5. QED
      BY <1>0, <1>9, <2>3, <2>4, CheckType DEF CloseDowntime
  <1>10. QED
    BY <1>1, <1>2, <1>3, <1>4, <1>5, <1>6, <1>7, <1>8, <1>9 DEF CheckStep

LEMMA StatementFailsType ==
    ASSUME TypeOK, NEW f \in Feeds, StatementFails(f)
    PROVE  TypeOK'
  <1>1. f \in DOMAIN rows /\ Finish(f)
    BY DEF StatementFails, CheckDowntime, Checking
  <1>2. CheckerType'
    BY <1>1, FinishType
  <1>3. /\ queue' \in Seq(Notifications) /\ dropped' \in Nat /\ errors' \in Nat
        /\ UNCHANGED <<world, worker, switches, restarts, refusals, rejections>>
    BY DEF StatementFails, TypeOK, channel
  <1>4. downtimes' \in Seq(Downtimes)
    <2>1. \/ UNCHANGED downtimes \/ InsertDowntime(f)
          \/ \E i \in DOMAIN downtimes : EndDowntime(f, i)
      BY DEF StatementFails
    <2>2. CASE UNCHANGED downtimes
      BY <2>2 DEF TypeOK
    <2>3. CASE InsertDowntime(f)
      BY <2>3, OpenedType DEF InsertDowntime, Opened
    <2>4. ASSUME NEW i \in DOMAIN downtimes, EndDowntime(f, i)
          PROVE  downtimes' \in Seq(Downtimes)
      BY <2>4, EndDowntimeEnds, EndedType
    <2>5. QED
      BY <2>1, <2>2, <2>3, <2>4
  <1>5. QED
    BY <1>2, <1>3, <1>4, CheckType

WorkerAct == WorkerStep \/ Refuse \/ DeliverUnanswered \/ Reject

LEMMA WorkerType == ASSUME TypeOK, WorkerAct PROVE TypeOK'
  <1> USE DEF channel
  <1>1. /\ queue' \in Seq(Notifications) /\ dropped' \in Nat
        /\ sending' \in SUBSET Notifications
        /\ attempt' \in Nat
        /\ refusals' \in Nat /\ rejections' \in Nat
    <2>1. /\ queue \in Seq(Notifications) /\ dropped \in Nat /\ sending \in SUBSET Notifications
          /\ attempt \in Nat /\ refusals \in Nat /\ rejections \in Nat
      BY DEF TypeOK
    <2>2. CASE TakeNotification
      <3>1. Head(queue) \in Notifications /\ Tail(queue) \in Seq(Notifications)
        BY <2>1, <2>2 DEF TakeNotification
      <3>2. QED
        BY <2>1, <2>2, <3>1 DEF TakeNotification, counters
    <2>3. CASE Deliver \/ Reject
      BY <2>1, <2>3 DEF Deliver, Reject, Sent, counters
    <2>4. CASE Refuse \/ DeliverUnanswered
      BY <2>1, <2>4 DEF Refuse, DeliverUnanswered, TryAgain, Sent
    <2>5. QED
      BY <2>2, <2>3, <2>4 DEF WorkerAct, WorkerStep
  <1>2. chat' \in Seq(Notifications)
    <2>1. chat' = chat \/ \E n \in sending : chat' = Append(chat, n)
      BY DEF WorkerAct, WorkerStep, TakeNotification, Deliver, Refuse, DeliverUnanswered, Reject
    <2>2. chat \in Seq(Notifications) /\ sending \in SUBSET Notifications
      BY DEF TypeOK
    <2>3. QED
      BY <2>1, <2>2
  <1>3. UNCHANGED <<world, downtimes, checker, switches, errors, restarts>>
    BY DEF WorkerAct, WorkerStep, TakeNotification, Deliver, Refuse, DeliverUnanswered,
           Reject, counters
  <1>4. QED
    BY <1>1, <1>2, <1>3 DEF TypeOK, world, checker

WorldAct == Tick \/ ImporterLoads \/ ImporterSucceeds \/ \E f \in Feeds : Switch(f)

LEMMA WorldType == ASSUME TypeOK, WorldAct PROVE TypeOK'
  <1>1. now' \in Nat /\ switches' \in Nat /\ loaded' \in SUBSET Feeds
    BY DEF WorldAct, Tick, ImporterLoads, ImporterSucceeds, Switch, TypeOK, counters
  <1>2. feeds' \in [Feeds -> FeedRows]
    <2>1. feeds \in [Feeds -> FeedRows] /\ now \in Nat
      BY DEF TypeOK
    <2>2. CASE ImporterSucceeds
      <3>1. PICK succeeded \in SUBSET loaded :
              feeds' = [f \in Feeds |-> IF f \in succeeded
                                        THEN [feeds[f] EXCEPT !.last = now] ELSE feeds[f]]
        BY <2>2 DEF ImporterSucceeds
      <3>2. \A f \in Feeds : [feeds[f] EXCEPT !.last = now] \in FeedRows /\ feeds[f] \in FeedRows
        BY <2>1 DEF FeedRows
      <3>3. QED
        BY <3>1, <3>2
    <2>3. ASSUME NEW f \in Feeds, Switch(f) PROVE feeds' \in [Feeds -> FeedRows]
      BY <2>1, <2>3 DEF Switch, FeedRows
    <2>4. QED
      BY <2>1, <2>2, <2>3 DEF WorldAct, Tick, ImporterLoads
  <1>3. UNCHANGED <<downtimes, checker, channel, worker, errors, restarts, refusals, rejections>>
    BY DEF WorldAct, Tick, ImporterLoads, ImporterSucceeds, Switch, counters
  <1>4. QED
    BY <1>1, <1>2, <1>3 DEF TypeOK, checker, channel, worker

LEMMA NextType == TypeOK /\ [Next]_vars => TypeOK'
  <1> SUFFICES ASSUME TypeOK, [Next]_vars PROVE TypeOK'
    OBVIOUS
  <1>1. CASE WorldAct
    BY <1>1, WorldType
  <1>2. CASE CheckStep
    BY <1>2, CheckStepType
  <1>3. ASSUME NEW f \in Feeds, StatementFails(f) PROVE TypeOK'
    BY <1>3, StatementFailsType
  <1>4. CASE WorkerAct
    BY <1>4, WorkerType
  <1>5. CASE Restart
    BY <1>5 DEF Restart, Sent, TypeOK, Labels, world
  <1>6. CASE UNCHANGED vars
    BY <1>6 DEF TypeOK, vars, world, checker, channel, worker, counters
  <1>7. QED
    BY <1>1, <1>2, <1>3, <1>4, <1>5, <1>6 DEF Next, WorldAct, WorkerAct

(* Every variable keeps its type, and the check works on a row that exists. *)
THEOREM MonitorTypeCorrect == Spec => []TypeOK
  <1>1. ASSUME Init PROVE TypeOK
    <2>1. feeds \in [Feeds -> FeedRows]
      BY <1>1 DEF Init, FeedRows
    <2>2. rows = <<>> /\ DOMAIN rows = {}
      BY <1>1 DEF Init
    <2>3. rows \in [DOMAIN rows -> FeedRows]
      BY <2>2
    <2>4. QED
      BY <1>1, <2>1, <2>2, <2>3 DEF Init, TypeOK, Labels
  <1>2. QED
    BY <1>1, NextType, PTL DEF Spec

-----------------------------------------------------------------------------
(* Downtimes follow each other. Time must not run backwards for it: what    *)
(* is in the table was written at the time of this check or before.         *)
Past ==
    /\ now >= 1 /\ currentTime <= now
    /\ \A i \in DOMAIN downtimes : downtimes[i].start <= now /\ downtimes[i].end <= now
    /\ pc # "sleep" =>
          /\ currentTime >= 1
          /\ \A i \in DOMAIN downtimes : /\ downtimes[i].start <= currentTime
                                         /\ downtimes[i].end <= currentTime

MonitorInv == Past /\ DowntimesInOrder

(* What a step may do to the table. *)
TableStep ==
    \/ UNCHANGED downtimes
    \/ \E f \in Feeds : Opened(f)
    \/ \E f \in Feeds, S \in SUBSET DOMAIN downtimes : S \subseteq Ongoing(f) /\ Ended(S)
    \/ Marked

LEMMA TableSteps ==
    ASSUME TypeOK, [Next]_vars
    PROVE  \/ UNCHANGED downtimes
           \/ TableStep /\ pc # "sleep" /\ UNCHANGED now /\ currentTime' \in {0, currentTime}
              /\ (pc' # "sleep" => currentTime' = currentTime)
  <1> DEFINE Within == /\ pc # "sleep" /\ UNCHANGED now /\ currentTime' \in {0, currentTime}
                       /\ (pc' # "sleep" => currentTime' = currentTime)
  <1>1. ASSUME NEW f \in Feeds, Finish(f), UNCHANGED world, pc # "sleep" PROVE Within
    BY <1>1 DEF Finish, world
  <1>2. CASE \E f \in Feeds : StatementFails(f)
    <2>1. PICK f \in Feeds : StatementFails(f)
      BY <1>2
    <2>2. Finish(f) /\ UNCHANGED world /\ pc # "sleep"
      BY <2>1 DEF StatementFails, CheckDowntime, Checking
    <2>3. \/ UNCHANGED downtimes \/ InsertDowntime(f)
          \/ \E i \in DOMAIN downtimes : EndDowntime(f, i)
      BY <2>1 DEF StatementFails
    <2>4. ASSUME NEW i \in DOMAIN downtimes, EndDowntime(f, i) PROVE TableStep
      <3>1. {i} \subseteq Ongoing(f) /\ Ended({i})
        BY <2>4, EndDowntimeEnds
      <3>2. QED
        BY <3>1 DEF TableStep
    <2>5. InsertDowntime(f) => TableStep
      BY DEF InsertDowntime, TableStep, Opened
    <2>6. QED
      BY <1>1, <2>2, <2>3, <2>4, <2>5
  <1>3. CASE CheckStep
    <2>1. ASSUME NEW f \in Feeds, CloseOngoingDowntime(f) PROVE TableStep /\ Within
      <3>1. Ongoing(f) \subseteq DOMAIN downtimes /\ Ended(Ongoing(f))
        BY <2>1 DEF CloseOngoingDowntime, Ended, Ongoing
      <3>2. TableStep
        BY <3>1 DEF TableStep
      <3>3. QED
        BY <1>1, <2>1, <3>2 DEF CloseOngoingDowntime, Checking
    <2>2. ASSUME NEW f \in Feeds, RecordDowntime(f) PROVE TableStep /\ Within
      BY <2>2 DEF RecordDowntime, CheckDowntime, Checking, InsertDowntime, Opened, TableStep,
                  GoTo, world
    <2>3. ASSUME NEW f \in Feeds, CloseDowntime(f) PROVE TableStep /\ Within
      <3>1. PICK i \in DOMAIN downtimes : EndDowntime(f, i)
        BY <2>3 DEF CloseDowntime
      <3>2. {i} \subseteq Ongoing(f) /\ Ended({i})
        BY <3>1, EndDowntimeEnds
      <3>3. TableStep
        BY <3>2 DEF TableStep
      <3>4. QED
        BY <2>3, <3>3 DEF CloseDowntime, CheckDowntime, Checking, GoTo, world
    <2>4. ASSUME NEW f \in Feeds, MarkNotificationSent(f) \/ MarkRecoveryNotificationSent(f)
          PROVE  TableStep /\ Within
      <3>1. current \in DOMAIN downtimes
        BY <2>4 DEF MarkNotificationSent, MarkRecoveryNotificationSent, Checking, TypeOK
      <3>2. TableStep
        BY <2>4, <3>1 DEF MarkNotificationSent, MarkRecoveryNotificationSent, Marked, TableStep
      <3>3. QED
        BY <1>1, <2>4, <3>2 DEF MarkNotificationSent, MarkRecoveryNotificationSent, Checking
    <2>5. QED
      BY <1>3, <2>1, <2>2, <2>3, <2>4
         DEF CheckStep, StartCheck, NoticeDisabled, NoticeEnabled, NothingNew,
             QueueAlert, QueueRecovery
  <1>4. CASE ~CheckStep /\ ~\E f \in Feeds : StatementFails(f)
    BY <1>4 DEF Next, Tick, ImporterLoads, ImporterSucceeds, Switch, WorkerStep,
                TakeNotification, Deliver, Refuse, DeliverUnanswered, Reject, Restart, vars
  <1>5. QED
    BY <1>2, <1>3, <1>4

(* Steps that leave the table alone move the clock forward at most. *)
LEMMA ClockSteps ==
    ASSUME TypeOK, Past, [Next]_vars
    PROVE  /\ now' >= now
           /\ \/ currentTime' \in {0, currentTime} /\ (pc' # "sleep" => pc # "sleep" /\ currentTime' = currentTime)
              \/ currentTime' = now /\ now' = now
  <1> USE DEF TypeOK, Past
  <1>1. CASE CheckStep
    <2>1. ASSUME NEW f \in Feeds, Finish(f), UNCHANGED world, pc # "sleep"
          PROVE  /\ now' = now /\ currentTime' \in {0, currentTime}
                 /\ (pc' # "sleep" => pc # "sleep" /\ currentTime' = currentTime)
      BY <2>1 DEF Finish, world
    <2>2. ASSUME NEW f \in Feeds,
                 \/ CloseOngoingDowntime(f) \/ NothingNew(f)
                 \/ MarkNotificationSent(f) \/ MarkRecoveryNotificationSent(f)
          PROVE  Finish(f) /\ UNCHANGED world /\ pc # "sleep"
      BY <2>2 DEF CloseOngoingDowntime, NothingNew, MarkNotificationSent,
                  MarkRecoveryNotificationSent, Checking
    <2>3. ASSUME NEW f \in Feeds,
                 \/ NoticeDisabled(f) \/ NoticeEnabled(f) \/ RecordDowntime(f)
                 \/ QueueAlert(f) \/ CloseDowntime(f) \/ QueueRecovery(f)
          PROVE  UNCHANGED <<now, currentTime>> /\ pc # "sleep"
      BY <2>3 DEF NoticeDisabled, NoticeEnabled, RecordDowntime, QueueAlert, CloseDowntime,
                  QueueRecovery, CheckDowntime, Checking, GoTo, world
    <2>4. CASE StartCheck
      BY <2>4 DEF StartCheck, world
    <2>5. QED
      BY <1>1, <2>1, <2>2, <2>3, <2>4 DEF CheckStep
  <1>2. CASE \E f \in Feeds : StatementFails(f)
    <2>1. PICK f \in Feeds : Finish(f) /\ UNCHANGED world /\ pc # "sleep"
      BY <1>2 DEF StatementFails, CheckDowntime, Checking
    <2>2. QED
      BY <2>1 DEF Finish, world
  <1>3. CASE ~CheckStep /\ ~\E f \in Feeds : StatementFails(f)
    BY <1>3 DEF Next, Tick, ImporterLoads, ImporterSucceeds, Switch, WorkerStep,
                TakeNotification, Deliver, Refuse, DeliverUnanswered, Reject, Restart, vars,
                world, checker
  <1>4. QED
    BY <1>1, <1>2, <1>3

(* What a step of the check makes of the table. *)
LEMMA TableKept ==
    ASSUME TypeOK, Past, DowntimesInOrder, TableStep, pc # "sleep"
    PROVE  /\ DowntimesInOrder'
           /\ \A i \in DOMAIN downtimes' : /\ downtimes'[i].start <= currentTime
                                           /\ downtimes'[i].end <= currentTime
           /\ \A i \in DOMAIN downtimes :
                 downtimes[i].end # 0 => downtimes'[i].end = downtimes[i].end
  <1>1. /\ currentTime \in Nat /\ currentTime >= 1
        /\ Len(downtimes) \in Nat /\ DOMAIN downtimes = 1..Len(downtimes)
        /\ \A i \in DOMAIN downtimes : downtimes[i] \in Downtimes
    BY DEF TypeOK, Past
  <1>2. \A i \in DOMAIN downtimes : /\ downtimes[i].start \in Nat /\ downtimes[i].end \in Nat
                                    /\ downtimes[i].start <= currentTime
                                    /\ downtimes[i].end <= currentTime
    BY <1>1 DEF Past, Downtimes
  <1>3. CASE UNCHANGED downtimes
    BY <1>2, <1>3 DEF DowntimesInOrder
  <1>4. CASE Marked
    BY <1>2, <1>4, MarkedType DEF DowntimesInOrder
  <1>5. ASSUME NEW f \in Feeds, NEW S \in SUBSET DOMAIN downtimes,
               S \subseteq Ongoing(f), Ended(S)
        PROVE  /\ DowntimesInOrder'
               /\ \A i \in DOMAIN downtimes' : /\ downtimes'[i].start <= currentTime
                                               /\ downtimes'[i].end <= currentTime
               /\ \A i \in DOMAIN downtimes :
                     downtimes[i].end # 0 => downtimes'[i].end = downtimes[i].end
    <2>1. /\ DOMAIN downtimes' = DOMAIN downtimes
          /\ \A i \in DOMAIN downtimes :
                /\ downtimes'[i].feed = downtimes[i].feed
                /\ downtimes'[i].start = downtimes[i].start
                /\ downtimes'[i].end = IF i \in S THEN currentTime ELSE downtimes[i].end
      BY <1>5, EndedType
    <2>2. \A i \in S : downtimes[i].end = 0
      BY <1>5 DEF Ongoing
    <2>3. \A i \in DOMAIN downtimes :
             downtimes[i].end # 0 => downtimes'[i].end = downtimes[i].end
      BY <2>1, <2>2
    <2>4. \A i \in DOMAIN downtimes' : /\ downtimes'[i].start <= currentTime
                                       /\ downtimes'[i].end <= currentTime
                                       /\ downtimes'[i].end = 0
                                          \/ downtimes'[i].start <= downtimes'[i].end
      BY <1>1, <1>2, <2>1 DEF DowntimesInOrder
    <2>5. \A i, j \in DOMAIN downtimes' :
             i < j /\ downtimes'[i].feed = downtimes'[j].feed
             => downtimes'[i].end # 0 /\ downtimes'[i].end <= downtimes'[j].start
      BY <2>1, <2>3 DEF DowntimesInOrder
    <2>6. QED
      BY <2>3, <2>4, <2>5 DEF DowntimesInOrder
  <1>6. ASSUME NEW f \in Feeds, Opened(f)
        PROVE  /\ DowntimesInOrder'
               /\ \A i \in DOMAIN downtimes' : /\ downtimes'[i].start <= currentTime
                                               /\ downtimes'[i].end <= currentTime
               /\ \A i \in DOMAIN downtimes :
                     downtimes[i].end # 0 => downtimes'[i].end = downtimes[i].end
    <2> DEFINE new == Len(downtimes) + 1
    <2>1. /\ DOMAIN downtimes' = DOMAIN downtimes \cup {new}
          /\ \A i \in DOMAIN downtimes : downtimes'[i] = downtimes[i]
          /\ downtimes'[new].feed = f
          /\ downtimes'[new].start = currentTime /\ downtimes'[new].end = 0
      BY <1>6, OpenedType
    <2>2. \A i \in DOMAIN downtimes : downtimes[i].feed = f => downtimes[i].end # 0
      BY <1>6 DEF Opened, Ongoing
    <2>3. new \in Nat /\ \A i \in DOMAIN downtimes : i \in Nat /\ i < new
      BY <1>1
    <2> HIDE DEF new
    <2>4. \A i \in DOMAIN downtimes' : /\ downtimes'[i].start <= currentTime
                                       /\ downtimes'[i].end <= currentTime
                                       /\ downtimes'[i].end = 0
                                          \/ downtimes'[i].start <= downtimes'[i].end
      BY <1>1, <1>2, <2>1 DEF DowntimesInOrder
    <2>5. \A i, j \in DOMAIN downtimes' :
             i < j /\ downtimes'[i].feed = downtimes'[j].feed
             => downtimes'[i].end # 0 /\ downtimes'[i].end <= downtimes'[j].start
      <3> SUFFICES ASSUME NEW i \in DOMAIN downtimes', NEW j \in DOMAIN downtimes',
                          i < j, downtimes'[i].feed = downtimes'[j].feed
                   PROVE  downtimes'[i].end # 0 /\ downtimes'[i].end <= downtimes'[j].start
        OBVIOUS
      <3>1. i \in DOMAIN downtimes
        BY <2>1, <2>3
      <3>2. CASE j \in DOMAIN downtimes
        BY <2>1, <3>1, <3>2 DEF DowntimesInOrder
      <3>3. CASE j = new
        BY <1>2, <2>1, <2>2, <3>1, <3>3
      <3>4. QED
        BY <2>1, <3>2, <3>3
    <2>6. QED
      BY <2>1, <2>4, <2>5 DEF DowntimesInOrder
  <1>7. QED
    BY <1>3, <1>4, <1>5, <1>6 DEF TableStep

LEMMA NextMonitorInv ==
    TypeOK /\ MonitorInv /\ [Next]_vars
    => /\ MonitorInv'
       /\ \A i \in DOMAIN downtimes :
             downtimes[i].end # 0 => downtimes'[i].end = downtimes[i].end
  <1> SUFFICES ASSUME TypeOK, Past, DowntimesInOrder, [Next]_vars
               PROVE  /\ Past' /\ DowntimesInOrder'
                      /\ \A i \in DOMAIN downtimes :
                            downtimes[i].end # 0 => downtimes'[i].end = downtimes[i].end
    BY DEF MonitorInv
  <1>1. /\ now \in Nat /\ now' \in Nat /\ currentTime \in Nat /\ currentTime' \in Nat
        /\ downtimes \in Seq(Downtimes) /\ downtimes' \in Seq(Downtimes)
    <2>1. TypeOK'
      BY NextType
    <2>2. QED
      BY <2>1 DEF TypeOK
  <1>2. /\ \A i \in DOMAIN downtimes : downtimes[i].start \in Nat /\ downtimes[i].end \in Nat
        /\ \A i \in DOMAIN downtimes' : downtimes'[i].start \in Nat /\ downtimes'[i].end \in Nat
    <2>1. /\ \A i \in DOMAIN downtimes : downtimes[i] \in Downtimes
          /\ \A i \in DOMAIN downtimes' : downtimes'[i] \in Downtimes
      BY <1>1
    <2>2. \A row \in Downtimes : row.start \in Nat /\ row.end \in Nat
      BY DEF Downtimes
    <2>3. QED
      BY <2>1, <2>2
  <1>3. CASE UNCHANGED downtimes
    <2>1. DowntimesInOrder'
      BY <1>3 DEF DowntimesInOrder
    <2>2. Past'
      BY <1>1, <1>2, <1>3, ClockSteps DEF Past
    <2>3. QED
      BY <1>3, <2>1, <2>2
  <1>4. CASE /\ TableStep /\ pc # "sleep" /\ UNCHANGED now /\ currentTime' \in {0, currentTime}
             /\ (pc' # "sleep" => currentTime' = currentTime)
    <2>1. /\ DowntimesInOrder'
          /\ \A i \in DOMAIN downtimes' : /\ downtimes'[i].start <= currentTime
                                          /\ downtimes'[i].end <= currentTime
          /\ \A i \in DOMAIN downtimes :
                downtimes[i].end # 0 => downtimes'[i].end = downtimes[i].end
      BY <1>4, TableKept
    <2>2. now >= 1 /\ currentTime >= 1 /\ currentTime <= now
      BY <1>4 DEF Past
    <2>3. Past'
      BY <1>1, <1>2, <1>4, <2>1, <2>2 DEF Past
    <2>4. QED
      BY <2>1, <2>3
  <1>5. QED
    BY <1>3, <1>4, TableSteps

LEMMA InitMonitorInv == Init => MonitorInv
  BY DEF Init, MonitorInv, Past, DowntimesInOrder

LEMMA MonitorInvariant == Spec => []MonitorInv
  BY InitMonitorInv, NextMonitorInv, MonitorTypeCorrect, PTL DEF Spec

(* Whatever fails and whenever the monitor restarts, the downtimes of a     *)
(* feed follow each other and at most the newest is open.                   *)
THEOREM DowntimesAreInOrder == Spec => []DowntimesInOrder
  <1>1. MonitorInv => DowntimesInOrder
    BY DEF MonitorInv
  <1>2. QED
    BY <1>1, MonitorInvariant, PTL

(* The end of a downtime is written once. *)
THEOREM EndsAreFinal == Spec => EndedDowntimesStay
  <1>1. TypeOK /\ MonitorInv /\ [Next]_vars
        => [\A i \in DOMAIN downtimes :
               downtimes[i].end # 0 => downtimes'[i].end = downtimes[i].end]_vars
    BY NextMonitorInv
  <1>2. QED
    BY <1>1, MonitorTypeCorrect, MonitorInvariant, PTL DEF Spec, EndedDowntimesStay

-----------------------------------------------------------------------------
(* The chat never goes back. The messages on their way, from the table to   *)
(* the queue, through SendAlert into the chat, are in order all along, and  *)
(* what the check is about to queue comes after all of them.                *)
Before(m, n) ==
    m.feed = n.feed /\ m.downtime # 0 /\ n.downtime # 0
    => /\ m.downtime <= n.downtime
       /\ m.downtime = n.downtime /\ m.type = "recovery" => n.type = "recovery"

InOrder(s) == \A k, l \in DOMAIN s : k < l => Before(s[k], s[l])

Piped == {chat[k] : k \in DOMAIN chat} \cup sending \cup {queue[k] : k \in DOMAIN queue}

PipeInOrder ==
    /\ InOrder(chat) /\ InOrder(queue)
    /\ \A m, n \in sending : Before(m, n)
    /\ \A k \in DOMAIN chat, n \in sending : Before(chat[k], n)
    /\ \A k \in DOMAIN chat, l \in DOMAIN queue : Before(chat[k], queue[l])
    /\ \A m \in sending, l \in DOMAIN queue : Before(m, queue[l])

(* A message names a downtime of its own feed. *)
PipeIsRecorded ==
    \A m \in Piped : m.downtime # 0 =>
        m.downtime \in DOMAIN downtimes /\ downtimes[m.downtime].feed = m.feed

(* The downtime that is about to be told of is the newest of the feed that *)
(* is checked.                                                              *)
NextIsNew ==
    pc \in {"alert", "recovery"} =>
        /\ downtimes[current].feed \in DOMAIN rows
        /\ \A g \in DOMAIN rows : downtimes[current].feed <= g
        /\ \A m \in Piped : m.feed = downtimes[current].feed =>
              /\ m.downtime <= current
              /\ pc = "alert" => m.downtime < current

PipeInv == PipeInOrder /\ PipeIsRecorded /\ NextIsNew

LEMMA PipeType ==
    ASSUME TypeOK
    PROVE  /\ Len(chat) \in Nat /\ DOMAIN chat = 1..Len(chat)
           /\ Len(queue) \in Nat /\ DOMAIN queue = 1..Len(queue)
           /\ \A m \in Piped : /\ m \in Notifications
                               /\ m.feed \in Nat /\ m.downtime \in Nat
  <1>1. chat \in Seq(Notifications) /\ queue \in Seq(Notifications) /\ sending \subseteq Notifications
    BY DEF TypeOK
  <1>2. \A n \in Notifications : n.feed \in Nat /\ n.downtime \in Nat
    BY FeedsAssumption DEF Notifications
  <1>3. QED
    BY <1>1, <1>2 DEF Piped

(* What is put into the queue must come after all that is on its way. *)
LEMMA Queued ==
    ASSUME TypeOK, PipeInOrder, NEW n \in Notifications, QueueNotification(n),
           UNCHANGED <<sending, chat>>, \A m \in Piped : Before(m, n)
    PROVE  PipeInOrder' /\ Piped' \subseteq Piped \cup {n}
  <1>1. CASE UNCHANGED queue
    BY <1>1 DEF PipeInOrder, InOrder, Piped
  <1>2. CASE queue' = Append(queue, n)
    <2>1. /\ Len(queue) \in Nat /\ DOMAIN queue = 1..Len(queue)
          /\ DOMAIN queue' = 1..(Len(queue) + 1)
          /\ \A l \in DOMAIN queue : queue'[l] = queue[l]
          /\ queue'[Len(queue) + 1] = n
      BY <1>2 DEF TypeOK
    <2>2. \A l \in DOMAIN queue' : l \in DOMAIN queue \/ l = Len(queue) + 1
      BY <2>1
    <2>3. Piped' \subseteq Piped \cup {n}
      BY <2>1, <2>2 DEF Piped
    <2>4. InOrder(queue)'
      <3> SUFFICES ASSUME NEW k \in DOMAIN queue', NEW l \in DOMAIN queue', k < l
                   PROVE  Before(queue'[k], queue'[l])
        BY DEF InOrder
      <3>1. k \in DOMAIN queue /\ queue[k] \in Piped
        BY <2>1 DEF Piped
      <3>2. CASE l \in DOMAIN queue
        BY <2>1, <3>1, <3>2 DEF PipeInOrder, InOrder
      <3>3. CASE l = Len(queue) + 1
        BY <2>1, <3>1, <3>3
      <3>4. QED
        BY <2>2, <3>2, <3>3
    <2>5. ASSUME NEW k \in DOMAIN chat, NEW l \in DOMAIN queue'
          PROVE  Before(chat[k], queue'[l])
      <3>1. chat[k] \in Piped
        BY DEF Piped
      <3>2. QED
        BY <2>1, <2>2, <3>1 DEF PipeInOrder
    <2>6. ASSUME NEW m \in sending, NEW l \in DOMAIN queue'
          PROVE  Before(m, queue'[l])
      <3>1. m \in Piped
        BY DEF Piped
      <3>2. QED
        BY <2>1, <2>2, <3>1 DEF PipeInOrder
    <2>7. InOrder(chat)' /\ \A k \in DOMAIN chat, m \in sending : Before(chat[k], m)
      BY DEF PipeInOrder, InOrder
    <2>8. QED
      BY <2>3, <2>4, <2>5, <2>6, <2>7 DEF PipeInOrder
  <1>3. QED
    BY <1>1, <1>2 DEF QueueNotification

(* The worker only moves messages forward. *)
LEMMA Moved ==
    ASSUME TypeOK, PipeInOrder, WorkerAct
    PROVE  PipeInOrder' /\ Piped' \subseteq Piped
  <1>1. CASE TakeNotification
    <2>1. /\ Len(queue) \in Nat /\ DOMAIN queue = 1..Len(queue) /\ Len(queue) > 0
          /\ DOMAIN queue' = 1..(Len(queue) - 1)
          /\ \A l \in DOMAIN queue' : queue'[l] = queue[l + 1] /\ l + 1 \in DOMAIN queue
          /\ sending' = {queue[1]} /\ 1 \in DOMAIN queue
          /\ chat' = chat
      BY <1>1 DEF TypeOK, TakeNotification
    <2>2. Piped' \subseteq Piped
      BY <2>1 DEF Piped
    <2>3. InOrder(queue)'
      <3> SUFFICES ASSUME NEW k \in DOMAIN queue', NEW l \in DOMAIN queue', k < l
                   PROVE  Before(queue'[k], queue'[l])
        BY DEF InOrder
      <3>1. k \in Nat /\ l \in Nat /\ k + 1 < l + 1
        BY <2>1
      <3>2. QED
        BY <2>1, <3>1 DEF PipeInOrder, InOrder
    <2>4. \A l \in DOMAIN queue' : Before(queue[1], queue'[l])
      <3> SUFFICES ASSUME NEW l \in DOMAIN queue' PROVE Before(queue[1], queue'[l])
        OBVIOUS
      <3>1. l \in Nat /\ 1 < l + 1
        BY <2>1
      <3>2. QED
        BY <2>1, <3>1 DEF PipeInOrder, InOrder
    <2>5. Before(queue[1], queue[1])
      <3>1. queue[1] \in Piped
        BY <2>1 DEF Piped
      <3>2. queue[1].downtime \in Nat
        BY <3>1, PipeType
      <3>3. QED
        BY <3>2 DEF Before
    <2>6. \A k \in DOMAIN chat, l \in DOMAIN queue' : Before(chat[k], queue'[l])
      BY <2>1 DEF PipeInOrder
    <2>7. InOrder(chat)' /\ \A k \in DOMAIN chat : Before(chat[k], queue[1])
      BY <2>1 DEF PipeInOrder, InOrder
    <2>8. QED
      BY <2>1, <2>2, <2>3, <2>4, <2>5, <2>6, <2>7 DEF PipeInOrder
  <1>2. CASE UNCHANGED <<chat, queue>> /\ sending' \subseteq sending
    BY <1>2 DEF PipeInOrder, InOrder, Piped
  <1>3. ASSUME NEW n \in sending, chat' = Append(chat, n), UNCHANGED queue, sending' \subseteq sending
        PROVE  PipeInOrder' /\ Piped' \subseteq Piped
    <2>1. /\ Len(chat) \in Nat /\ DOMAIN chat = 1..Len(chat)
          /\ DOMAIN chat' = 1..(Len(chat) + 1)
          /\ \A k \in DOMAIN chat : chat'[k] = chat[k]
          /\ chat'[Len(chat) + 1] = n
      BY <1>3 DEF TypeOK
    <2>2. \A k \in DOMAIN chat' : k \in DOMAIN chat \/ k = Len(chat) + 1
      BY <2>1
    <2>3. Piped' \subseteq Piped
      BY <1>3, <2>1, <2>2 DEF Piped
    <2>4. InOrder(chat)'
      <3> SUFFICES ASSUME NEW k \in DOMAIN chat', NEW l \in DOMAIN chat', k < l
                   PROVE  Before(chat'[k], chat'[l])
        BY DEF InOrder
      <3>1. k \in DOMAIN chat
        BY <2>1
      <3>2. QED
        BY <2>1, <2>2, <3>1 DEF PipeInOrder, InOrder
    <2>5. \A k \in DOMAIN chat', m \in sending' : Before(chat'[k], m)
      BY <1>3, <2>1, <2>2 DEF PipeInOrder
    <2>6. \A k \in DOMAIN chat', l \in DOMAIN queue' : Before(chat'[k], queue'[l])
      BY <1>3, <2>1, <2>2 DEF PipeInOrder
    <2>7. /\ InOrder(queue)' /\ \A l, m \in sending' : Before(l, m)
          /\ \A m \in sending', l \in DOMAIN queue' : Before(m, queue'[l])
      BY <1>3 DEF PipeInOrder, InOrder
    <2>8. QED
      BY <2>3, <2>4, <2>5, <2>6, <2>7 DEF PipeInOrder
  <1>4. QED
    BY <1>1, <1>2, <1>3 DEF WorkerAct, WorkerStep, Deliver, Refuse, DeliverUnanswered, Reject,
                            TryAgain, Sent, channel

(* Rows are added to feed_downtime and keep their feed. *)
LEMMA FeedsStay ==
    ASSUME TypeOK, [Next]_vars
    PROVE  /\ DOMAIN downtimes \subseteq DOMAIN downtimes'
           /\ \A i \in DOMAIN downtimes : downtimes'[i].feed = downtimes[i].feed
  <1>1. CASE UNCHANGED downtimes
    BY <1>1
  <1>2. ASSUME NEW f \in Feeds, Opened(f)
        PROVE  /\ DOMAIN downtimes \subseteq DOMAIN downtimes'
               /\ \A i \in DOMAIN downtimes : downtimes'[i].feed = downtimes[i].feed
    BY <1>2, OpenedType
  <1>3. ASSUME NEW S, Ended(S)
        PROVE  /\ DOMAIN downtimes \subseteq DOMAIN downtimes'
               /\ \A i \in DOMAIN downtimes : downtimes'[i].feed = downtimes[i].feed
    BY <1>3, EndedType
  <1>4. CASE Marked
    BY <1>4, MarkedType
  <1>5. QED
    BY <1>1, <1>2, <1>3, <1>4, TableSteps DEF TableStep

(* A check that neither records nor tells leaves the messages alone. *)
LEMMA PipeKept ==
    ASSUME TypeOK, PipeInv, [Next]_vars, PipeInOrder', Piped' \subseteq Piped,
           \/ pc' \notin {"alert", "recovery"}
           \/ UNCHANGED <<checker>>
    PROVE  PipeInv'
  <1>1. /\ DOMAIN downtimes \subseteq DOMAIN downtimes'
        /\ \A i \in DOMAIN downtimes : downtimes'[i].feed = downtimes[i].feed
    BY FeedsStay
  <1>2. PipeIsRecorded'
    BY <1>1 DEF PipeInv, PipeIsRecorded
  <1>3. NextIsNew'
    <2>1. CASE UNCHANGED checker
      <3>1. pc \in {"alert", "recovery"} => current \in DOMAIN downtimes
        BY DEF TypeOK
      <3>2. QED
        BY <1>1, <2>1, <3>1 DEF PipeInv, NextIsNew, checker
    <2>2. CASE pc' \notin {"alert", "recovery"}
      BY <2>2 DEF NextIsNew
    <2>3. QED
      BY <2>1, <2>2
  <1>4. QED
    BY <1>2, <1>3 DEF PipeInv

LEMMA NextPipeInv ==
    ASSUME TypeOK, MonitorInv, PipeInv, [Next]_vars
    PROVE  PipeInv'
  <1> USE DEF channel
  <1>1. ASSUME UNCHANGED <<queue, sending, chat>> PROVE PipeInOrder' /\ Piped' = Piped
    BY <1>1 DEF PipeInv, PipeInOrder, InOrder, Piped
  <1>2. CASE WorldAct \/ UNCHANGED vars
    <2>1. UNCHANGED <<queue, sending, chat, checker>>
      BY <1>2 DEF WorldAct, Tick, ImporterLoads, ImporterSucceeds, Switch, vars, worker
    <2>2. QED
      BY <1>1, <2>1, PipeKept
  <1>3. CASE WorkerAct
    <2>1. UNCHANGED checker
      BY <1>3 DEF WorkerAct, WorkerStep, TakeNotification, Deliver, Refuse, DeliverUnanswered,
                  Reject
    <2>2. PipeInOrder' /\ Piped' \subseteq Piped
      BY <1>3, Moved DEF PipeInv
    <2>3. QED
      BY <2>1, <2>2, PipeKept
  <1>4. CASE Restart
    <2>1. queue' = <<>> /\ sending' = {} /\ chat' = chat /\ pc' = "sleep"
      BY <1>4 DEF Restart, Sent
    <2>2. PipeInOrder' /\ Piped' \subseteq Piped
      BY <2>1 DEF PipeInv, PipeInOrder, InOrder, Piped
    <2>3. QED
      BY <2>1, <2>2, PipeKept
  <1>5. CASE StartCheck
    <2>1. UNCHANGED <<queue, sending, chat>> /\ pc' = "feed"
      BY <1>5 DEF StartCheck, worker
    <2>2. QED
      BY <1>1, <2>1, PipeKept
  <1>6. ASSUME NEW f \in Feeds,
               \/ CloseOngoingDowntime(f) \/ NothingNew(f) \/ MarkNotificationSent(f)
               \/ MarkRecoveryNotificationSent(f) \/ StatementFails(f)
        PROVE  PipeInv'
    <2>1. UNCHANGED <<queue, sending, chat>> /\ pc' \in {"sleep", "feed"}
      BY <1>6 DEF CloseOngoingDowntime, NothingNew, MarkNotificationSent,
                  MarkRecoveryNotificationSent, StatementFails, Finish, worker
    <2>2. QED
      BY <1>1, <2>1, PipeKept
  <1>7. ASSUME NEW f \in Feeds, NoticeDisabled(f) \/ NoticeEnabled(f)
        PROVE  PipeInv'
    <2>1. PICK n \in Notifications : QueueNotification(n) /\ n.downtime = 0
      BY <1>7 DEF NoticeDisabled, NoticeEnabled, Notify, Notifications
    <2>2. UNCHANGED <<sending, chat, downtimes>> /\ pc' \notin {"alert", "recovery"}
      BY <1>7 DEF NoticeDisabled, NoticeEnabled, GoTo, worker, Checking
    <2>3. PipeInOrder' /\ Piped' \subseteq Piped \cup {n}
      BY <2>1, <2>2, Queued DEF PipeInv, Before
    <2>4. PipeIsRecorded' /\ NextIsNew'
      BY <2>1, <2>2, <2>3 DEF PipeInv, PipeIsRecorded, NextIsNew
    <2>5. QED
      BY <2>3, <2>4 DEF PipeInv
  <1>8. ASSUME NEW f \in Feeds, RecordDowntime(f) PROVE PipeInv'
    <2>1. UNCHANGED <<queue, sending, chat, rows>> /\ pc' = "alert" /\ current' = Len(downtimes) + 1
      BY <1>8 DEF RecordDowntime, GoTo, worker
    <2>2. /\ DOMAIN downtimes \subseteq DOMAIN downtimes'
          /\ \A i \in DOMAIN downtimes : downtimes'[i].feed = downtimes[i].feed
          /\ downtimes'[Len(downtimes) + 1].feed = f
      BY <1>8, OpenedType DEF RecordDowntime, InsertDowntime, Opened
    <2>3. f \in DOMAIN rows /\ \A g \in DOMAIN rows : f <= g
      BY <1>8 DEF RecordDowntime, CheckDowntime, Checking
    <2>4. \A m \in Piped : m.downtime < Len(downtimes) + 1 /\ m.downtime <= Len(downtimes) + 1
      <3>1. \A m \in Piped : m.downtime \in Nat
        BY PipeType
      <3>2. Len(downtimes) \in Nat /\ DOMAIN downtimes = 1..Len(downtimes)
        BY DEF TypeOK
      <3>3. QED
        BY <3>1, <3>2 DEF PipeInv, PipeIsRecorded
    <2>5. Piped' = Piped /\ PipeInOrder'
      BY <1>1, <2>1
    <2>6. PipeIsRecorded'
      BY <2>2, <2>5 DEF PipeInv, PipeIsRecorded
    <2>7. NextIsNew'
      BY <2>1, <2>2, <2>3, <2>4, <2>5 DEF NextIsNew
    <2>8. QED
      BY <2>5, <2>6, <2>7 DEF PipeInv
  <1>9. ASSUME NEW f \in Feeds, CloseDowntime(f) PROVE PipeInv'
    <2>1. PICK i \in DOMAIN downtimes : EndDowntime(f, i) /\ GoTo("recovery", i)
      BY <1>9 DEF CloseDowntime
    <2>2. UNCHANGED <<queue, sending, chat, rows>> /\ pc' = "recovery" /\ current' = i
      BY <1>9, <2>1 DEF CloseDowntime, GoTo, worker
    <2>3. /\ DOMAIN downtimes \subseteq DOMAIN downtimes'
          /\ \A j \in DOMAIN downtimes : downtimes'[j].feed = downtimes[j].feed
      BY FeedsStay
    <2>4. f \in DOMAIN rows /\ \A g \in DOMAIN rows : f <= g
      BY <1>9 DEF CloseDowntime, CheckDowntime, Checking
    <2>5. i \in Ongoing(f)
      BY <2>1, EndDowntimeEnds
    <2>6. \A m \in Piped : m.feed = f => m.downtime <= i
      <3> SUFFICES ASSUME NEW m \in Piped, m.feed = f PROVE m.downtime <= i
        OBVIOUS
      <3>1. m.downtime \in Nat /\ i \in Nat
        BY PipeType DEF TypeOK
      <3>2. m.downtime # 0 => m.downtime \in DOMAIN downtimes /\ downtimes[m.downtime].feed = f
        BY DEF PipeInv, PipeIsRecorded
      <3>3. ~(m.downtime # 0 /\ i < m.downtime)
        BY <2>5, <3>2 DEF Ongoing, MonitorInv, DowntimesInOrder
      <3>4. QED
        BY <3>1, <3>3
    <2>7. Piped' = Piped /\ PipeInOrder'
      BY <1>1, <2>2
    <2>8. PipeIsRecorded'
      BY <2>3, <2>7 DEF PipeInv, PipeIsRecorded
    <2>9. NextIsNew'
      BY <2>2, <2>3, <2>4, <2>5, <2>6, <2>7 DEF NextIsNew, Ongoing
    <2>10. QED
      BY <2>7, <2>8, <2>9 DEF PipeInv
  <1>10. ASSUME NEW f \in Feeds, QueueAlert(f) \/ QueueRecovery(f) PROVE PipeInv'
    <2>1. /\ Checking(f, pc) /\ pc \in {"alert", "recovery"}
          /\ UNCHANGED <<sending, chat, downtimes>> /\ pc' \in {"mark", "markRecovery"}
      BY <1>10 DEF QueueAlert, QueueRecovery, Checking, GoTo, worker
    <2>2. current \in DOMAIN downtimes /\ current \in Nat
      BY <2>1 DEF TypeOK
    <2>3. downtimes[current].feed = f
      <3>1. downtimes[current] \in Downtimes /\ DOMAIN rows \subseteq Feeds
        BY <2>2 DEF TypeOK
      <3>2. downtimes[current].feed \in Nat /\ f \in Nat
        BY <3>1, FeedsAssumption DEF Downtimes
      <3>3. downtimes[current].feed <= f /\ f <= downtimes[current].feed
        BY <2>1 DEF PipeInv, NextIsNew, Checking
      <3>4. QED
        BY <3>2, <3>3
    <2>4. PICK n \in Notifications :
             /\ QueueNotification(n) /\ n.feed = f /\ n.downtime = current
             /\ pc = "recovery" => n.type = "recovery"
      BY <1>10, <2>2 DEF QueueAlert, QueueRecovery, Notify, Checking, Notifications
    <2>5. \A m \in Piped : Before(m, n)
      <3> SUFFICES ASSUME NEW m \in Piped, m.feed = f PROVE Before(m, n)
        BY <2>4 DEF Before
      <3>1. m.downtime \in Nat
        BY PipeType
      <3>2. m.downtime <= current /\ (pc = "alert" => m.downtime < current)
        BY <2>1, <2>3 DEF PipeInv, NextIsNew
      <3>3. QED
        BY <2>1, <2>2, <2>4, <3>1, <3>2 DEF Before
    <2>6. PipeInOrder' /\ Piped' \subseteq Piped \cup {n}
      BY <2>1, <2>4, <2>5, Queued DEF PipeInv
    <2>7. PipeIsRecorded' /\ NextIsNew'
      BY <2>1, <2>2, <2>3, <2>4, <2>6 DEF PipeInv, PipeIsRecorded, NextIsNew
    <2>8. QED
      BY <2>6, <2>7 DEF PipeInv
  <1>11. QED
    BY <1>2, <1>3, <1>4, <1>5, <1>6, <1>7, <1>8, <1>9, <1>10
       DEF Next, CheckStep, WorldAct, WorkerAct

LEMMA PipeInvariant == Spec => []PipeInv
  <1>1. Init => PipeInv
    BY DEF Init, PipeInv, PipeInOrder, InOrder, PipeIsRecorded, NextIsNew, Piped
  <1>2. TypeOK /\ MonitorInv /\ PipeInv /\ [Next]_vars => PipeInv'
    BY NextPipeInv
  <1>3. QED
    BY <1>1, <1>2, MonitorTypeCorrect, MonitorInvariant, PTL DEF Spec

(* Whatever is lost, dropped or sent twice, the chat tells of the downtimes *)
(* of a feed one after the other, and of none after its recovery.           *)
THEOREM AlertsAreInOrder == Spec => []AlertsInOrder
  <1>1. PipeInv => AlertsInOrder
    BY DEF PipeInv, PipeInOrder, InOrder, Before, AlertsInOrder
  <1>2. QED
    BY <1>1, PipeInvariant, PTL

-----------------------------------------------------------------------------
(* Who reads the chat knows the status. While messages are on their way, it *)
(* is the last one about the feed, in the queue, in SendAlert or in the     *)
(* chat, that tells whether the feed has a downtime; only the feed that is  *)
(* checked right now may be ahead of its messages.                          *)
Has(s, f) == \E k \in DOMAIN s : s[k].feed = f

DownLast(s, f) ==
    \E k \in DOMAIN s : /\ s[k].feed = f /\ s[k].type = "downtime"
                        /\ \A l \in DOMAIN s : s[l].feed = f => l <= k

Tells(f) ==
    \/ DownLast(queue, f)
    \/ /\ ~Has(queue, f)
       /\ \/ \E n \in sending : n.feed = f /\ n.type = "downtime"
          \/ (\A n \in sending : n.feed # f) /\ DownLast(chat, f)

Busy(f, labels) == \E label \in labels : Checking(f, label)

OneAtATime == /\ attempt <= refusals + 1
              /\ \A m, n \in sending : m = n

StatusTold ==
    \A f \in Feeds :
        /\ Busy(f, {"close"}) => ~Tells(f)
        /\ Busy(f, {"alert"}) => Ongoing(f) # {}
        /\ Busy(f, {"recovery"}) => Ongoing(f) = {}
        /\ ~Busy(f, {"close", "alert", "recovery"}) => (Tells(f) <=> Ongoing(f) # {})

(* A feed that was not seen active has no downtime, but for one that is     *)
(* being recorded.                                                          *)
OnlySeenAreDown ==
    \A f \in Feeds :
        /\ Busy(f, {"alert", "mark", "recovery", "markRecovery"}) => rows[f].active
        /\ lastCheck[f] # "active" /\ ~Busy(f, {"alert", "mark"}) => Ongoing(f) = {}

StatusInv == NothingLost => StatusTold /\ OnlySeenAreDown

LEMMA AppendLast ==
    ASSUME NEW s \in Seq(Notifications), NEW n \in Notifications, NEW f,
           NEW t, t = Append(s, n)
    PROVE  /\ Has(t, f) <=> Has(s, f) \/ n.feed = f
           /\ n.feed = f => (DownLast(t, f) <=> n.type = "downtime")
           /\ n.feed # f => (DownLast(t, f) <=> DownLast(s, f))
  <1> DEFINE new == Len(s) + 1
  <1>1. /\ new \in Nat /\ DOMAIN s = 1..Len(s) /\ DOMAIN t = DOMAIN s \cup {new}
        /\ \A k \in DOMAIN s : t[k] = s[k] /\ k \in Nat /\ k <= new /\ ~(new <= k)
        /\ t[new] = n
    OBVIOUS
  <1> HIDE DEF new
  <1>2. Has(t, f) <=> Has(s, f) \/ n.feed = f
    BY <1>1 DEF Has
  <1>3. ASSUME n.feed = f PROVE DownLast(t, f) <=> n.type = "downtime"
    <2>1. ASSUME DownLast(t, f) PROVE n.type = "downtime"
      <3>1. PICK k \in DOMAIN t : t[k].type = "downtime" /\ \A l \in DOMAIN t : t[l].feed = f => l <= k
        BY <2>1 DEF DownLast
      <3>2. k = new
        BY <1>1, <1>3, <3>1
      <3>3. QED
        BY <1>1, <3>1, <3>2
    <2>2. ASSUME n.type = "downtime" PROVE DownLast(t, f)
      <3>1. new \in DOMAIN t /\ \A l \in DOMAIN t : l <= new
        BY <1>1
      <3>2. QED
        BY <1>1, <1>3, <2>2, <3>1 DEF DownLast
    <2>3. QED
      BY <2>1, <2>2
  <1>4. ASSUME n.feed # f PROVE DownLast(t, f) <=> DownLast(s, f)
    BY <1>1, <1>4 DEF DownLast
  <1>5. QED
    BY <1>2, <1>3, <1>4

LEMMA TailLast ==
    ASSUME NEW s \in Seq(Notifications), s # <<>>, NEW f, NEW t, t = Tail(s)
    PROVE  /\ Has(s, f) <=> Has(t, f) \/ Head(s).feed = f
           /\ Has(t, f) => (DownLast(t, f) <=> DownLast(s, f))
           /\ ~Has(t, f) => (DownLast(s, f) <=> Head(s).feed = f /\ Head(s).type = "downtime")
           /\ ~Has(t, f) => ~DownLast(t, f)
  <1>1. /\ Len(s) \in Nat \ {0} /\ DOMAIN s = 1..Len(s) /\ DOMAIN t = 1..(Len(s) - 1)
        /\ \A k \in DOMAIN t : t[k] = s[k + 1] /\ k + 1 \in DOMAIN s
        /\ Head(s) = s[1] /\ 1 \in DOMAIN s
    OBVIOUS
  <1>2. /\ \A k \in DOMAIN s : k = 1 \/ (k - 1 \in DOMAIN t /\ t[k - 1] = s[k])
        /\ \A k \in DOMAIN s : k \in Nat /\ k >= 1
        /\ \A k \in DOMAIN t : k \in Nat /\ ~(k + 1 <= 1)
    <2>1. ASSUME NEW k \in DOMAIN s, k # 1 PROVE k - 1 \in DOMAIN t /\ t[k - 1] = s[k]
      <3>1. k \in Nat /\ k - 1 \in 1..(Len(s) - 1) /\ (k - 1) + 1 = k
        BY <1>1, <2>1
      <3>2. QED
        BY <1>1, <3>1
    <2>2. QED
      BY <1>1, <2>1
  <1>3. Has(s, f) <=> Has(t, f) \/ Head(s).feed = f
    BY <1>1, <1>2 DEF Has
  <1>4. ASSUME Has(t, f) PROVE DownLast(t, f) <=> DownLast(s, f)
    <2>1. ASSUME DownLast(t, f) PROVE DownLast(s, f)
      <3>1. PICK k \in DOMAIN t : /\ t[k].feed = f /\ t[k].type = "downtime"
                                  /\ \A l \in DOMAIN t : t[l].feed = f => l <= k
        BY <2>1 DEF DownLast
      <3>2. ASSUME NEW l \in DOMAIN s, s[l].feed = f PROVE l <= k + 1
        <4>1. l \in Nat /\ k \in Nat
          BY <1>2
        <4>2. CASE l = 1
          BY <4>1, <4>2
        <4>3. CASE l # 1
          <5>1. l - 1 \in DOMAIN t /\ t[l - 1] = s[l]
            BY <1>2, <4>3
          <5>2. l - 1 <= k
            BY <3>1, <3>2, <5>1
          <5>3. QED
            BY <4>1, <5>2
        <4>4. QED
          BY <4>2, <4>3
      <3>3. QED
        BY <1>1, <3>1, <3>2 DEF DownLast
    <2>2. ASSUME DownLast(s, f) PROVE DownLast(t, f)
      <3>1. PICK k \in DOMAIN s : /\ s[k].feed = f /\ s[k].type = "downtime"
                                  /\ \A l \in DOMAIN s : s[l].feed = f => l <= k
        BY <2>2 DEF DownLast
      <3>2. PICK j \in DOMAIN t : t[j].feed = f
        BY <1>4 DEF Has
      <3>3. j + 1 <= k /\ k # 1
        BY <1>1, <1>2, <3>1, <3>2
      <3>4. k - 1 \in DOMAIN t /\ t[k - 1] = s[k]
        BY <1>2, <3>3
      <3>5. ASSUME NEW l \in DOMAIN t, t[l].feed = f PROVE l <= k - 1
        <4>1. l + 1 <= k /\ l \in Nat /\ k \in Nat
          BY <1>1, <1>2, <3>1, <3>5
        <4>2. QED
          BY <4>1
      <3>6. QED
        BY <3>1, <3>4, <3>5 DEF DownLast
    <2>3. QED
      BY <2>1, <2>2
  <1>5. ASSUME ~Has(t, f)
        PROVE  DownLast(s, f) <=> Head(s).feed = f /\ Head(s).type = "downtime"
    <2>1. \A k \in DOMAIN s : s[k].feed = f => k = 1
      BY <1>2, <1>5 DEF Has
    <2>2. QED
      BY <1>1, <2>1 DEF DownLast
  <1>6. ~Has(t, f) => ~DownLast(t, f)
    BY DEF Has, DownLast
  <1>7. QED
    BY <1>3, <1>4, <1>5, <1>6

LEMMA LastHas == ASSUME NEW s, NEW f, DownLast(s, f) PROVE Has(s, f)
  BY DEF DownLast, Has

(* A queued message decides about its feed and about no other.              *)
LEMMA QueuedTells ==
    ASSUME TypeOK, NEW n \in Notifications, queue' = Append(queue, n), UNCHANGED <<sending, chat>>,
           NEW f
    PROVE  /\ n.feed = f => (Tells(f)' <=> n.type = "downtime")
           /\ n.feed # f => (Tells(f)' <=> Tells(f))
  <1>1. queue \in Seq(Notifications)
    BY DEF TypeOK
  <1>2. /\ Has(queue, f)' <=> Has(queue, f) \/ n.feed = f
        /\ n.feed = f => (DownLast(queue, f)' <=> n.type = "downtime")
        /\ n.feed # f => (DownLast(queue, f)' <=> DownLast(queue, f))
    <2>1. PICK q : q = queue'
      OBVIOUS
    <2>2. QED
      BY <1>1, <2>1, AppendLast DEF Has, DownLast
  <1>3. DownLast(chat, f)' <=> DownLast(chat, f)
    BY DEF DownLast
  <1>4. QED
    BY <1>2, <1>3 DEF Tells

(* The worker moves messages, and the last one stays the last one. *)
LEMMA MovedTells ==
    ASSUME TypeOK, OneAtATime, WorkerAct, NothingLost', NEW f
    PROVE  Tells(f)' <=> Tells(f)
  <1>1. queue \in Seq(Notifications) /\ chat \in Seq(Notifications) /\ sending \subseteq Notifications
    BY DEF TypeOK
  <1>2. ASSUME UNCHANGED <<queue, sending, chat>> PROVE Tells(f)' <=> Tells(f)
    BY <1>2 DEF Tells, Has, DownLast
  <1>3. CASE TakeNotification
    <2>1. PICK q, h : q = Tail(queue) /\ h = Head(queue)
      OBVIOUS
    <2>2. queue # <<>> /\ sending = {} /\ queue' = q /\ sending' = {h} /\ chat' = chat
      BY <1>3, <2>1 DEF TakeNotification
    <2>3. /\ Has(queue, f) <=> Has(q, f) \/ h.feed = f
          /\ Has(q, f) => (DownLast(q, f) <=> DownLast(queue, f))
          /\ ~Has(q, f) => (DownLast(queue, f) <=> h.feed = f /\ h.type = "downtime")
          /\ ~Has(q, f) => ~DownLast(q, f)
      BY <1>1, <2>1, <2>2, TailLast
    <2>4. (Has(queue, f)' <=> Has(q, f)) /\ (DownLast(queue, f)' <=> DownLast(q, f))
      BY <2>2 DEF Has, DownLast
    <2>5. DownLast(chat, f)' <=> DownLast(chat, f)
      BY <2>2 DEF DownLast
    <2>6. DownLast(queue, f) => Has(queue, f)
      BY LastHas
    <2>7. QED
      BY <2>2, <2>3, <2>4, <2>5, <2>6 DEF Tells
  <1>4. ASSUME NEW n \in sending, chat' = Append(chat, n), UNCHANGED queue,
               sending' = {} \/ sending' = sending
        PROVE  Tells(f)' <=> Tells(f)
    <2>1. PICK c : c = chat'
      OBVIOUS
    <2>2. /\ n.feed = f => (DownLast(c, f) <=> n.type = "downtime")
          /\ n.feed # f => (DownLast(c, f) <=> DownLast(chat, f))
      BY <1>1, <1>4, <2>1, AppendLast
    <2>3. /\ DownLast(chat, f)' <=> DownLast(c, f)
          /\ (Has(queue, f)' <=> Has(queue, f)) /\ (DownLast(queue, f)' <=> DownLast(queue, f))
      BY <1>4, <2>1 DEF DownLast, Has
    <2>4. sending = {n}
      BY <1>4 DEF OneAtATime
    <2>5. QED
      BY <1>4, <2>2, <2>3, <2>4 DEF Tells
  <1>5. CASE Deliver
    BY <1>4, <1>5 DEF Deliver, Sent, channel
  <1>6. CASE DeliverUnanswered
    BY <1>4, <1>6 DEF DeliverUnanswered, TryAgain, Sent, channel
  <1>7. CASE Refuse
    <2>1. attempt < MaxAttempts
      BY <1>7, MonitorAssumption DEF Refuse, OneAtATime, NothingLost, TypeOK
    <2>2. QED
      BY <1>2, <1>7, <2>1 DEF Refuse, TryAgain, channel
  <1>8. ~Reject
    BY DEF Reject, NothingLost, TypeOK
  <1>9. QED
    BY <1>3, <1>5, <1>6, <1>7, <1>8 DEF WorkerAct, WorkerStep

LEMMA NextOneAtATime == ASSUME TypeOK, OneAtATime, [Next]_vars PROVE OneAtATime'
  <1> USE DEF TypeOK, OneAtATime
  <1>1. CASE WorkerAct
    <2>1. CASE TakeNotification
      BY <2>1 DEF TakeNotification, counters
    <2>2. CASE Deliver \/ Reject
      BY <2>2 DEF Deliver, Reject, Sent, counters
    <2>3. CASE Refuse \/ DeliverUnanswered
      <3>1. /\ refusals' = refusals + 1
            /\ \/ attempt' = attempt + 1 /\ UNCHANGED sending
               \/ attempt' = 0 /\ sending' = {}
        BY <2>3 DEF Refuse, DeliverUnanswered, TryAgain, Sent
      <3>2. QED
        BY <3>1
    <2>4. QED
      BY <1>1, <2>1, <2>2, <2>3 DEF WorkerAct, WorkerStep
  <1>2. CASE Restart
    BY <1>2 DEF Restart, Sent
  <1>3. CASE ~WorkerAct /\ ~Restart
    <2>1. UNCHANGED <<attempt, refusals, sending>>
      BY <1>3 DEF Next, WorkerAct, Tick, ImporterLoads, ImporterSucceeds, Switch, CheckStep,
                  StartCheck, NoticeDisabled, CloseOngoingDowntime, NoticeEnabled, NothingNew,
                  RecordDowntime, QueueAlert, MarkNotificationSent, CloseDowntime,
                  QueueRecovery, MarkRecoveryNotificationSent, StatementFails,
                  vars, worker, counters
    <2>2. QED
      BY <2>1
  <1>4. QED
    BY <1>1, <1>2, <1>3

LEMMA OpenedOngoing ==
    ASSUME TypeOK, NEW f \in Feeds, Opened(f)
    PROVE  Ongoing(f)' # {} /\ \A g \in Feeds : g # f => Ongoing(g)' = Ongoing(g)
  <1> DEFINE new == Len(downtimes) + 1
  <1>1. /\ DOMAIN downtimes' = DOMAIN downtimes \cup {new}
        /\ \A i \in DOMAIN downtimes : downtimes'[i] = downtimes[i]
        /\ downtimes'[new].feed = f /\ downtimes'[new].end = 0
    BY OpenedType
  <1> HIDE DEF new
  <1>2. QED
    BY <1>1 DEF Ongoing

LEMMA EndedOngoing ==
    ASSUME TypeOK, currentTime >= 1, NEW f \in Feeds, NEW S, S \subseteq Ongoing(f), Ended(S)
    PROVE  /\ Ongoing(f)' = Ongoing(f) \ S
           /\ \A g \in Feeds : g # f => Ongoing(g)' = Ongoing(g)
  <1>1. currentTime # 0
    BY DEF TypeOK
  <1>2. \A i \in S : downtimes[i].feed = f
    BY DEF Ongoing
  <1>3. QED
    BY <1>1, <1>2, EndedType DEF Ongoing

LEMMA MarkedOngoing ==
    ASSUME TypeOK, Marked
    PROVE  \A g \in Feeds : Ongoing(g)' = Ongoing(g)
  BY MarkedType DEF Ongoing

(* One feed is checked at a time: the first of those that are left. *)
LEMMA OneIsChecked ==
    ASSUME TypeOK, NEW f, NEW g, NEW label, NEW other, Checking(f, label), Checking(g, other)
    PROVE  f = g /\ f \in Feeds
  <1>1. f \in Feeds /\ g \in Feeds /\ f <= g /\ g <= f
    BY DEF Checking, TypeOK
  <1>2. QED
    BY <1>1, FeedsAssumption

LEMMA FinishStatus ==
    ASSUME TypeOK, OnlySeenAreDown, NEW f \in Feeds, NEW label, Checking(f, label), Finish(f),
           \A g \in Feeds : Tells(g)' <=> Ongoing(g)' # {},
           \A g \in Feeds : g # f => Ongoing(g)' = Ongoing(g),
           rows[f].active \/ Ongoing(f)' = {}
    PROVE  StatusTold' /\ OnlySeenAreDown'
  <1>1. pc' \in {"sleep", "feed"}
    BY DEF Finish
  <1>2. \A g : ~Busy(g, {"close"})' /\ ~Busy(g, {"alert"})' /\ ~Busy(g, {"recovery"})'
               /\ ~Busy(g, {"close", "alert", "recovery"})' /\ ~Busy(g, {"alert", "mark"})'
               /\ ~Busy(g, {"alert", "mark", "recovery", "markRecovery"})'
    BY <1>1 DEF Busy, Checking
  <1>3. StatusTold'
    BY <1>2 DEF StatusTold
  <1>4. ASSUME NEW g \in Feeds, lastCheck'[g] # "active" PROVE Ongoing(g)' = {}
    <2>1. lastCheck \in [Feeds -> {"unseen", "active", "inactive"}]
      BY DEF TypeOK
    <2>2. CASE g = f
      BY <1>4, <2>1, <2>2 DEF Finish, Seen
    <2>3. CASE g # f
      <3>1. lastCheck[g] # "active"
        BY <1>4, <2>1, <2>3 DEF Finish
      <3>2. ~Busy(g, {"alert", "mark"})
        BY <2>3, OneIsChecked DEF Busy
      <3>3. QED
        BY <2>3, <3>1, <3>2 DEF OnlySeenAreDown
    <2>4. QED
      BY <2>2, <2>3
  <1>5. QED
    BY <1>2, <1>3, <1>4 DEF OnlySeenAreDown

LEMMA NextStatusInv ==
    ASSUME TypeOK, MonitorInv, OneAtATime, StatusInv, [Next]_vars
    PROVE  StatusInv'
  <1> SUFFICES ASSUME NothingLost' PROVE StatusTold' /\ OnlySeenAreDown'
    BY DEF StatusInv
  <1> USE DEF channel
  <1>1. NothingLost /\ ~Restart /\ ~Reject /\ \A f \in Feeds : ~StatementFails(f)
    <2>1. /\ errors \in Nat /\ restarts \in Nat /\ rejections \in Nat /\ dropped \in Nat
          /\ refusals \in Nat
          /\ errors' = 0 /\ restarts' = 0 /\ rejections' = 0 /\ dropped' = 0
          /\ refusals' < MaxAttempts
      BY DEF TypeOK, NothingLost
    <2>2. ~Restart /\ ~Reject /\ \A f \in Feeds : ~StatementFails(f)
      BY <2>1 DEF Restart, Reject, StatementFails
    <2>3. CASE WorkerAct
      BY <2>1, <2>2, <2>3, MonitorAssumption
         DEF WorkerAct, WorkerStep, TakeNotification, Deliver, Refuse, DeliverUnanswered,
             NothingLost, counters
    <2>4. CASE ~WorkerAct
      <3>1. UNCHANGED <<errors, restarts, rejections, refusals>>
        BY <2>2, <2>4 DEF Next, WorkerAct, Tick, ImporterLoads, ImporterSucceeds, Switch, CheckStep,
                  StartCheck, NoticeDisabled, CloseOngoingDowntime, NoticeEnabled, NothingNew,
                  RecordDowntime, QueueAlert, MarkNotificationSent, CloseDowntime,
                  QueueRecovery, MarkRecoveryNotificationSent, vars, counters
      <3>2. dropped' = dropped \/ dropped' = dropped + 1
        BY <2>2, <2>4 DEF Next, WorkerAct, Tick, ImporterLoads, ImporterSucceeds, Switch, CheckStep,
                  StartCheck, NoticeDisabled, CloseOngoingDowntime, NoticeEnabled, NothingNew,
                  RecordDowntime, QueueAlert, MarkNotificationSent, CloseDowntime, Notify,
                  QueueNotification, QueueRecovery, MarkRecoveryNotificationSent, vars
      <3>3. QED
        BY <2>1, <2>2, <3>1, <3>2 DEF NothingLost
    <2>5. QED
      BY <2>2, <2>3, <2>4
  <1>2. StatusTold /\ OnlySeenAreDown
    BY <1>1 DEF StatusInv
  <1>3. ASSUME UNCHANGED <<queue, sending, chat>>, NEW f PROVE Tells(f)' <=> Tells(f)
    BY <1>3 DEF Tells, Has, DownLast
  <1>4. ASSUME UNCHANGED <<downtimes, lastCheck, rows, pc>>,
               \A f \in Feeds : Tells(f)' <=> Tells(f)
        PROVE  StatusTold' /\ OnlySeenAreDown'
    BY <1>2, <1>4 DEF StatusTold, OnlySeenAreDown, Busy, Checking, Ongoing
  <1>5. CASE WorldAct \/ UNCHANGED vars
    <2>1. UNCHANGED <<queue, sending, chat, downtimes, lastCheck, rows, pc>>
      BY <1>5 DEF WorldAct, Tick, ImporterLoads, ImporterSucceeds, Switch, vars, worker, checker
    <2>2. QED
      BY <1>3, <1>4, <2>1
  <1>6. CASE WorkerAct
    <2>1. UNCHANGED <<downtimes, lastCheck, rows, pc>>
      BY <1>6 DEF WorkerAct, WorkerStep, TakeNotification, Deliver, Refuse, DeliverUnanswered,
                  Reject, checker
    <2>2. QED
      BY <1>4, <1>6, <2>1, MovedTells
  <1>7. CASE StartCheck
    <2>1. /\ UNCHANGED <<queue, sending, chat, downtimes, lastCheck>>
          /\ pc = "sleep" /\ pc' = "feed"
      BY <1>7 DEF StartCheck, worker
    <2>2. QED
      BY <1>2, <1>3, <2>1 DEF StatusTold, OnlySeenAreDown, Busy, Checking, Ongoing
  (* What holds for every other feed while f is checked. *)
  <1>8. ASSUME NEW f \in Feeds, NEW label, Checking(f, label), NEW g \in Feeds, g # f
        PROVE  /\ Tells(g) <=> Ongoing(g) # {}
               /\ lastCheck[g] # "active" => Ongoing(g) = {}
    <2>1. \A labels : ~Busy(g, labels)
      BY <1>8, OneIsChecked DEF Busy
    <2>2. QED
      BY <1>2, <2>1 DEF StatusTold, OnlySeenAreDown
  (* The check goes on with f, and tells the others nothing. *)
  <1>9. ASSUME NEW f \in Feeds, NEW label, Checking(f, label), UNCHANGED <<rows>>,
               \A g \in Feeds : g # f => /\ Tells(g)' <=> Tells(g)
                                         /\ Ongoing(g)' = Ongoing(g)
                                         /\ lastCheck'[g] = lastCheck[g],
               pc' = "close" => ~Tells(f)',
               pc' = "alert" => Ongoing(f)' # {},
               pc' = "recovery" => Ongoing(f)' = {},
               pc' \notin {"close", "alert", "recovery"} => (Tells(f)' <=> Ongoing(f)' # {}),
               pc' \in {"alert", "mark", "recovery", "markRecovery"} => rows[f].active,
               pc' \notin {"alert", "mark"} /\ lastCheck'[f] # "active" => Ongoing(f)' = {}
        PROVE  StatusTold' /\ OnlySeenAreDown'
    <2>1. \A other : Checking(f, other)' <=> pc' = other
      BY <1>9 DEF Checking
    <2>2. \A g \in Feeds : \A other : g # f => ~Checking(g, other)'
      <3> SUFFICES ASSUME NEW g \in Feeds, NEW other, g # f, Checking(g, other)' PROVE FALSE
        OBVIOUS
      <3>1. g <= f /\ f <= g
        BY <1>9 DEF Checking
      <3>2. QED
        BY <3>1, FeedsAssumption
    <2>3. \A g \in Feeds : g # f =>
             /\ ~Busy(g, {"close"})' /\ ~Busy(g, {"alert"})' /\ ~Busy(g, {"recovery"})'
             /\ ~Busy(g, {"close", "alert", "recovery"})' /\ ~Busy(g, {"alert", "mark"})'
             /\ ~Busy(g, {"alert", "mark", "recovery", "markRecovery"})'
      BY <2>2 DEF Busy
    <2>4. /\ Busy(f, {"close"})' <=> pc' = "close"
          /\ Busy(f, {"alert"})' <=> pc' = "alert"
          /\ Busy(f, {"recovery"})' <=> pc' = "recovery"
          /\ Busy(f, {"close", "alert", "recovery"})' <=> pc' \in {"close", "alert", "recovery"}
          /\ Busy(f, {"alert", "mark"})' <=> pc' \in {"alert", "mark"}
          /\ Busy(f, {"alert", "mark", "recovery", "markRecovery"})' <=> pc' \in {"alert", "mark", "recovery", "markRecovery"}
      BY <2>1 DEF Busy
    <2>5. StatusTold'
      BY <1>8, <1>9, <2>3, <2>4 DEF StatusTold
    <2>6. OnlySeenAreDown'
      BY <1>8, <1>9, <2>3, <2>4 DEF OnlySeenAreDown
    <2>7. QED
      BY <2>5, <2>6
  (* What holds for f when its check begins. *)
  <1>10. ASSUME NEW f \in Feeds, NEW label, Checking(f, label),
                label \in {"feed", "mark", "markRecovery"}
         PROVE  Tells(f) <=> Ongoing(f) # {}
    <2>1. ~Busy(f, {"close", "alert", "recovery"})
      BY <1>10 DEF Busy, Checking
    <2>2. QED
      BY <1>2, <2>1 DEF StatusTold
  <1>11. ASSUME NEW f \in Feeds, Checking(f, "feed")
         PROVE  lastCheck[f] # "active" => Ongoing(f) = {}
    <2>1. ~Busy(f, {"alert", "mark"})
      BY <1>11 DEF Busy, Checking
    <2>2. QED
      BY <1>2, <2>1 DEF OnlySeenAreDown
  <1>12. ASSUME NEW type \in {"downtime", "recovery", "enabled", "disabled"}, NEW f \in Feeds,
                NEW i \in Nat, Notify(type, f, i), UNCHANGED <<sending, chat>>
         PROVE  /\ Tells(f)' <=> type = "downtime"
                /\ \A g \in Feeds : g # f => (Tells(g)' <=> Tells(g))
    <2>1. dropped' = 0 /\ dropped = 0
      BY <1>1 DEF NothingLost
    <2>2. PICK n \in Notifications : n.type = type /\ n.feed = f /\ QueueNotification(n)
      BY <1>12 DEF Notify, Notifications
    <2>3. queue' = Append(queue, n)
      BY <2>1, <2>2 DEF QueueNotification
    <2>4. QED
      BY <1>12, <2>2, <2>3, QueuedTells
  <1>13. lastCheck \in [Feeds -> {"unseen", "active", "inactive"}] /\ currentTime \in Nat
    BY DEF TypeOK
  <1>14. ASSUME UNCHANGED downtimes, NEW g PROVE Ongoing(g)' = Ongoing(g)
    BY <1>14 DEF Ongoing
  <1>15. pc # "sleep" => currentTime >= 1
    BY DEF MonitorInv, Past
  <1>16. ASSUME NEW f \in Feeds, NoticeDisabled(f) PROVE StatusTold' /\ OnlySeenAreDown'
    <2>1. /\ Checking(f, "feed") /\ pc' = "close" /\ UNCHANGED <<rows, lastCheck, downtimes>>
          /\ UNCHANGED <<sending, chat>> /\ Notify("disabled", f, 0)
          /\ lastCheck[f] = "active"
      BY <1>13, <1>16 DEF NoticeDisabled, GoTo, worker, Switched, Seen
    <2>2. ~Tells(f)' /\ \A g \in Feeds : g # f => (Tells(g)' <=> Tells(g))
      BY <1>12, <2>1
    <2>3. QED
      BY <1>9, <1>14, <2>1, <2>2
  <1>17. ASSUME NEW f \in Feeds, NoticeEnabled(f) PROVE StatusTold' /\ OnlySeenAreDown'
    <2>1. /\ Checking(f, "feed") /\ pc' = "feed" /\ UNCHANGED <<rows, downtimes>>
          /\ UNCHANGED <<sending, chat>> /\ Notify("enabled", f, 0)
          /\ lastCheck[f] # "active" /\ lastCheck'[f] = "active"
          /\ \A g \in Feeds : g # f => lastCheck'[g] = lastCheck[g]
      BY <1>13, <1>17 DEF NoticeEnabled, worker, Switched, Seen, Checking
    <2>2. ~Tells(f)' /\ \A g \in Feeds : g # f => (Tells(g)' <=> Tells(g))
      BY <1>12, <2>1
    <2>3. Ongoing(f) = {}
      BY <1>11, <2>1
    <2>4. QED
      BY <1>9, <1>14, <2>1, <2>2, <2>3
  <1>18. ASSUME NEW f \in Feeds, RecordDowntime(f) PROVE StatusTold' /\ OnlySeenAreDown'
    <2>1. /\ Checking(f, "feed") /\ pc' = "alert" /\ UNCHANGED <<rows, lastCheck>>
          /\ UNCHANGED <<queue, sending, chat>> /\ rows[f].active
      BY <1>18 DEF RecordDowntime, CheckDowntime, Monitored, GoTo, worker
    <2>2. Ongoing(f)' # {} /\ \A g \in Feeds : g # f => Ongoing(g)' = Ongoing(g)
      BY <1>18, OpenedOngoing DEF RecordDowntime, InsertDowntime, Opened
    <2>3. \A g : Tells(g)' <=> Tells(g)
      BY <1>3, <2>1
    <2>4. QED
      BY <1>9, <2>1, <2>2, <2>3
  <1>19. ASSUME NEW f \in Feeds, CloseDowntime(f) PROVE StatusTold' /\ OnlySeenAreDown'
    <2>1. PICK i \in DOMAIN downtimes : EndDowntime(f, i) /\ GoTo("recovery", i)
      BY <1>19 DEF CloseDowntime
    <2>2. /\ Checking(f, "feed") /\ pc' = "recovery" /\ UNCHANGED <<rows, lastCheck>>
          /\ UNCHANGED <<queue, sending, chat>> /\ rows[f].active
      BY <1>19, <2>1 DEF CloseDowntime, CheckDowntime, Monitored, GoTo, worker
    <2>3. i \in Ongoing(f) /\ Ended({i})
      BY <2>1, EndDowntimeEnds
    <2>4. Ongoing(f) = {i}
      <3>1. \A j \in Ongoing(f) : j \in Nat /\ ~(i < j) /\ ~(j < i)
        BY <2>3 DEF Ongoing, MonitorInv, DowntimesInOrder, TypeOK
      <3>2. i \in Nat
        BY DEF TypeOK
      <3>3. QED
        BY <2>3, <3>1, <3>2
    <2>5. currentTime >= 1
      BY <1>15, <2>2 DEF Checking
    <2>6. /\ Ongoing(f)' = Ongoing(f) \ {i}
          /\ \A g \in Feeds : g # f => Ongoing(g)' = Ongoing(g)
      BY <2>3, <2>4, <2>5, EndedOngoing
    <2>7. \A g : Tells(g)' <=> Tells(g)
      BY <1>3, <2>2
    <2>8. QED
      BY <1>9, <2>2, <2>4, <2>6, <2>7
  <1>20. ASSUME NEW f \in Feeds, QueueAlert(f) PROVE StatusTold' /\ OnlySeenAreDown'
    <2>1. /\ Checking(f, "alert") /\ pc' = "mark" /\ UNCHANGED <<rows, lastCheck, downtimes>>
          /\ UNCHANGED <<sending, chat>> /\ Notify("downtime", f, current) /\ current \in Nat
      BY <1>20 DEF QueueAlert, GoTo, worker, TypeOK
    <2>2. Tells(f)' /\ \A g \in Feeds : g # f => (Tells(g)' <=> Tells(g))
      BY <1>12, <2>1
    <2>3. Ongoing(f) # {} /\ rows[f].active
      BY <1>2, <2>1 DEF StatusTold, OnlySeenAreDown, Busy
    <2>4. QED
      BY <1>9, <1>14, <2>1, <2>2, <2>3
  <1>21. ASSUME NEW f \in Feeds, QueueRecovery(f) PROVE StatusTold' /\ OnlySeenAreDown'
    <2>1. /\ Checking(f, "recovery") /\ pc' = "markRecovery"
          /\ UNCHANGED <<rows, lastCheck, downtimes>>
          /\ UNCHANGED <<sending, chat>> /\ Notify("recovery", f, current) /\ current \in Nat
      BY <1>21 DEF QueueRecovery, GoTo, worker, TypeOK
    <2>2. ~Tells(f)' /\ \A g \in Feeds : g # f => (Tells(g)' <=> Tells(g))
      BY <1>12, <2>1
    <2>3. Ongoing(f) = {} /\ rows[f].active
      BY <1>2, <2>1 DEF StatusTold, OnlySeenAreDown, Busy
    <2>4. QED
      BY <1>9, <1>14, <2>1, <2>2, <2>3
  <1>22. ASSUME NEW f \in Feeds, CloseOngoingDowntime(f) PROVE StatusTold' /\ OnlySeenAreDown'
    <2>1. /\ Checking(f, "close") /\ Finish(f) /\ UNCHANGED <<queue, sending, chat>>
          /\ Ended(Ongoing(f)) /\ currentTime >= 1
      BY <1>15, <1>22 DEF CloseOngoingDowntime, Ended, worker, Checking
    <2>2. /\ Ongoing(f)' = Ongoing(f) \ Ongoing(f)
          /\ \A g \in Feeds : g # f => Ongoing(g)' = Ongoing(g)
      BY <2>1, EndedOngoing
    <2>3. ~Tells(f)
      BY <1>2, <2>1 DEF StatusTold, Busy
    <2>4. \A g \in Feeds : Tells(g)' <=> Ongoing(g)' # {}
      BY <1>3, <1>8, <2>1, <2>2, <2>3
    <2>5. QED
      BY <1>2, <2>1, <2>2, <2>4, FinishStatus
  <1>23. ASSUME NEW f \in Feeds, NothingNew(f) PROVE StatusTold' /\ OnlySeenAreDown'
    <2>1. /\ Checking(f, "feed") /\ Finish(f) /\ UNCHANGED <<queue, sending, chat, downtimes>>
          /\ rows[f].active \/ lastCheck[f] # "active"
      BY <1>23 DEF NothingNew, worker, Switched, Seen
    <2>2. \A g \in Feeds : Tells(g)' <=> Ongoing(g)' # {}
      BY <1>3, <1>8, <1>10, <1>14, <2>1
    <2>3. rows[f].active \/ Ongoing(f)' = {}
      BY <1>11, <1>14, <2>1
    <2>4. QED
      BY <1>2, <1>14, <2>1, <2>2, <2>3, FinishStatus
  <1>24. ASSUME NEW f \in Feeds, MarkNotificationSent(f) \/ MarkRecoveryNotificationSent(f)
         PROVE  StatusTold' /\ OnlySeenAreDown'
    <2>1. /\ Checking(f, pc) /\ pc \in {"mark", "markRecovery"}
          /\ Finish(f) /\ UNCHANGED <<queue, sending, chat>>
      BY <1>24 DEF MarkNotificationSent, MarkRecoveryNotificationSent, worker, Checking
    <2>2. current \in DOMAIN downtimes
      BY <2>1 DEF TypeOK
    <2>3. Marked
      BY <1>24, <2>2 DEF MarkNotificationSent, MarkRecoveryNotificationSent, Marked
    <2>4. \A g \in Feeds : Ongoing(g)' = Ongoing(g)
      BY <2>3, MarkedOngoing
    <2>5. \A g \in Feeds : Tells(g)' <=> Ongoing(g)' # {}
      BY <1>3, <1>8, <1>10, <2>1, <2>4
    <2>6. rows[f].active
      BY <1>2, <2>1 DEF OnlySeenAreDown, Busy
    <2>7. QED
      BY <1>2, <2>1, <2>4, <2>5, <2>6, FinishStatus
  <1>25. QED
    BY <1>1, <1>5, <1>6, <1>7, <1>16, <1>17, <1>18, <1>19, <1>20, <1>21, <1>22, <1>23, <1>24
       DEF Next, CheckStep, WorldAct, WorkerAct

LEMMA StatusInvariant == Spec => [](OneAtATime /\ StatusInv)
  <1>1. Init => OneAtATime /\ StatusInv
    <2> SUFFICES ASSUME Init PROVE OneAtATime /\ StatusTold /\ OnlySeenAreDown
      BY DEF StatusInv
    <2>1. \A f : Ongoing(f) = {} /\ ~Tells(f)
      <3>1. /\ downtimes = <<>> /\ queue = <<>> /\ chat = <<>> /\ sending = {}
            /\ DOMAIN <<>> = {}
        BY DEF Init
      <3>2. \A f : Ongoing(f) = {}
        BY <3>1 DEF Ongoing
      <3>3. \A f : ~DownLast(queue, f) /\ ~DownLast(chat, f)
        BY <3>1 DEF DownLast
      <3>4. QED
        BY <3>1, <3>2, <3>3 DEF Tells
    <2>2. \A f, labels : ~Busy(f, labels)
      BY DEF Init, Busy, Checking
    <2>3. OneAtATime
      BY DEF Init, OneAtATime
    <2>4. QED
      BY <2>1, <2>2, <2>3 DEF StatusTold, OnlySeenAreDown
  <1>2. TypeOK /\ MonitorInv /\ OneAtATime /\ StatusInv /\ [Next]_vars
        => OneAtATime' /\ StatusInv'
    BY NextOneAtATime, NextStatusInv
  <1>3. QED
    BY <1>1, <1>2, MonitorTypeCorrect, MonitorInvariant, PTL DEF Spec

(* As long as nothing was lost, who reads the chat of a quiet monitor knows *)
(* which feeds have a downtime, however often they were switched on and off *)
(* and went down and up, and however often Telegram had to be asked again.  *)
THEOREM ChatTellsTheStatus == Spec => []ChatTellsStatus
  <1>1. OneAtATime /\ StatusInv => ChatTellsStatus
    <2> SUFFICES ASSUME StatusInv, Quiet, NothingLost, NEW f \in Feeds
                 PROVE  Ongoing(f) # {} <=> \E k \in LastMessage(f) : chat[k].type = "downtime"
      BY DEF ChatTellsStatus
    <2>1. Tells(f) <=> Ongoing(f) # {}
      BY DEF StatusInv, StatusTold, Quiet, Busy, Checking
    <2>2. Tells(f) <=> DownLast(chat, f)
      BY DEF Quiet, Tells, Has, DownLast
    <2>3. DownLast(chat, f) <=> \E k \in LastMessage(f) : chat[k].type = "downtime"
      BY DEF DownLast, LastMessage
    <2>4. QED
      BY <2>1, <2>2, <2>3
  <1>2. QED
    BY <1>1, StatusInvariant, PTL
=============================================================================
