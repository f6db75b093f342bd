--------------------------- MODULE AlarmNotifier ---------------------------
(***************************************************************************)
(* The alarm notifier of backend/alarm_notifier.go with the alarms table   *)
(* it keeps in the database, the DingTalk webhook it posts to, the HTTP    *)
(* handler that acknowledges alarms, and the process's crash and restart.  *)
(*                                                                         *)
(* Two goroutines run: "checker" (Run and checkAlarms) and "retry"         *)
(* (retryLoop).  Every database statement, every critical section of n.mu, *)
(* every arrival of a post at the webhook and every return of client.Post  *)
(* is an atomic step of its own.                                           *)
(***************************************************************************)
EXTENDS Naturals, Sequences, FiniteSets, Functions

CONSTANTS
    Devices,      \* ids of the rows of the devices table
    Metrics,      \* metric names of the level-1 checks
    Webhook,      \* DINGTALK_WEBHOOK is not empty
    MaxRetries,   \* Alarm.DingTalkMaxRetries
    OutCap,       \* capacity of outCh (16 in the code)
    DBFaults,     \* whether a database statement may fail
    MaxAlarms,    \* bound: rows the alarms table may reach
    MaxCrashes    \* bound: crashes of the process

\* devices.id is SERIAL: it starts at 1, so 0, the Go zero value a level-2
\* alarm carries, is no device.
ASSUME DevicesAssumption == Devices \subseteq (Nat \ {0})
ASSUME SwitchAssumption  == Webhook \in BOOLEAN /\ DBFaults \in BOOLEAN
ASSUME BoundAssumption   == /\ MaxRetries \in Nat
                            /\ OutCap \in Nat \ {0}
                            /\ MaxAlarms \in Nat
                            /\ MaxCrashes \in Nat

VARIABLES
    alarms,       \* table alarms; the id of a row is its position
    cpc,          \* where checkAlarms is
    rows,         \* the level-1 result set not yet scanned, as keys
    checks,       \* checks of the row being scanned, as keys
    cur,          \* the key about to be inserted
    fresh,        \* ids in newAlarms not yet handed to sendDingTalk
    announce,     \* newAlarms is not empty
    sending,      \* the sendDingTalk call of each goroutine
    pending,      \* n.pendingDingTalk
    batch,        \* what the retry loop still has to visit of its swap
    retryCounts,  \* the map of retryLoop
    outLen,       \* batches of alarms waiting in outCh
    crashes,      \* crashes so far
    posts,        \* history: times each alarm was posted
    arrived,      \* history: alarms that reached the webhook
    ok,           \* history: alarms whose post was answered below 300
    lost          \* history: alarms the process forgot (error return, crash)

Goroutines == {"checker", "retry"}

table    == <<alarms>>
checker  == <<cpc, rows, checks, cur, fresh, announce>>
delivery == <<sending, pending, batch, retryCounts>>
history  == <<posts, arrived, ok, lost>>
vars     == <<table, checker, delivery, outLen, crashes, history>>

\* A level-1 alarm is identified by its device and its metric; the level-2
\* alarm leaves DeviceID at 0.
Keys1  == Devices \X Metrics
PUEKey == <<0, "pue">>
Keys   == Keys1 \cup {PUEKey}

\* device_id INT REFERENCES devices(id)
ForeignKeyHolds(k) == k[1] \in Devices

NewRow(k) == [key |-> k, acknowledged |-> FALSE, dingtalk_sent |-> FALSE]

\* Mutant of Open: the query also wants the alarm not yet sent.
OpenUnsent(k) == \E i \in DOMAIN alarms : /\ alarms[i].key = k /\ ~alarms[i].acknowledged
                                         /\ ~alarms[i].dingtalk_sent

\* SELECT EXISTS(... AND acknowledged = false)
Open(k) == \E i \in DOMAIN alarms : alarms[i].key = k /\ ~alarms[i].acknowledged

\* The call a goroutine has in sendDingTalk: none; the post is on its way; it
\* reached the webhook; it was answered below 300 and the UPDATE comes next.
NoCall    == [at |-> "none", id |-> 0]
Call(a,i) == [at |-> a, id |-> i]
Idle(p)   == sending[p].at = "none"

Count(id)  == IF id \in DOMAIN retryCounts THEN retryCounts[id] ELSE 0
Bumped(id) == [j \in DOMAIN retryCounts \cup {id} |->
                 IF j = id THEN Count(id) + 1 ELSE retryCounts[j]]

\* Mutant of Forget: the entry is not deleted.
KeepCount(id) == retryCounts

Forget(id) == Restrict(retryCounts, DOMAIN retryCounts \ {id})

\* Mutants of RetryLimitReached: off by one either way.
RetryLimitLate(n)  == n > MaxRetries + 1
RetryLimitEarly(n) == n >= MaxRetries

RetryLimitReached(n) == n > MaxRetries

\* What n.pendingDingTalk becomes when a post failed, and mutant: the alarm
\* is not put back.
NotRequeued(id) == pending
Requeued(id)    == Append(pending, id)

\* What it becomes when the retry loop takes it, and mutant: it is not reset.
NotReset  == pending
AfterSwap == <<>>

\* client.Post returned a status below 300, and mutant: its error is ignored.
ErrorIgnored(p) == sending[p].at \in {"post", "arrived"}
Accepted(p)     == sending[p].at = "arrived"

\* sendDingTalk fails, and mutant: an error of the UPDATE fails it too.
FailedOrUnmarked(p) == sending[p].at \in {"post", "arrived", "mark"}
Failed(p)           == sending[p].at \in {"post", "arrived"}

\* outCh has room, and mutant: off by one.
RoomForOneMore == outLen <= OutCap
Room           == outLen < OutCap

\* The alarms some call holds, and all that the memory of the process holds.
Flight(p) == IF Idle(p) THEN {} ELSE {sending[p].id}
InRetry   == Range(pending) \cup Range(batch) \cup Flight("checker") \cup Flight("retry")
Held      == InRetry \cup Range(fresh)

-----------------------------------------------------------------------------
Init == /\ alarms = <<>>
        /\ cpc = "idle" /\ rows = {} /\ checks = {} /\ cur = PUEKey
        /\ fresh = <<>> /\ announce = FALSE
        /\ sending = [p \in Goroutines |-> NoCall]
        /\ pending = <<>> /\ batch = <<>> /\ retryCounts = <<>>
        /\ outLen = 0 /\ crashes = 0
        /\ posts = <<>> /\ arrived = {} /\ ok = {} /\ lost = {}

-----------------------------------------------------------------------------
(* checkAlarms, level 1 *)

\* The ticker fires and the level-1 query returns the metrics in S; any
\* device and any metric may be over its threshold.  A failing query leaves
\* everything as it is.
CheckTick(S) ==
    /\ cpc = "idle"
    /\ Len(alarms) + Cardinality(S) <= MaxAlarms
    /\ cpc' = "scan" /\ rows' = S
    /\ UNCHANGED <<table, checks, cur, fresh, announce, delivery, outLen, crashes, history>>

\* rows.Next and rows.Scan: the row of device d and the checks it yields.
NextRow(d) ==
    /\ cpc = "scan" /\ checks = {}
    /\ \E k \in rows : k[1] = d
    /\ checks' = {k \in rows : k[1] = d}
    /\ rows' = rows \ checks'
    /\ UNCHANGED <<table, cpc, cur, fresh, announce, delivery, outLen, crashes, history>>

\* The EXISTS query of a check: an open alarm of the key, or an error,
\* skips it.
CheckExists(k) ==
    /\ cpc = "scan" /\ k \in checks
    /\ checks' = checks \ {k}
    /\ \/ /\ Open(k) \/ DBFaults
          /\ UNCHANGED <<cpc, cur>>
       \/ /\ ~Open(k)
          /\ cpc' = "insert" /\ cur' = k
    /\ UNCHANGED <<table, rows, fresh, announce, delivery, outLen, crashes, history>>

\* The rows are exhausted without error.
ScanDone ==
    /\ cpc = "scan" /\ checks = {} /\ rows = {}
    /\ cpc' = "l2count"
    /\ UNCHANGED <<table, rows, checks, cur, fresh, announce, delivery, outLen, crashes, history>>

\* rows.Scan, rows.Err or the level-2 count query fails: checkAlarms returns
\* (nil, err) and Run continues, so the alarms inserted in this round are
\* neither posted nor published.
CheckAborts ==
    /\ DBFaults
    /\ \/ cpc = "scan" /\ checks = {}
       \/ cpc = "l2count"
    /\ cpc' = "idle" /\ rows' = {} /\ fresh' = <<>> /\ announce' = FALSE
    /\ lost' = lost \cup Range(fresh)
    /\ UNCHANGED <<table, checks, cur, delivery, outLen, crashes, posts, arrived, ok>>

-----------------------------------------------------------------------------
(* checkAlarms, level 2, and the INSERT of both levels *)

\* SELECT COUNT(*) FROM pue_records: below the threshold, or at or above it.
L2Count(high) ==
    /\ cpc = "l2count"
    /\ cpc' = IF high THEN "l2exists" ELSE "notify"
    /\ UNCHANGED <<table, rows, checks, cur, fresh, announce, delivery, outLen, crashes, history>>

\* The EXISTS query and the query of the latest PUE; an error of either is
\* logged and no alarm is raised.
L2Exists ==
    /\ cpc = "l2exists"
    /\ \/ /\ Open(PUEKey) \/ DBFaults
          /\ cpc' = "notify" /\ UNCHANGED cur
       \/ /\ ~Open(PUEKey)
          /\ cpc' = "insert" /\ cur' = PUEKey
    /\ UNCHANGED <<table, rows, checks, fresh, announce, delivery, outLen, crashes, history>>

AfterInsert == IF cur = PUEKey THEN "notify" ELSE "scan"

\* INSERT ... RETURNING id: the row is committed and joins newAlarms.
InsertAlarm ==
    /\ cpc = "insert" /\ ForeignKeyHolds(cur)
    /\ alarms' = Append(alarms, NewRow(cur))
    /\ posts' = Append(posts, 0)
    /\ fresh' = Append(fresh, Len(alarms) + 1)
    /\ announce' = TRUE
    /\ cpc' = AfterInsert
    /\ UNCHANGED <<rows, checks, cur, delivery, outLen, crashes, arrived, ok, lost>>

\* The INSERT fails: a violated foreign key, or a fault of the database.
InsertFails ==
    /\ cpc = "insert"
    /\ ~ForeignKeyHolds(cur) \/ DBFaults
    /\ cpc' = AfterInsert
    /\ UNCHANGED <<table, rows, checks, cur, fresh, announce, delivery, outLen, crashes, history>>

\* The INSERT commits but its answer is lost: the row exists, and the code
\* takes the error path.
InsertAnswerLost ==
    /\ DBFaults
    /\ cpc = "insert" /\ ForeignKeyHolds(cur)
    /\ alarms' = Append(alarms, NewRow(cur))
    /\ posts' = Append(posts, 0)
    /\ lost' = lost \cup {Len(alarms) + 1}
    /\ cpc' = AfterInsert
    /\ UNCHANGED <<rows, checks, cur, fresh, announce, delivery, outLen, crashes, arrived, ok>>

-----------------------------------------------------------------------------
(* The end of checkAlarms, and outCh *)

\* The loop over newAlarms calls sendDingTalk for the next one.
CheckerPost ==
    /\ cpc = "notify" /\ Webhook /\ fresh # <<>> /\ Idle("checker")
    /\ fresh' = Tail(fresh)
    /\ sending' = [sending EXCEPT !["checker"] = Call("post", Head(fresh))]
    /\ posts' = [posts EXCEPT ![Head(fresh)] = @ + 1]
    /\ UNCHANGED <<table, cpc, rows, checks, cur, announce, pending, batch, retryCounts,
                   outLen, crashes, arrived, ok, lost>>

\* Mutant of Publish: the send on outCh has no default and waits for room.
PublishBlocks ==
    /\ cpc = "notify" /\ Idle("checker") /\ (Webhook => fresh = <<>>)
    /\ announce => Room
    /\ cpc' = "idle" /\ fresh' = <<>> /\ announce' = FALSE
    /\ outLen' = IF announce THEN outLen + 1 ELSE outLen
    /\ UNCHANGED <<table, rows, checks, cur, delivery, crashes, history>>

\* checkAlarms returns; Run hands a non-empty list to outCh, or drops it
\* when the channel is full.
Publish ==
    /\ cpc = "notify" /\ Idle("checker") /\ (Webhook => fresh = <<>>)
    /\ cpc' = "idle" /\ fresh' = <<>> /\ announce' = FALSE
    /\ outLen' = IF announce /\ Room THEN outLen + 1 ELSE outLen
    /\ UNCHANGED <<table, rows, checks, cur, delivery, crashes, history>>

\* The event router takes a list from outCh.
RouterReceives ==
    /\ outLen > 0 /\ outLen' = outLen - 1
    /\ UNCHANGED <<table, checker, delivery, crashes, history>>

-----------------------------------------------------------------------------
(* retryLoop *)

\* The ticker fires: the pending list is swapped out under n.mu.
RetryTick ==
    /\ batch = <<>> /\ Idle("retry") /\ pending # <<>>
    /\ batch' = pending /\ pending' = AfterSwap
    /\ UNCHANGED <<table, checker, sending, retryCounts, outLen, crashes, history>>

\* The next alarm of the swapped list has used up its retries: it is dropped.
RetryGivesUp ==
    /\ batch # <<>> /\ Idle("retry")
    /\ RetryLimitReached(Count(Head(batch)) + 1)
    /\ retryCounts' = Forget(Head(batch))
    /\ batch' = Tail(batch)
    /\ UNCHANGED <<table, checker, sending, pending, outLen, crashes, history>>

\* The next alarm of the swapped list is counted and posted again.
RetryPost ==
    /\ batch # <<>> /\ Idle("retry")
    /\ ~RetryLimitReached(Count(Head(batch)) + 1)
    /\ retryCounts' = Bumped(Head(batch))
    /\ batch' = Tail(batch)
    /\ sending' = [sending EXCEPT !["retry"] = Call("post", Head(batch))]
    /\ posts' = [posts EXCEPT ![Head(batch)] = @ + 1]
    /\ UNCHANGED <<table, checker, pending, outLen, crashes, arrived, ok, lost>>

-----------------------------------------------------------------------------
(* sendDingTalk, in either goroutine *)

\* The post reaches the webhook.
Arrive(p) ==
    /\ sending[p].at = "post"
    /\ sending' = [sending EXCEPT ![p].at = "arrived"]
    /\ arrived' = arrived \cup {sending[p].id}
    /\ UNCHANGED <<table, checker, pending, batch, retryCounts, outLen, crashes, posts, ok, lost>>

\* A transport error, a timeout (before or after the arrival) or a status of
\* 300 or more: the alarm is queued for the retry loop under n.mu.
PostFails(p) ==
    /\ Failed(p)
    /\ sending' = [sending EXCEPT ![p] = NoCall]
    /\ pending' = Requeued(sending[p].id)
    /\ UNCHANGED <<table, checker, batch, retryCounts, outLen, crashes, history>>

\* The webhook answers below 300.
PostAccepted(p) ==
    /\ Accepted(p)
    /\ sending' = [sending EXCEPT ![p].at = "mark"]
    /\ ok' = ok \cup {sending[p].id}
    /\ UNCHANGED <<table, checker, pending, batch, retryCounts, outLen, crashes, posts, arrived, lost>>

\* UPDATE alarms SET dingtalk_sent = true; its error is only logged.  The
\* call returns nil, and the retry loop forgets the count.
MarkSent(p) ==
    /\ sending[p].at = "mark"
    /\ \/ alarms' = [alarms EXCEPT ![sending[p].id].dingtalk_sent = TRUE]
       \/ DBFaults /\ UNCHANGED alarms
    /\ retryCounts' = IF p = "retry" THEN Forget(sending[p].id) ELSE retryCounts
    /\ sending' = [sending EXCEPT ![p] = NoCall]
    /\ UNCHANGED <<checker, pending, batch, outLen, crashes, history>>

-----------------------------------------------------------------------------
(* The environment *)

\* POST /api/alarms/{id}/ack, in the goroutine of the request.
AcknowledgeAlarm(i) ==
    /\ i \in DOMAIN alarms /\ ~alarms[i].acknowledged
    /\ alarms' = [alarms EXCEPT ![i].acknowledged = TRUE]
    /\ UNCHANGED <<checker, delivery, outLen, crashes, history>>

\* The process dies (log.Fatal, a panic of another goroutine, the host) and
\* is restarted by its container: only the table survives.
Crash ==
    /\ crashes < MaxCrashes
    /\ crashes' = crashes + 1
    /\ lost' = lost \cup Held
    /\ cpc' = "idle" /\ rows' = {} /\ checks' = {} /\ cur' = PUEKey
    /\ fresh' = <<>> /\ announce' = FALSE
    /\ sending' = [p \in Goroutines |-> NoCall]
    /\ pending' = <<>> /\ batch' = <<>> /\ retryCounts' = <<>>
    /\ outLen' = 0
    /\ UNCHANGED <<table, posts, arrived, ok>>

-----------------------------------------------------------------------------
Scanning == \/ \E d \in Devices : NextRow(d)
            \/ \E k \in checks : CheckExists(k)
            \/ ScanDone
            \/ CheckAborts

Raising == \/ \E high \in BOOLEAN : L2Count(high)
           \/ L2Exists
           \/ InsertAlarm
           \/ InsertFails
           \/ InsertAnswerLost
           \/ CheckerPost
           \/ Publish

CheckerStep == Scanning \/ Raising

Retrying == RetryGivesUp \/ RetryPost

Posting(p) == Arrive(p) \/ PostFails(p) \/ PostAccepted(p) \/ MarkSent(p)

Next == \/ \E S \in SUBSET Keys1 : CheckTick(S)
        \/ CheckerStep
        \/ RouterReceives
        \/ RetryTick
        \/ Retrying
        \/ \E p \in Goroutines : Posting(p)
        \/ \E i \in DOMAIN alarms : AcknowledgeAlarm(i)
        \/ Crash

Spec == Init /\ [][Next]_vars

\* Every statement and every post returns (they have timeouts), the retry
\* ticker keeps firing and the Go scheduler runs both goroutines.  Nothing
\* obliges a post to succeed, an operator to acknowledge or a router to read.
Fairness == /\ WF_vars(CheckerStep)
            /\ WF_vars(RetryTick)
            /\ WF_vars(Retrying)
            /\ \A p \in Goroutines : WF_vars(Posting(p))

FairSpec == Spec /\ Fairness

-----------------------------------------------------------------------------
(* Type invariant *)

Ids    == 1..Len(alarms)
Stages == {"none", "post", "arrived", "mark"}
CPCs   == {"idle", "scan", "insert", "l2count", "l2exists", "notify"}

\* Every variable has its type, and the ids the process keeps are rows.
TypeOK == /\ alarms \in Seq([key : Keys, acknowledged : BOOLEAN, dingtalk_sent : BOOLEAN])
          /\ cpc \in CPCs /\ rows \subseteq Keys1 /\ checks \subseteq Keys1 /\ cur \in Keys
          /\ fresh \in Seq(Ids) /\ announce \in BOOLEAN
          /\ sending \in [Goroutines -> [at : Stages, id : Nat]]
          /\ \A p \in Goroutines : ~Idle(p) => sending[p].id \in Ids
          /\ pending \in Seq(Ids) /\ batch \in Seq(Ids)
          /\ DOMAIN retryCounts \subseteq Ids
          /\ \A i \in DOMAIN retryCounts : retryCounts[i] \in Nat
          /\ outLen \in 0..OutCap /\ crashes \in 0..MaxCrashes
          /\ posts \in Seq(Nat) /\ Len(posts) = Len(alarms)
          /\ arrived \subseteq Ids /\ ok \subseteq Ids /\ lost \subseteq Ids

-----------------------------------------------------------------------------
(* Safety *)

\* At most one unacknowledged alarm per device and metric: the EXISTS query
\* and the INSERT of checkAlarms are two statements without a transaction,
\* and acknowledgements, retries and restarts run between them.
AtMostOneOpen ==
    \A i, j \in DOMAIN alarms :
        /\ alarms[i].key = alarms[j].key
        /\ ~alarms[i].acknowledged /\ ~alarms[j].acknowledged
        => i = j

\* An alarm is posted once by the check and at most DingTalkMaxRetries times
\* by the retry loop, however the two goroutines and the failures interleave.
PostBound == \A i \in Ids : posts[i] <= 1 + MaxRetries

\* Custody: newAlarms, a call of the checker, the pending list, the swapped
\* list and a call of the retry loop never hold one alarm twice, so no alarm
\* is ever in the middle of two posts.
SingleCustody ==
    /\ IsInjective(fresh) /\ IsInjective(pending) /\ IsInjective(batch)
    /\ Range(fresh) \cap InRetry = {}
    /\ Range(pending) \cap Range(batch) = {}
    /\ Flight("checker") \cap (Range(pending) \cup Range(batch) \cup Flight("retry")) = {}
    /\ Flight("retry") \cap (Range(pending) \cup Range(batch)) = {}

\* retryCounts does not leak: an entry belongs to an alarm still in retry.
CountsAreLive == DOMAIN retryCounts \subseteq Range(pending) \cup Range(batch) \cup Flight("retry")

Settled(i) == i \in ok \/ i \in lost \/ posts[i] = 1 + MaxRetries

\* An alarm that was posted leaves the retry machinery only when the webhook
\* answered, when it was posted 1 + DingTalkMaxRetries times, or in a crash.
GivesUpOnlyAfterMax ==
    \A i \in Ids : posts[i] > 0 /\ i \notin InRetry => Settled(i)

\* Once the webhook has accepted an alarm it is never posted again, even when
\* the UPDATE of dingtalk_sent failed.
NoRepostAfterOk == [][\A i \in ok : posts'[i] = posts[i]]_vars

-----------------------------------------------------------------------------
(* The promise of the notifier *)

\* What has become of alarm i: the webhook accepted it; the process holds it;
\* it was forgotten, or never handed over; or it was given up.
Fate(i) == IF i \in ok THEN "accepted"
           ELSE IF i \in Held THEN "owed"
           ELSE IF i \in lost \/ posts[i] = 0 THEN "forgotten" ELSE "spent"
Fates   == [i \in Ids |-> Fate(i)]

Delivery == INSTANCE AlarmDelivery WITH MaxPosts <- 1 + MaxRetries,
                                        reached <- arrived, fate <- Fates

\* The notifier keeps the promise of AlarmDelivery: whatever checker, retry
\* loop, operator and crashes do to each other, each step of an alarm is one
\* that may follow the steps it has made, and none is dropped half-way.
DeliverySpec == Delivery!Spec

-----------------------------------------------------------------------------
(* Liveness *)

\* Every alarm that was raised is settled: accepted by the webhook, posted
\* 1 + DingTalkMaxRetries times, or forgotten with a failed check or a crash.
EventuallySettled ==
    \A i \in 1..MaxAlarms :
        i \in Ids ~> i \in Ids /\ Settled(i)

\* A check that has begun comes to its end, whatever the webhook does.
CheckReturns == cpc # "idle" ~> cpc = "idle"

-----------------------------------------------------------------------------
(* What the documentation says and the code does not do *)

\* An alarm that was raised is handed on: when no check runs, each row of the
\* table has been posted at least once.
EveryAlarmPosted == cpc = "idle" => \A i \in Ids : posts[i] > 0

\* A PUE that stays over its threshold raises the level-2 alarm: an INSERT
\* that no fault disturbs leaves an open row.
L2AlarmRaised == [][cpc = "insert" /\ cur = PUEKey /\ cpc' = "notify" => Open(PUEKey)']_vars
=============================================================================
