------------------------ MODULE AlarmNotifierProofs ------------------------
(***************************************************************************)
(* Proofs about AlarmNotifier for every set of devices and metrics, every  *)
(* retry limit, channel capacity and number of alarms and crashes.         *)
(*                                                                         *)
(* The invariant is built in layers, each inductive relative to the ones   *)
(* before it: the types, the custody of alarms, the counts of the retry    *)
(* loop, the tally of posts, the marks, what is given up, and (on its own) *)
(* the open alarms.  Together they give the refinement of AlarmDelivery.   *)
(***************************************************************************)
EXTENDS AlarmNotifier, CommonLemmas

(***************************************************************************)
(* Types                                                                   *)
(***************************************************************************)
Row == [key : Keys, acknowledged : BOOLEAN, dingtalk_sent : BOOLEAN]

\* The numeric constants are naturals.
LEMMA Bounds == MaxRetries \in Nat /\ OutCap \in Nat \ {0} /\ MaxAlarms \in Nat /\ MaxCrashes \in Nat
BY BoundAssumption

\* A new row is appended: the ids grow by one and old ids stay ids.
LEMMA NewRowType ==
    ASSUME TypeOK, cpc = "insert", alarms' = Append(alarms, NewRow(cur)),
           posts' = Append(posts, 0)
    PROVE  /\ alarms' \in Seq(Row)
           /\ Len(alarms) \in Nat /\ Len(alarms') = Len(alarms) + 1
           /\ posts' \in Seq(Nat) /\ Len(posts') = Len(alarms')
           /\ Ids \subseteq Ids' /\ Len(alarms) + 1 \in Ids' /\ Len(alarms) + 1 \notin Ids
<1>1. NewRow(cur) \in Row
  BY DEF NewRow, Row, TypeOK
<1>2. alarms \in Seq(Row) /\ posts \in Seq(Nat) /\ Len(posts) = Len(alarms)
  BY DEF TypeOK, Row
<1>3. alarms' \in Seq(Row) /\ Len(alarms') = Len(alarms) + 1 /\ Len(alarms) \in Nat
  BY <1>1, <1>2
<1>4. posts' \in Seq(Nat) /\ Len(posts') = Len(alarms')
  BY <1>2, <1>3
<1>5. QED BY <1>3, <1>4 DEF Ids

\* A sequence over the old ids is one over the new ids.
LEMMA SeqWider == ASSUME NEW S, NEW T, S \subseteq T, NEW s \in Seq(S) PROVE s \in Seq(T)
OBVIOUS

\* The types hold initially.
LEMMA TypeInit == Init => TypeOK
<1> SUFFICES ASSUME Init PROVE TypeOK
  OBVIOUS
<1> USE DEF Init
<1>1. Ids = {}
  BY DEF Ids
<1>2. PUEKey \in Keys
  BY DEF Keys
<1>3. sending \in [Goroutines -> [at : Stages, id : Nat]] /\ \A p \in Goroutines : Idle(p)
  BY DEF NoCall, Stages, Idle
<1>4. DOMAIN retryCounts = {}
  OBVIOUS
<1>5. 0 \in 0..OutCap /\ 0 \in 0..MaxCrashes
  BY Bounds
<1>6. /\ <<>> \in Seq(Row) /\ <<>> \in Seq(Ids) /\ <<>> \in Seq(Nat)
      /\ Len(posts) = Len(alarms)
  OBVIOUS
<1>7. cpc \in CPCs
  BY DEF CPCs
<1> HIDE DEF Init
<1>8. QED
  BY <1>1, <1>2, <1>3, <1>4, <1>5, <1>6, <1>7 DEF TypeOK, Init, Row

\* Every step of the level-1 scan keeps the types.
LEMMA TypeScan ==
    ASSUME TypeOK, \/ \E S \in SUBSET Keys1 : CheckTick(S)
                   \/ Scanning
                   \/ \E high \in BOOLEAN : L2Count(high)
                   \/ L2Exists
                   \/ InsertFails
    PROVE  TypeOK'
<1> USE DEF TypeOK, Ids, Idle, table, checker, delivery, history
<1>1. CASE \E S \in SUBSET Keys1 : CheckTick(S)
  BY <1>1 DEF CheckTick, CPCs
<1>2. CASE Scanning
  <2>1. CASE \E d \in Devices : NextRow(d)
    BY <2>1 DEF NextRow
  <2>2. ASSUME NEW k \in checks, CheckExists(k) PROVE TypeOK'
    BY <2>2 DEF CheckExists, CPCs, Keys
  <2>3. CASE ScanDone
    BY <2>3 DEF ScanDone, CPCs
  <2>4. CASE CheckAborts
    <3>1. lost' \subseteq Ids'
      <4>1. Range(fresh) \subseteq Ids
        BY RangeInSet
      <4>2. QED BY <2>4, <4>1 DEF CheckAborts
    <3>2. <<>> \in Seq(Ids)
      OBVIOUS
    <3>3. QED BY <2>4, <3>1, <3>2 DEF CheckAborts, CPCs
  <2>5. QED BY <1>2, <2>1, <2>2, <2>3, <2>4 DEF Scanning
<1>3. CASE \E high \in BOOLEAN : L2Count(high)
  BY <1>3 DEF L2Count, CPCs
<1>4. CASE L2Exists
  BY <1>4 DEF L2Exists, CPCs, Keys
<1>5. CASE InsertFails
  BY <1>5 DEF InsertFails, AfterInsert, CPCs
<1>6. QED BY <1>1, <1>2, <1>3, <1>4, <1>5

\* A committed row keeps the types.
LEMMA TypeInsert == ASSUME TypeOK, InsertAlarm \/ InsertAnswerLost PROVE TypeOK'
<1>1. /\ cpc = "insert" /\ alarms' = Append(alarms, NewRow(cur)) /\ posts' = Append(posts, 0)
      /\ cpc' = AfterInsert /\ arrived' = arrived /\ ok' = ok
      /\ UNCHANGED <<rows, checks, cur, delivery, outLen, crashes>>
  BY DEF InsertAlarm, InsertAnswerLost
<1>2. /\ alarms' \in Seq(Row)
      /\ Len(alarms) \in Nat /\ Len(alarms') = Len(alarms) + 1
      /\ posts' \in Seq(Nat) /\ Len(posts') = Len(alarms')
      /\ Ids \subseteq Ids' /\ Len(alarms) + 1 \in Ids'
  BY <1>1, NewRowType
<1>3. cpc' \in CPCs /\ rows' \subseteq Keys1 /\ checks' \subseteq Keys1 /\ cur' \in Keys
  BY <1>1 DEF AfterInsert, CPCs, TypeOK
<1>4. fresh' \in Seq(Ids') /\ announce' \in BOOLEAN /\ lost' \subseteq Ids'
  <2>1. fresh \in Seq(Ids') /\ lost \subseteq Ids'
    BY <1>2, SeqWider DEF TypeOK
  <2>2. announce \in BOOLEAN /\ Append(fresh, Len(alarms) + 1) \in Seq(Ids')
        /\ lost \cup {Len(alarms) + 1} \subseteq Ids'
    BY <1>2, <2>1 DEF TypeOK
  <2>3. QED BY <2>1, <2>2 DEF InsertAlarm, InsertAnswerLost
<1>5. /\ sending' \in [Goroutines -> [at : Stages, id : Nat]]
      /\ \A p \in Goroutines : ~Idle(p)' => sending'[p].id \in Ids'
      /\ DOMAIN retryCounts' \subseteq Ids'
      /\ \A i \in DOMAIN retryCounts' : retryCounts'[i] \in Nat
  BY <1>1, <1>2 DEF TypeOK, delivery, Idle
<1>6. pending' \in Seq(Ids') /\ batch' \in Seq(Ids')
  BY <1>1, <1>2, SeqWider DEF TypeOK, delivery
<1>7. outLen' \in 0..OutCap /\ crashes' \in 0..MaxCrashes /\ arrived' \subseteq Ids' /\ ok' \subseteq Ids'
  BY <1>1, <1>2 DEF TypeOK
<1>8. QED BY <1>2, <1>3, <1>4, <1>5, <1>6, <1>7 DEF TypeOK, Row

\* Forgetting or bumping a count keeps the type of the map.
LEMMA CountTypes ==
    ASSUME TypeOK, NEW id \in Ids
    PROVE  /\ Count(id) \in Nat
           /\ DOMAIN Bumped(id) \subseteq Ids /\ \A i \in DOMAIN Bumped(id) : Bumped(id)[i] \in Nat
           /\ DOMAIN Forget(id) \subseteq Ids /\ \A i \in DOMAIN Forget(id) : Forget(id)[i] \in Nat
BY DEF TypeOK, Count, Bumped, Forget, Restrict

\* Replacing one call keeps the type of sending.
LEMMA CallType ==
    ASSUME TypeOK, NEW p \in Goroutines, NEW a \in Stages, NEW i \in Nat,
           a # "none" => i \in Ids, sending' = [sending EXCEPT ![p] = Call(a, i)], Ids' = Ids
    PROVE  /\ sending' \in [Goroutines -> [at : Stages, id : Nat]]
           /\ \A q \in Goroutines : ~Idle(q)' => sending'[q].id \in Ids'
BY DEF TypeOK, Call, Idle

\* The id a call carries, and the id that heads a queue, are rows.
LEMMA HeadTypes ==
    ASSUME TypeOK
    PROVE  /\ fresh # <<>> => Head(fresh) \in Ids /\ Tail(fresh) \in Seq(Ids)
           /\ batch # <<>> => Head(batch) \in Ids /\ Tail(batch) \in Seq(Ids)
           /\ Ids \subseteq Nat
           /\ \A i \in Ids : posts[i] \in Nat
           /\ \A i \in Ids : /\ [posts EXCEPT ![i] = @ + 1] \in Seq(Nat)
                             /\ Len([posts EXCEPT ![i] = @ + 1]) = Len(posts)
<1>1. fresh \in Seq(Ids) /\ batch \in Seq(Ids) /\ posts \in Seq(Nat) /\ Ids = 1..Len(posts)
  BY DEF TypeOK, Ids
<1>2. Ids \subseteq Nat /\ \A i \in Ids : posts[i] \in Nat
  BY <1>1 DEF Ids
<1>3. ASSUME NEW i \in Ids
      PROVE  /\ [posts EXCEPT ![i] = @ + 1] \in Seq(Nat)
             /\ Len([posts EXCEPT ![i] = @ + 1]) = Len(posts)
  BY <1>1, <1>2
<1>4. fresh # <<>> => Head(fresh) \in Ids /\ Tail(fresh) \in Seq(Ids)
  BY <1>1, RangeTail
<1>5. batch # <<>> => Head(batch) \in Ids /\ Tail(batch) \in Seq(Ids)
  BY <1>1, RangeTail
<1>6. QED BY <1>2, <1>3, <1>4, <1>5

\* Setting one of its flags keeps a row a row, and changes no other row.
LEMMA RowUpdate ==
    ASSUME TypeOK, NEW i \in Ids
    PROVE  LET sent == [alarms EXCEPT ![i].dingtalk_sent = TRUE]
               ackd == [alarms EXCEPT ![i].acknowledged = TRUE]
           IN  /\ sent \in Seq(Row) /\ Len(sent) = Len(alarms)
               /\ ackd \in Seq(Row) /\ Len(ackd) = Len(alarms)
<1>1. alarms \in Seq(Row) /\ Len(alarms) \in Nat /\ Ids = 1..Len(alarms)
  BY DEF TypeOK, Row, Ids
<1>2. alarms[i] \in Row
  BY <1>1
<1>3. /\ [alarms[i] EXCEPT !.dingtalk_sent = TRUE] \in Row
      /\ [alarms[i] EXCEPT !.acknowledged = TRUE] \in Row
  BY <1>2 DEF Row
<1>4. /\ [alarms EXCEPT ![i] = [alarms[i] EXCEPT !.dingtalk_sent = TRUE]] \in Seq(Row)
      /\ [alarms EXCEPT ![i] = [alarms[i] EXCEPT !.acknowledged = TRUE]] \in Seq(Row)
  BY <1>1, <1>3
<1>5. QED BY <1>1, <1>4

\* The end of a check, outCh and the retry loop keep the types.
LEMMA TypeRetry ==
    ASSUME TypeOK, CheckerPost \/ Publish \/ RouterReceives \/ RetryTick \/ Retrying
    PROVE  TypeOK'
<1> USE DEF table, checker, delivery, history
<1>1. CASE CheckerPost
  <2>1. /\ fresh # <<>> /\ fresh' = Tail(fresh) /\ alarms' = alarms
        /\ sending' = [sending EXCEPT !["checker"] = Call("post", Head(fresh))]
        /\ posts' = [posts EXCEPT ![Head(fresh)] = @ + 1]
    BY <1>1 DEF CheckerPost
  <2>2. Head(fresh) \in Ids /\ Head(fresh) \in Nat /\ Ids' = Ids
    BY <2>1, HeadTypes DEF Ids
  <2>3. /\ sending' \in [Goroutines -> [at : Stages, id : Nat]]
        /\ \A q \in Goroutines : ~Idle(q)' => sending'[q].id \in Ids'
    BY <2>1, <2>2, CallType DEF Goroutines, Stages
  <2>4. posts' \in Seq(Nat) /\ Len(posts') = Len(posts) /\ fresh' \in Seq(Ids')
    BY <2>1, <2>2, HeadTypes
  <2>5. QED BY <1>1, <2>2, <2>3, <2>4 DEF CheckerPost, TypeOK
<1>2. CASE Publish
  <2>1. Ids' = Ids /\ <<>> \in Seq(Ids) /\ \A q \in Goroutines : Idle(q)' = Idle(q)
    BY <1>2 DEF Publish, Ids, Idle
  <2>2. outLen' \in 0..OutCap
    BY <1>2, Bounds DEF Publish, TypeOK, Room
  <2>3. QED BY <1>2, <2>1, <2>2 DEF Publish, TypeOK, CPCs
<1>3. CASE RouterReceives
  <2>1. Ids' = Ids /\ \A q \in Goroutines : Idle(q)' = Idle(q)
    BY <1>3 DEF RouterReceives, Ids, Idle
  <2>2. outLen' \in 0..OutCap
    BY <1>3, Bounds DEF RouterReceives, TypeOK
  <2>3. QED BY <1>3, <2>1, <2>2 DEF RouterReceives, TypeOK
<1>4. CASE RetryTick
  <2>1. Ids' = Ids /\ <<>> \in Seq(Ids) /\ \A q \in Goroutines : Idle(q)' = Idle(q)
    BY <1>4 DEF RetryTick, Ids, Idle
  <2>2. QED BY <1>4, <2>1 DEF RetryTick, TypeOK, AfterSwap
<1>5. CASE RetryGivesUp
  <2>1. Ids' = Ids /\ \A q \in Goroutines : Idle(q)' = Idle(q)
    BY <1>5 DEF RetryGivesUp, Ids, Idle
  <2>2. Head(batch) \in Ids /\ batch' \in Seq(Ids) /\ retryCounts' = Forget(Head(batch))
    BY <1>5, HeadTypes DEF RetryGivesUp
  <2>3. DOMAIN retryCounts' \subseteq Ids /\ \A i \in DOMAIN retryCounts' : retryCounts'[i] \in Nat
    BY <2>2, CountTypes
  <2>4. QED BY <1>5, <2>1, <2>2, <2>3 DEF RetryGivesUp, TypeOK
<1>6. CASE RetryPost
  <2>1. /\ batch # <<>> /\ batch' = Tail(batch) /\ alarms' = alarms
        /\ sending' = [sending EXCEPT !["retry"] = Call("post", Head(batch))]
        /\ posts' = [posts EXCEPT ![Head(batch)] = @ + 1]
        /\ retryCounts' = Bumped(Head(batch))
    BY <1>6 DEF RetryPost
  <2>2. Head(batch) \in Ids /\ Head(batch) \in Nat /\ Ids' = Ids
    BY <2>1, HeadTypes DEF Ids
  <2>3. /\ sending' \in [Goroutines -> [at : Stages, id : Nat]]
        /\ \A q \in Goroutines : ~Idle(q)' => sending'[q].id \in Ids'
    BY <2>1, <2>2, CallType DEF Goroutines, Stages
  <2>4. posts' \in Seq(Nat) /\ Len(posts') = Len(posts) /\ batch' \in Seq(Ids')
    BY <2>1, <2>2, HeadTypes
  <2>5. DOMAIN retryCounts' \subseteq Ids /\ \A i \in DOMAIN retryCounts' : retryCounts'[i] \in Nat
    BY <2>1, <2>2, CountTypes
  <2>6. QED BY <1>6, <2>2, <2>3, <2>4, <2>5 DEF RetryPost, TypeOK
<1>7. QED BY <1>1, <1>2, <1>3, <1>4, <1>5, <1>6 DEF Retrying

\* Moving a call on, without changing its id, keeps the type of sending.
LEMMA StageType ==
    ASSUME TypeOK, NEW p \in Goroutines, NEW a \in Stages, ~Idle(p),
           sending' = [sending EXCEPT ![p].at = a], Ids' = Ids
    PROVE  /\ sending' \in [Goroutines -> [at : Stages, id : Nat]]
           /\ \A q \in Goroutines : ~Idle(q)' => sending'[q].id \in Ids'
           /\ sending[p].id \in Ids
BY DEF TypeOK, Idle

\* The steps of sendDingTalk keep the types.
LEMMA TypePosting == ASSUME TypeOK, NEW p \in Goroutines, Posting(p) PROVE TypeOK'
<1> USE DEF table, checker, delivery, history
<1>1. CASE Arrive(p)
  <2>1. ~Idle(p) /\ Ids' = Ids /\ "arrived" \in Stages
        /\ sending' = [sending EXCEPT ![p].at = "arrived"]
    BY <1>1 DEF Arrive, Idle, Ids, Stages
  <2>2. QED BY <1>1, <2>1, StageType DEF Arrive, TypeOK
<1>2. CASE PostFails(p)
  <2>1. ~Idle(p) /\ Ids' = Ids /\ "none" \in Stages /\ 0 \in Nat
        /\ sending' = [sending EXCEPT ![p] = Call("none", 0)]
    BY <1>2 DEF PostFails, Failed, Idle, Ids, Stages, NoCall, Call
  <2>2. /\ sending' \in [Goroutines -> [at : Stages, id : Nat]]
        /\ \A q \in Goroutines : ~Idle(q)' => sending'[q].id \in Ids'
    BY <2>1, CallType
  <2>3. pending' \in Seq(Ids')
    <3>1. sending[p].id \in Ids /\ pending \in Seq(Ids)
      BY <2>1 DEF TypeOK
    <3>2. QED BY <1>2, <2>1, <3>1 DEF PostFails, Requeued
  <2>4. QED BY <1>2, <2>1, <2>2, <2>3 DEF PostFails, TypeOK
<1>3. CASE PostAccepted(p)
  <2>1. ~Idle(p) /\ Ids' = Ids /\ "mark" \in Stages
        /\ sending' = [sending EXCEPT ![p].at = "mark"]
    BY <1>3 DEF PostAccepted, Accepted, Idle, Ids, Stages
  <2>2. QED BY <1>3, <2>1, StageType DEF PostAccepted, TypeOK
<1>4. CASE MarkSent(p)
  <2>1. alarms' \in Seq(Row) /\ Len(alarms') = Len(alarms)
    <3>1. sending[p].id \in Ids
      BY <1>4 DEF MarkSent, TypeOK, Idle
    <3>2. alarms' = [alarms EXCEPT ![sending[p].id].dingtalk_sent = TRUE] \/ alarms' = alarms
      BY <1>4 DEF MarkSent
    <3>3. QED BY <3>1, <3>2, RowUpdate DEF TypeOK, Row
  <2>2. ~Idle(p) /\ Ids' = Ids /\ "none" \in Stages /\ 0 \in Nat
        /\ sending' = [sending EXCEPT ![p] = Call("none", 0)]
    BY <1>4, <2>1 DEF MarkSent, Idle, Ids, Stages, NoCall, Call
  <2>3. /\ sending' \in [Goroutines -> [at : Stages, id : Nat]]
        /\ \A q \in Goroutines : ~Idle(q)' => sending'[q].id \in Ids'
    BY <2>2, CallType
  <2>4. DOMAIN retryCounts' \subseteq Ids /\ \A i \in DOMAIN retryCounts' : retryCounts'[i] \in Nat
    <3>1. sending[p].id \in Ids
      BY <2>2 DEF TypeOK
    <3>2. retryCounts' = Forget(sending[p].id) \/ retryCounts' = retryCounts
      BY <1>4 DEF MarkSent
    <3>3. QED BY <3>1, <3>2, CountTypes DEF TypeOK
  <2>5. QED BY <1>4, <2>1, <2>2, <2>3, <2>4 DEF MarkSent, TypeOK, Row
<1>5. QED BY <1>1, <1>2, <1>3, <1>4 DEF Posting

\* Acknowledgement and crash keep the types.
LEMMA TypeEnvironment ==
    ASSUME TypeOK, (\E i \in DOMAIN alarms : AcknowledgeAlarm(i)) \/ Crash
    PROVE  TypeOK'
<1> USE DEF table, checker, delivery, history
<1>1. ASSUME NEW i \in DOMAIN alarms, AcknowledgeAlarm(i) PROVE TypeOK'
  <2>1. alarms' \in Seq(Row) /\ Len(alarms') = Len(alarms)
    <3>1. i \in Ids
      BY DEF TypeOK, Ids
    <3>2. QED BY <1>1, <3>1, RowUpdate DEF AcknowledgeAlarm
  <2>2. Ids' = Ids /\ \A q \in Goroutines : Idle(q)' = Idle(q)
    BY <1>1, <2>1 DEF AcknowledgeAlarm, Ids, Idle
  <2>3. QED BY <1>1, <2>1, <2>2 DEF AcknowledgeAlarm, TypeOK, Row
<1>2. CASE Crash
  <2>1. Ids' = Ids /\ crashes' \in 0..MaxCrashes /\ 0 \in 0..OutCap /\ PUEKey \in Keys
    BY <1>2, Bounds DEF Crash, Ids, TypeOK, Keys
  <2>2. Held \subseteq Ids
    <3>1. Range(fresh) \subseteq Ids /\ Range(pending) \subseteq Ids /\ Range(batch) \subseteq Ids
      BY RangeInSet DEF TypeOK
    <3>2. \A p \in Goroutines : Flight(p) \subseteq Ids
      BY DEF Flight, TypeOK
    <3>3. QED BY <3>1, <3>2 DEF Held, InRetry, Goroutines
  <2>3. /\ sending' \in [Goroutines -> [at : Stages, id : Nat]]
        /\ \A q \in Goroutines : Idle(q)'
    BY <1>2 DEF Crash, NoCall, Stages, Idle
  <2>4. <<>> \in Seq(Ids) /\ DOMAIN retryCounts' = {}
    BY <1>2 DEF Crash
  <2>5. QED BY <1>2, <2>1, <2>2, <2>3, <2>4 DEF Crash, TypeOK, CPCs
<1>3. QED BY <1>1, <1>2

\* Every step keeps the types.
LEMMA TypeStep == TypeOK /\ [Next]_vars => TypeOK'
<1> SUFFICES ASSUME TypeOK, [Next]_vars PROVE TypeOK'
  OBVIOUS
<1>1. CASE Next
  BY <1>1, TypeScan, TypeInsert, TypeRetry, TypePosting, TypeEnvironment
  DEF Next, CheckerStep, Raising
<1>2. CASE UNCHANGED vars
  BY <1>2 DEF TypeOK, vars, table, checker, delivery, history, Ids, Idle
<1>3. QED BY <1>1, <1>2

\* The types are invariant.
THEOREM TypeCorrect == Spec => []TypeOK
BY TypeInit, TypeStep, PTL DEF Spec

(***************************************************************************)
(* What each step does to the places an alarm can be in                    *)
(***************************************************************************)

\* Steps that neither move an alarm nor change what is known of its posts.
Quiet == /\ UNCHANGED <<fresh, sending, pending, batch, retryCounts, posts, arrived, ok, lost>>
         /\ Ids' = Ids
         /\ \A i \in Ids : alarms'[i].dingtalk_sent = alarms[i].dingtalk_sent

Insertion  == InsertAlarm \/ InsertAnswerLost
Forgetting == CheckAborts \/ Publish \/ Crash

\* Every step is quiet or one of the moves.
LEMMA StepCases ==
    ASSUME TypeOK, [Next]_vars
    PROVE  \/ Quiet \/ Insertion \/ Forgetting
           \/ CheckerPost \/ RetryTick \/ RetryGivesUp \/ RetryPost
           \/ \E p \in Goroutines : Arrive(p) \/ PostFails(p) \/ PostAccepted(p) \/ MarkSent(p)
<1> USE DEF table, checker, delivery, history, Quiet, Ids
<1>1. ASSUME NEW S \in SUBSET Keys1, CheckTick(S) PROVE Quiet
  BY <1>1 DEF CheckTick
<1>2. ASSUME NEW d \in Devices, NextRow(d) PROVE Quiet
  BY <1>2 DEF NextRow
<1>3. ASSUME NEW k \in checks, CheckExists(k) PROVE Quiet
  BY <1>3 DEF CheckExists
<1>4. ScanDone \/ L2Exists \/ InsertFails \/ RouterReceives => Quiet
  BY DEF ScanDone, L2Exists, InsertFails, RouterReceives
<1>5. ASSUME NEW high \in BOOLEAN, L2Count(high) PROVE Quiet
  BY <1>5 DEF L2Count
<1>6. ASSUME NEW i \in DOMAIN alarms, AcknowledgeAlarm(i) PROVE Quiet
  BY <1>6 DEF AcknowledgeAlarm, TypeOK
<1>7. UNCHANGED vars => Quiet
  BY DEF vars
<1>8. QED
  BY <1>1, <1>2, <1>3, <1>4, <1>5, <1>6, <1>7
  DEF Next, CheckerStep, Scanning, Raising, Retrying, Posting, Insertion, Forgetting

\* Only the rows of the table can be held.
LEMMA HeldAreRows ==
    ASSUME TypeOK
    PROVE  /\ Range(fresh) \subseteq Ids /\ Range(pending) \subseteq Ids /\ Range(batch) \subseteq Ids
           /\ Flight("checker") \subseteq Ids /\ Flight("retry") \subseteq Ids
<1>1. Range(fresh) \subseteq Ids /\ Range(pending) \subseteq Ids /\ Range(batch) \subseteq Ids
  BY RangeInSet DEF TypeOK
<1>2. QED BY <1>1 DEF Flight, TypeOK, Goroutines

\* A quiet step moves nothing.
LEMMA QuietMoves ==
    ASSUME Quiet
    PROVE  /\ Flight("checker")' = Flight("checker") /\ Flight("retry")' = Flight("retry")
           /\ InRetry' = InRetry /\ Held' = Held
           /\ \A i : Count(i)' = Count(i)
BY DEF Quiet, Flight, Idle, InRetry, Held, Count

\* An inserted row has a new id, and joins newAlarms or is lost.
LEMMA InsertionMoves ==
    ASSUME TypeOK, SingleCustody, Insertion
    PROVE  LET new == Len(alarms) + 1
           IN  /\ new \notin Ids /\ Ids' = Ids \cup {new}
               /\ \/ Range(fresh') = Range(fresh) \cup {new} /\ lost' = lost
                  \/ Range(fresh') = Range(fresh) /\ lost' = lost \cup {new}
               /\ IsInjective(fresh')
               /\ UNCHANGED <<sending, pending, batch, retryCounts, arrived, ok>>
               /\ posts'[new] = 0 /\ \A i \in Ids : posts'[i] = posts[i]
               /\ ~alarms'[new].dingtalk_sent
               /\ \A i \in Ids : alarms'[i] = alarms[i]
               /\ Flight("checker")' = Flight("checker") /\ Flight("retry")' = Flight("retry")
<1> DEFINE new == Len(alarms) + 1
<1>1. /\ cpc = "insert" /\ alarms' = Append(alarms, NewRow(cur)) /\ posts' = Append(posts, 0)
      /\ UNCHANGED <<sending, pending, batch, retryCounts, arrived, ok>>
      /\ \/ fresh' = Append(fresh, new) /\ lost' = lost
         \/ fresh' = fresh /\ lost' = lost \cup {new}
  BY DEF Insertion, InsertAlarm, InsertAnswerLost, delivery
<1>2. Len(alarms) \in Nat /\ Len(alarms') = new /\ Len(posts) = Len(alarms)
      /\ Ids \subseteq Ids' /\ new \in Ids' /\ new \notin Ids
  BY <1>1, NewRowType DEF TypeOK
<1>3. Ids' = Ids \cup {new}
  BY <1>2 DEF Ids
<1>4. posts'[new] = 0 /\ \A i \in Ids : posts'[i] = posts[i]
  <2>1. posts \in Seq(Nat) /\ new = Len(posts) + 1 /\ Ids = 1..Len(posts)
    BY <1>2 DEF TypeOK, Ids
  <2>2. QED BY <1>1, <2>1
<1>5. alarms'[new] = NewRow(cur) /\ \A i \in Ids : alarms'[i] = alarms[i]
  <2>1. alarms \in Seq(Row) /\ new = Len(alarms) + 1 /\ Ids = 1..Len(alarms)
    BY DEF TypeOK, Ids, Row
  <2>2. NewRow(cur) \in Row
    BY DEF TypeOK, NewRow, Row
  <2>3. QED BY <1>1, <2>1, <2>2
<1>6. fresh \in Seq(Ids') /\ Range(fresh) \subseteq Ids /\ IsInjective(fresh)
  BY <1>2, SeqWider, RangeInSet DEF TypeOK, SingleCustody
<1>7. /\ Range(Append(fresh, new)) = Range(fresh) \cup {new}
      /\ IsInjective(Append(fresh, new))
  BY <1>2, <1>6, RangeAppend
<1>8. ~alarms'[new].dingtalk_sent
  BY <1>5 DEF NewRow
<1>9. Flight("checker")' = Flight("checker") /\ Flight("retry")' = Flight("retry")
  BY <1>1 DEF Flight, Idle
<1> HIDE DEF new
<1>10. QED BY <1>1, <1>2, <1>3, <1>4, <1>5, <1>6, <1>7, <1>8, <1>9 DEF new

\* An aborted check, a finished one and a crash only empty places; what an
\* aborted check and a crash empty, they record as lost.
LEMMA ForgettingMoves ==
    ASSUME TypeOK, Forgetting
    PROVE  /\ UNCHANGED <<posts, arrived, ok, alarms>> /\ Ids' = Ids
           /\ fresh' = <<>> /\ lost \subseteq lost'
           /\ \/ /\ UNCHANGED <<sending, pending, batch, retryCounts>>
                 /\ Flight("checker")' = Flight("checker") /\ Flight("retry")' = Flight("retry")
                 /\ lost' \subseteq lost \cup Range(fresh)
              \/ /\ pending' = <<>> /\ batch' = <<>> /\ DOMAIN retryCounts' = {}
                 /\ Flight("checker")' = {} /\ Flight("retry")' = {}
                 /\ \A p \in Goroutines : Idle(p)'
                 /\ lost' = lost \cup Held
<1> USE DEF table, checker, delivery, history, Ids, Idle, Flight
<1>1. CASE CheckAborts
  BY <1>1 DEF CheckAborts
<1>2. CASE Publish
  BY <1>2 DEF Publish
<1>3. CASE Crash
  BY <1>3 DEF Crash, NoCall, Goroutines
<1>4. QED BY <1>1, <1>2, <1>3 DEF Forgetting

\* The checker takes the oldest new alarm into a call.
LEMMA CheckerPostMoves ==
    ASSUME TypeOK, SingleCustody, CheckerPost
    PROVE  \E h \in Ids :
             /\ Range(fresh) = Range(fresh') \cup {h} /\ h \notin Range(fresh')
             /\ IsInjective(fresh')
             /\ Flight("checker") = {} /\ Flight("checker")' = {h}
             /\ Flight("retry")' = Flight("retry")
             /\ sending' = [sending EXCEPT !["checker"] = Call("post", h)]
             /\ posts' = [posts EXCEPT ![h] = @ + 1]
             /\ UNCHANGED <<pending, batch, retryCounts, arrived, ok, lost, alarms>> /\ Ids' = Ids
<1> USE DEF table, checker, delivery, history
<1>1. fresh # <<>> /\ fresh \in Seq(Ids) /\ IsInjective(fresh) /\ fresh' = Tail(fresh)
  BY DEF CheckerPost, TypeOK, SingleCustody
<1>2. /\ Head(fresh) \in Ids
      /\ Range(fresh) = Range(fresh') \cup {Head(fresh)}
      /\ Head(fresh) \notin Range(fresh') /\ IsInjective(fresh')
  BY <1>1, RangeTail
<1>3. /\ sending' = [sending EXCEPT !["checker"] = Call("post", Head(fresh))]
      /\ Idle("checker")
  BY DEF CheckerPost
<1>4. /\ Flight("checker") = {} /\ Flight("checker")' = {Head(fresh)}
      /\ Flight("retry")' = Flight("retry")
  BY <1>3 DEF Flight, Idle, Call, TypeOK, Goroutines
<1>5. QED BY <1>2, <1>3, <1>4 DEF CheckerPost, Ids

\* The retry loop swaps an empty list for the pending one.
LEMMA RetryTickMoves ==
    ASSUME RetryTick
    PROVE  /\ batch = <<>> /\ batch' = pending /\ pending' = <<>>
           /\ UNCHANGED <<fresh, sending, retryCounts, posts, arrived, ok, lost, alarms>>
           /\ Ids' = Ids
           /\ Flight("checker")' = Flight("checker") /\ Flight("retry")' = Flight("retry")
BY DEF RetryTick, AfterSwap, table, checker, delivery, history, Ids, Flight, Idle

\* The head of the swapped list leaves it, for good or into a call.
LEMMA RetryingMoves ==
    ASSUME TypeOK, SingleCustody, RetryGivesUp \/ RetryPost
    PROVE  \E h \in Ids :
             /\ Range(batch) = Range(batch') \cup {h} /\ h \notin Range(batch')
             /\ IsInjective(batch')
             /\ Flight("retry") = {} /\ Flight("checker")' = Flight("checker")
             /\ UNCHANGED <<fresh, pending, arrived, ok, lost, alarms>> /\ Ids' = Ids
             /\ \/ /\ Count(h) + 1 > MaxRetries /\ retryCounts' = Forget(h)
                   /\ Flight("retry")' = {} /\ UNCHANGED <<sending, posts>>
                \/ /\ ~(Count(h) + 1 > MaxRetries) /\ retryCounts' = Bumped(h)
                   /\ Flight("retry")' = {h}
                   /\ sending' = [sending EXCEPT !["retry"] = Call("post", h)]
                   /\ posts' = [posts EXCEPT ![h] = @ + 1]
<1> USE DEF table, checker, delivery, history
<1> DEFINE h == Head(batch)
<1>1. batch # <<>> /\ batch \in Seq(Ids) /\ IsInjective(batch) /\ batch' = Tail(batch)
  BY DEF RetryGivesUp, RetryPost, TypeOK, SingleCustody
<1>2. h \in Ids /\ Range(batch) = Range(batch') \cup {h} /\ h \notin Range(batch') /\ IsInjective(batch')
  BY <1>1, RangeTail
<1>3. Idle("retry") /\ UNCHANGED <<fresh, pending, arrived, ok, lost, alarms>> /\ Ids' = Ids
  BY DEF RetryGivesUp, RetryPost, Ids
<1>4. CASE RetryGivesUp
  <2>1. /\ Count(h) + 1 > MaxRetries /\ retryCounts' = Forget(h)
        /\ UNCHANGED <<sending, posts>>
    BY <1>4 DEF RetryGivesUp, RetryLimitReached
  <2>2. Flight("retry") = {} /\ Flight("retry")' = {} /\ Flight("checker")' = Flight("checker")
    BY <1>3, <2>1 DEF Flight, Idle
  <2>3. QED BY <1>2, <1>3, <2>1, <2>2
<1>5. CASE RetryPost
  <2>1. /\ ~(Count(h) + 1 > MaxRetries) /\ retryCounts' = Bumped(h)
        /\ sending' = [sending EXCEPT !["retry"] = Call("post", h)]
        /\ posts' = [posts EXCEPT ![h] = @ + 1]
    BY <1>5 DEF RetryPost, RetryLimitReached
  <2>2. Flight("retry") = {} /\ Flight("retry")' = {h} /\ Flight("checker")' = Flight("checker")
    BY <1>3, <2>1 DEF Flight, Idle, Call, TypeOK, Goroutines
  <2>3. QED BY <1>2, <1>3, <2>1, <2>2
<1>6. QED BY <1>4, <1>5

\* A call that moves on keeps its alarm.
LEMMA StageMoves ==
    ASSUME TypeOK, NEW p \in Goroutines, Arrive(p) \/ PostAccepted(p)
    PROVE  /\ Flight("checker")' = Flight("checker") /\ Flight("retry")' = Flight("retry")
           /\ UNCHANGED <<fresh, pending, batch, retryCounts, posts, lost, alarms>> /\ Ids' = Ids
<1>1. \E a \in {"arrived", "mark"} : sending' = [sending EXCEPT ![p].at = a]
  BY DEF Arrive, PostAccepted
<1>2. ~Idle(p)
  BY DEF Arrive, PostAccepted, Accepted, Idle
<1>3. ASSUME NEW q \in Goroutines PROVE Flight(q)' = Flight(q)
  <2>1. sending \in [Goroutines -> [at : Stages, id : Nat]]
    BY DEF TypeOK
  <2>2. PICK a \in {"arrived", "mark"} : sending' = [sending EXCEPT ![p].at = a]
    BY <1>1
  <2>3. sending'[q].id = sending[q].id
    BY <2>1, <2>2
  <2>4. q = p => sending'[q].at = a
    BY <2>1, <2>2
  <2>5. q # p => sending'[q] = sending[q]
    BY <2>1, <2>2
  <2>6. QED BY <1>2, <2>3, <2>4, <2>5 DEF Flight, Idle
<1>4. UNCHANGED <<fresh, pending, batch, retryCounts, posts, lost, alarms>>
  BY DEF Arrive, PostAccepted, table, checker, history
<1>5. QED BY <1>3, <1>4 DEF Goroutines, Ids

\* A call that ends gives its alarm to the pending list when the post failed.
LEMMA ReturnMoves ==
    ASSUME TypeOK, SingleCustody, NEW p \in Goroutines, PostFails(p) \/ MarkSent(p)
    PROVE  LET id == sending[p].id
           IN  /\ ~Idle(p) /\ Flight(p) = {id} /\ Flight(p)' = {}
               /\ \A q \in Goroutines \ {p} : Flight(q)' = Flight(q)
               /\ sending' = [sending EXCEPT ![p] = NoCall]
               /\ UNCHANGED <<fresh, batch, posts, arrived, ok, lost>> /\ Ids' = Ids
               /\ \/ /\ PostFails(p) /\ Range(pending') = Range(pending) \cup {id}
                     /\ IsInjective(pending')
                     /\ UNCHANGED <<retryCounts, alarms>>
                  \/ /\ MarkSent(p) /\ pending' = pending
                     /\ retryCounts' = IF p = "retry" THEN Forget(id) ELSE retryCounts
<1> USE DEF table, checker, delivery, history
<1> DEFINE id == sending[p].id
<1>1. ~Idle(p) /\ sending' = [sending EXCEPT ![p] = NoCall]
  BY DEF PostFails, MarkSent, Failed, Idle
<1>2. Flight(p) = {id} /\ Flight(p)' = {} /\ \A q \in Goroutines \ {p} : Flight(q)' = Flight(q)
  BY <1>1 DEF Flight, Idle, NoCall, TypeOK
<1>3. CASE PostFails(p)
  <2>1. id \in Ids /\ pending \in Seq(Ids) /\ IsInjective(pending) /\ id \notin Range(pending)
    BY <1>1, <1>2 DEF TypeOK, SingleCustody, Goroutines
  <2>2. pending' = Append(pending, id)
    BY <1>3 DEF PostFails, Requeued
  <2>3. Range(pending') = Range(pending) \cup {id} /\ IsInjective(pending')
    BY <2>1, <2>2, RangeAppend
  <2>4. UNCHANGED <<fresh, batch, posts, arrived, ok, lost, retryCounts, alarms>> /\ Ids' = Ids
    BY <1>3 DEF PostFails, Ids
  <2>5. QED BY <1>1, <1>2, <1>3, <2>3, <2>4
<1>4. CASE MarkSent(p)
  <2>1. Ids' = Ids
    <3>1. id \in Ids
      BY <1>1 DEF TypeOK
    <3>2. alarms' = [alarms EXCEPT ![id].dingtalk_sent = TRUE] \/ alarms' = alarms
      BY <1>4 DEF MarkSent
    <3>3. Len(alarms') = Len(alarms)
      BY <3>1, <3>2, RowUpdate
    <3>4. QED BY <3>3 DEF Ids
  <2>2. /\ UNCHANGED <<fresh, batch, posts, arrived, ok, lost>> /\ pending' = pending
        /\ retryCounts' = IF p = "retry" THEN Forget(id) ELSE retryCounts
    BY <1>4 DEF MarkSent
  <2>3. QED BY <1>1, <1>2, <1>4, <2>1, <2>2
<1>5. QED BY <1>3, <1>4

(***************************************************************************)
(* Custody                                                                 *)
(***************************************************************************)

\* No place holds an alarm twice and no two places hold the same alarm.
LEMMA CustodyStep == ASSUME TypeOK, SingleCustody, [Next]_vars PROVE SingleCustody'
<1> USE DEF SingleCustody, InRetry
<1>1. CASE Quiet
  BY <1>1, QuietMoves DEF Quiet
<1>2. CASE Insertion
  BY <1>2, InsertionMoves, HeldAreRows
<1>3. CASE Forgetting
  <2>1. fresh' = <<>> /\ Range(fresh') = {} /\ IsInjective(fresh')
    BY <1>3, ForgettingMoves, EmptyQueue
  <2>2. CASE /\ UNCHANGED <<sending, pending, batch, retryCounts>>
             /\ Flight("checker")' = Flight("checker") /\ Flight("retry")' = Flight("retry")
    BY <2>1, <2>2
  <2>3. CASE /\ pending' = <<>> /\ batch' = <<>>
             /\ Flight("checker")' = {} /\ Flight("retry")' = {}
    BY <2>1, <2>3, EmptyQueue
  <2>4. QED BY <1>3, <2>2, <2>3, ForgettingMoves
<1>4. CASE CheckerPost
  BY <1>4, CheckerPostMoves
<1>5. CASE RetryTick
  BY <1>5, RetryTickMoves, EmptyQueue
<1>6. CASE RetryGivesUp \/ RetryPost
  BY <1>6, RetryingMoves
<1>7. ASSUME NEW p \in Goroutines, Arrive(p) \/ PostAccepted(p) PROVE SingleCustody'
  BY <1>7, StageMoves
<1>8. ASSUME NEW p \in Goroutines, PostFails(p) \/ MarkSent(p) PROVE SingleCustody'
  <2>1. CASE p = "checker"
    BY <1>8, <2>1, ReturnMoves DEF Goroutines
  <2>2. CASE p = "retry"
    BY <1>8, <2>2, ReturnMoves DEF Goroutines
  <2>3. QED BY <2>1, <2>2 DEF Goroutines
<1>9. QED BY <1>1, <1>2, <1>3, <1>4, <1>5, <1>6, <1>7, <1>8, StepCases

\* No place holds anything initially.
LEMMA CustodyInit == Init => SingleCustody
BY EmptyQueue DEF Init, SingleCustody, InRetry, Flight, Idle, NoCall, Goroutines

\* Custody of an alarm is never shared, in every run of the notifier.
THEOREM CustodyCorrect == Spec => []SingleCustody
<1>1. Init => TypeOK /\ SingleCustody
  BY TypeInit, CustodyInit
<1>2. TypeOK /\ SingleCustody /\ [Next]_vars => TypeOK' /\ SingleCustody'
  BY TypeStep, CustodyStep
<1>3. QED BY <1>1, <1>2, PTL DEF Spec

(***************************************************************************)
(* The rest of the inductive invariant                                     *)
(***************************************************************************)

\* An alarm not yet posted has no post; one in retry was posted once by the
\* check and once per count, and its count is within the limit.
Tallied == /\ \A i \in Range(fresh) : posts[i] = 0
           /\ \A i \in InRetry : posts[i] = 1 + Count(i) /\ Count(i) <= MaxRetries

\* A call between the answer and the UPDATE is the only holder of an accepted
\* alarm, and an alarm in a call that has arrived is known to the webhook.
Marks == /\ ok \subseteq arrived
         /\ (Range(fresh) \cup Range(pending) \cup Range(batch)) \cap ok = {}
         /\ \A p \in Goroutines : ~Idle(p) => (sending[p].id \in ok <=> sending[p].at = "mark")
         /\ \A p \in Goroutines : sending[p].at \in {"arrived", "mark"} => sending[p].id \in arrived

\* dingtalk_sent is true only of alarms that have reached the webhook.
SentMeansArrived == \A i \in Ids : alarms[i].dingtalk_sent => i \in arrived

\* The check inserts a key of which no row is open.
InsertIsFirst == cpc = "insert" => ~Open(cur)

(***************************************************************************)
(* Counts                                                                  *)
(***************************************************************************)

\* What forgetting and bumping a count do to the counts.
LEMMA CountMoves ==
    ASSUME NEW h \in Ids
    PROVE  /\ retryCounts' = Forget(h) =>
                /\ DOMAIN retryCounts' = DOMAIN retryCounts \ {h}
                /\ \A i : i # h => Count(i)' = Count(i)
           /\ retryCounts' = Bumped(h) =>
                /\ DOMAIN retryCounts' = DOMAIN retryCounts \cup {h}
                /\ Count(h)' = Count(h) + 1
                /\ \A i : i # h => Count(i)' = Count(i)
BY DEF Forget, Bumped, Count, Restrict

\* A count belongs to an alarm in the retry loop's hands.
LEMMA CountsStep ==
    ASSUME TypeOK, SingleCustody, CountsAreLive, [Next]_vars
    PROVE  CountsAreLive'
<1> USE DEF CountsAreLive
<1>1. CASE Quiet
  BY <1>1, QuietMoves DEF Quiet
<1>2. CASE Insertion
  BY <1>2, InsertionMoves
<1>3. CASE Forgetting
  BY <1>3, ForgettingMoves
<1>4. CASE CheckerPost
  BY <1>4, CheckerPostMoves
<1>5. CASE RetryTick
  BY <1>5, RetryTickMoves, EmptyQueue
<1>6. CASE RetryGivesUp \/ RetryPost
  <2>1. PICK h \in Ids :
             /\ Range(batch) = Range(batch') \cup {h} /\ pending' = pending
             /\ Flight("retry") = {}
             /\ \/ retryCounts' = Forget(h) /\ Flight("retry")' = {}
                \/ retryCounts' = Bumped(h) /\ Flight("retry")' = {h}
    BY <1>6, RetryingMoves
  <2>2. \/ DOMAIN retryCounts' = DOMAIN retryCounts \ {h} /\ Flight("retry")' = {}
        \/ DOMAIN retryCounts' = DOMAIN retryCounts \cup {h} /\ Flight("retry")' = {h}
    BY <2>1, CountMoves
  <2>3. QED BY <2>1, <2>2
<1>7. ASSUME NEW p \in Goroutines, Arrive(p) \/ PostAccepted(p) PROVE CountsAreLive'
  BY <1>7, StageMoves
<1>8. ASSUME NEW p \in Goroutines, PostFails(p) PROVE CountsAreLive'
  <2>1. ~MarkSent(p)
    BY <1>8 DEF PostFails, MarkSent, Failed
  <2>2. /\ Flight(p) = {sending[p].id} /\ \A q \in Goroutines \ {p} : Flight(q)' = Flight(q)
        /\ Range(pending') = Range(pending) \cup {sending[p].id}
        /\ batch' = batch /\ retryCounts' = retryCounts
    BY <1>8, <2>1, ReturnMoves
  <2>3. QED BY <2>2 DEF Goroutines
<1>9. ASSUME NEW p \in Goroutines, MarkSent(p) PROVE CountsAreLive'
  <2>1. ~PostFails(p) /\ sending[p].id \in Ids
    BY <1>9 DEF PostFails, MarkSent, Failed, TypeOK, Idle
  <2>2. /\ Flight(p) = {sending[p].id} /\ \A q \in Goroutines \ {p} : Flight(q)' = Flight(q)
        /\ pending' = pending /\ batch' = batch
        /\ retryCounts' = IF p = "retry" THEN Forget(sending[p].id) ELSE retryCounts
    BY <1>9, <2>1, ReturnMoves
  <2>3. QED BY <2>1, <2>2, CountMoves DEF Goroutines
<1>10. QED BY <1>1, <1>2, <1>3, <1>4, <1>5, <1>6, <1>7, <1>8, <1>9, StepCases

\* retryCounts never leaks an entry, in every run of the notifier.
THEOREM CountsCorrect == Spec => []CountsAreLive
<1>1. Init => TypeOK /\ SingleCustody /\ CountsAreLive
  BY TypeInit, CustodyInit DEF Init, CountsAreLive
<1>2. TypeOK /\ SingleCustody /\ CountsAreLive /\ [Next]_vars
      => TypeOK' /\ SingleCustody' /\ CountsAreLive'
  BY TypeStep, CustodyStep, CountsStep
<1>3. QED BY <1>1, <1>2, PTL DEF Spec

(***************************************************************************)
(* The tally of posts                                                      *)
(***************************************************************************)

\* One more post of one alarm changes the number of no other.
LEMMA PostMoves ==
    ASSUME TypeOK, NEW h \in Ids, posts' = [posts EXCEPT ![h] = @ + 1]
    PROVE  /\ posts[h] \in Nat /\ posts'[h] = posts[h] + 1
           /\ \A i \in Ids : i # h => posts'[i] = posts[i]
<1>1. posts \in Seq(Nat) /\ Ids = 1..Len(posts)
  BY DEF TypeOK, Ids
<1>2. QED BY <1>1

\* An alarm that was posted keeps pace with its count.
LEMMA TallyStep ==
    ASSUME TypeOK, SingleCustody, CountsAreLive, Tallied, PostBound, [Next]_vars
    PROVE  Tallied' /\ PostBound'
<1>0. /\ Range(fresh) \subseteq Ids /\ InRetry \subseteq Ids /\ MaxRetries \in Nat
      /\ \A i \in Ids : Count(i) \in Nat
  BY HeldAreRows, Bounds, CountTypes DEF InRetry
<1>1. CASE Quiet
  BY <1>1, QuietMoves DEF Quiet, Tallied, PostBound
<1>2. CASE Insertion
  <2>1. /\ InRetry' = InRetry /\ \A i : Count(i)' = Count(i)
    BY <1>2, InsertionMoves DEF InRetry, Count
  <2>2. Tallied'
    BY <1>0, <1>2, <2>1, InsertionMoves DEF Tallied
  <2>3. PostBound'
    BY <1>0, <1>2, InsertionMoves DEF PostBound
  <2>4. QED BY <2>2, <2>3
<1>3. CASE Forgetting
  <2>1. posts' = posts /\ Ids' = Ids /\ Range(fresh') = {}
    BY <1>3, ForgettingMoves, EmptyQueue
  <2>2. \/ InRetry' = {}
        \/ InRetry' = InRetry /\ \A i : Count(i)' = Count(i)
    <3>1. CASE /\ UNCHANGED <<sending, pending, batch, retryCounts>>
               /\ Flight("checker")' = Flight("checker") /\ Flight("retry")' = Flight("retry")
      BY <3>1 DEF InRetry, Count
    <3>2. CASE /\ pending' = <<>> /\ batch' = <<>>
               /\ Flight("checker")' = {} /\ Flight("retry")' = {}
      <4>1. Range(pending') = {} /\ Range(batch') = {}
        BY <3>2, EmptyQueue
      <4>2. InRetry' = {}
        BY <3>2, <4>1 DEF InRetry
      <4>3. QED BY <4>2
    <3>3. QED BY <1>3, <3>1, <3>2, ForgettingMoves
  <2>3. QED BY <2>1, <2>2 DEF Tallied, PostBound
<1>4. CASE CheckerPost
  <2>1. PICK h \in Ids :
             /\ Range(fresh) = Range(fresh') \cup {h} /\ h \notin Range(fresh')
             /\ Flight("checker")' = {h} /\ Flight("checker") = {} /\ Flight("retry")' = Flight("retry")
             /\ posts' = [posts EXCEPT ![h] = @ + 1]
             /\ UNCHANGED <<pending, batch, retryCounts>> /\ Ids' = Ids
    BY <1>4, CheckerPostMoves
  <2>2. InRetry' = InRetry \cup {h} /\ h \notin InRetry /\ \A i : Count(i)' = Count(i)
    BY <2>1 DEF InRetry, SingleCustody, Count
  <2>3. Count(h) = 0
    BY <2>2 DEF CountsAreLive, InRetry, Count
  <2>4. posts'[h] = 1 /\ \A i \in Ids : i # h => posts'[i] = posts[i]
    <3>1. posts'[h] = posts[h] + 1 /\ \A i \in Ids : i # h => posts'[i] = posts[i]
      BY <2>1, PostMoves
    <3>2. posts[h] = 0
      BY <2>1 DEF Tallied
    <3>3. QED BY <3>1, <3>2
  <2>5. Tallied'
    BY <1>0, <2>1, <2>2, <2>3, <2>4 DEF Tallied
  <2>6. PostBound'
    BY <1>0, <2>1, <2>4 DEF PostBound
  <2>7. QED BY <2>5, <2>6
<1>5. CASE RetryTick
  <2>1. InRetry' = InRetry
    BY <1>5, RetryTickMoves, EmptyQueue DEF InRetry
  <2>2. /\ UNCHANGED <<fresh, posts>> /\ Ids' = Ids /\ \A i : Count(i)' = Count(i)
    BY <1>5, RetryTickMoves DEF Count
  <2>3. QED BY <2>1, <2>2 DEF Tallied, PostBound
<1>6. CASE RetryGivesUp \/ RetryPost
  <2>1. PICK h \in Ids :
             /\ Range(batch) = Range(batch') \cup {h} /\ h \notin Range(batch')
             /\ Flight("retry") = {} /\ Flight("checker")' = Flight("checker")
             /\ UNCHANGED <<fresh, pending>> /\ Ids' = Ids
             /\ \/ /\ retryCounts' = Forget(h)
                   /\ Flight("retry")' = {} /\ posts' = posts
                \/ /\ ~(Count(h) + 1 > MaxRetries) /\ retryCounts' = Bumped(h)
                   /\ Flight("retry")' = {h}
                   /\ posts' = [posts EXCEPT ![h] = @ + 1]
    BY <1>6, RetryingMoves
  <2>2. h \in InRetry /\ h \notin Range(fresh)
    BY <2>1 DEF InRetry, SingleCustody
  <2>3. CASE retryCounts' = Forget(h) /\ Flight("retry")' = {} /\ posts' = posts
    <3>1. InRetry' = InRetry \ {h}
      BY <2>1, <2>3 DEF InRetry, SingleCustody
    <3>2. \A i : i # h => Count(i)' = Count(i)
      BY <2>3, CountMoves
    <3>3. QED BY <2>1, <2>3, <3>1, <3>2 DEF Tallied, PostBound
  <2>4. CASE /\ ~(Count(h) + 1 > MaxRetries) /\ retryCounts' = Bumped(h)
             /\ Flight("retry")' = {h}
             /\ posts' = [posts EXCEPT ![h] = @ + 1]
    <3>1. InRetry' = InRetry
      BY <2>1, <2>4 DEF InRetry
    <3>2. Count(h)' = Count(h) + 1 /\ \A i : i # h => Count(i)' = Count(i)
      BY <2>4, CountMoves
    <3>3. posts[h] \in Nat /\ posts'[h] = posts[h] + 1 /\ \A i \in Ids : i # h => posts'[i] = posts[i]
      BY <2>4, PostMoves
    <3>4. Count(h) \in Nat /\ posts[h] = 1 + Count(h) /\ Count(h) + 1 <= MaxRetries
      BY <1>0, <2>2, <2>4 DEF Tallied
    <3>5. posts'[h] = 1 + Count(h)' /\ Count(h)' <= MaxRetries /\ posts'[h] <= 1 + MaxRetries
      BY <1>0, <3>2, <3>3, <3>4
    <3>6. Tallied'
      BY <1>0, <2>1, <2>2, <3>1, <3>2, <3>3, <3>5 DEF Tallied
    <3>7. PostBound'
      BY <2>1, <3>3, <3>5 DEF PostBound
    <3>8. QED BY <3>6, <3>7
  <2>5. QED BY <2>1, <2>3, <2>4
<1>7. ASSUME NEW p \in Goroutines, Arrive(p) \/ PostAccepted(p) PROVE Tallied' /\ PostBound'
  <2>1. InRetry' = InRetry /\ UNCHANGED <<fresh, posts>> /\ Ids' = Ids /\ \A i : Count(i)' = Count(i)
    BY <1>7, StageMoves DEF InRetry, Count
  <2>2. QED BY <2>1 DEF Tallied, PostBound
<1>8. ASSUME NEW p \in Goroutines, PostFails(p) PROVE Tallied' /\ PostBound'
  <2>1. ~MarkSent(p)
    BY <1>8 DEF PostFails, MarkSent, Failed
  <2>2. /\ Flight(p) = {sending[p].id} /\ Flight(p)' = {}
        /\ \A q \in Goroutines \ {p} : Flight(q)' = Flight(q)
        /\ Range(pending') = Range(pending) \cup {sending[p].id}
        /\ UNCHANGED <<fresh, batch, retryCounts, posts>> /\ Ids' = Ids
    BY <1>8, <2>1, ReturnMoves
  <2>3. InRetry' = InRetry /\ \A i : Count(i)' = Count(i)
    BY <2>2 DEF InRetry, Goroutines, Count
  <2>4. QED BY <2>2, <2>3 DEF Tallied, PostBound
<1>9. ASSUME NEW p \in Goroutines, MarkSent(p) PROVE Tallied' /\ PostBound'
  <2>1. ~PostFails(p) /\ sending[p].id \in Ids
    BY <1>9 DEF PostFails, MarkSent, Failed, TypeOK, Idle
  <2>2. /\ Flight(p) = {sending[p].id} /\ Flight(p)' = {}
        /\ \A q \in Goroutines \ {p} : Flight(q)' = Flight(q)
        /\ UNCHANGED <<fresh, pending, batch, posts>> /\ Ids' = Ids
        /\ retryCounts' = IF p = "retry" THEN Forget(sending[p].id) ELSE retryCounts
    BY <1>9, <2>1, ReturnMoves
  <2>3. InRetry' = InRetry \ {sending[p].id}
    BY <2>2 DEF InRetry, Goroutines, SingleCustody
  <2>4. \A i : i # sending[p].id => Count(i)' = Count(i)
    BY <2>1, <2>2, CountMoves DEF Count
  <2>5. QED BY <2>2, <2>3, <2>4 DEF Tallied, PostBound
<1>10. QED BY <1>1, <1>2, <1>3, <1>4, <1>5, <1>6, <1>7, <1>8, <1>9, StepCases

\* Nothing is tallied initially.
LEMMA TallyInit == Init => CountsAreLive /\ Tallied /\ PostBound
<1> SUFFICES ASSUME Init PROVE CountsAreLive /\ Tallied /\ PostBound
  OBVIOUS
<1>1. Ids = {} /\ Range(fresh) = {} /\ InRetry = {} /\ DOMAIN retryCounts = {}
  BY EmptyQueue DEF Init, Ids, InRetry, Flight, Idle, NoCall, Goroutines
<1>2. QED BY <1>1 DEF CountsAreLive, Tallied, PostBound

\* No alarm is posted more than 1 + MaxRetries times, in every run.
THEOREM PostBoundCorrect == Spec => []PostBound
<1> DEFINE IInv == TypeOK /\ SingleCustody /\ CountsAreLive /\ Tallied /\ PostBound
<1>1. Init => IInv
  BY TypeInit, CustodyInit, TallyInit
<1>2. IInv /\ [Next]_vars => IInv'
  BY TypeStep, CustodyStep, CountsStep, TallyStep
<1>3. IInv => PostBound
  OBVIOUS
<1> HIDE DEF IInv
<1>4. QED BY <1>1, <1>2, <1>3, PTL DEF Spec

(***************************************************************************)
(* The marks of the webhook                                                *)
(***************************************************************************)
Queued == Range(fresh) \cup Range(pending) \cup Range(batch)

\* A step that neither answers nor delivers a post, and moves calls and queued
\* alarms only among themselves, keeps the marks.
LEMMA MarksKept ==
    ASSUME Marks, ok' = ok, arrived' = arrived, Queued' \cap ok = {},
           \A p \in Goroutines : \/ sending'[p] = sending[p]
                                 \/ sending'[p].at = "none"
                                 \/ sending'[p].at = "post" /\ sending'[p].id \notin ok
    PROVE  Marks'
BY DEF Marks, Queued, Idle

\* Replacing the call of p leaves the others' calls.
LEMMA OneCall ==
    ASSUME TypeOK, NEW p \in Goroutines, NEW c, sending' = [sending EXCEPT ![p] = c]
    PROVE  sending'[p] = c /\ \A q \in Goroutines \ {p} : sending'[q] = sending[q]
BY DEF TypeOK

\* An accepted alarm is held only by the call that is about to mark it.
LEMMA MarksStep ==
    ASSUME TypeOK, SingleCustody, Marks, [Next]_vars
    PROVE  Marks'
<1>0. ok \subseteq Ids /\ Queued \cap ok = {}
  BY DEF TypeOK, Marks, Queued
<1>1. CASE Quiet
  BY <1>0, <1>1, MarksKept DEF Quiet, Queued
<1>2. CASE Insertion
  <2>1. /\ Queued' \subseteq Queued \cup {Len(alarms) + 1} /\ Len(alarms) + 1 \notin Ids
        /\ UNCHANGED <<ok, arrived, sending>>
    BY <1>2, InsertionMoves DEF Queued
  <2>2. QED BY <1>0, <2>1, MarksKept
<1>3. CASE Forgetting
  <2>1. ok' = ok /\ arrived' = arrived /\ Range(fresh') = {}
    BY <1>3, ForgettingMoves, EmptyQueue
  <2>2. CASE UNCHANGED <<sending, pending, batch>>
    BY <1>0, <2>1, <2>2, MarksKept DEF Queued
  <2>3. CASE pending' = <<>> /\ batch' = <<>> /\ \A p \in Goroutines : Idle(p)'
    BY <2>1, <2>3, EmptyQueue, MarksKept DEF Queued, Idle
  <2>4. QED BY <1>3, <2>2, <2>3, ForgettingMoves
<1>4. CASE CheckerPost
  <2>1. PICK h \in Ids :
             /\ Range(fresh) = Range(fresh') \cup {h}
             /\ sending' = [sending EXCEPT !["checker"] = Call("post", h)]
             /\ UNCHANGED <<pending, batch, arrived, ok>>
    BY <1>4, CheckerPostMoves
  <2>2. /\ sending'["checker"] = Call("post", h)
        /\ \A q \in Goroutines \ {"checker"} : sending'[q] = sending[q]
    BY <2>1, OneCall DEF Goroutines
  <2>3. h \notin ok /\ Queued' \cap ok = {}
    BY <1>0, <2>1 DEF Queued
  <2>4. QED BY <2>1, <2>2, <2>3, MarksKept DEF Call
<1>5. CASE RetryTick
  BY <1>0, <1>5, RetryTickMoves, EmptyQueue, MarksKept DEF Queued
<1>6. CASE RetryGivesUp \/ RetryPost
  <2>1. PICK h \in Ids :
             /\ Range(batch) = Range(batch') \cup {h}
             /\ UNCHANGED <<fresh, pending, arrived, ok>>
             /\ \/ sending' = sending
                \/ sending' = [sending EXCEPT !["retry"] = Call("post", h)]
    BY <1>6, RetryingMoves
  <2>2. \/ sending' = sending
        \/ /\ sending'["retry"] = Call("post", h)
           /\ \A q \in Goroutines \ {"retry"} : sending'[q] = sending[q]
    BY <2>1, OneCall DEF Goroutines
  <2>3. h \notin ok /\ Queued' \cap ok = {}
    BY <1>0, <2>1 DEF Queued
  <2>4. QED BY <2>1, <2>2, <2>3, MarksKept DEF Call
<1>7. ASSUME NEW p \in Goroutines, Arrive(p) PROVE Marks'
  <2>1. /\ sending[p].at = "post" /\ sending' = [sending EXCEPT ![p].at = "arrived"]
        /\ arrived' = arrived \cup {sending[p].id} /\ ok' = ok
    BY <1>7 DEF Arrive
  <2>2. /\ sending'[p].at = "arrived" /\ sending'[p].id = sending[p].id
        /\ \A q \in Goroutines : q # p => sending'[q] = sending[q]
    BY <2>1 DEF TypeOK
  <2>3. UNCHANGED <<fresh, pending, batch>>
    BY <1>7, StageMoves
  <2>4. QED BY <2>1, <2>2, <2>3 DEF Marks, Idle
<1>8. ASSUME NEW p \in Goroutines, PostAccepted(p) PROVE Marks'
  <2>1. /\ sending[p].at = "arrived" /\ sending' = [sending EXCEPT ![p].at = "mark"]
        /\ ok' = ok \cup {sending[p].id} /\ arrived' = arrived
    BY <1>8 DEF PostAccepted, Accepted
  <2>2. /\ sending'[p].at = "mark" /\ sending'[p].id = sending[p].id
        /\ \A q \in Goroutines : q # p => sending'[q] = sending[q]
    BY <2>1 DEF TypeOK
  <2>3. UNCHANGED <<fresh, pending, batch>>
    BY <1>8, StageMoves
  <2>4. Flight(p) = {sending[p].id} /\ sending[p].id \in arrived
    BY <2>1 DEF Flight, Idle, Marks
  <2>5. \A q \in Goroutines : q # p /\ ~Idle(q) => sending[q].id # sending[p].id
    BY <2>4 DEF SingleCustody, Goroutines, Flight
  <2>6. sending[p].id \notin Queued
    BY <2>4 DEF SingleCustody, Goroutines, Queued, InRetry
  <2>7. QED BY <2>1, <2>2, <2>3, <2>4, <2>5, <2>6 DEF Marks, Idle, Queued
<1>9. ASSUME NEW p \in Goroutines, PostFails(p) PROVE Marks'
  <2>1. ~MarkSent(p) /\ sending[p].at # "mark" /\ ~Idle(p)
    BY <1>9 DEF PostFails, MarkSent, Failed, Idle
  <2>2. /\ Range(pending') = Range(pending) \cup {sending[p].id}
        /\ UNCHANGED <<fresh, batch, arrived, ok>>
        /\ sending' = [sending EXCEPT ![p] = NoCall]
    BY <1>9, <2>1, ReturnMoves
  <2>3. sending'[p].at = "none" /\ \A q \in Goroutines \ {p} : sending'[q] = sending[q]
    <3>1. sending'[p] = NoCall /\ \A q \in Goroutines \ {p} : sending'[q] = sending[q]
      BY <2>2, OneCall
    <3>2. QED BY <3>1 DEF NoCall
  <2>4. sending[p].id \notin ok
    BY <2>1 DEF Marks
  <2>5. QED BY <1>0, <2>2, <2>3, <2>4, MarksKept DEF Queued
<1>10. ASSUME NEW p \in Goroutines, MarkSent(p) PROVE Marks'
  <2>1. ~PostFails(p)
    BY <1>10 DEF PostFails, MarkSent, Failed
  <2>2. /\ UNCHANGED <<fresh, pending, batch, arrived, ok>>
        /\ sending' = [sending EXCEPT ![p] = NoCall]
    BY <1>10, <2>1, ReturnMoves
  <2>3. sending'[p].at = "none" /\ \A q \in Goroutines \ {p} : sending'[q] = sending[q]
    <3>1. sending'[p] = NoCall /\ \A q \in Goroutines \ {p} : sending'[q] = sending[q]
      BY <2>2, OneCall
    <3>2. QED BY <3>1 DEF NoCall
  <2>4. QED BY <1>0, <2>2, <2>3, MarksKept DEF Queued
<1>11. QED
  BY <1>1, <1>2, <1>3, <1>4, <1>5, <1>6, <1>7, <1>8, <1>9, <1>10, StepCases

\* dingtalk_sent is set of an alarm in a call that has arrived, and of no other.
LEMMA SentStep ==
    ASSUME TypeOK, SingleCustody, Marks, SentMeansArrived, [Next]_vars
    PROVE  SentMeansArrived'
<1> USE DEF SentMeansArrived
<1>1. CASE Quiet
  BY <1>1 DEF Quiet
<1>2. CASE Insertion
  BY <1>2, InsertionMoves
<1>3. CASE Forgetting
  BY <1>3, ForgettingMoves
<1>4. CASE CheckerPost
  BY <1>4, CheckerPostMoves
<1>5. CASE RetryTick
  BY <1>5, RetryTickMoves
<1>6. CASE RetryGivesUp \/ RetryPost
  BY <1>6, RetryingMoves
<1>7. ASSUME NEW p \in Goroutines, Arrive(p) \/ PostAccepted(p) PROVE SentMeansArrived'
  <2>1. alarms' = alarms /\ Ids' = Ids
    BY <1>7, StageMoves
  <2>2. arrived \subseteq arrived'
    BY <1>7 DEF Arrive, PostAccepted
  <2>3. QED BY <2>1, <2>2
<1>8. ASSUME NEW p \in Goroutines, PostFails(p) PROVE SentMeansArrived'
  BY <1>8 DEF PostFails, table, history, Ids
<1>9. ASSUME NEW p \in Goroutines, MarkSent(p) PROVE SentMeansArrived'
  <2>1. /\ sending[p].id \in arrived /\ sending[p].id \in Ids /\ arrived' = arrived
        /\ \/ alarms' = [alarms EXCEPT ![sending[p].id].dingtalk_sent = TRUE]
           \/ alarms' = alarms
    BY <1>9 DEF MarkSent, Marks, history, TypeOK, Idle
  <2>2. Ids' = Ids
    BY <2>1, RowUpdate DEF Ids
  <2>3. \A i \in Ids : i # sending[p].id => alarms'[i] = alarms[i]
    BY <2>1 DEF TypeOK, Ids
  <2>4. QED BY <2>1, <2>2, <2>3
<1>10. QED BY <1>1, <1>2, <1>3, <1>4, <1>5, <1>6, <1>7, <1>8, <1>9, StepCases

\* An accepted alarm is not posted again by any step.
LEMMA NoRepostStep ==
    ASSUME TypeOK, SingleCustody, Marks, [Next]_vars
    PROVE  \A i \in ok : posts'[i] = posts[i]
<1>0. ok \subseteq Ids
  BY DEF TypeOK
<1>1. CASE Quiet
  BY <1>1 DEF Quiet
<1>2. CASE Insertion
  BY <1>0, <1>2, InsertionMoves
<1>3. CASE Forgetting
  BY <1>3, ForgettingMoves
<1>4. CASE CheckerPost
  <2>1. PICK h \in Ids : h \in Range(fresh) /\ posts' = [posts EXCEPT ![h] = @ + 1]
    BY <1>4, CheckerPostMoves
  <2>2. h \notin ok
    BY <2>1 DEF Marks
  <2>3. QED BY <1>0, <2>1, <2>2, PostMoves
<1>5. CASE RetryTick
  BY <1>5, RetryTickMoves
<1>6. CASE RetryGivesUp \/ RetryPost
  <2>1. PICK h \in Ids : /\ h \in Range(batch)
                         /\ posts' = posts \/ posts' = [posts EXCEPT ![h] = @ + 1]
    BY <1>6, RetryingMoves
  <2>2. h \notin ok
    BY <2>1 DEF Marks
  <2>3. QED BY <1>0, <2>1, <2>2, PostMoves
<1>7. ASSUME NEW p \in Goroutines, Arrive(p) \/ PostAccepted(p) PROVE posts' = posts
  BY <1>7, StageMoves
<1>8. ASSUME NEW p \in Goroutines, PostFails(p) \/ MarkSent(p) PROVE posts' = posts
  BY <1>8, ReturnMoves
<1>9. QED BY <1>1, <1>2, <1>3, <1>4, <1>5, <1>6, <1>7, <1>8, StepCases

\* Nothing is marked initially.
LEMMA MarksInit == Init => Marks /\ SentMeansArrived
<1> SUFFICES ASSUME Init PROVE Marks /\ SentMeansArrived
  OBVIOUS
<1>1. Ids = {} /\ ok = {} /\ arrived = {} /\ \A p \in Goroutines : sending[p].at = "none"
  BY DEF Init, Ids, NoCall
<1>2. QED BY <1>1 DEF Marks, SentMeansArrived, Idle

\* dingtalk_sent is never true of an alarm the webhook has not seen.
THEOREM SentCorrect == Spec => []SentMeansArrived
<1> DEFINE IInv == TypeOK /\ SingleCustody /\ Marks /\ SentMeansArrived
<1>1. Init => IInv
  BY TypeInit, CustodyInit, MarksInit
<1>2. IInv /\ [Next]_vars => IInv'
  BY TypeStep, CustodyStep, MarksStep, SentStep
<1>3. IInv => SentMeansArrived
  OBVIOUS
<1> HIDE DEF IInv
<1>4. QED BY <1>1, <1>2, <1>3, PTL DEF Spec

\* An alarm the webhook accepted is never posted again.
THEOREM NoRepostCorrect == Spec => NoRepostAfterOk
<1> DEFINE IInv == TypeOK /\ SingleCustody /\ Marks
<1>1. Init => IInv
  BY TypeInit, CustodyInit, MarksInit
<1>2. IInv /\ [Next]_vars => IInv'
  BY TypeStep, CustodyStep, MarksStep
<1>3. IInv /\ [Next]_vars => [\A i \in ok : posts'[i] = posts[i]]_vars
  BY NoRepostStep
<1> HIDE DEF IInv
<1>4. QED BY <1>1, <1>2, <1>3, PTL DEF Spec, NoRepostAfterOk

(***************************************************************************)
(* Giving up                                                               *)
(***************************************************************************)

\* A settled alarm stays settled while it is not posted.
LEMMA StaysSettled ==
    ASSUME NEW i, Settled(i), ok \subseteq ok', lost \subseteq lost', posts'[i] = posts[i]
    PROVE  Settled(i)'
BY DEF Settled

\* An alarm leaves the retry machinery only when it is settled.
LEMMA GiveUpStep ==
    ASSUME TypeOK, SingleCustody, Tallied, Marks, GivesUpOnlyAfterMax, [Next]_vars
    PROVE  GivesUpOnlyAfterMax'
<1> USE DEF GivesUpOnlyAfterMax
<1>0. Range(fresh) \subseteq Ids /\ InRetry \subseteq Ids
  BY HeldAreRows DEF InRetry
<1>1. CASE Quiet
  BY <1>1, QuietMoves, StaysSettled DEF Quiet
<1>2. CASE Insertion
  <2>1. InRetry' = InRetry /\ ok' = ok /\ lost \subseteq lost'
    BY <1>2, InsertionMoves DEF InRetry
  <2>2. /\ Ids' = Ids \cup {Len(alarms) + 1} /\ posts'[Len(alarms) + 1] = 0
        /\ \A i \in Ids : posts'[i] = posts[i]
    BY <1>2, InsertionMoves
  <2>3. QED BY <2>1, <2>2, StaysSettled
<1>3. CASE Forgetting
  <2>1. posts' = posts /\ ok' = ok /\ lost \subseteq lost' /\ Ids' = Ids
    BY <1>3, ForgettingMoves
  <2>2. InRetry' = InRetry \/ InRetry \subseteq lost'
    <3>1. CASE /\ UNCHANGED <<pending, batch>>
               /\ Flight("checker")' = Flight("checker") /\ Flight("retry")' = Flight("retry")
      BY <3>1 DEF InRetry
    <3>2. CASE lost' = lost \cup Held
      BY <3>2 DEF Held
    <3>3. QED BY <1>3, <3>1, <3>2, ForgettingMoves
  <2>3. ASSUME NEW i \in Ids, posts[i] > 0, i \notin InRetry' PROVE Settled(i)'
    <3>1. CASE i \in InRetry
      BY <2>2, <2>3, <3>1 DEF Settled
    <3>2. CASE i \notin InRetry
      BY <2>1, <2>3, <3>2, StaysSettled
    <3>3. QED BY <3>1, <3>2
  <2>4. QED BY <2>1, <2>3
<1>4. CASE CheckerPost
  <2>1. PICK h \in Ids :
             /\ Flight("checker") = {} /\ Flight("checker")' = {h} /\ Flight("retry")' = Flight("retry")
             /\ posts' = [posts EXCEPT ![h] = @ + 1]
             /\ UNCHANGED <<pending, batch, ok, lost>> /\ Ids' = Ids
    BY <1>4, CheckerPostMoves
  <2>2. InRetry' = InRetry \cup {h} /\ \A i \in Ids : i # h => posts'[i] = posts[i]
    BY <2>1, PostMoves DEF InRetry
  <2>3. QED BY <2>1, <2>2, StaysSettled
<1>5. CASE RetryTick
  <2>1. InRetry' = InRetry /\ UNCHANGED <<posts, ok, lost>> /\ Ids' = Ids
    BY <1>5, RetryTickMoves, EmptyQueue DEF InRetry
  <2>2. QED BY <2>1, StaysSettled
<1>6. CASE RetryGivesUp \/ RetryPost
  <2>1. PICK h \in Ids :
             /\ Range(batch) = Range(batch') \cup {h}
             /\ Flight("retry") = {} /\ Flight("checker")' = Flight("checker")
             /\ UNCHANGED <<pending, ok, lost>> /\ Ids' = Ids
             /\ \/ /\ Count(h) + 1 > MaxRetries /\ Flight("retry")' = {} /\ posts' = posts
                \/ /\ Flight("retry")' = {h} /\ posts' = [posts EXCEPT ![h] = @ + 1]
    BY <1>6, RetryingMoves
  <2>2. CASE Count(h) + 1 > MaxRetries /\ Flight("retry")' = {} /\ posts' = posts
    <3>1. InRetry \subseteq InRetry' \cup {h} /\ h \in InRetry
      BY <2>1, <2>2 DEF InRetry
    <3>2. posts[h] = 1 + MaxRetries
      <4>1. posts[h] = 1 + Count(h) /\ Count(h) <= MaxRetries
        BY <3>1 DEF Tallied
      <4>2. Count(h) \in Nat /\ MaxRetries \in Nat
        BY CountTypes, Bounds
      <4>3. QED BY <2>2, <4>1, <4>2
    <3>3. Settled(h)
      BY <3>2 DEF Settled
    <3>4. QED BY <2>1, <2>2, <3>1, <3>3, StaysSettled
  <2>3. CASE Flight("retry")' = {h} /\ posts' = [posts EXCEPT ![h] = @ + 1]
    <3>1. InRetry' = InRetry /\ h \in InRetry
      BY <2>1, <2>3 DEF InRetry
    <3>2. \A i \in Ids : i # h => posts'[i] = posts[i]
      BY <2>3, PostMoves
    <3>3. QED BY <2>1, <3>1, <3>2, StaysSettled
  <2>4. QED BY <2>1, <2>2, <2>3
<1>7. ASSUME NEW p \in Goroutines, Arrive(p) \/ PostAccepted(p) PROVE GivesUpOnlyAfterMax'
  <2>1. InRetry' = InRetry /\ UNCHANGED <<posts, lost>> /\ Ids' = Ids
    BY <1>7, StageMoves DEF InRetry
  <2>2. ok \subseteq ok'
    BY <1>7 DEF Arrive, PostAccepted
  <2>3. QED BY <2>1, <2>2, StaysSettled
<1>8. ASSUME NEW p \in Goroutines, PostFails(p) PROVE GivesUpOnlyAfterMax'
  <2>1. ~MarkSent(p)
    BY <1>8 DEF PostFails, MarkSent, Failed
  <2>2. /\ Flight(p) = {sending[p].id} /\ Flight(p)' = {}
        /\ \A q \in Goroutines \ {p} : Flight(q)' = Flight(q)
        /\ Range(pending') = Range(pending) \cup {sending[p].id}
        /\ UNCHANGED <<batch, posts, ok, lost>> /\ Ids' = Ids
    BY <1>8, <2>1, ReturnMoves
  <2>3. InRetry' = InRetry
    BY <2>2 DEF InRetry, Goroutines
  <2>4. QED BY <2>2, <2>3, StaysSettled
<1>9. ASSUME NEW p \in Goroutines, MarkSent(p) PROVE GivesUpOnlyAfterMax'
  <2>1. ~PostFails(p) /\ sending[p].at = "mark"
    BY <1>9 DEF PostFails, MarkSent, Failed
  <2>2. /\ Flight(p) = {sending[p].id}
        /\ \A q \in Goroutines \ {p} : Flight(q)' = Flight(q)
        /\ UNCHANGED <<pending, batch, posts, ok, lost>> /\ Ids' = Ids
    BY <1>9, <2>1, ReturnMoves
  <2>3. InRetry \subseteq InRetry' \cup {sending[p].id}
    BY <2>2 DEF InRetry, Goroutines
  <2>4. Settled(sending[p].id)
    BY <2>1 DEF Marks, Idle, Settled
  <2>5. QED BY <2>2, <2>3, <2>4, StaysSettled
<1>10. QED BY <1>1, <1>2, <1>3, <1>4, <1>5, <1>6, <1>7, <1>8, <1>9, StepCases

\* An alarm that was posted is given up only when the webhook answered, when
\* its posts are used up, or in a crash, in every run of the notifier.
THEOREM GivesUpCorrect == Spec => []GivesUpOnlyAfterMax
<1> DEFINE IInv == /\ TypeOK /\ SingleCustody /\ CountsAreLive
                   /\ Tallied /\ PostBound /\ Marks /\ GivesUpOnlyAfterMax
<1>1. Init => IInv
  <2>1. Init => GivesUpOnlyAfterMax
    BY DEF Init, Ids, GivesUpOnlyAfterMax
  <2>2. QED BY <2>1, TypeInit, CustodyInit, TallyInit, MarksInit
<1>2. IInv /\ [Next]_vars => IInv'
  BY TypeStep, CustodyStep, CountsStep, TallyStep, MarksStep, GiveUpStep
<1>3. IInv => GivesUpOnlyAfterMax
  OBVIOUS
<1> HIDE DEF IInv
<1>4. QED BY <1>1, <1>2, <1>3, PTL DEF Spec

(***************************************************************************)
(* Open alarms                                                             *)
(***************************************************************************)

\* What the two halves of AtMostOneOpen need of a step that appends no row: a
\* row keeps its key and is not opened again.
NoNewOpen == /\ DOMAIN alarms' = DOMAIN alarms
             /\ \A i \in DOMAIN alarms : /\ alarms'[i].key = alarms[i].key
                                         /\ alarms[i].acknowledged => alarms'[i].acknowledged

\* Setting a flag of a row opens none.
LEMMA FlagsOpenNone ==
    ASSUME TypeOK, NEW i \in DOMAIN alarms,
           \/ alarms' = [alarms EXCEPT ![i].acknowledged = TRUE]
           \/ alarms' = [alarms EXCEPT ![i].dingtalk_sent = TRUE]
    PROVE  NoNewOpen
<1>1. \A j \in DOMAIN alarms : alarms[j] \in Row
  <2>1. alarms \in Seq(Row)
    BY DEF TypeOK, Row
  <2>2. QED BY <2>1
<1>2. QED BY <1>1 DEF NoNewOpen, Row

\* Between the EXISTS query and the INSERT nobody else opens the key.
LEMMA OpenStep ==
    ASSUME TypeOK, AtMostOneOpen, InsertIsFirst, [Next]_vars
    PROVE  AtMostOneOpen' /\ InsertIsFirst'
<1> USE DEF table, checker, delivery, history
<1>1. ASSUME NoNewOpen, cpc' = "insert" => cpc = "insert" /\ cur' = cur
      PROVE  AtMostOneOpen' /\ InsertIsFirst'
  BY <1>1 DEF NoNewOpen, AtMostOneOpen, InsertIsFirst, Open
<1>2. ASSUME alarms' = alarms, cpc' = "insert" => ~Open(cur')
      PROVE  AtMostOneOpen' /\ InsertIsFirst'
  BY <1>2 DEF AtMostOneOpen, InsertIsFirst, Open
<1>3. CASE Insertion
  <2>1. /\ cpc = "insert" /\ alarms' = Append(alarms, NewRow(cur)) /\ cpc' = AfterInsert
    BY <1>3 DEF Insertion, InsertAlarm, InsertAnswerLost
  <2>2. cpc' # "insert"
    BY <2>1 DEF AfterInsert
  <2>3. /\ alarms \in Seq(Row) /\ NewRow(cur) \in Row /\ NewRow(cur).key = cur
    BY DEF TypeOK, Row, NewRow
  <2>4. /\ DOMAIN alarms' = DOMAIN alarms \cup {Len(alarms) + 1}
        /\ \A i \in DOMAIN alarms : alarms'[i] = alarms[i]
        /\ alarms'[Len(alarms) + 1].key = cur
    BY <2>1, <2>3
  <2>5. \A i \in DOMAIN alarms : ~(alarms[i].key = cur /\ ~alarms[i].acknowledged)
    BY <2>1 DEF InsertIsFirst, Open
  <2>6. AtMostOneOpen'
    BY <2>4, <2>5 DEF AtMostOneOpen
  <2>7. QED BY <2>2, <2>6 DEF InsertIsFirst
<1>4. ASSUME NEW S \in SUBSET Keys1, CheckTick(S) PROVE AtMostOneOpen' /\ InsertIsFirst'
  BY <1>2, <1>4 DEF CheckTick
<1>5. CASE Scanning
  <2>1. ASSUME NEW d \in Devices, NextRow(d) PROVE AtMostOneOpen' /\ InsertIsFirst'
    BY <1>2, <2>1 DEF NextRow
  <2>2. ASSUME NEW k \in checks, CheckExists(k) PROVE AtMostOneOpen' /\ InsertIsFirst'
    BY <1>2, <2>2 DEF CheckExists
  <2>3. CASE ScanDone \/ CheckAborts
    BY <1>2, <2>3 DEF ScanDone, CheckAborts
  <2>4. QED BY <1>5, <2>1, <2>2, <2>3 DEF Scanning
<1>6. CASE Raising
  <2>1. ASSUME NEW high \in BOOLEAN, L2Count(high) PROVE AtMostOneOpen' /\ InsertIsFirst'
    BY <1>2, <2>1 DEF L2Count
  <2>2. CASE L2Exists
    BY <1>2, <2>2 DEF L2Exists
  <2>3. CASE InsertFails \/ CheckerPost \/ Publish
    BY <1>2, <2>3 DEF InsertFails, AfterInsert, CheckerPost, Publish
  <2>4. QED BY <1>3, <1>6, <2>1, <2>2, <2>3 DEF Raising, Insertion
<1>7. CASE RouterReceives \/ RetryTick \/ Retrying
  <2>1. UNCHANGED <<alarms, cpc, cur>>
    BY <1>7 DEF RouterReceives, RetryTick, Retrying, RetryGivesUp, RetryPost
  <2>2. QED BY <1>1, <2>1 DEF NoNewOpen
<1>8. ASSUME NEW p \in Goroutines, Posting(p) PROVE AtMostOneOpen' /\ InsertIsFirst'
  <2>1. UNCHANGED <<cpc, cur>>
    BY <1>8 DEF Posting, Arrive, PostFails, PostAccepted, MarkSent
  <2>2. NoNewOpen
    <3>1. CASE alarms' = alarms
      BY <3>1 DEF NoNewOpen
    <3>2. CASE alarms' # alarms
      <4>1. ~Idle(p) /\ alarms' = [alarms EXCEPT ![sending[p].id].dingtalk_sent = TRUE]
        BY <1>8, <3>2 DEF Posting, Arrive, PostFails, PostAccepted, MarkSent, Idle
      <4>2. sending[p].id \in DOMAIN alarms
        BY <4>1 DEF TypeOK, Ids
      <4>3. QED BY <4>1, <4>2, FlagsOpenNone
    <3>3. QED BY <3>1, <3>2
  <2>3. QED BY <1>1, <2>1, <2>2
<1>9. ASSUME NEW i \in DOMAIN alarms, AcknowledgeAlarm(i) PROVE AtMostOneOpen' /\ InsertIsFirst'
  BY <1>1, <1>9, FlagsOpenNone DEF AcknowledgeAlarm
<1>10. CASE Crash
  BY <1>2, <1>10 DEF Crash
<1>11. CASE UNCHANGED vars
  BY <1>1, <1>11 DEF vars, NoNewOpen
<1>12. QED
  BY <1>4, <1>5, <1>6, <1>7, <1>8, <1>9, <1>10, <1>11 DEF Next, CheckerStep

\* There is at most one open alarm per device and metric, in every run.
THEOREM OpenCorrect == Spec => []AtMostOneOpen
<1> DEFINE IInv == TypeOK /\ AtMostOneOpen /\ InsertIsFirst
<1>1. Init => IInv
  <2>1. Init => AtMostOneOpen /\ InsertIsFirst
    BY DEF Init, AtMostOneOpen, InsertIsFirst
  <2>2. QED BY <2>1, TypeInit
<1>2. IInv /\ [Next]_vars => IInv'
  BY TypeStep, OpenStep
<1>3. IInv => AtMostOneOpen
  OBVIOUS
<1> HIDE DEF IInv
<1>4. QED BY <1>1, <1>2, <1>3, PTL DEF Spec

(***************************************************************************)
(* The promise of AlarmDelivery                                            *)
(***************************************************************************)

\* What each step does to the set of alarms in memory.
LEMMA HeldMoves ==
    ASSUME TypeOK, SingleCustody
    PROVE  /\ Quiet \/ CheckerPost \/ RetryTick \/ RetryPost => Held' = Held
           /\ \A p \in Goroutines :
                /\ Arrive(p) \/ PostAccepted(p) \/ PostFails(p) => Held' = Held
                /\ MarkSent(p) => Held = Held' \cup {sending[p].id}
           /\ Forgetting => /\ Held' \subseteq Held
                            /\ \/ Held \ Held' \subseteq Range(fresh)
                               \/ lost' = lost \cup Held /\ Held' = {}
<1> USE DEF Held, InRetry
<1>1. Quiet => Held' = Held
  BY QuietMoves
<1>2. CheckerPost => Held' = Held
  <2> SUFFICES ASSUME CheckerPost PROVE Held' = Held
    OBVIOUS
  <2>1. PICK h \in Ids :
             /\ Range(fresh) = Range(fresh') \cup {h}
             /\ Flight("checker") = {} /\ Flight("checker")' = {h}
             /\ Flight("retry")' = Flight("retry")
             /\ UNCHANGED <<pending, batch>>
    BY CheckerPostMoves
  <2>2. QED BY <2>1
<1>3. RetryTick => Held' = Held
  BY RetryTickMoves, EmptyQueue
<1>4. RetryPost => Held' = Held
  <2> SUFFICES ASSUME RetryPost PROVE Held' = Held
    OBVIOUS
  <2>1. Flight("retry")' # {}
    BY DEF RetryPost, Flight, Idle, Call, TypeOK, Goroutines
  <2>2. PICK h \in Ids :
             /\ Range(batch) = Range(batch') \cup {h}
             /\ Flight("retry") = {} /\ Flight("checker")' = Flight("checker")
             /\ UNCHANGED <<fresh, pending>>
             /\ Flight("retry")' = {} \/ Flight("retry")' = {h}
    BY RetryingMoves
  <2>3. QED BY <2>1, <2>2
<1>5. ASSUME NEW p \in Goroutines, Arrive(p) \/ PostAccepted(p) PROVE Held' = Held
  BY <1>5, StageMoves
<1>6. ASSUME NEW p \in Goroutines, PostFails(p) PROVE Held' = Held
  <2>1. ~MarkSent(p)
    BY <1>6 DEF PostFails, MarkSent, Failed
  <2>2. /\ Flight(p) = {sending[p].id} /\ Flight(p)' = {}
        /\ \A q \in Goroutines \ {p} : Flight(q)' = Flight(q)
        /\ Range(pending') = Range(pending) \cup {sending[p].id}
        /\ UNCHANGED <<fresh, batch>>
    BY <1>6, <2>1, ReturnMoves
  <2>3. QED BY <2>2 DEF Goroutines
<1>7. ASSUME NEW p \in Goroutines, MarkSent(p) PROVE Held = Held' \cup {sending[p].id}
  <2>1. ~PostFails(p)
    BY <1>7 DEF PostFails, MarkSent, Failed
  <2>2. /\ Flight(p) = {sending[p].id} /\ Flight(p)' = {}
        /\ \A q \in Goroutines \ {p} : Flight(q)' = Flight(q)
        /\ UNCHANGED <<fresh, pending, batch>>
    BY <1>7, <2>1, ReturnMoves
  <2>3. QED BY <2>2 DEF Goroutines
<1>8. ASSUME Forgetting
      PROVE  /\ Held' \subseteq Held
             /\ \/ Held \ Held' \subseteq Range(fresh)
                \/ lost' = lost \cup Held /\ Held' = {}
  <2>1. Range(fresh') = {}
    BY <1>8, ForgettingMoves, EmptyQueue
  <2>2. CASE /\ UNCHANGED <<pending, batch>>
             /\ Flight("checker")' = Flight("checker") /\ Flight("retry")' = Flight("retry")
    BY <2>1, <2>2
  <2>3. CASE /\ pending' = <<>> /\ batch' = <<>>
             /\ Flight("checker")' = {} /\ Flight("retry")' = {}
             /\ lost' = lost \cup Held
    <3>1. Held' = {}
      BY <2>1, <2>3, EmptyQueue
    <3>2. QED BY <2>3, <3>1
  <2>4. QED BY <1>8, <2>2, <2>3, ForgettingMoves
<1>9. QED BY <1>1, <1>2, <1>3, <1>4, <1>5, <1>6, <1>7, <1>8

\* The retry loop lets go of the alarm it gives up, whose posts are used up.
LEMMA GivesUpHeld ==
    ASSUME TypeOK, SingleCustody, RetryGivesUp
    PROVE  \E h \in Range(batch) :
             /\ Held = Held' \cup {h} /\ h \notin Held' /\ Count(h) + 1 > MaxRetries
<1>1. Flight("retry")' = {}
  BY DEF RetryGivesUp, Flight, Idle
<1>2. PICK h \in Ids :
         /\ Range(batch) = Range(batch') \cup {h} /\ h \notin Range(batch')
         /\ Flight("retry") = {} /\ Flight("checker")' = Flight("checker")
         /\ UNCHANGED <<fresh, pending>>
         /\ Count(h) + 1 > MaxRetries \/ Flight("retry")' = {h}
  BY RetryingMoves
<1>3. Held = Held' \cup {h}
  BY <1>1, <1>2 DEF Held, InRetry
<1>4. h \notin Held'
  BY <1>1, <1>2 DEF Held, InRetry, SingleCustody
<1>5. QED BY <1>1, <1>2, <1>3, <1>4

\* The process does not hold what it has forgotten.
HeldNotLost == Held \cap lost = {}

\* What a step loses, it lets go of.
LEMMA HeldNotLostStep ==
    ASSUME TypeOK, SingleCustody, HeldNotLost, [Next]_vars
    PROVE  HeldNotLost'
<1> USE DEF HeldNotLost
<1>1. CASE Quiet
  BY <1>1, HeldMoves DEF Quiet
<1>2. CASE Insertion
  <2> DEFINE new == Len(alarms) + 1
  <2>1. /\ new \notin Ids
        /\ \/ Range(fresh') = Range(fresh) \cup {new} /\ lost' = lost
           \/ Range(fresh') = Range(fresh) /\ lost' = lost \cup {new}
        /\ UNCHANGED <<pending, batch>>
        /\ Flight("checker")' = Flight("checker") /\ Flight("retry")' = Flight("retry")
    BY <1>2, InsertionMoves
  <2>2. Held \subseteq Ids /\ lost \subseteq Ids
    BY HeldAreRows DEF Held, InRetry, TypeOK
  <2> HIDE DEF new
  <2>3. \/ Held' = Held \cup {new} /\ lost' = lost
        \/ Held' = Held /\ lost' = lost \cup {new}
    BY <2>1 DEF Held, InRetry
  <2>4. QED BY <2>1, <2>2, <2>3
<1>3. CASE Forgetting
  <2>1. Held' = {} \/ (Held' \subseteq InRetry /\ lost' \subseteq lost \cup Range(fresh))
    <3>1. Range(fresh') = {}
      BY <1>3, ForgettingMoves, EmptyQueue
    <3>2. CASE /\ UNCHANGED <<pending, batch>> /\ lost' \subseteq lost \cup Range(fresh)
               /\ Flight("checker")' = Flight("checker") /\ Flight("retry")' = Flight("retry")
      BY <3>1, <3>2 DEF Held, InRetry
    <3>3. CASE pending' = <<>> /\ batch' = <<>> /\ Flight("checker")' = {} /\ Flight("retry")' = {}
      BY <3>1, <3>3, EmptyQueue DEF Held, InRetry
    <3>4. QED BY <1>3, <3>2, <3>3, ForgettingMoves
  <2>2. Held' \subseteq Held
    BY <1>3, HeldMoves
  <2>3. QED BY <2>1, <2>2 DEF SingleCustody
<1>4. CASE CheckerPost \/ RetryTick \/ RetryPost
  BY <1>4, HeldMoves DEF CheckerPost, RetryTick, RetryPost, history
<1>5. CASE RetryGivesUp
  BY <1>5, GivesUpHeld DEF RetryGivesUp, history
<1>6. ASSUME NEW p \in Goroutines, Arrive(p) \/ PostAccepted(p) \/ PostFails(p) PROVE HeldNotLost'
  BY <1>6, HeldMoves DEF Arrive, PostAccepted, PostFails, history
<1>7. ASSUME NEW p \in Goroutines, MarkSent(p) PROVE HeldNotLost'
  BY <1>7, HeldMoves DEF MarkSent, history
<1>8. QED BY <1>1, <1>2, <1>3, <1>4, <1>5, <1>6, <1>7, StepCases

\* The fates of the alarms, and those that are owed.
LEMMA FateTypes ==
    ASSUME TypeOK
    PROVE  /\ DOMAIN alarms = Ids /\ DOMAIN posts = Ids /\ DOMAIN Fates = Ids
           /\ \A i \in Ids : Fates[i] = Fate(i)
           /\ Held \subseteq Ids /\ Delivery!Owed = Held \ ok
<1>1. DOMAIN alarms = Ids /\ DOMAIN posts = Ids
  BY DEF TypeOK, Ids
<1>2. DOMAIN Fates = Ids /\ \A i \in Ids : Fates[i] = Fate(i)
  BY DEF Fates
<1>3. Held \subseteq Ids
  BY HeldAreRows DEF Held, InRetry
<1>4. \A i \in Ids : Fate(i) = "owed" <=> i \in Held \ ok
  BY DEF Fate
<1>5. QED BY <1>1, <1>2, <1>3, <1>4 DEF Delivery!Owed

\* A fate changes only with what it is made of.
LEMMA FatesKept ==
    ASSUME Ids' = Ids, ok' = ok, lost' = lost, Held' \ ok = Held \ ok,
           \A i \in Ids \ Held : posts'[i] = posts[i]
    PROVE  Fates' = Fates
<1>1. ASSUME NEW i \in Ids PROVE Fate(i)' = Fate(i)
  BY <1>1 DEF Fate
<1>2. QED BY <1>1 DEF Fates

\* Raising, with or without an answer.
LEMMA InsertionRaises ==
    ASSUME TypeOK, SingleCustody, InsertIsFirst, Insertion
    PROVE  \E k \in Keys : Delivery!Raise(k)
<1>0. PICK new : new = Len(alarms) + 1
  OBVIOUS
<1>1. /\ cpc = "insert" /\ alarms' = Append(alarms, NewRow(cur)) /\ posts' = Append(posts, 0)
      /\ arrived' = arrived
  BY DEF Insertion, InsertAlarm, InsertAnswerLost
<1>2. cur \in Keys /\ ~Delivery!IsOpen(cur)
  BY <1>1 DEF InsertIsFirst, Open, Delivery!IsOpen, TypeOK
<1>3. /\ new \notin Ids /\ Ids' = Ids \cup {new}
      /\ \/ Range(fresh') = Range(fresh) \cup {new} /\ lost' = lost
         \/ Range(fresh') = Range(fresh) /\ lost' = lost \cup {new}
      /\ UNCHANGED <<pending, batch, ok>>
      /\ \A i \in Ids : posts'[i] = posts[i]
      /\ Flight("checker")' = Flight("checker") /\ Flight("retry")' = Flight("retry")
  BY <1>0, InsertionMoves
<1>4. /\ Held \subseteq Ids /\ ok \subseteq Ids
      /\ \/ Held' = Held \cup {new} /\ lost' = lost
         \/ Held' = Held /\ lost' = lost \cup {new}
  BY <1>3, FateTypes DEF Held, InRetry, TypeOK
<1>5. ASSUME NEW i \in Ids PROVE Fate(i)' = Fate(i)
  BY <1>3, <1>4, <1>5 DEF Fate
<1>6. Fate(new)' \in {"owed", "forgotten"}
  BY <1>3, <1>4 DEF Fate
<1>7. Fates' = Append(Fates, Fate(new)')
  <2>1. Len(alarms) \in Nat /\ Ids = 1..Len(alarms) /\ new = Len(alarms) + 1
    BY <1>0 DEF TypeOK, Ids
  <2>2. Fates' = [i \in 1..new |-> IF i = new THEN Fate(new)' ELSE Fate(i)]
    <3>1. Ids' = 1..new /\ new \notin Ids
      BY <1>3, <2>1
    <3>2. Fates' = [i \in 1..new |-> Fate(i)']
      BY <3>1 DEF Fates
    <3>3. \A i \in 1..new : i = new \/ i \in Ids
      BY <2>1
    <3>4. QED BY <1>5, <3>1, <3>2, <3>3
  <2>3. Append(Fates, Fate(new)') = [i \in 1..new |-> IF i = new THEN Fate(new)' ELSE Fate(i)]
    BY <2>1 DEF Fates
  <2>4. QED BY <2>2, <2>3
<1>8. QED BY <1>1, <1>2, <1>6, <1>7 DEF Delivery!Raise, NewRow

\* An aborted check, a finished one without a webhook, and a crash.
LEMMA ForgettingForgets ==
    ASSUME TypeOK, SingleCustody, Tallied, Forgetting
    PROVE  \E S \in SUBSET Delivery!Owed : Delivery!Forget(S)
<1> DEFINE S == (Held \ ok) \ Held'
<1>1. /\ UNCHANGED <<posts, arrived, ok, alarms>> /\ Ids' = Ids /\ lost \subseteq lost'
      /\ lost' \subseteq lost \cup Held
  BY ForgettingMoves DEF Held
<1>2. Held' \subseteq Held /\ \A i \in S : i \in lost' \/ posts[i] = 0
  BY HeldMoves DEF Tallied
<1>3. ASSUME NEW i \in Ids PROVE Fate(i)' = IF i \in S THEN "forgotten" ELSE Fate(i)
  BY <1>1, <1>2 DEF Fate
<1> HIDE DEF S
<1>4. Fates' = [i \in Ids |-> IF i \in S THEN "forgotten" ELSE Fates[i]]
  BY <1>1, <1>3, FateTypes DEF Fates
<1>5. S \subseteq Delivery!Owed
  BY FateTypes DEF S
<1>6. QED BY <1>1, <1>4, <1>5, FateTypes DEF Delivery!Forget

\* The first post of an alarm, and each post of the retry loop.
LEMMA PostingPosts ==
    ASSUME TypeOK, SingleCustody, Tallied, Marks, CheckerPost \/ RetryPost
    PROVE  \E i \in Ids : Delivery!Post(i)
<1>1. UNCHANGED <<alarms, arrived, ok, lost>> /\ Ids' = Ids /\ Held' = Held
  BY HeldMoves DEF CheckerPost, RetryPost, table, Ids
<1>2. \E i \in Held \ ok : posts[i] < 1 + MaxRetries /\ posts' = [posts EXCEPT ![i] = @ + 1]
  <2>1. CASE CheckerPost
    <3>1. PICK h \in Range(fresh) : posts' = [posts EXCEPT ![h] = @ + 1]
      BY <2>1, CheckerPostMoves
    <3>2. h \in Held \ ok /\ posts[h] = 0
      BY <3>1 DEF Held, Marks, Tallied
    <3>3. 0 < 1 + MaxRetries
      BY Bounds
    <3>4. QED BY <3>1, <3>2, <3>3
  <2>2. CASE RetryPost
    <3> DEFINE h == Head(batch)
    <3>1. /\ ~(Count(h) + 1 > MaxRetries) /\ posts' = [posts EXCEPT ![h] = @ + 1]
          /\ batch # <<>> /\ batch \in Seq(Ids) /\ IsInjective(batch)
      BY <2>2 DEF RetryPost, RetryLimitReached, TypeOK, SingleCustody
    <3>2. h \in Range(batch)
      BY <3>1, RangeTail
    <3> HIDE DEF h
    <3>3. h \in Held \ ok /\ posts[h] = 1 + Count(h)
      BY <3>2 DEF Held, InRetry, Marks, Tallied
    <3>4. Count(h) \in Nat /\ MaxRetries \in Nat
      <4>1. h \in Ids
        BY <3>3, FateTypes
      <4>2. QED BY <4>1, CountTypes, Bounds
    <3>5. posts[h] < 1 + MaxRetries
      BY <3>1, <3>3, <3>4
    <3>6. QED BY <3>1, <3>3, <3>5
  <2>3. QED BY <2>1, <2>2
<1>3. PICK i \in Held \ ok : posts[i] < 1 + MaxRetries /\ posts' = [posts EXCEPT ![i] = @ + 1]
  BY <1>2
<1>4. i \in Delivery!Owed /\ i \in Ids
  BY <1>3, FateTypes
<1>5. Fates' = Fates
  <2>1. \A j \in Ids \ Held : posts'[j] = posts[j]
    BY <1>3, FateTypes
  <2>2. QED BY <1>1, <2>1, FatesKept
<1>6. QED BY <1>1, <1>3, <1>4, <1>5 DEF Delivery!Post

\* The retry loop drops an alarm.
LEMMA GivingUpSpends ==
    ASSUME TypeOK, SingleCustody, Tallied, Marks, HeldNotLost, RetryGivesUp
    PROVE  \E i \in Ids : Delivery!GiveUp(i)
<1>1. UNCHANGED <<alarms, posts, arrived, ok, lost>> /\ Ids' = Ids
  BY DEF RetryGivesUp, table, history, Ids
<1>2. PICK h \in Range(batch) :
         /\ Held = Held' \cup {h} /\ h \notin Held' /\ Count(h) + 1 > MaxRetries
  BY GivesUpHeld
<1>3. h \in Held /\ h \notin ok /\ h \notin lost /\ h \in Ids
  BY <1>2, FateTypes DEF Marks, HeldNotLost
<1>4. posts[h] = 1 + MaxRetries
  <2>1. posts[h] = 1 + Count(h) /\ Count(h) <= MaxRetries
    BY <1>2 DEF Tallied, InRetry
  <2>2. Count(h) \in Nat /\ MaxRetries \in Nat
    BY <1>3, CountTypes, Bounds
  <2>3. QED BY <1>2, <2>1, <2>2
<1>5. ASSUME NEW i \in Ids PROVE Fate(i)' = IF i = h THEN "spent" ELSE Fate(i)
  <2>1. posts[h] # 0
    BY <1>4, Bounds
  <2>2. QED BY <1>1, <1>2, <1>3, <2>1 DEF Fate
<1>6. Fates' = [Fates EXCEPT ![h] = "spent"]
  BY <1>1, <1>3, <1>5, FateTypes DEF Fates
<1>7. QED BY <1>1, <1>3, <1>4, <1>6, FateTypes DEF Delivery!GiveUp

\* A post gets through.
LEMMA ArrivalReaches ==
    ASSUME TypeOK, SingleCustody, Tallied, Marks, NEW p \in Goroutines, Arrive(p)
    PROVE  \E i \in Ids : Delivery!Reach(i)
<1> DEFINE h == sending[p].id
<1>1. /\ sending[p].at = "post" /\ ~Idle(p) /\ arrived' = arrived \cup {h}
      /\ UNCHANGED <<alarms, posts, ok, lost>> /\ Ids' = Ids
  BY DEF Arrive, Idle, table, Ids
<1>2. h \in InRetry /\ h \notin ok
  BY <1>1 DEF InRetry, Flight, Goroutines, Marks
<1>3. posts[h] > 0
  <2>1. h \in Ids
    BY <1>2, FateTypes DEF Held
  <2>2. posts[h] = 1 + Count(h) /\ Count(h) \in Nat
    BY <1>2, <2>1, CountTypes DEF Tallied
  <2>3. QED BY <2>2
<1>4. Fates' = Fates
  BY <1>1, HeldMoves, FatesKept
<1>5. h \in Delivery!Owed /\ h \in Ids
  BY <1>2, FateTypes DEF Held
<1>6. QED BY <1>1, <1>3, <1>4, <1>5 DEF Delivery!Reach

\* The answer to a post below 300.
LEMMA AnswerAccepts ==
    ASSUME TypeOK, SingleCustody, Marks, NEW p \in Goroutines, PostAccepted(p)
    PROVE  \E i \in Ids : Delivery!Accept(i)
<1> DEFINE h == sending[p].id
<1>1. /\ sending[p].at = "arrived" /\ ~Idle(p) /\ ok' = ok \cup {h}
      /\ UNCHANGED <<alarms, posts, arrived, lost>> /\ Ids' = Ids
  BY DEF PostAccepted, Accepted, Idle, table, Ids
<1>2. h \in InRetry /\ h \notin ok /\ h \in arrived
  BY <1>1 DEF InRetry, Flight, Goroutines, Marks
<1>3. h \in Delivery!Owed /\ h \in Ids
  BY <1>2, FateTypes DEF Held
<1>4. ASSUME NEW i \in Ids PROVE Fate(i)' = IF i = h THEN "accepted" ELSE Fate(i)
  <2>1. Held' = Held
    BY HeldMoves
  <2>2. QED BY <1>1, <2>1 DEF Fate
<1> HIDE DEF h
<1>5. Fates' = [Fates EXCEPT ![h] = "accepted"]
  BY <1>1, <1>3, <1>4, FateTypes DEF Fates
<1>6. QED BY <1>1, <1>2, <1>3, <1>5 DEF Delivery!Accept

\* The UPDATE of dingtalk_sent, which may fail.
LEMMA MarkingMarks ==
    ASSUME TypeOK, SingleCustody, Marks, NEW p \in Goroutines, MarkSent(p)
    PROVE  (\E i \in Ids : Delivery!Mark(i)) \/ UNCHANGED <<alarms, posts, arrived, Fates>>
<1> DEFINE h == sending[p].id
<1>1. /\ sending[p].at = "mark" /\ ~Idle(p) /\ UNCHANGED <<posts, arrived, ok, lost>>
      /\ \/ alarms' = [alarms EXCEPT ![h].dingtalk_sent = TRUE]
         \/ alarms' = alarms
  BY DEF MarkSent, Idle, history
<1>2. h \in ok /\ h \in Ids
  BY <1>1 DEF Marks, TypeOK
<1>3. Fates' = Fates
  <2>1. Ids' = Ids
    BY <1>1, <1>2, RowUpdate DEF Ids
  <2>2. Held = Held' \cup {h}
    BY HeldMoves
  <2>3. QED BY <1>1, <1>2, <2>1, <2>2, FatesKept
<1>4. Fates[h] = "accepted"
  BY <1>2, FateTypes DEF Fate
<1>5. QED BY <1>1, <1>2, <1>3, <1>4, FateTypes DEF Delivery!Mark

\* A step that moves no alarm is an acknowledgement or leaves the table alone.
LEMMA QuietAcknowledges ==
    ASSUME TypeOK, [Next]_vars, Quiet
    PROVE  (\E i \in Ids : Delivery!Acknowledge(i)) \/ UNCHANGED <<alarms, posts, arrived, Fates>>
<1>1. UNCHANGED <<posts, arrived, Fates>>
  BY QuietMoves, FatesKept DEF Quiet
<1>2. CASE alarms' = alarms
  BY <1>1, <1>2
<1>3. ASSUME NEW i \in DOMAIN alarms, AcknowledgeAlarm(i) PROVE \E j \in Ids : Delivery!Acknowledge(j)
  BY <1>1, <1>3, FateTypes DEF AcknowledgeAlarm, Delivery!Acknowledge
<1>4. \/ alarms' = alarms
      \/ \E i \in DOMAIN alarms : AcknowledgeAlarm(i)
      \/ Insertion
      \/ \E p \in Goroutines : MarkSent(p)
  BY DEF Next, CheckerStep, Scanning, Raising, Retrying, Posting, Insertion, vars, table,
         CheckTick, NextRow, CheckExists, ScanDone, CheckAborts, L2Count, L2Exists,
         InsertFails, CheckerPost, Publish, RouterReceives, RetryTick, RetryGivesUp,
         RetryPost, Arrive, PostFails, PostAccepted, Crash
<1>5. ~Insertion
  <2>1. Len(alarms) \in Nat /\ Len(alarms) + 1 \notin Ids
    BY DEF TypeOK, Ids
  <2>2. Insertion => Len(alarms') = Len(alarms) + 1
    BY NewRowType DEF Insertion, InsertAlarm, InsertAnswerLost, TypeOK
  <2>3. QED BY <2>1, <2>2 DEF Quiet, Ids
<1>6. ASSUME NEW p \in Goroutines PROVE ~MarkSent(p)
  BY <1>6 DEF MarkSent, Quiet, TypeOK, NoCall
<1>7. QED BY <1>2, <1>3, <1>4, <1>5, <1>6

\* Every step of the notifier is a step of its promise, or invisible in it.
LEMMA DeliveryStep ==
    ASSUME TypeOK, SingleCustody, Tallied, Marks, HeldNotLost, InsertIsFirst, [Next]_vars
    PROVE  Delivery!Next \/ UNCHANGED <<alarms, posts, arrived, Fates>>
<1> USE FateTypes DEF Delivery!Next
<1>1. CASE Quiet
  BY <1>1, QuietAcknowledges
<1>2. CASE Insertion
  BY <1>2, InsertionRaises
<1>3. CASE Forgetting
  BY <1>3, ForgettingForgets
<1>4. CASE CheckerPost \/ RetryPost
  BY <1>4, PostingPosts
<1>5. CASE RetryGivesUp
  BY <1>5, GivingUpSpends
<1>6. CASE RetryTick
  <2>1. Held' = Held
    BY <1>6, HeldMoves
  <2>2. UNCHANGED <<alarms, posts, arrived, ok, lost>> /\ Ids' = Ids
    BY <1>6, RetryTickMoves
  <2>3. QED BY <2>1, <2>2, FatesKept
<1>7. ASSUME NEW p \in Goroutines, Arrive(p) PROVE Delivery!Next
  BY <1>7, ArrivalReaches
<1>8. ASSUME NEW p \in Goroutines, PostAccepted(p) PROVE Delivery!Next
  BY <1>8, AnswerAccepts
<1>9. ASSUME NEW p \in Goroutines, PostFails(p)
      PROVE  UNCHANGED <<alarms, posts, arrived, Fates>>
  <2>1. Held' = Held
    BY <1>9, HeldMoves
  <2>2. UNCHANGED <<alarms, posts, arrived, ok, lost>> /\ Ids' = Ids
    BY <1>9 DEF PostFails, table, history, Ids
  <2>3. QED BY <2>1, <2>2, FatesKept
<1>10. ASSUME NEW p \in Goroutines, MarkSent(p)
       PROVE  Delivery!Next \/ UNCHANGED <<alarms, posts, arrived, Fates>>
  BY <1>10, MarkingMarks
<1>11. QED
  BY <1>1, <1>2, <1>3, <1>4, <1>5, <1>6, <1>7, <1>8, <1>9, <1>10, StepCases

\* The notifier keeps its promise, in every run: what goroutines, errors and
\* crashes make of an alarm is one of the lives AlarmDelivery allows it.
THEOREM DeliveryRefined == Spec => DeliverySpec
<1> DEFINE IInv == /\ TypeOK /\ SingleCustody /\ CountsAreLive /\ Tallied /\ PostBound
                   /\ Marks /\ HeldNotLost /\ AtMostOneOpen /\ InsertIsFirst
<1>1. Init => IInv /\ Delivery!Init
  <2> SUFFICES ASSUME Init PROVE IInv /\ Delivery!Init
    OBVIOUS
  <2>1. AtMostOneOpen /\ InsertIsFirst /\ HeldNotLost
    BY DEF Init, AtMostOneOpen, InsertIsFirst, HeldNotLost
  <2>2. Fates = <<>>
    <3>1. Ids = {}
      BY DEF Init, Ids
    <3>2. QED BY <3>1 DEF Fates
  <2>3. QED BY <2>1, <2>2, TypeInit, CustodyInit, TallyInit, MarksInit DEF Init, Delivery!Init
<1>2. IInv /\ [Next]_vars => IInv'
  BY TypeStep, CustodyStep, CountsStep, TallyStep, MarksStep, HeldNotLostStep, OpenStep
<1>3. IInv /\ [Next]_vars => [Delivery!Next]_<<alarms, posts, arrived, Fates>>
  BY DeliveryStep
<1> HIDE DEF IInv
<1>4. QED BY <1>1, <1>2, <1>3, PTL DEF Spec, DeliverySpec, Delivery!Spec, Delivery!delivery
=============================================================================
