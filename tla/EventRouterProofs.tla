-------------------------- MODULE EventRouterProofs --------------------------
(***************************************************************************)
(* Proofs about EventRouter for every capacity of its channels and every   *)
(* number of items: its types, that telemetry is stored before it is       *)
(* shown, that the optimizer is woken only by records that are over the    *)
(* threshold and were given to the dashboard, that the metrics match the   *)
(* feed, and that EventRouter implements EventFeed.                        *)
(***************************************************************************)
EXTENDS EventRouter, CommonLemmas

(***************************************************************************)
(* Types                                                                   *)
(***************************************************************************)

\* The capacities are positive, and the limits are numbers.
LEMMA Caps == /\ OutCap \in Nat \ {0} /\ InCap \in Nat \ {0}
              /\ TriggerCap \in Nat \ {0} /\ BroadcastCap \in Nat \ {0}
              /\ Limit \in [Sources -> Nat]
BY RouterAssumption

\* A send that does not wait keeps a channel a channel.
LEMMA TrySendType ==
    ASSUME NEW S, NEW ch \in Seq(S), NEW cap \in Nat, Len(ch) <= cap, NEW x \in S
    PROVE  /\ TrySend(ch, cap, x) \in Seq(S) /\ Len(TrySend(ch, cap, x)) <= cap
           /\ Range(TrySend(ch, cap, x)) \subseteq Range(ch) \cup {x}
<1>1. CASE Len(ch) < cap
  BY <1>1, RangeAppend DEF TrySend
<1>2. CASE ~(Len(ch) < cap)
  BY <1>2 DEF TrySend
<1>3. QED BY <1>1, <1>2

\* Taking the head keeps a channel a channel.
LEMMA TakeType ==
    ASSUME NEW S, NEW ch \in Seq(S), NEW cap \in Nat, Len(ch) <= cap, ch # <<>>
    PROVE  Tail(ch) \in Seq(S) /\ Len(Tail(ch)) <= cap /\ Head(ch) \in S
OBVIOUS

\* The types hold initially.
LEMMA TypeInit == Init => TypeOK
<1> SUFFICES ASSUME Init PROVE TypeOK
  OBVIOUS
<1>1. <<>> \in Seq(Nat) /\ <<>> \in Seq(Sources \X Nat) /\ Len(<<>>) = 0
  OBVIOUS
<1>2. QED BY <1>1, Caps DEF Init, TypeOK, Sources

\* An offer keeps the types of its two variables.
LEMMA OfferType ==
    ASSUME TypeOK, NEW s \in Sources, Offer(s)
    PROVE  /\ made' \in [Sources -> Nat] /\ made'[s] \in Nat
           /\ out' \in [Sources -> Seq(Nat)] /\ \A r \in Sources : Len(out'[r]) <= OutCap
<1>1. made[s] + 1 \in Nat /\ out[s] \in Seq(Nat) /\ Len(out[s]) <= OutCap
  BY DEF TypeOK
<1>2. /\ TrySend(out[s], OutCap, made[s] + 1) \in Seq(Nat)
      /\ Len(TrySend(out[s], OutCap, made[s] + 1)) <= OutCap
  BY <1>1, TrySendType, Caps
<1>3. /\ made' = [made EXCEPT ![s] = made[s] + 1]
      /\ out' = [out EXCEPT ![s] = TrySend(out[s], OutCap, made[s] + 1)]
  BY DEF Offer
<1>4. QED BY <1>1, <1>2, <1>3 DEF TypeOK

\* The producing components and the consumers keep the types.
LEMMA TypeComponents ==
    ASSUME TypeOK, \/ \E s \in Sources : Produce(s)
                   \/ ProducePUE \/ OptimizerTick \/ OptimizerTriggered \/ OptimizerDone
                   \/ NotifierDrains
    PROVE  TypeOK'
<1> USE DEF TypeOK, producers, router, inputs, kept, given
<1>1. ASSUME NEW s \in Sources, Produce(s) PROVE TypeOK'
  BY <1>1, OfferType DEF Produce
<1>2. CASE ProducePUE
  <2>1. "pue_update" \in Sources
    BY DEF Sources
  <2>2. QED BY <1>2, <2>1, OfferType DEF ProducePUE
<1>3. CASE OptimizerTick
  BY <1>3 DEF OptimizerTick
<1>4. CASE OptimizerTriggered
  BY <1>4, TakeType, Caps DEF OptimizerTriggered
<1>5. CASE OptimizerDone
  <2>1. "optimization" \in Sources
    BY DEF Sources
  <2>2. QED BY <1>5, <2>1, OfferType DEF OptimizerDone
<1>6. CASE NotifierDrains
  BY <1>6, TakeType, Caps DEF NotifierDrains
<1>7. QED BY <1>1, <1>2, <1>3, <1>4, <1>5, <1>6

\* The router and the hub keep the types.
LEMMA TypeRouter ==
    ASSUME TypeOK, \/ \E s \in Sources : RouterTakes(s)
                   \/ RouterStep \/ HubTakes
    PROVE  TypeOK'
<1> USE DEF TypeOK, producers, router, inputs, kept, given
<1>1. ASSUME NEW s \in Sources, RouterTakes(s) PROVE TypeOK'
  <2>1. out[s] \in Seq(Nat) /\ Len(out[s]) <= OutCap /\ out[s] # <<>>
    BY <1>1 DEF RouterTakes
  <2>2. Tail(out[s]) \in Seq(Nat) /\ Len(Tail(out[s])) <= OutCap /\ Head(out[s]) \in Nat
    BY <2>1, TakeType, Caps
  <2>3. GaugeFor(s) \in Nat /\ FirstStep(s) \in {"store", "send"}
    BY <2>2 DEF GaugeFor, FirstStep
  <2>4. out' = [out EXCEPT ![s] = Tail(out[s])]
    BY <1>1 DEF RouterTakes
  <2>5. out' \in [Sources -> Seq(Nat)] /\ \A r \in Sources : Len(out'[r]) <= OutCap
    BY <2>2, <2>4
  <2>6. alarmsTotal' \in Nat /\ pueGauge' \in Nat /\ item' \in Nat /\ src' \in Sources
        /\ at' \in {"idle", "store", "send", "forward", "trigger"}
    BY <1>1, <2>2, <2>3 DEF RouterTakes
  <2>7. UNCHANGED <<made, high, optimizer, broadcast, telemetryIn, pueIn, triggerCh, stored, unstored, given>>
    BY <1>1 DEF RouterTakes
  <2>8. QED BY <2>5, <2>6, <2>7
<1>2. CASE Store
  <2>1. Append(stored, item) \in Seq(Nat) /\ unstored \cup {item} \subseteq Nat
    OBVIOUS
  <2>2. stored' \in Seq(Nat) /\ unstored' \subseteq Nat /\ at' = "send"
    BY <1>2, <2>1 DEF Store, AfterError
  <2>3. UNCHANGED <<made, high, out, optimizer, src, item, broadcast, telemetryIn, pueIn, triggerCh, pueGauge, alarmsTotal, given>>
    BY <1>2 DEF Store
  <2>4. QED BY <2>2, <2>3
<1>3. CASE Send
  <2>1. <<src, item>> \in Sources \X Nat
    OBVIOUS
  <2>2. broadcast' \in Seq(Sources \X Nat) /\ Len(broadcast') <= BroadcastCap
    BY <1>3, <2>1, Caps DEF Send
  <2>3. \A q \in Seq(Nat) : [sent EXCEPT ![src] = q] \in [Sources -> Seq(Nat)]
    OBVIOUS
  <2>4. Append(sent[src], item) \in Seq(Nat)
    OBVIOUS
  <2>5. sent' \in [Sources -> Seq(Nat)] /\ at' \in {"idle", "store", "send", "forward", "trigger"}
    BY <1>3, <2>3, <2>4 DEF Send
  <2>6. UNCHANGED <<made, high, out, optimizer, src, item, telemetryIn, pueIn, triggerCh,
                    stored, unstored, pueGauge, alarmsTotal, shown>>
    BY <1>3 DEF Send
  <2> HIDE DEF producers, router, inputs, kept, given
  <2>7. QED BY <2>2, <2>5, <2>6
<1>4. CASE ForwardTelemetry
  BY <1>4, TrySendType, Caps DEF ForwardTelemetry
<1>5. CASE ForwardPUE
  BY <1>5, TrySendType, Caps DEF ForwardPUE
<1>6. CASE Trigger
  BY <1>6, TrySendType, Caps DEF Trigger
<1>7. CASE HubTakes
  <2>1. /\ Tail(broadcast) \in Seq(Sources \X Nat) /\ Len(Tail(broadcast)) <= BroadcastCap
        /\ Head(broadcast) \in Sources \X Nat
    BY <1>7, TakeType, Caps DEF HubTakes
  <2>2. Head(broadcast)[1] \in Sources /\ Head(broadcast)[2] \in Nat
    BY <2>1
  <2>3. \A s \in Sources, n \in Nat : [shown EXCEPT ![s] = Append(shown[s], n)] \in [Sources -> Seq(Nat)]
    OBVIOUS
  <2>4. shown' \in [Sources -> Seq(Nat)]
    BY <1>7, <2>2, <2>3 DEF HubTakes
  <2>5. QED BY <1>7, <2>1, <2>4 DEF HubTakes
<1>8. QED BY <1>1, <1>2, <1>3, <1>4, <1>5, <1>6, <1>7 DEF RouterStep

\* Every step keeps the types.
LEMMA TypeStep == ASSUME TypeOK, [Next]_vars PROVE TypeOK'
<1>1. CASE UNCHANGED vars
  BY <1>1 DEF vars, producers, router, inputs, kept, given, TypeOK
<1>2. CASE Next
  BY <1>2, TypeComponents, TypeRouter DEF Next
<1>3. QED BY <1>1, <1>2

\* Every variable has its type, and no channel is ever over its capacity.
THEOREM TypesHold == Spec => []TypeOK
<1>1. QED BY TypeInit, TypeStep, PTL DEF Spec

(***************************************************************************)
(* What the dashboard has been given                                       *)
(***************************************************************************)

\* Item n of source s was handed to the hub.
Given(s, n) == n \in Range(shown[s]) \/ <<s, n>> \in Range(broadcast)

\* The hub moves items from its channel to the clients, and gives none away.
LEMMA HubKeepsGiven ==
    ASSUME TypeOK, HubTakes, NEW s \in Sources, NEW n \in Nat
    PROVE  Given(s, n)' <=> Given(s, n)
<1> DEFINE h == Head(broadcast)
<1>1. broadcast \in Seq(Sources \X Nat) /\ broadcast # <<>> /\ shown \in [Sources -> Seq(Nat)]
  BY DEF TypeOK, HubTakes
<1>2. h \in Sources \X Nat /\ Range(broadcast) = Range(Tail(broadcast)) \cup {h}
  BY <1>1, RangeTail
<1>3. h[1] \in Sources /\ h[2] \in Nat /\ (h = <<s, n>> <=> h[1] = s /\ h[2] = n)
  BY <1>2
<1>4. broadcast' = Tail(broadcast) /\ shown' = [shown EXCEPT ![h[1]] = Append(shown[h[1]], h[2])]
  BY DEF HubTakes
<1> HIDE DEF h
<1>5. Range(Append(shown[h[1]], h[2])) = Range(shown[h[1]]) \cup {h[2]}
  <2>1. shown[h[1]] \in Seq(Nat)
    BY <1>1, <1>3
  <2>2. QED BY <1>3, <2>1, RangeAppend
<1>6. shown'[s] = IF s = h[1] THEN Append(shown[h[1]], h[2]) ELSE shown[s]
  BY <1>1, <1>4
<1>7. n \in Range(shown'[s]) <=> n \in Range(shown[s]) \/ (h[1] = s /\ h[2] = n)
  BY <1>5, <1>6
<1>8. <<s, n>> \in Range(broadcast) <=> <<s, n>> \in Range(broadcast') \/ h = <<s, n>>
  BY <1>2, <1>4
<1>9. QED BY <1>3, <1>7, <1>8 DEF Given

\* The router gives the hub the item in its hand.
LEMMA SendGives ==
    ASSUME TypeOK, Send, NEW s \in Sources, NEW n \in Nat
    PROVE  Given(s, n)' <=> Given(s, n) \/ (s = src /\ n = item)
<1>1. <<src, item>> \in Sources \X Nat /\ broadcast \in Seq(Sources \X Nat)
  BY DEF TypeOK
<1>2. broadcast' = Append(broadcast, <<src, item>>) /\ shown' = shown
  BY DEF Send, kept
<1>3. Range(broadcast') = Range(broadcast) \cup {<<src, item>>}
  BY <1>1, <1>2, RangeAppend
<1>4. QED BY <1>2, <1>3 DEF Given

\* No other step gives the hub anything.
LEMMA OthersGiveNothing ==
    ASSUME [Next]_vars, ~HubTakes, ~Send, NEW s, NEW n
    PROVE  Given(s, n)' <=> Given(s, n)
<1>1. UNCHANGED <<broadcast, shown>>
  <2>1. CASE UNCHANGED vars
    BY <2>1 DEF vars, given
  <2>2. CASE \E r \in Sources : Produce(r) \/ RouterTakes(r)
    BY <2>2 DEF Produce, RouterTakes, given
  <2>3. CASE ProducePUE \/ OptimizerTick \/ OptimizerTriggered \/ OptimizerDone \/ NotifierDrains
    BY <2>3 DEF ProducePUE, OptimizerTick, OptimizerTriggered, OptimizerDone, NotifierDrains, given
  <2>4. CASE RouterStep
    BY <2>4 DEF RouterStep, Store, ForwardTelemetry, ForwardPUE, Trigger, given
  <2>5. QED BY <2>1, <2>2, <2>3, <2>4 DEF Next
<1>2. QED BY <1>1 DEF Given

(***************************************************************************)
(* Stored before shown                                                     *)
(***************************************************************************)

\* The batches that have been through the database.
Tried == Range(stored) \cup unstored

\* What was given was tried before, and so was what is about to be.
StoredInv == /\ \A n \in Nat : Given("telemetry", n) => n \in Tried
             /\ at = "send" /\ src = "telemetry" => item \in Tried

\* Nothing is given initially.
LEMMA StoredInit == Init => StoredInv
BY EmptyQueue DEF Init, StoredInv, Given, Sources

\* InsertTelemetry adds the item in hand to what was tried, and only it does.
LEMMA StoreTries ==
    ASSUME TypeOK, [Next]_vars
    PROVE  Tried \subseteq Tried' /\ (Store => item \in Tried')
<1>1. CASE Store
  <2>1. stored \in Seq(Nat) /\ item \in Nat
    BY DEF TypeOK
  <2>2. Range(Append(stored, item)) = Range(stored) \cup {item}
    BY <2>1, RangeAppend
  <2>3. CASE stored' = Append(stored, item) /\ unstored' = unstored
    BY <2>2, <2>3 DEF Tried
  <2>4. CASE unstored' = unstored \cup {item} /\ stored' = stored
    BY <2>4 DEF Tried
  <2>5. QED BY <1>1, <2>3, <2>4 DEF Store
<1>2. CASE ~Store
  <2>1. UNCHANGED <<stored, unstored>>
    <3>1. CASE UNCHANGED vars
      BY <3>1 DEF vars, kept
    <3>2. CASE \E r \in Sources : Produce(r) \/ RouterTakes(r)
      BY <3>2 DEF Produce, RouterTakes, kept
    <3>3. CASE ProducePUE \/ OptimizerTick \/ OptimizerTriggered \/ OptimizerDone \/ NotifierDrains
      BY <3>3 DEF ProducePUE, OptimizerTick, OptimizerTriggered, OptimizerDone, NotifierDrains, kept
    <3>4. CASE RouterStep \/ HubTakes
      BY <1>2, <3>4 DEF RouterStep, HubTakes, Send, ForwardTelemetry, ForwardPUE, Trigger, kept
    <3>5. QED BY <3>1, <3>2, <3>3, <3>4 DEF Next
  <2>2. QED BY <1>2, <2>1 DEF Tried
<1>3. QED BY <1>1, <1>2

\* Telemetry comes to the router's send through Store only.
LEMMA SendAfterStore ==
    ASSUME TypeOK, [Next]_vars, at' = "send", src' = "telemetry"
    PROVE  Store \/ (at = "send" /\ src = "telemetry" /\ item' = item)
<1>1. CASE UNCHANGED router
  BY <1>1 DEF router
<1>2. ASSUME NEW s \in Sources, RouterTakes(s) PROVE FALSE
  BY <1>2 DEF RouterTakes, FirstStep
<1>3. CASE RouterStep
  BY <1>3 DEF RouterStep, Send, ForwardTelemetry, ForwardPUE, Trigger
<1>4. CASE ~(\E s \in Sources : RouterTakes(s)) /\ ~RouterStep
  <2>1. UNCHANGED router
    BY <1>4 DEF Next, vars, Produce, ProducePUE, OptimizerTick, OptimizerTriggered, OptimizerDone, NotifierDrains, HubTakes
  <2>2. QED BY <1>1, <2>1
<1>5. QED BY <1>2, <1>3, <1>4

\* Every step keeps it.
LEMMA StoredStep == ASSUME TypeOK, StoredInv, [Next]_vars PROVE StoredInv'
<1>1. "telemetry" \in Sources
  BY DEF Sources
<1>2. ASSUME NEW n \in Nat, Given("telemetry", n)' PROVE n \in Tried'
  <2>1. CASE Send
    <3>1. CASE Given("telemetry", n)
      BY <3>1, StoreTries DEF StoredInv
    <3>2. CASE src = "telemetry" /\ n = item
      BY <2>1, <3>2, StoreTries DEF StoredInv, Send
    <3>3. QED BY <1>1, <1>2, <2>1, <3>1, <3>2, SendGives
  <2>2. CASE ~Send
    BY <1>1, <1>2, <2>2, HubKeepsGiven, OthersGiveNothing, StoreTries DEF StoredInv
  <2>3. QED BY <2>1, <2>2
<1>3. ASSUME at' = "send", src' = "telemetry" PROVE item' \in Tried'
  <2>1. CASE Store
    BY <2>1, StoreTries DEF Store
  <2>2. CASE ~Store
    BY <1>3, <2>2, SendAfterStore, StoreTries DEF StoredInv
  <2>3. QED BY <2>1, <2>2
<1>4. QED BY <1>2, <1>3 DEF StoredInv

\* Shown telemetry has been through the database, in every run.
THEOREM StoredBeforeShownCorrect == Spec => []StoredBeforeShown
<1> DEFINE IInv == TypeOK /\ StoredInv
<1>1. Init => IInv
  BY TypeInit, StoredInit
<1>2. IInv /\ [Next]_vars => IInv'
  BY TypeStep, StoredStep
<1>3. IInv => StoredBeforeShown
  <2> SUFFICES ASSUME IInv, NEW i \in DOMAIN shown["telemetry"]
               PROVE  shown["telemetry"][i] \in Tried
    BY DEF StoredBeforeShown, Tried
  <2>1. shown["telemetry"] \in Seq(Nat)
    BY DEF TypeOK, Sources
  <2>2. shown["telemetry"][i] \in Nat /\ shown["telemetry"][i] \in Range(shown["telemetry"])
    BY <2>1 DEF Range
  <2>3. QED BY <2>2 DEF StoredInv, Given
<1> HIDE DEF IInv
<1>4. QED BY <1>1, <1>2, <1>3, PTL DEF Spec

(***************************************************************************)
(* Triggers                                                                *)
(***************************************************************************)

\* What wakes the optimizer is over the threshold and was given, and so is what
\* the router is about to put there.
TriggerInv == /\ \A n \in Range(triggerCh) : n \in high /\ Given("pue_update", n)
              /\ at \in {"forward", "trigger"} /\ src = "pue_update" => Given("pue_update", item)
              /\ at = "trigger" => src = "pue_update" /\ item \in high

\* The channel is empty initially.
LEMMA TriggerInit == Init => TriggerInv
BY EmptyQueue DEF Init, TriggerInv

\* What was given stays given, and a high record stays high.
LEMMA GivenForGood ==
    ASSUME TypeOK, [Next]_vars
    PROVE  /\ \A s \in Sources, n \in Nat : Given(s, n) => Given(s, n)'
           /\ high \subseteq high'
<1>1. \A s \in Sources, n \in Nat : Given(s, n) => Given(s, n)'
  BY HubKeepsGiven, SendGives, OthersGiveNothing
<1>2. high \subseteq high'
  <2>1. CASE ProducePUE
    BY <2>1 DEF ProducePUE
  <2>2. CASE RouterStep
    BY <2>2 DEF RouterStep, Store, Send, ForwardTelemetry, ForwardPUE, Trigger, producers
  <2>3. CASE ~ProducePUE /\ ~RouterStep
    BY <2>3 DEF Next, vars, producers, Produce, RouterTakes, OptimizerTick, OptimizerTriggered, OptimizerDone, NotifierDrains, HubTakes
  <2>4. QED BY <2>1, <2>2, <2>3
<1>3. QED BY <1>1, <1>2

\* The channel gains the item in hand in Trigger only.
LEMMA TriggerGains ==
    ASSUME TypeOK, [Next]_vars
    PROVE  Range(triggerCh') \subseteq Range(triggerCh) \cup (IF at = "trigger" THEN {item} ELSE {})
<1>0. triggerCh \in Seq(Nat) /\ Len(triggerCh) <= TriggerCap /\ item \in Nat /\ TriggerCap \in Nat
  BY Caps DEF TypeOK
<1>1. CASE Trigger
  BY <1>0, <1>1, TrySendType DEF Trigger
<1>2. CASE OptimizerTriggered
  BY <1>0, <1>2, RangeTail DEF OptimizerTriggered
<1>3. CASE RouterStep /\ ~Trigger
  BY <1>3 DEF RouterStep, Store, Send, ForwardTelemetry, ForwardPUE, inputs
<1>4. CASE ~RouterStep /\ ~OptimizerTriggered
  BY <1>4 DEF Next, vars, inputs, Produce, ProducePUE, RouterTakes, OptimizerTick, OptimizerDone, NotifierDrains, HubTakes
<1>5. QED BY <1>1, <1>2, <1>3, <1>4

\* Every step keeps it.
LEMMA TriggerStep == ASSUME TypeOK, TriggerInv, [Next]_vars PROVE TriggerInv'
<1>1. "pue_update" \in Sources /\ item \in Nat /\ Range(triggerCh) \subseteq Nat
  BY RangeInSet DEF TypeOK, Sources
<1>2. ASSUME NEW n \in Range(triggerCh') PROVE n \in high' /\ Given("pue_update", n)'
  <2>1. n \in Range(triggerCh) \/ (at = "trigger" /\ n = item)
    BY <1>2, TriggerGains
  <2>2. n \in Nat /\ n \in high /\ Given("pue_update", n)
    BY <1>1, <2>1 DEF TriggerInv
  <2>3. QED BY <1>1, <2>2, GivenForGood
<1>3. /\ at' \in {"forward", "trigger"} /\ src' = "pue_update" => Given("pue_update", item)'
      /\ at' = "trigger" => src' = "pue_update" /\ item' \in high'
  <2>1. CASE Send
    <3>1. item' = item /\ src' = src /\ at' # "trigger"
      BY <2>1 DEF Send
    <3>2. src = "pue_update" => Given("pue_update", item)'
      BY <1>1, <2>1, <3>1, SendGives DEF Given
    <3>3. QED BY <3>1, <3>2
  <2>2. CASE ForwardPUE
    BY <1>1, <2>2, GivenForGood DEF ForwardPUE, OverTrigger, TriggerInv, producers, Given
  <2>3. CASE ForwardTelemetry \/ Trigger \/ Store
    BY <2>3 DEF ForwardTelemetry, Trigger, Store, AfterError
  <2>4. ASSUME NEW s \in Sources, RouterTakes(s) PROVE at' \notin {"forward", "trigger"}
    BY <2>4 DEF RouterTakes, FirstStep
  <2>5. CASE UNCHANGED router
    BY <1>1, <2>5, GivenForGood DEF router, TriggerInv, Given
  <2>6. CASE ~(\E s \in Sources : RouterTakes(s)) /\ ~RouterStep
    <3>1. UNCHANGED router
      BY <2>6 DEF Next, vars, Produce, ProducePUE, OptimizerTick, OptimizerTriggered, OptimizerDone, NotifierDrains, HubTakes
    <3>2. QED BY <2>5, <3>1
  <2>7. QED BY <2>1, <2>2, <2>3, <2>4, <2>6 DEF RouterStep
<1>4. QED BY <1>2, <1>3 DEF TriggerInv

\* The optimizer is woken only by records over the threshold that the dashboard
\* was given, in every run.
THEOREM TriggersJustifiedCorrect == Spec => []TriggersJustified
<1> DEFINE IInv == TypeOK /\ TriggerInv
<1>1. Init => IInv
  BY TypeInit, TriggerInit
<1>2. IInv /\ [Next]_vars => IInv'
  BY TypeStep, TriggerStep
<1>3. IInv => TriggersJustified
  BY DEF TriggerInv, TriggersJustified, Given, Range
<1> HIDE DEF IInv
<1>4. QED BY <1>1, <1>2, <1>3, PTL DEF Spec

(***************************************************************************)
(* What the router takes, and the metrics                                  *)
(***************************************************************************)

\* What the router has and what was accepted are sequences of items.
LEMMA TakenType ==
    ASSUME TypeOK, NEW s \in Sources
    PROVE  InRouter(s) \in Seq(Nat) /\ Taken(s) \in Seq(Nat) /\ Accepted(s) \in Seq(Nat)
<1>1. InRouter(s) \in Seq(Nat)
  BY DEF InRouter, TypeOK
<1>2. sent[s] \in Seq(Nat) /\ out[s] \in Seq(Nat)
  BY DEF TypeOK
<1>3. Taken(s) \in Seq(Nat)
  BY <1>1, <1>2, ConcatProperties DEF Taken
<1>4. Accepted(s) \in Seq(Nat)
  BY <1>2, <1>3, ConcatProperties DEF Accepted
<1>5. QED BY <1>1, <1>3, <1>4

\* The router's share of a source grows when it takes an item, and its way
\* through the router changes nothing.
LEMMA TakenStep ==
    ASSUME TypeOK, [Next]_vars, NEW s \in Sources
    PROVE  /\ RouterTakes(s) => Taken(s)' = Append(Taken(s), Head(out[s]))
           /\ ~RouterTakes(s) => Taken(s)' = Taken(s)
<1>0. sent \in [Sources -> Seq(Nat)] /\ sent[s] \in Seq(Nat) /\ item \in Nat
  BY DEF TypeOK
<1>1. ASSUME NEW r \in Sources, RouterTakes(r)
      PROVE  /\ r = s => Taken(s)' = Append(Taken(s), Head(out[s]))
             /\ r # s => Taken(s)' = Taken(s)
  <2>1. /\ at = "idle" /\ at' \in {"store", "send"} /\ src' = r /\ item' = Head(out[r])
        /\ sent' = sent /\ out[r] # <<>>
    BY <1>1 DEF RouterTakes, FirstStep, given
  <2>2. Taken(s) = sent[s]
    BY <1>0, <2>1, ConcatEmptySeq DEF Taken, InRouter
  <2>3. CASE r = s
    <3>1. Taken(s)' = sent[s] \o <<Head(out[s])>>
      BY <2>1, <2>3 DEF Taken, InRouter
    <3>2. Head(out[s]) \in Nat
      BY <2>1, <2>3, SMTT(30) DEF TypeOK
    <3>3. QED BY <1>0, <2>2, <2>3, <3>1, <3>2, AppendIsConcat
  <2>4. CASE r # s
    <3>1. Taken(s)' = sent[s] \o <<>>
      BY <2>1, <2>4 DEF Taken, InRouter
    <3>2. QED BY <1>0, <2>2, <2>4, <3>1, ConcatEmptySeq
  <2>5. QED BY <2>3, <2>4
<1>2. ASSUME NEW r \in Sources, RouterTakes(r), RouterTakes(s) PROVE r = s
  <2>1. src' = r /\ src' = s
    BY <1>2 DEF RouterTakes
  <2>2. QED BY <2>1
<1>3. CASE Send
  <2>1. /\ at = "send" /\ at' \in {"forward", "idle"}
        /\ sent' = [sent EXCEPT ![src] = Append(sent[src], item)]
    BY <1>3 DEF Send
  <2>2. Taken(s)' = sent'[s]
    <3>1. sent'[s] \in Seq(Nat)
      BY <1>0, <2>1 DEF TypeOK
    <3>2. Taken(s)' = sent'[s] \o <<>>
      BY <2>1 DEF Taken, InRouter
    <3>3. QED BY <3>1, <3>2, ConcatEmptySeq
  <2>3. CASE src = s
    <3>1. Taken(s) = sent[s] \o <<item>> /\ sent'[s] = Append(sent[s], item)
      BY <1>0, <2>1, <2>3 DEF Taken, InRouter
    <3>2. QED BY <1>0, <1>3, <2>2, <3>1, AppendIsConcat DEF RouterTakes, Send
  <2>4. CASE src # s
    <3>1. Taken(s) = sent[s] \o <<>> /\ sent'[s] = sent[s]
      BY <1>0, <2>1, <2>4 DEF Taken, InRouter
    <3>2. QED BY <1>0, <1>3, <2>2, <3>1, ConcatEmptySeq DEF RouterTakes, Send
  <2>5. QED BY <2>3, <2>4
<1>4. CASE (\A r \in Sources : ~RouterTakes(r)) /\ ~Send
  <2>1. sent' = sent
    BY <1>4 DEF Next, RouterStep, vars, given, Produce, ProducePUE, OptimizerTick, OptimizerTriggered,
           OptimizerDone, NotifierDrains, HubTakes, Store, ForwardTelemetry, ForwardPUE, Trigger
  <2>2. InRouter(s)' = InRouter(s)
    <3>1. CASE UNCHANGED router
      BY <3>1 DEF router, InRouter
    <3>2. CASE RouterStep
      BY <1>4, <3>2 DEF RouterStep, Store, AfterError, ForwardTelemetry, ForwardPUE, Trigger, InRouter
    <3>3. CASE ~RouterStep
      <4>1. UNCHANGED router
        BY <1>4, <3>3 DEF Next, vars, Produce, ProducePUE, OptimizerTick, OptimizerTriggered,
               OptimizerDone, NotifierDrains, HubTakes
      <4>2. QED BY <3>1, <4>1
    <3>4. QED BY <3>2, <3>3
  <2>3. QED BY <1>4, <2>1, <2>2 DEF Taken
<1>5. QED BY <1>1, <1>2, <1>3, <1>4

\* Gauge and counter change when the router takes an item only.
LEMMA MetricsStep == ASSUME TypeOK, MetricsMatchFeed, [Next]_vars PROVE MetricsMatchFeed'
<1>0. "alarm" \in Sources /\ "pue_update" \in Sources
  BY DEF Sources
<1>1. ASSUME NEW r \in Sources, RouterTakes(r) PROVE MetricsMatchFeed'
  <2>1. /\ pueGauge' = IF r = "pue_update" THEN Head(out[r]) ELSE pueGauge
        /\ alarmsTotal' = IF r = "alarm" THEN alarmsTotal + 1 ELSE alarmsTotal
        /\ Head(out[r]) \in Nat
        /\ \A s \in Sources : s # r => ~RouterTakes(s)
    <3>1. Head(out[r]) \in Nat
      BY <1>1, SMTT(30) DEF RouterTakes, TypeOK
    <3>2. \A s \in Sources : RouterTakes(s) => s = r
      BY <1>1 DEF RouterTakes
    <3>3. QED BY <1>1, <3>1, <3>2 DEF RouterTakes, GaugeFor
  <2>2. alarmsTotal' = Len(Taken("alarm")')
    <3>1. Taken("alarm") \in Seq(Nat) /\ alarmsTotal = Len(Taken("alarm"))
      BY <1>0, TakenType DEF MetricsMatchFeed
    <3>2. CASE r = "alarm"
      <4>1. Taken("alarm")' = Append(Taken("alarm"), Head(out["alarm"]))
        BY <1>0, <1>1, <3>2, TakenStep
      <4>2. QED BY <2>1, <3>1, <3>2, <4>1, AppendProperties
    <3>3. CASE r # "alarm"
      BY <1>0, <2>1, <3>1, <3>3, TakenStep
    <3>4. QED BY <3>2, <3>3
  <2>3. Taken("pue_update")' # <<>> =>
            pueGauge' = Taken("pue_update")'[Len(Taken("pue_update")')]
    <3>1. Taken("pue_update") \in Seq(Nat)
      BY <1>0, TakenType
    <3>2. CASE r = "pue_update"
      <4>1. Taken("pue_update")' = Append(Taken("pue_update"), Head(out["pue_update"]))
        BY <1>0, <1>1, <3>2, TakenStep
      <4>2. QED BY <2>1, <3>1, <3>2, <4>1, AppendProperties
    <3>3. CASE r # "pue_update"
      BY <1>0, <2>1, <3>3, TakenStep DEF MetricsMatchFeed
    <3>4. QED BY <3>2, <3>3
  <2>4. QED BY <2>2, <2>3 DEF MetricsMatchFeed
<1>2. CASE \A r \in Sources : ~RouterTakes(r)
  <2>1. UNCHANGED <<pueGauge, alarmsTotal>>
    BY <1>2 DEF Next, RouterStep, vars, kept, Produce, ProducePUE, OptimizerTick, OptimizerTriggered,
           OptimizerDone, NotifierDrains, HubTakes, Store, Send, ForwardTelemetry, ForwardPUE, Trigger
  <2>2. Taken("alarm")' = Taken("alarm") /\ Taken("pue_update")' = Taken("pue_update")
    BY <1>0, <1>2, TakenStep
  <2>3. QED BY <2>1, <2>2 DEF MetricsMatchFeed
<1>3. QED BY <1>1, <1>2

\* Gauge and counter match what the dashboard is given, in every run.
THEOREM MetricsMatchFeedCorrect == Spec => []MetricsMatchFeed
<1> DEFINE IInv == TypeOK /\ MetricsMatchFeed
<1>1. Init => IInv
  <2> SUFFICES ASSUME Init PROVE MetricsMatchFeed
    BY TypeInit
  <2>1. Taken("alarm") = <<>> \o <<>> /\ Taken("pue_update") = <<>> \o <<>>
    BY DEF Init, Taken, InRouter, Sources
  <2>2. <<>> \o <<>> = <<>> /\ Len(<<>>) = 0
    OBVIOUS
  <2>3. QED BY <2>1, <2>2 DEF Init, MetricsMatchFeed
<1>2. IInv /\ [Next]_vars => IInv'
  BY TypeStep, MetricsStep
<1>3. IInv => MetricsMatchFeed
  OBVIOUS
<1> HIDE DEF IInv
<1>4. QED BY <1>1, <1>2, <1>3, PTL DEF Spec

(***************************************************************************)
(* The refinement of EventFeed                                             *)
(***************************************************************************)

\* Taking the head of the second sequence to the end of the first one.
LEMMA MoveHead ==
    ASSUME NEW S, NEW t \in Seq(S), NEW q \in Seq(S), q # <<>>
    PROVE  Append(t, Head(q)) \o Tail(q) = t \o q
<1> DEFINE h == Head(q)
<1>1. h \in S /\ Tail(q) \in Seq(S) /\ <<h>> \in Seq(S)
  OBVIOUS
<1>2. <<h>> \o Tail(q) = q
  OBVIOUS
<1>3. Append(t, h) = t \o <<h>>
  BY <1>1, AppendIsConcat
<1> HIDE DEF h
<1>4. (t \o <<h>>) \o Tail(q) = t \o (<<h>> \o Tail(q))
  BY <1>1, ConcatAssociative
<1>5. QED BY <1>2, <1>3, <1>4 DEF h

\* Appending to the second sequence appends to both.
LEMMA AppendSecond ==
    ASSUME NEW S, NEW t \in Seq(S), NEW q \in Seq(S), NEW x \in S
    PROVE  t \o Append(q, x) = Append(t \o q, x)
<1>1. <<x>> \in Seq(S) /\ t \o q \in Seq(S)
  BY ConcatProperties
<1>2. Append(q, x) = q \o <<x>> /\ Append(t \o q, x) = (t \o q) \o <<x>>
  BY <1>1, AppendIsConcat
<1>3. QED BY <1>1, <1>2, ConcatAssociative

\* What is left of a sequence without its first m elements.
LEMMA DropType ==
    ASSUME NEW S, NEW q \in Seq(S), NEW m \in 0..Len(q)
    PROVE  /\ SubSeq(q, m + 1, Len(q)) \in Seq(S)
           /\ Len(SubSeq(q, m + 1, Len(q))) = Len(q) - m
           /\ \A i \in 1..(Len(q) - m) : SubSeq(q, m + 1, Len(q))[i] = q[m + i]
<1>1. Len(q) \in Nat /\ m \in Int /\ m + 1 \in Int /\ \A i \in (m + 1)..Len(q) : q[i] \in S
  OBVIOUS
<1>2. /\ SubSeq(q, m + 1, Len(q)) \in Seq(S)
      /\ Len(SubSeq(q, m + 1, Len(q))) = IF m + 1 <= Len(q) THEN Len(q) - (m + 1) + 1 ELSE 0
      /\ \A i \in 1..(Len(q) - (m + 1) + 1) : SubSeq(q, m + 1, Len(q))[i] = q[(m + 1) + i - 1]
  BY <1>1, SubSeqProperties
<1>3. Len(q) - (m + 1) + 1 = Len(q) - m
  BY <1>1
<1>4. \A i \in 1..(Len(q) - m) : i \in 1..(Len(q) - (m + 1) + 1) /\ (m + 1) + i - 1 = m + i
  BY <1>1
<1> DEFINE u == SubSeq(q, m + 1, Len(q))
<1> HIDE DEF u
<1>5. \A i \in 1..(Len(q) - m) : u[i] = q[m + i]
  BY <1>2, <1>4 DEF u
<1>6. Len(u) = Len(q) - m
  <2>1. Len(u) = IF m + 1 <= Len(q) THEN Len(q) - (m + 1) + 1 ELSE 0
    BY <1>2 DEF u
  <2>2. m + 1 <= Len(q) \/ m = Len(q)
    BY <1>1
  <2>3. QED BY <1>1, <2>1, <2>2
<1>7. QED BY <1>2, <1>5, <1>6 DEF u

\* Appending to a sequence appends to what is left of it.
LEMMA DropAppend ==
    ASSUME NEW S, NEW q \in Seq(S), NEW m \in 0..Len(q), NEW x \in S
    PROVE  SubSeq(Append(q, x), m + 1, Len(Append(q, x))) = Append(SubSeq(q, m + 1, Len(q)), x)
<1> DEFINE a == Append(q, x)
           u == SubSeq(q, m + 1, Len(q))
           v == SubSeq(a, m + 1, Len(a))
<1>1. /\ a \in Seq(S) /\ Len(a) = Len(q) + 1 /\ Len(q) \in Nat /\ m \in 0..Len(a)
      /\ \A i \in 1..Len(q) : a[i] = q[i]
      /\ a[Len(q) + 1] = x
  BY AppendProperties
<1>2. u \in Seq(S) /\ Len(u) = Len(q) - m /\ \A i \in 1..(Len(q) - m) : u[i] = q[m + i]
  BY DropType
<1>3. v \in Seq(S) /\ Len(v) = Len(a) - m /\ \A i \in 1..(Len(a) - m) : v[i] = a[m + i]
  BY <1>1, DropType
<1> HIDE DEF a, u, v
<1>4. /\ Append(u, x) \in Seq(S) /\ Len(Append(u, x)) = Len(u) + 1
      /\ \A i \in 1..Len(u) : Append(u, x)[i] = u[i]
      /\ Append(u, x)[Len(u) + 1] = x
  BY <1>2, AppendProperties
<1>5. ASSUME NEW i \in 1..Len(v) PROVE v[i] = Append(u, x)[i]
  <2>1. i \in Int /\ 1 <= i /\ i <= Len(q) + 1 - m /\ m \in Int /\ 0 <= m /\ m <= Len(q)
    BY <1>1, <1>3, <1>5
  <2>2. v[i] = a[m + i]
    BY <1>1, <1>3, <2>1
  <2>3. CASE i = Len(q) + 1 - m
    <3>1. m + i = Len(q) + 1 /\ i = Len(u) + 1
      BY <1>1, <1>2, <2>1, <2>3
    <3>2. QED BY <1>1, <1>4, <2>2, <3>1
  <2>4. CASE i # Len(q) + 1 - m
    <3>1. m + i \in 1..Len(q) /\ i \in 1..(Len(q) - m) /\ i \in 1..Len(u)
      BY <1>1, <1>2, <2>1, <2>4
    <3>2. QED BY <1>1, <1>2, <1>4, <2>2, <3>1
  <2>5. QED BY <2>3, <2>4
<1>6. v = Append(u, x)
  <2>1. Len(v) = Len(Append(u, x))
    BY <1>1, <1>2, <1>3, <1>4
  <2>2. QED BY <1>3, <1>4, <1>5, <2>1, SeqEqual
<1>7. QED BY <1>6 DEF a, u, v

\* Dropping one element more takes the head of what is left.
LEMMA DropMore ==
    ASSUME NEW S, NEW q \in Seq(S), NEW m \in Nat, m < Len(q)
    PROVE  /\ SubSeq(q, m + 1, Len(q)) # <<>>
           /\ Head(SubSeq(q, m + 1, Len(q))) = q[m + 1]
           /\ Tail(SubSeq(q, m + 1, Len(q))) = SubSeq(q, (m + 1) + 1, Len(q))
<1>1. Len(q) \in Nat /\ m + 1 \in 1..Len(q) /\ Len(q) \in (m + 1)..Len(q) /\ m \in 0..Len(q)
  OBVIOUS
<1>2. Len(SubSeq(q, m + 1, Len(q))) = Len(q) - m
  BY <1>1, DropType
<1>3. Len(q) - m # 0 /\ Len(<<>>) = 0
  BY <1>1
<1>4. QED BY <1>1, <1>2, <1>3, HeadTailOfSubSeq

\* A step makes an item, moves one, or does neither; only RouterTakes moves
\* items from an out channel.
LEMMA StepKinds ==
    ASSUME [Next]_vars
    PROVE  \/ \E s \in Sources : Offer(s) /\ UNCHANGED <<router, broadcast, given>>
           \/ HubTakes /\ UNCHANGED <<made, out, sent, router>>
           \/ Send /\ UNCHANGED <<made, out, shown>>
           \/ \E s \in Sources : RouterTakes(s) /\ UNCHANGED <<made, broadcast, given>>
           \/ UNCHANGED <<made, out, broadcast, given>> /\ \A s \in Sources : ~RouterTakes(s)
<1>1. CASE UNCHANGED vars
  BY <1>1 DEF vars, producers, router, RouterTakes, FirstStep
<1>2. ASSUME NEW s \in Sources, Produce(s)
      PROVE  Offer(s) /\ UNCHANGED <<router, broadcast, given>>
  BY <1>2 DEF Produce
<1>3. CASE ProducePUE
  BY <1>3 DEF ProducePUE, Sources
<1>4. CASE OptimizerDone
  <2>1. CASE Offer("optimization")
    BY <1>4, <2>1 DEF OptimizerDone, Sources
  <2>2. CASE UNCHANGED <<made, out>>
    BY <1>4, <2>2 DEF OptimizerDone, router, RouterTakes, FirstStep
  <2>3. QED BY <1>4, <2>1, <2>2 DEF OptimizerDone
<1>5. CASE OptimizerTick \/ OptimizerTriggered \/ NotifierDrains
  BY <1>5 DEF OptimizerTick, OptimizerTriggered, NotifierDrains, producers, router, RouterTakes, FirstStep
<1>6. ASSUME NEW s \in Sources, RouterTakes(s) PROVE UNCHANGED <<made, broadcast, given>>
  BY <1>6 DEF RouterTakes
<1>7. CASE RouterStep /\ ~Send
  BY <1>7 DEF RouterStep, Store, ForwardTelemetry, ForwardPUE, Trigger, producers, RouterTakes
<1>8. CASE Send
  BY <1>8 DEF Send, producers, kept
<1>9. CASE HubTakes
  BY <1>9 DEF HubTakes, producers
<1>10. QED BY <1>1, <1>2, <1>3, <1>4, <1>5, <1>6, <1>7, <1>8, <1>9 DEF Next

\* The way of an item through the router does not change what was accepted.
LEMMA AcceptedMoves ==
    ASSUME TypeOK, [Next]_vars, NEW s \in Sources,
           out' = out \/ \E r \in Sources : RouterTakes(r)
    PROVE  Accepted(s)' = Accepted(s)
<1>1. Taken(s) \in Seq(Nat) /\ out[s] \in Seq(Nat)
  BY TakenType DEF TypeOK
<1>2. CASE RouterTakes(s)
  <2>1. Taken(s)' = Append(Taken(s), Head(out[s])) /\ out'[s] = Tail(out[s]) /\ out[s] # <<>>
    BY <1>2, TakenStep DEF RouterTakes, TypeOK
  <2>2. QED BY <1>1, <2>1, MoveHead DEF Accepted
<1>3. CASE ~RouterTakes(s)
  <2>1. out'[s] = out[s]
    BY <1>3 DEF RouterTakes, TypeOK
  <2>2. QED BY <1>3, <2>1, TakenStep DEF Accepted
<1>4. QED BY <1>2, <1>3

\* An offer is accepted when there is room, and changes nothing otherwise.
LEMMA AcceptedOffer ==
    ASSUME TypeOK, [Next]_vars, NEW r \in Sources, Offer(r), UNCHANGED router,
           NEW s \in Sources
    PROVE  Accepted(s)' = IF s = r /\ Len(out[r]) < OutCap
                          THEN Append(Accepted(r), made[r] + 1) ELSE Accepted(s)
<1>1. Taken(s) \in Seq(Nat) /\ out[s] \in Seq(Nat) /\ made[r] + 1 \in Nat
  <2>1. made[r] \in Nat /\ out[s] \in Seq(Nat)
    BY DEF TypeOK
  <2>2. QED BY <2>1, TakenType
<1>2. Taken(s)' = Taken(s)
  <2>1. ~RouterTakes(s)
    BY DEF router, RouterTakes, FirstStep
  <2>2. QED BY <2>1, TakenStep
<1>3. out' = [out EXCEPT ![r] = TrySend(out[r], OutCap, made[r] + 1)]
  BY DEF Offer
<1>4. CASE s = r /\ Len(out[r]) < OutCap
  <2>1. out'[s] = Append(out[s], made[r] + 1)
    BY <1>3, <1>4 DEF TrySend, TypeOK
  <2>2. QED BY <1>1, <1>2, <1>4, <2>1, AppendSecond, SMTT(30) DEF Accepted
<1>5. CASE ~(s = r /\ Len(out[r]) < OutCap)
  <2>1. out'[s] = out[s]
    BY <1>3, <1>5 DEF TrySend, TypeOK
  <2>2. QED BY <1>2, <1>5, <2>1 DEF Accepted
<1>6. QED BY <1>4, <1>5

\* The numbers of the items rise.
Ascending(q) == \A i, j \in DOMAIN q : i < j => q[i] < q[j]

\* What a source had accepted are items it has made, each later than the one
\* before it.
ItemsInv ==
    \A s \in Sources : /\ made[s] <= Limit[s]
                       /\ \A i \in DOMAIN Accepted(s) : Accepted(s)[i] \in 1..made[s]
                       /\ Ascending(Accepted(s))

\* A later number keeps a sequence ascending.
LEMMA AppendAscends ==
    ASSUME NEW q \in Seq(Nat), NEW n \in Nat, Ascending(q), \A i \in DOMAIN q : q[i] \in 1..n
    PROVE  /\ Ascending(Append(q, n + 1))
           /\ \A i \in DOMAIN Append(q, n + 1) : Append(q, n + 1)[i] \in 1..(n + 1)
<1> DEFINE a == Append(q, n + 1)
<1>1. /\ a \in Seq(Nat) /\ Len(a) = Len(q) + 1 /\ \A i \in 1..Len(q) : a[i] = q[i]
      /\ a[Len(q) + 1] = n + 1 /\ Len(q) \in Nat
  BY AppendProperties
<1>2. DOMAIN a = 1..(Len(q) + 1) /\ DOMAIN q = 1..Len(q)
  BY <1>1
<1> HIDE DEF a
<1>3. \A i \in DOMAIN a : i \in DOMAIN q \/ i = Len(q) + 1
  BY <1>1, <1>2
<1>4. \A i \in DOMAIN a : a[i] \in 1..(n + 1)
  BY <1>1, <1>2, <1>3, SMTT(30)
<1>5. ASSUME NEW i \in DOMAIN a, NEW j \in DOMAIN a, i < j PROVE a[i] < a[j]
  <2>1. i \in DOMAIN q
    BY <1>1, <1>2, <1>5
  <2>2. CASE j \in DOMAIN q
    BY <1>1, <1>2, <1>5, <2>1, <2>2 DEF Ascending
  <2>3. CASE j = Len(q) + 1
    BY <1>1, <1>2, <2>1, <2>3
  <2>4. QED BY <1>3, <2>2, <2>3
<1>6. QED BY <1>4, <1>5 DEF Ascending, a

\* Nothing is accepted initially.
LEMMA AcceptedInit == ASSUME Init, NEW s \in Sources PROVE Accepted(s) = <<>>
<1>1. Accepted(s) = (<<>> \o <<>>) \o <<>>
  BY DEF Init, Accepted, Taken, InRouter
<1>2. QED BY <1>1

\* It holds initially.
LEMMA ItemsInit == Init => ItemsInv
<1> SUFFICES ASSUME Init, NEW s \in Sources
             PROVE  /\ made[s] <= Limit[s]
                    /\ \A i \in DOMAIN Accepted(s) : Accepted(s)[i] \in 1..made[s]
                    /\ Ascending(Accepted(s))
  BY DEF ItemsInv
<1>1. Accepted(s) = <<>> /\ DOMAIN <<>> = {}
  BY AcceptedInit
<1>2. made[s] = 0 /\ Limit[s] \in Nat
  BY Caps DEF Init
<1>3. QED BY <1>1, <1>2 DEF Ascending

\* Every step keeps it.
LEMMA ItemsStep == ASSUME TypeOK, ItemsInv, [Next]_vars PROVE ItemsInv'
<1> SUFFICES ASSUME NEW s \in Sources
             PROVE  /\ made'[s] <= Limit[s]
                    /\ \A i \in DOMAIN Accepted(s)' : Accepted(s)'[i] \in 1..made'[s]
                    /\ Ascending(Accepted(s)')
  BY DEF ItemsInv, Ascending
<1>1. /\ made[s] \in Nat /\ made[s] <= Limit[s] /\ Limit[s] \in Nat
      /\ Accepted(s) \in Seq(Nat) /\ Ascending(Accepted(s))
      /\ \A i \in DOMAIN Accepted(s) : Accepted(s)[i] \in 1..made[s]
  BY TakenType, Caps DEF ItemsInv, TypeOK
<1>2. ASSUME NEW r \in Sources, Offer(r), UNCHANGED <<router, broadcast, given>>
      PROVE  /\ made'[s] <= Limit[s]
             /\ \A i \in DOMAIN Accepted(s)' : Accepted(s)'[i] \in 1..made'[s]
             /\ Ascending(Accepted(s)')
  <2>1. made[r] < Limit[r] /\ made'[s] = IF s = r THEN made[s] + 1 ELSE made[s]
    BY <1>2 DEF Offer, TypeOK
  <2>2. Accepted(s)' = IF s = r /\ Len(out[r]) < OutCap
                       THEN Append(Accepted(r), made[r] + 1) ELSE Accepted(s)
    BY <1>2, AcceptedOffer
  <2>3. CASE s = r /\ Len(out[r]) < OutCap
    BY <1>1, <2>1, <2>2, <2>3, AppendAscends
  <2>4. CASE ~(s = r /\ Len(out[r]) < OutCap)
    <3>1. Accepted(s)' = Accepted(s)
      BY <2>2, <2>4
    <3>2. 1..made[s] \subseteq 1..made'[s] /\ made'[s] <= Limit[s]
      BY <1>1, <2>1
    <3>3. QED BY <1>1, <3>1, <3>2
  <2>5. QED BY <2>3, <2>4
<1>3. CASE made' = made /\ Accepted(s)' = Accepted(s)
  BY <1>1, <1>3
<1>4. QED BY <1>2, <1>3, StepKinds, AcceptedMoves DEF Send, producers

\* What was sent is the beginning of what was accepted, and the item in the
\* router's hand comes next.
LEMMA SentFirst ==
    ASSUME TypeOK, ItemsInv, NEW s \in Sources
    PROVE  /\ sent[s] \in Seq(Nat) /\ Len(sent[s]) \in Nat
           /\ Len(Accepted(s)) = Len(sent[s]) + Len(InRouter(s)) + Len(out[s])
           /\ Len(sent[s]) <= Len(Accepted(s))
           /\ \A i \in 1..Len(sent[s]) : sent[s][i] = Accepted(s)[i] /\ sent[s][i] \in Nat
           /\ Ascending(sent[s])
           /\ at = "send" /\ src = s => \A i \in 1..Len(sent[s]) : sent[s][i] < item
<1> DEFINE q == sent[s]
           h == InRouter(s)
           t == Taken(s)
           a == Accepted(s)
           o == out[s]
<1>1. q \in Seq(Nat) /\ h \in Seq(Nat) /\ o \in Seq(Nat) /\ t = q \o h /\ a = t \o o
  BY TakenType DEF TypeOK, Taken, Accepted
<1>2. Ascending(a)
  BY DEF ItemsInv
<1>3. at = "send" /\ src = s => h = <<item>>
  BY DEF InRouter
<1> HIDE DEF q, h, t, a, o
<1>4. /\ t \in Seq(Nat) /\ Len(t) = Len(q) + Len(h)
      /\ \A i \in 1..Len(q) + Len(h) : t[i] = IF i <= Len(q) THEN q[i] ELSE h[i - Len(q)]
  BY <1>1, ConcatProperties
<1>5. /\ a \in Seq(Nat) /\ Len(a) = Len(t) + Len(o)
      /\ \A i \in 1..Len(t) + Len(o) : a[i] = IF i <= Len(t) THEN t[i] ELSE o[i - Len(t)]
  BY <1>1, <1>4, ConcatProperties
<1>6. Len(q) \in Nat /\ Len(h) \in Nat /\ Len(t) \in Nat /\ Len(o) \in Nat
  BY <1>1, <1>4
<1>7. \A i \in 1..Len(t) : i \in 1..Len(a) /\ a[i] = t[i]
  BY <1>4, <1>5, <1>6, SMTT(30)
<1>8. \A i \in 1..Len(q) : i \in 1..Len(t) /\ t[i] = q[i] /\ q[i] \in Nat
  BY <1>1, <1>4, <1>6
<1>9. \A i \in 1..Len(q) : i \in 1..Len(a) /\ a[i] = q[i] /\ q[i] \in Nat
  BY <1>7, <1>8
<1>10. DOMAIN q = 1..Len(q) /\ DOMAIN a = 1..Len(a)
  BY <1>1, <1>5
<1>11. Ascending(q)
  BY <1>2, <1>9, <1>10 DEF Ascending
<1>12. ASSUME at = "send", src = s, NEW i \in 1..Len(q) PROVE q[i] < item
  <2>1. h[1] = item /\ Len(h) = 1
    BY <1>3, <1>12
  <2>2. Len(q) + 1 \in 1..Len(q) + Len(h) /\ ~(Len(q) + 1 <= Len(q)) /\ (Len(q) + 1) - Len(q) = 1
    BY <1>6, <2>1
  <2>3. t[Len(q) + 1] = item /\ Len(q) + 1 \in 1..Len(t)
    BY <1>4, <2>1, <2>2
  <2>4. a[Len(q) + 1] = item /\ Len(q) + 1 \in DOMAIN a
    BY <1>7, <1>10, <2>3
  <2>5. i \in DOMAIN a /\ a[i] = q[i] /\ i < Len(q) + 1
    BY <1>6, <1>9, <1>10, <1>12
  <2>6. QED BY <1>2, <2>4, <2>5 DEF Ascending
<1>13. Len(a) = Len(q) + Len(h) + Len(o) /\ Len(q) <= Len(a)
  BY <1>4, <1>5, <1>6
<1>14. QED BY <1>1, <1>6, <1>9, <1>11, <1>12, <1>13 DEF q, h, a, o

\* How far the router is ahead of the hub, and the places it is ahead by.
Ahead(s)   == Len(sent[s]) - Len(shown[s])
Pending(s) == Len(shown[s]) + 1 .. Len(sent[s])

\* The hub shows what it was sent, in order.
ShownFirst ==
    \A s \in Sources : /\ Len(shown[s]) <= Len(sent[s])
                       /\ \A i \in 1..Len(shown[s]) : shown[s][i] = sent[s][i]

\* The hub's channel holds what it was sent and has not shown, each item once,
\* and the items of a source in order.
Carried == \A k \in DOMAIN broadcast :
               \E j \in Pending(broadcast[k][1]) : broadcast[k][2] = sent[broadcast[k][1]][j]
Carries == \A s \in Sources : \A j \in Pending(s) :
               \E k \in DOMAIN broadcast : broadcast[k] = <<s, sent[s][j]>>
InTurn  == \A k, l \in DOMAIN broadcast :
               k < l /\ broadcast[k][1] = broadcast[l][1] => broadcast[k][2] < broadcast[l][2]
Counted == Len(broadcast) = Ahead("telemetry") + Ahead("pue_update")
                            + Ahead("optimization") + Ahead("alarm")

ChannelInv == ShownFirst /\ Carried /\ Carries /\ InTurn /\ Counted

\* The channel is empty initially.
LEMMA ChannelInit == Init => ChannelInv
<1> SUFFICES ASSUME Init PROVE ChannelInv
  OBVIOUS
<1>1. /\ broadcast = <<>> /\ \A s \in Sources : sent[s] = <<>> /\ shown[s] = <<>>
      /\ Len(<<>>) = 0 /\ DOMAIN <<>> = {}
  BY DEF Init
<1>2. \A s \in Sources : Pending(s) = {} /\ Ahead(s) = 0
  BY <1>1 DEF Pending, Ahead
<1>3. ShownFirst /\ Carried /\ Carries /\ InTurn
  BY <1>1, <1>2 DEF ShownFirst, Carried, Carries, InTurn
<1>4. Counted
  BY <1>1, <1>2 DEF Counted, Sources
<1>5. QED BY <1>3, <1>4 DEF ChannelInv

\* The types that the steps of the channel need.
LEMMA ChannelTypes ==
    ASSUME TypeOK
    PROVE  /\ broadcast \in Seq(Sources \X Nat) /\ Len(broadcast) \in Nat
           /\ DOMAIN broadcast = 1..Len(broadcast)
           /\ \A k \in DOMAIN broadcast : /\ broadcast[k] = <<broadcast[k][1], broadcast[k][2]>>
                                          /\ broadcast[k][1] \in Sources /\ broadcast[k][2] \in Nat
           /\ \A s \in Sources : /\ sent[s] \in Seq(Nat) /\ Len(sent[s]) \in Nat
                                 /\ shown[s] \in Seq(Nat) /\ Len(shown[s]) \in Nat
<1>1. /\ broadcast \in Seq(Sources \X Nat)
      /\ sent \in [Sources -> Seq(Nat)] /\ shown \in [Sources -> Seq(Nat)]
  BY DEF TypeOK
<1>2. DOMAIN broadcast = 1..Len(broadcast) /\ Len(broadcast) \in Nat
      /\ \A k \in DOMAIN broadcast : broadcast[k] \in Sources \X Nat
  BY <1>1
<1>3. QED BY <1>1, <1>2, SMTT(30)

\* The sum over the sources changes with one of them.
LEMMA SumChanges ==
    ASSUME NEW src0 \in Sources, NEW d \in Int,
           \A s \in Sources : /\ Len(sent[s]) - Len(shown[s]) \in Int
                              /\ Len(sent'[s]) - Len(shown'[s]) =
                                    (Len(sent[s]) - Len(shown[s])) + (IF s = src0 THEN d ELSE 0),
           Len(broadcast) \in Nat, Len(broadcast') = Len(broadcast) + d, Counted
    PROVE  Counted'
<1> DEFINE Old(s) == Len(sent[s]) - Len(shown[s])
           New(s) == Len(sent'[s]) - Len(shown'[s])
<1>1. Len(broadcast) = Old("telemetry") + Old("pue_update") + Old("optimization") + Old("alarm")
  BY DEF Counted, Ahead
<1>2. \A s \in Sources : Old(s) \in Int /\ New(s) = Old(s) + (IF s = src0 THEN d ELSE 0)
  OBVIOUS
<1> HIDE DEF Old, New
<1>3. /\ "telemetry" \in Sources /\ "pue_update" \in Sources
      /\ "optimization" \in Sources /\ "alarm" \in Sources
      /\ src0 \in {"telemetry", "pue_update", "optimization", "alarm"}
  BY DEF Sources
<1>4. /\ Old("telemetry") \in Int /\ Old("pue_update") \in Int
      /\ Old("optimization") \in Int /\ Old("alarm") \in Int
      /\ New("telemetry") = Old("telemetry") + (IF "telemetry" = src0 THEN d ELSE 0)
      /\ New("pue_update") = Old("pue_update") + (IF "pue_update" = src0 THEN d ELSE 0)
      /\ New("optimization") = Old("optimization") + (IF "optimization" = src0 THEN d ELSE 0)
      /\ New("alarm") = Old("alarm") + (IF "alarm" = src0 THEN d ELSE 0)
  BY <1>2, <1>3
<1>5. Len(broadcast') = New("telemetry") + New("pue_update") + New("optimization") + New("alarm")
  BY <1>1, <1>3, <1>4, SMTT(30)
<1>6. QED BY <1>5 DEF Counted, Ahead, New

\* Sending puts the item in hand behind what is in the channel.
LEMMA ChannelSend == ASSUME TypeOK, ItemsInv, ChannelInv, Send, shown' = shown PROVE ChannelInv'
<1> DEFINE q == sent[src]
           r == Append(q, item)
           b == broadcast
           c == Append(b, <<src, item>>)
           New(s) == Len(shown'[s]) + 1 .. Len(sent'[s])
<1>1. /\ src \in Sources /\ item \in Nat /\ q \in Seq(Nat) /\ Len(q) \in Nat
      /\ b \in Seq(Sources \X Nat) /\ Len(b) \in Nat /\ DOMAIN b = 1..Len(b)
      /\ sent \in [Sources -> Seq(Nat)] /\ <<src, item>> \in Sources \X Nat
  <2>1. src \in Sources /\ item \in Nat /\ sent \in [Sources -> Seq(Nat)]
    BY DEF TypeOK
  <2>2. b \in Seq(Sources \X Nat) /\ Len(b) \in Nat /\ DOMAIN b = 1..Len(b)
    BY ChannelTypes
  <2>3. q \in Seq(Nat) /\ Len(q) \in Nat /\ <<src, item>> \in Sources \X Nat
    BY <2>1
  <2>4. QED BY <2>1, <2>2, <2>3
<1>2. sent' = [sent EXCEPT ![src] = r] /\ broadcast' = c /\ shown' = shown /\ at = "send"
  BY DEF Send
<1>3. /\ Len(r) = Len(q) + 1 /\ r[Len(q) + 1] = item
      /\ \A j \in 1..Len(q) : r[j] = q[j]
  BY <1>1, AppendProperties
<1>4. /\ c \in Seq(Sources \X Nat) /\ Len(c) = Len(b) + 1 /\ c[Len(b) + 1] = <<src, item>>
      /\ \A k \in 1..Len(b) : c[k] = b[k]
  BY <1>1, AppendProperties
<1>5. DOMAIN c = 1..(Len(b) + 1)
  BY <1>4
<1>6. \A j \in 1..Len(q) : q[j] < item
  BY <1>1, <1>2, SentFirst
<1>7. \A s \in Sources : sent'[s] = IF s = src THEN r ELSE sent[s]
  BY <1>1, <1>2
<1> HIDE DEF r, c
<1>8. \A s \in Sources : /\ Len(shown[s]) \in Nat /\ Len(sent[s]) \in Nat
                         /\ Len(shown[s]) <= Len(sent[s])
                         /\ \A j \in 1..Len(sent[s]) : sent'[s][j] = sent[s][j]
                         /\ Len(sent'[s]) = IF s = src THEN Len(sent[s]) + 1 ELSE Len(sent[s])
  BY <1>3, <1>7, ChannelTypes DEF ChannelInv, ShownFirst
<1>9. \A s \in Sources : \A j : j \in New(s) <=> j \in Pending(s) \/ (s = src /\ j = Len(q) + 1)
  BY <1>1, <1>2, <1>8 DEF Pending
<1> HIDE DEF New
<1>10. \A s \in Sources : \A j \in Pending(s) : j \in 1..Len(sent[s]) /\ sent'[s][j] = sent[s][j]
  BY <1>8 DEF Pending
<1>11. ShownFirst'
  <2>1. \A s \in Sources : \A i \in 1..Len(shown[s]) : i \in 1..Len(sent[s])
    BY <1>8
  <2>2. QED BY <1>2, <1>8, <2>1 DEF ChannelInv, ShownFirst
<1>12. \A k \in DOMAIN c : k \in DOMAIN b \/ k = Len(b) + 1
  BY <1>1, <1>5
<1>13. \A k \in DOMAIN b : /\ k \in DOMAIN c /\ c[k] = b[k]
                           /\ b[k][1] \in Sources
                           /\ \E j \in Pending(b[k][1]) : b[k][2] = sent[b[k][1]][j]
  <2>1. \A k \in DOMAIN b : \E j \in Pending(b[k][1]) : b[k][2] = sent[b[k][1]][j]
    BY DEF ChannelInv, Carried
  <2>2. \A k \in DOMAIN b : k \in DOMAIN c /\ c[k] = b[k]
    BY <1>1, <1>4, <1>5
  <2>3. \A k \in DOMAIN b : b[k] \in Sources \X Nat
    BY <1>1
  <2>4. \A k \in DOMAIN b : b[k][1] \in Sources
    BY <2>3
  <2>5. QED BY <2>1, <2>2, <2>4
<1>14. Len(b) + 1 \in DOMAIN c
  BY <1>1, <1>5
<1>15. sent'[src][Len(q) + 1] = item
  BY <1>1, <1>3, <1>7
<1>16. Carried'
  <2>1. ASSUME NEW k \in DOMAIN c
        PROVE  \E j \in New(c[k][1]) : c[k][2] = sent'[c[k][1]][j]
    <3>1. CASE k \in DOMAIN b
      <4>1. PICK j \in Pending(b[k][1]) : b[k][2] = sent[b[k][1]][j]
        BY <1>13, <3>1
      <4>2. c[k] = b[k] /\ b[k][1] \in Sources
        BY <1>13, <3>1
      <4>3. j \in New(b[k][1]) /\ sent'[b[k][1]][j] = sent[b[k][1]][j]
        BY <1>9, <1>10, <4>1, <4>2
      <4>4. QED BY <4>1, <4>2, <4>3
    <3>2. CASE k = Len(b) + 1
      <4>1. c[k][1] = src /\ c[k][2] = item
        BY <1>4, <3>2
      <4>2. Len(q) + 1 \in New(src)
        BY <1>1, <1>9
      <4>3. QED BY <1>15, <4>1, <4>2
    <3>3. QED BY <1>12, <3>1, <3>2
  <2>2. QED BY <1>2, <2>1 DEF Carried, Pending, New
<1>17. Carries'
  <2>1. ASSUME NEW s \in Sources, NEW j \in New(s)
        PROVE  \E k \in DOMAIN c : c[k] = <<s, sent'[s][j]>>
    <3>1. CASE j \in Pending(s)
      <4>1. PICK k \in DOMAIN b : b[k] = <<s, sent[s][j]>>
        BY <3>1 DEF ChannelInv, Carries
      <4>2. QED BY <1>10, <1>13, <3>1, <4>1
    <3>2. CASE s = src /\ j = Len(q) + 1
      BY <1>4, <1>14, <1>15, <3>2
    <3>3. QED BY <1>9, <2>1, <3>1, <3>2
  <2>2. QED BY <1>2, <2>1 DEF Carries, Pending, New
<1>18. InTurn'
  <2>1. ASSUME NEW k \in DOMAIN c, NEW l \in DOMAIN c, k < l, c[k][1] = c[l][1]
        PROVE  c[k][2] < c[l][2]
    <3>1. k \in DOMAIN b
      BY <1>1, <1>5, <2>1
    <3>2. CASE l \in DOMAIN b
      BY <1>13, <2>1, <3>1, <3>2 DEF ChannelInv, InTurn
    <3>3. CASE l = Len(b) + 1
      <4>1. c[l][1] = src /\ c[l][2] = item
        BY <1>4, <3>3
      <4>2. PICK j \in Pending(src) : c[k][2] = sent[src][j]
        BY <1>13, <2>1, <3>1, <4>1
      <4>3. QED BY <1>1, <1>6, <1>10, <4>1, <4>2
    <3>4. QED BY <1>12, <3>2, <3>3
  <2>2. QED BY <1>2, <2>1 DEF InTurn
<1>19. Counted'
  <2>2. ASSUME NEW s \in Sources
        PROVE  /\ Len(sent[s]) - Len(shown[s]) \in Int
               /\ Len(sent'[s]) - Len(shown'[s]) =
                      (Len(sent[s]) - Len(shown[s])) + (IF s = src THEN 1 ELSE 0)
    <3>1. /\ Len(shown[s]) \in Nat /\ Len(sent[s]) \in Nat /\ Len(shown'[s]) = Len(shown[s])
          /\ Len(sent'[s]) = IF s = src THEN Len(sent[s]) + 1 ELSE Len(sent[s])
      BY <1>2, <1>8
    <3>2. CASE s = src
      BY <3>1, <3>2
    <3>3. CASE s # src
      BY <3>1, <3>3
    <3>4. QED BY <3>2, <3>3
  <2>3. Len(broadcast') = Len(b) + 1
    BY <1>2, <1>4
  <2>4. QED BY <1>1, <2>2, <2>3, SumChanges DEF ChannelInv
<1>20. QED BY <1>11, <1>16, <1>17, <1>18, <1>19 DEF ChannelInv

\* The hub takes the first item of its source that it has not shown.
LEMMA TakesNext ==
    ASSUME TypeOK, ItemsInv, ChannelInv, HubTakes
    PROVE  LET s == broadcast[1][1]
           IN  /\ s \in Sources /\ Len(shown[s]) + 1 \in Pending(s)
               /\ broadcast[1] = <<s, sent[s][Len(shown[s]) + 1]>>
<1> DEFINE s == broadcast[1][1]
           m == Len(shown[s]) + 1
<1>1. 1 \in DOMAIN broadcast
  BY ChannelTypes DEF HubTakes
<1>2. s \in Sources /\ broadcast[1] = <<s, broadcast[1][2]>>
  BY <1>1, ChannelTypes
<1>3. PICK j \in Pending(s) : broadcast[1][2] = sent[s][j]
  BY <1>1 DEF ChannelInv, Carried
<1>4. Len(shown[s]) \in Nat /\ Len(sent[s]) \in Nat /\ sent[s] \in Seq(Nat)
      /\ DOMAIN sent[s] = 1..Len(sent[s])
  BY <1>2, ChannelTypes
<1>5. m \in Pending(s) /\ m <= j /\ m \in DOMAIN sent[s] /\ j \in DOMAIN sent[s] /\ j \in Int
  <2>1. j \in Len(shown[s]) + 1 .. Len(sent[s])
    BY <1>3 DEF Pending
  <2> HIDE DEF s
  <2>2. j \in Int /\ Len(shown[s]) + 1 <= j /\ j <= Len(sent[s])
    BY <1>4, <2>1
  <2>3. m \in Len(shown[s]) + 1 .. Len(sent[s])
    BY <1>4, <2>2
  <2>4. m \in 1..Len(sent[s]) /\ j \in 1..Len(sent[s]) /\ m <= j
    BY <1>4, <2>2
  <2>5. QED BY <1>4, <2>2, <2>3, <2>4 DEF Pending
<1>6. PICK k \in DOMAIN broadcast : broadcast[k] = <<s, sent[s][m]>>
  BY <1>2, <1>5 DEF ChannelInv, Carries
<1>7. CASE k = 1
  BY <1>2, <1>5, <1>6, <1>7
<1>8. CASE k # 1
  <2>1. 1 < k /\ broadcast[k][1] = broadcast[1][1] /\ broadcast[k][2] = sent[s][m]
    BY <1>6, <1>8, ChannelTypes
  <2>2. sent[s][j] < sent[s][m]
    BY <1>1, <1>3, <2>1 DEF ChannelInv, InTurn
  <2>3. sent[s][j] \in Nat /\ sent[s][m] \in Nat
    <3> HIDE DEF m, s
    <3>1. QED BY <1>4, <1>5
  <2>4. m # j
    BY <2>2, <2>3
  <2>5. m < j
    <3>1. m \in Int
      BY <1>4
    <3> HIDE DEF m
    <3>2. QED BY <1>5, <2>4, <3>1
  <2>6. sent[s][m] < sent[s][j]
    <3>1. Ascending(sent[s])
      BY <1>2, SentFirst
    <3> HIDE DEF m, s
    <3>2. QED BY <1>5, <2>5, <3>1 DEF Ascending
  <2>7. QED BY <2>2, <2>3, <2>6
<1>9. QED BY <1>7, <1>8

\* The hub takes the head of its channel and shows it.
LEMMA ChannelTake == ASSUME TypeOK, ItemsInv, ChannelInv, HubTakes, sent' = sent PROVE ChannelInv'
<1> DEFINE b == broadcast
           c == Tail(b)
           h == b[1][1]
           m == Len(shown[h]) + 1
           n == sent[h][m]
           r == Append(shown[h], n)
           New(s) == Len(shown'[s]) + 1 .. Len(sent[s])
<1>1. /\ h \in Sources /\ m \in Pending(h) /\ b[1] = <<h, n>>
  BY TakesNext
<1>2. /\ b \in Seq(Sources \X Nat) /\ Len(b) \in Nat /\ DOMAIN b = 1..Len(b) /\ b # <<>>
      /\ shown \in [Sources -> Seq(Nat)] /\ Head(b) = b[1]
  <2>1. b \in Seq(Sources \X Nat) /\ shown \in [Sources -> Seq(Nat)]
    BY DEF TypeOK
  <2>2. b # <<>>
    BY DEF HubTakes
  <2>3. QED BY <2>1, <2>2
<1>3. \A s \in Sources : /\ sent[s] \in Seq(Nat) /\ Len(sent[s]) \in Nat /\ DOMAIN sent[s] = 1..Len(sent[s])
                         /\ shown[s] \in Seq(Nat) /\ Len(shown[s]) \in Nat
                         /\ Len(shown[s]) <= Len(sent[s])
                         /\ \A i \in 1..Len(shown[s]) : shown[s][i] = sent[s][i]
  BY ChannelTypes DEF ChannelInv, ShownFirst
<1>4. broadcast' = c /\ shown' = [shown EXCEPT ![h] = r]
  <2>1. Head(b)[1] = h /\ Head(b)[2] = n
    BY <1>1, <1>2
  <2>2. /\ broadcast' = Tail(b)
        /\ shown' = [shown EXCEPT ![Head(b)[1]] = Append(shown[Head(b)[1]], Head(b)[2])]
    BY DEF HubTakes
  <2> HIDE DEF h, n
  <2>3. QED BY <2>1, <2>2
<1>5. c \in Seq(Sources \X Nat) /\ Len(c) = Len(b) - 1 /\ DOMAIN c = 1..(Len(b) - 1)
      /\ \A k \in 1..(Len(b) - 1) : c[k] = b[k + 1]
  BY <1>2, HeadTailProperties
<1> HIDE DEF h, c
<1>6. Len(shown[h]) \in Nat /\ m \in 1..Len(sent[h]) /\ m \in Int /\ n \in Nat
  <2>1. m \in Len(shown[h]) + 1 .. Len(sent[h])
    BY <1>1 DEF Pending
  <2>2. Len(shown[h]) \in Nat /\ Len(sent[h]) \in Nat /\ sent[h] \in Seq(Nat)
    BY <1>1, <1>3
  <2>3. m \in 1..Len(sent[h]) /\ m \in Int
    BY <2>1, <2>2
  <2>4. QED BY <2>2, <2>3, ElementOfSeq
<1>7. /\ Len(r) = m /\ r[m] = n /\ \A i \in 1..Len(shown[h]) : r[i] = shown[h][i]
  BY <1>1, <1>3, <1>6, AppendProperties
<1> HIDE DEF r, n
<1>8. \A s \in Sources : shown'[s] = IF s = h THEN r ELSE shown[s]
  BY <1>1, <1>2, <1>4
<1>9. \A s \in Sources : Len(shown'[s]) = Len(shown[s]) + (IF s = h THEN 1 ELSE 0)
  <2>1. Len(r) = Len(shown[h]) + 1
    BY <1>7
  <2>2. ASSUME NEW s \in Sources
        PROVE  Len(shown'[s]) = Len(shown[s]) + (IF s = h THEN 1 ELSE 0)
    <3>1. CASE s = h
      BY <1>8, <2>1, <3>1
    <3>2. CASE s # h
      <4>1. shown'[s] = shown[s] /\ Len(shown[s]) \in Nat
        BY <1>3, <1>8, <3>2
      <4>2. QED BY <3>2, <4>1
    <3>3. QED BY <3>1, <3>2
  <2>3. QED BY <2>2
<1>10. \A s \in Sources : \A j : j \in New(s) <=> j \in Pending(s) /\ ~(s = h /\ j = m)
  <2> SUFFICES ASSUME NEW s \in Sources, NEW j
               PROVE  j \in New(s) <=> j \in Pending(s) /\ ~(s = h /\ j = m)
    OBVIOUS
  <2>1. Len(shown[s]) \in Nat /\ Len(sent[s]) \in Nat
    BY <1>3
  <2>2. CASE s = h
    <3>1. New(s) = m + 1 .. Len(sent[s]) /\ Pending(s) = m .. Len(sent[s])
      BY <1>7, <1>8, <2>2 DEF Pending
    <3> HIDE DEF m, New
    <3>2. QED BY <1>6, <2>1, <2>2, <3>1
  <2>3. CASE s # h
    BY <1>8, <2>3 DEF Pending
  <2>4. QED BY <2>2, <2>3
<1>11. ShownFirst'
  <2> SUFFICES ASSUME NEW s \in Sources
               PROVE  /\ Len(shown'[s]) <= Len(sent[s])
                      /\ \A i \in 1..Len(shown'[s]) : shown'[s][i] = sent[s][i]
    BY DEF ShownFirst
  <2>1. CASE s = h
    <3>1. shown'[s] = r /\ Len(r) = m /\ m <= Len(sent[s])
      BY <1>6, <1>7, <1>8, <2>1
    <3>2. \A i \in 1..m : i \in 1..Len(shown[h]) \/ i = m
      BY <1>6
    <3>3. \A i \in 1..m : r[i] = sent[s][i]
      BY <1>1, <1>3, <1>7, <2>1, <3>2 DEF n
    <3>4. QED BY <3>1, <3>3
  <2>2. CASE s # h
    BY <1>3, <1>8, <2>2
  <2>3. QED BY <2>1, <2>2
<1> HIDE DEF m, New
<1>12. \A k \in DOMAIN c : k + 1 \in DOMAIN b /\ 1 < k + 1 /\ c[k] = b[k + 1] /\ b[k + 1][1] \in Sources
  <2> SUFFICES ASSUME NEW k \in DOMAIN c
               PROVE  k + 1 \in DOMAIN b /\ 1 < k + 1 /\ c[k] = b[k + 1] /\ b[k + 1][1] \in Sources
    OBVIOUS
  <2>1. k \in 1..(Len(b) - 1)
    BY <1>5
  <2>2. k + 1 \in 1..Len(b) /\ 1 < k + 1
    BY <1>2, <2>1, SMTT(30)
  <2>3. k + 1 \in DOMAIN b /\ c[k] = b[k + 1]
    BY <1>2, <1>5, <2>1, <2>2
  <2>4. QED BY <2>2, <2>3, ChannelTypes
<1>13. 1 \in DOMAIN b /\ b[1][1] = h /\ b[1][2] = n
  BY <1>1, <1>2
<1>14. Carried'
  <2>1. ASSUME NEW k \in DOMAIN c
        PROVE  \E j \in New(c[k][1]) : c[k][2] = sent[c[k][1]][j]
    <3>1. PICK j \in Pending(c[k][1]) : c[k][2] = sent[c[k][1]][j]
      BY <1>12 DEF ChannelInv, Carried
    <3>2. CASE c[k][1] = h
      <4>1. n < c[k][2]
        BY <1>12, <1>13, <3>2 DEF ChannelInv, InTurn
      <4>2. j # m
        BY <1>6, <3>1, <3>2, <4>1 DEF n
      <4>3. QED BY <1>1, <1>10, <3>1, <3>2, <4>2
    <3>3. CASE c[k][1] # h
      BY <1>10, <1>12, <3>1, <3>3
    <3>4. QED BY <3>2, <3>3
  <2>2. QED BY <1>4, <2>1 DEF Carried, Pending, New
<1>15. Carries'
  <2>1. ASSUME NEW s \in Sources, NEW j \in New(s)
        PROVE  \E k \in DOMAIN c : c[k] = <<s, sent[s][j]>>
    <3>1. j \in Pending(s) /\ ~(s = h /\ j = m)
      BY <1>10, <2>1
    <3>2. PICK k \in DOMAIN b : b[k] = <<s, sent[s][j]>>
      BY <3>1 DEF ChannelInv, Carries
    <3>3. k # 1
      <4>1. SUFFICES ASSUME s = h, sent[s][j] = n PROVE FALSE
        BY <1>13, <3>2
      <4>2. j \in Int /\ j \in DOMAIN sent[s] /\ m < j
        <5>1. j \in Len(shown[s]) + 1 .. Len(sent[s]) /\ m = Len(shown[s]) + 1
          BY <3>1, <4>1 DEF Pending, m
        <5>2. QED BY <1>3, <1>6, <3>1, <4>1, <5>1
      <4>3. m \in DOMAIN sent[s]
        BY <1>3, <1>6, <4>1
      <4>4. sent[s][m] < sent[s][j]
        BY <4>2, <4>3, SentFirst DEF Ascending
      <4>5. QED BY <1>6, <4>1, <4>4 DEF n
    <3>4. k - 1 \in DOMAIN c /\ c[k - 1] = b[(k - 1) + 1] /\ (k - 1) + 1 = k
      <4>1. k \in 1..Len(b) /\ k # 1
        BY <1>2, <3>2, <3>3
      <4>2. k - 1 \in 1..(Len(b) - 1) /\ (k - 1) + 1 = k
        BY <1>2, <4>1
      <4>3. QED BY <1>5, <4>2
    <3>5. QED BY <3>2, <3>4
  <2>2. QED BY <1>4, <2>1 DEF Carries, Pending, New
<1>16. InTurn'
  <2>1. ASSUME NEW k \in DOMAIN c, NEW l \in DOMAIN c, k < l, c[k][1] = c[l][1]
        PROVE  c[k][2] < c[l][2]
    <3>1. k + 1 < l + 1
      BY <1>5, <2>1
    <3>2. QED BY <1>12, <2>1, <3>1 DEF ChannelInv, InTurn
  <2>2. QED BY <1>4, <2>1 DEF InTurn
<1>17. Counted'
  <2> DEFINE d == -1
  <2>1. d \in Int
    OBVIOUS
  <2>2. ASSUME NEW s \in Sources
        PROVE  /\ Len(sent[s]) - Len(shown[s]) \in Int
               /\ Len(sent'[s]) - Len(shown'[s]) =
                      (Len(sent[s]) - Len(shown[s])) + (IF s = h THEN d ELSE 0)
    <3>1. Len(shown[s]) \in Nat /\ Len(sent[s]) \in Nat /\ Len(sent'[s]) = Len(sent[s])
          /\ Len(shown'[s]) = Len(shown[s]) + (IF s = h THEN 1 ELSE 0)
      BY <1>3, <1>9
    <3>2. CASE s = h
      BY <3>1, <3>2
    <3>3. CASE s # h
      BY <3>1, <3>3
    <3>4. QED BY <3>2, <3>3
  <2>3. Len(broadcast') = Len(broadcast) + d
    BY <1>2, <1>4, <1>5
  <2> HIDE DEF d
  <2>4. Counted /\ Len(broadcast) \in Nat
    BY <1>2 DEF ChannelInv
  <2>5. QED BY <1>1, <2>1, <2>2, <2>3, <2>4, SumChanges
<1>18. QED BY <1>11, <1>14, <1>15, <1>16, <1>17 DEF ChannelInv

\* Every step keeps it.
LEMMA ChannelStep == ASSUME TypeOK, ItemsInv, ChannelInv, [Next]_vars PROVE ChannelInv'
<1>1. CASE UNCHANGED <<broadcast, given>>
  BY <1>1 DEF given, ChannelInv, ShownFirst, Carried, Carries, InTurn, Counted, Pending, Ahead
<1>2. QED BY <1>1, StepKinds, ChannelSend, ChannelTake

\* The queue of the feed: what was accepted without what was shown.
LEMMA QueueType ==
    ASSUME TypeOK, ItemsInv, ChannelInv, NEW s \in Sources
    PROVE  /\ Len(shown[s]) \in Nat /\ Len(shown[s]) \in 0..Len(Accepted(s))
           /\ Accepted(s) \in Seq(Nat) /\ Len(Accepted(s)) \in Nat
           /\ UnderWay[s] = SubSeq(Accepted(s), Len(shown[s]) + 1, Len(Accepted(s)))
           /\ UnderWay[s] \in Seq(Nat)
           /\ Len(UnderWay[s]) = Len(Accepted(s)) - Len(shown[s])
           /\ \A i \in DOMAIN UnderWay[s] : UnderWay[s][i] \in 1..made[s]
           /\ \A i \in DOMAIN shown[s] : shown[s][i] \in 1..made[s]
<1> DEFINE a == Accepted(s)
           m == Len(shown[s])
           u == SubSeq(a, m + 1, Len(a))
<1>1. /\ a \in Seq(Nat) /\ Len(a) \in Nat /\ DOMAIN a = 1..Len(a)
      /\ m \in Nat /\ DOMAIN shown[s] = 1..m /\ Len(sent[s]) \in Nat
  BY TakenType, ChannelTypes
<1>2. /\ m <= Len(sent[s]) /\ Len(sent[s]) <= Len(a)
      /\ \A i \in 1..m : shown[s][i] = sent[s][i]
      /\ \A i \in 1..Len(sent[s]) : sent[s][i] = a[i]
  BY SentFirst DEF ChannelInv, ShownFirst
<1>3. \A i \in DOMAIN a : a[i] \in 1..made[s]
  BY DEF ItemsInv
<1> HIDE DEF a, m
<1>4. m \in 0..Len(a)
  BY <1>1, <1>2
<1>5. u \in Seq(Nat) /\ Len(u) = Len(a) - m /\ \A i \in 1..(Len(a) - m) : u[i] = a[m + i]
  BY <1>1, <1>4, DropType
<1> HIDE DEF u
<1>6. ASSUME NEW i \in DOMAIN u PROVE u[i] \in 1..made[s]
  <2>1. i \in 1..(Len(a) - m)
    BY <1>5
  <2>2. m + i \in DOMAIN a
    BY <1>1, <1>4, <2>1
  <2>3. QED BY <1>3, <1>5, <2>1, <2>2
<1>7. ASSUME NEW i \in DOMAIN shown[s] PROVE shown[s][i] \in 1..made[s]
  <2>1. i \in 1..m /\ i \in 1..Len(sent[s]) /\ i \in DOMAIN a
    BY <1>1, <1>2
  <2>2. QED BY <1>2, <1>3, <2>1
<1>8. UnderWay[s] = u
  BY DEF UnderWay, u, a, m
<1>9. QED BY <1>1, <1>4, <1>5, <1>6, <1>7, <1>8 DEF u, a, m

\* The queue after a step.
LEMMA QueueNext ==
    /\ UnderWay' = [s \in Sources |-> SubSeq(Accepted(s)', Len(shown'[s]) + 1, Len(Accepted(s)'))]
    /\ DOMAIN UnderWay = Sources
BY DEF UnderWay

\* When there is room there is room in the feed: the router holds one item and
\* the hub's channel the others.
LEMMA RoomLeft ==
    ASSUME TypeOK, ItemsInv, ChannelInv, NEW s \in Sources, Len(out[s]) < OutCap
    PROVE  Len(UnderWay[s]) < OutCap + 1 + BroadcastCap
<1>1. \A r \in Sources : Ahead(r) \in Nat
  <2> SUFFICES ASSUME NEW r \in Sources PROVE Ahead(r) \in Nat
    OBVIOUS
  <2>1. Len(sent[r]) \in Nat /\ Len(shown[r]) \in Nat /\ Len(shown[r]) <= Len(sent[r])
    BY ChannelTypes DEF ChannelInv, ShownFirst
  <2>2. QED BY <2>1 DEF Ahead
<1>2. Len(broadcast) = Ahead("telemetry") + Ahead("pue_update")
                       + Ahead("optimization") + Ahead("alarm")
  BY DEF ChannelInv, Counted
<1>3. Ahead(s) <= Len(broadcast)
  BY <1>1, <1>2 DEF Sources
<1>4. Len(broadcast) <= BroadcastCap /\ BroadcastCap \in Nat /\ OutCap \in Nat
      /\ Len(broadcast) \in Nat /\ Len(out[s]) \in Nat /\ Ahead(s) \in Nat
  <2>1. Len(broadcast) <= BroadcastCap /\ Len(out[s]) \in Nat
    BY DEF TypeOK
  <2>2. Len(broadcast) \in Nat
    BY ChannelTypes
  <2>3. QED BY <1>1, <2>1, <2>2, Caps
<1>5. Len(InRouter(s)) \in {0, 1}
  BY DEF InRouter
<1>6. Len(UnderWay[s]) = Ahead(s) + Len(InRouter(s)) + Len(out[s])
  <2>1. /\ Len(UnderWay[s]) = Len(Accepted(s)) - Len(shown[s])
        /\ Len(Accepted(s)) = Len(sent[s]) + Len(InRouter(s)) + Len(out[s])
        /\ Len(sent[s]) \in Nat /\ Len(shown[s]) \in Nat
    BY QueueType, SentFirst
  <2>2. QED BY <1>4, <1>5, <2>1 DEF Ahead
<1>7. Len(InRouter(s)) \in Nat /\ Len(InRouter(s)) <= 1
  <2>1. CASE Len(InRouter(s)) = 0
    BY <2>1
  <2>2. CASE Len(InRouter(s)) = 1
    BY <2>2
  <2>3. QED BY <1>5, <2>1, <2>2
<1>8. Ahead(s) + Len(InRouter(s)) + Len(out[s]) < OutCap + 1 + BroadcastCap
  BY <1>3, <1>4, <1>7
<1>9. QED BY <1>6, <1>8

\* An accepted item enters the feed.
LEMMA OfferAccepts ==
    ASSUME TypeOK, ItemsInv, ChannelInv, [Next]_vars, NEW s \in Sources, Offer(s),
           UNCHANGED <<router, broadcast, given>>, Len(out[s]) < OutCap
    PROVE  Feed!Accept(s)
<1> DEFINE n == made[s] + 1
           u == UnderWay[s]
<1>1. /\ made[s] \in Nat /\ made[s] < Limit[s] /\ Limit[s] \in Nat /\ shown' = shown
  BY Caps DEF Offer, TypeOK, given
<1>2. n \in UNION {1..Limit[r] : r \in Sources}
  <2>1. n \in 1..Limit[s]
    BY <1>1
  <2>2. QED BY <2>1
<1>3. /\ \A i \in DOMAIN u : u[i] < n
      /\ \A i \in DOMAIN shown[s] : shown[s][i] < n
  <2>1. \A x \in 1..made[s] : x < n
    BY <1>1
  <2>2. /\ \A i \in DOMAIN u : u[i] \in 1..made[s]
        /\ \A i \in DOMAIN shown[s] : shown[s][i] \in 1..made[s]
    BY QueueType
  <2> HIDE DEF n, u
  <2>3. QED BY <2>1, <2>2
<1>4. UnderWay' = [UnderWay EXCEPT ![s] = Append(u, n)]
  <2>1. ASSUME NEW r \in Sources
        PROVE  SubSeq(Accepted(r)', Len(shown'[r]) + 1, Len(Accepted(r)'))
                   = IF r = s THEN Append(u, n) ELSE UnderWay[r]
    <3>1. CASE r = s
      <4>1. Accepted(r)' = Append(Accepted(s), n)
        BY <3>1, AcceptedOffer
      <4>2. n \in Nat
        BY <1>1
      <4> HIDE DEF n
      <4>3. /\ Accepted(s) \in Seq(Nat) /\ Len(shown[s]) \in 0..Len(Accepted(s))
            /\ u = SubSeq(Accepted(s), Len(shown[s]) + 1, Len(Accepted(s)))
        BY QueueType
      <4>4. SubSeq(Append(Accepted(s), n), Len(shown[s]) + 1, Len(Append(Accepted(s), n)))
                = Append(SubSeq(Accepted(s), Len(shown[s]) + 1, Len(Accepted(s))), n)
        BY <4>2, <4>3, DropAppend
      <4>5. QED BY <1>1, <3>1, <4>1, <4>3, <4>4
    <3>2. CASE r # s
      BY <1>1, <3>2, AcceptedOffer, QueueType
    <3>3. QED BY <3>1, <3>2
  <2> HIDE DEF n, u
  <2>2. UnderWay = [r \in Sources |-> UnderWay[r]]
    BY DEF UnderWay
  <2>3. QED BY <2>1, <2>2, QueueNext
<1>5. QED BY <1>1, <1>2, <1>3, <1>4, RoomLeft DEF Feed!Accept

\* What the hub takes is the head of the feed.
LEMMA TakeShows ==
    ASSUME TypeOK, ItemsInv, ChannelInv, [Next]_vars, HubTakes, UNCHANGED <<made, out, sent, router>>
    PROVE  \E s \in Sources : Feed!Show(s)
<1> DEFINE s == broadcast[1][1]
           m == Len(shown[s])
           n == sent[s][m + 1]
           a == Accepted(s)
<1>1. /\ s \in Sources /\ m + 1 \in Pending(s) /\ broadcast[1] = <<s, n>>
  BY TakesNext
<1>2. /\ broadcast \in Seq(Sources \X Nat) /\ broadcast # <<>> /\ Head(broadcast) = broadcast[1]
  <2>1. broadcast \in Seq(Sources \X Nat)
    BY DEF TypeOK
  <2>2. broadcast # <<>>
    BY DEF HubTakes
  <2>3. QED BY <2>1, <2>2
<1>3. shown' = [shown EXCEPT ![s] = Append(shown[s], n)] /\ shown \in [Sources -> Seq(Nat)]
  <2>1. Head(broadcast)[1] = s /\ Head(broadcast)[2] = n
    BY <1>1, <1>2
  <2>2. shown' = [shown EXCEPT ![Head(broadcast)[1]] = Append(shown[Head(broadcast)[1]], Head(broadcast)[2])]
    BY DEF HubTakes
  <2> HIDE DEF s, n
  <2>3. QED BY <2>1, <2>2 DEF TypeOK
<1>4. \A r \in Sources : Accepted(r)' = Accepted(r)
  BY AcceptedMoves
<1> HIDE DEF s
<1>5. /\ m \in Nat /\ m + 1 <= Len(sent[s]) /\ Len(sent[s]) \in Nat /\ Len(sent[s]) <= Len(a)
      /\ sent[s] \in Seq(Nat) /\ shown[s] \in Seq(Nat)
      /\ a \in Seq(Nat) /\ Len(a) \in Nat /\ m + 1 \in 1..Len(sent[s])
      /\ \A i \in 1..Len(sent[s]) : sent[s][i] = a[i]
  <2>1. m \in Nat /\ m + 1 \in m + 1 .. Len(sent[s])
    BY <1>1, ChannelTypes DEF Pending
  <2>2. /\ sent[s] \in Seq(Nat) /\ Len(sent[s]) \in Nat /\ Len(sent[s]) <= Len(a)
        /\ \A i \in 1..Len(sent[s]) : sent[s][i] = a[i]
        /\ shown[s] \in Seq(Nat) /\ a \in Seq(Nat) /\ Len(a) \in Nat
    <3>1. sent[s] \in Seq(Nat) /\ Len(sent[s]) \in Nat /\ shown[s] \in Seq(Nat)
      BY <1>1, ChannelTypes
    <3>2. a \in Seq(Nat)
      BY <1>1, TakenType
    <3>3. Len(sent[s]) <= Len(a) /\ \A i \in 1..Len(sent[s]) : sent[s][i] = a[i]
      BY <1>1, SentFirst
    <3>4. QED BY <3>1, <3>2, <3>3, LenProperties
  <2> HIDE DEF m, a
  <2>3. QED BY <2>1, <2>2
<1>6. m < Len(a) /\ n = a[m + 1] /\ n \in Nat
  <2>1. n = a[m + 1] /\ n \in Nat
    BY <1>5, ElementOfSeq
  <2> HIDE DEF m, a, n
  <2>2. QED BY <1>5, <2>1
<1>7. /\ UnderWay[s] # <<>> /\ Head(UnderWay[s]) = n
      /\ Tail(UnderWay[s]) = SubSeq(a, (m + 1) + 1, Len(a))
  <2>1. UnderWay[s] = SubSeq(a, m + 1, Len(a))
    BY <1>1, QueueType
  <2> HIDE DEF m, a, n
  <2>2. QED BY <1>5, <1>6, <2>1, DropMore
<1>8. Len(shown'[s]) = m + 1 /\ \A r \in Sources : r # s => shown'[r] = shown[r]
  <2>1. shown'[s] = Append(shown[s], n)
    BY <1>1, <1>3
  <2>2. QED BY <1>3, <1>5, <1>6, <2>1, AppendProperties
<1>9. UnderWay' = [UnderWay EXCEPT ![s] = Tail(UnderWay[s])]
  <2>1. ASSUME NEW r \in Sources
        PROVE  SubSeq(Accepted(r)', Len(shown'[r]) + 1, Len(Accepted(r)'))
                   = IF r = s THEN Tail(UnderWay[s]) ELSE UnderWay[r]
    <3>1. CASE r = s
      BY <1>4, <1>7, <1>8, <3>1
    <3>2. CASE r # s
      BY <1>4, <1>8, <3>2, QueueType
    <3>3. QED BY <3>1, <3>2
  <2>2. UnderWay = [r \in Sources |-> UnderWay[r]]
    BY DEF UnderWay
  <2>3. QED BY <1>1, <2>1, <2>2, QueueNext
<1>10. QED BY <1>1, <1>3, <1>7, <1>9 DEF Feed!Show

\* Every step of the router is a step of the feed, or leaves it alone.
LEMMA FeedStep ==
    ASSUME TypeOK, ItemsInv, ChannelInv, [Next]_vars
    PROVE  Feed!Next \/ UNCHANGED <<UnderWay, shown>>
<1>1. ASSUME shown' = shown, \A s \in Sources : Accepted(s)' = Accepted(s)
      PROVE  UNCHANGED <<UnderWay, shown>>
  <2>1. UnderWay' = [s \in Sources |-> SubSeq(Accepted(s), Len(shown[s]) + 1, Len(Accepted(s)))]
    BY <1>1, QueueNext
  <2>2. QED BY <1>1, <2>1 DEF UnderWay
<1>2. ASSUME NEW s \in Sources, Offer(s), UNCHANGED <<router, broadcast, given>>
      PROVE  Feed!Next \/ UNCHANGED <<UnderWay, shown>>
  <2>1. CASE Len(out[s]) < OutCap
    BY <1>2, <2>1, OfferAccepts DEF Feed!Next
  <2>2. CASE ~(Len(out[s]) < OutCap)
    BY <1>1, <1>2, <2>2, AcceptedOffer DEF given
  <2>3. QED BY <2>1, <2>2
<1>3. QED BY <1>1, <1>2, StepKinds, AcceptedMoves, TakeShows DEF Feed!Next, given

\* Every run of the pipeline is a run of the feed: each source is lossy at the
\* door only, and behind it every item is shown once and in order.
THEOREM FeedRefined == Spec => FeedSpec
<1> DEFINE IInv == TypeOK /\ ItemsInv /\ ChannelInv
<1>1. Init => IInv /\ Feed!Init
  <2> SUFFICES ASSUME Init PROVE IInv /\ Feed!Init
    OBVIOUS
  <2>1. IInv
    BY TypeInit, ItemsInit, ChannelInit
  <2>2. ASSUME NEW s \in Sources
        PROVE  SubSeq(Accepted(s), Len(shown[s]) + 1, Len(Accepted(s))) = <<>>
    <3>1. Len(shown[s]) + 1 = 1 /\ Len(Accepted(s)) = 0
      BY AcceptedInit DEF Init
    <3>2. QED BY <3>1, SubSeqEmpty
  <2>3. UnderWay = [s \in Sources |-> <<>>]
    BY <2>2 DEF UnderWay
  <2>4. QED BY <2>1, <2>3 DEF Init, Feed!Init
<1>2. IInv /\ [Next]_vars => IInv'
  BY TypeStep, ItemsStep, ChannelStep
<1>3. IInv /\ [Next]_vars => [Feed!Next]_<<UnderWay, shown>>
  BY FeedStep
<1> HIDE DEF IInv
<1>4. QED BY <1>1, <1>2, <1>3, PTL DEF Spec, FeedSpec, Feed!Spec, Feed!feed
=============================================================================
