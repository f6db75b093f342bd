---------------------------- MODULE EventRouter ----------------------------
(***************************************************************************)
(* The channels of cmd/web/main.go and the goroutine that joins them: the  *)
(* four components put what they produce into their out channel without    *)
(* waiting, eventRouter takes from all four, stores telemetry, hands every *)
(* item to the hub's broadcast channel, where it waits for room, and       *)
(* forwards telemetry and PUE records to the notifier and the optimizer    *)
(* without waiting.                                                        *)
(*                                                                         *)
(* An item is its number in the order its source made it.  Which PUE       *)
(* records are over the trigger threshold is the set high.                 *)
(***************************************************************************)
EXTENDS Naturals, Sequences, Functions

CONSTANTS
    OutCap,        \* capacity of the out channels (8; 16 for alarms)
    InCap,         \* capacity of the notifier's two channels (16)
    TriggerCap,    \* capacity of triggerCh (8)
    BroadcastCap,  \* capacity of the hub's broadcast (256)
    Limit          \* bound: items each source makes

Sources == {"telemetry", "pue_update", "optimization", "alarm"}

ASSUME RouterAssumption == /\ {OutCap, InCap, TriggerCap, BroadcastCap} \subseteq Nat \ {0}
                           /\ Limit \in [Sources -> Nat]

VARIABLES
    made,         \* items each source has made
    high,         \* PUE records over PUETriggerThreshold
    out,          \* the out channel of each source
    at,           \* where the router is
    src,          \* the source of the item it holds
    item,         \* the item it holds
    broadcast,    \* the hub's channel, of <<source, item>>
    telemetryIn,  \* the notifier's channels
    pueIn,
    triggerCh,    \* the optimizer's channel
    optimizer,    \* whether the optimizer is in optimize
    stored,       \* telemetry batches in the database
    unstored,     \* history: batches whose insertion failed
    pueGauge,     \* the record the PUE gauges show, 0 for none
    alarmsTotal,  \* batches of alarms counted by IncAlarms
    sent,         \* history: items given to the hub's channel, per source
    shown         \* history: items the hub has taken from it, per source

producers == <<made, high, out, optimizer>>
router    == <<at, src, item>>
inputs    == <<telemetryIn, pueIn, triggerCh>>
kept      == <<stored, unstored, pueGauge, alarmsTotal>>
given     == <<sent, shown>>
vars      == <<producers, router, broadcast, inputs, kept, given>>

Init == /\ made = [s \in Sources |-> 0] /\ high = {}
        /\ out = [s \in Sources |-> <<>>]
        /\ at = "idle" /\ src = "telemetry" /\ item = 0
        /\ broadcast = <<>>
        /\ telemetryIn = <<>> /\ pueIn = <<>> /\ triggerCh = <<>>
        /\ optimizer = "idle"
        /\ stored = <<>> /\ unstored = {} /\ pueGauge = 0 /\ alarmsTotal = 0
        /\ sent = [s \in Sources |-> <<>>] /\ shown = [s \in Sources |-> <<>>]

\* select { case ch <- x: default: }: the send of a component that does not
\* wait.  Mutants: the capacity is ignored, or a full channel loses its oldest
\* item instead.
Unbounded(ch, cap, x)  == Append(ch, x)
DropOldest(ch, cap, x) == IF Len(ch) < cap THEN Append(ch, x) ELSE Append(Tail(ch), x)
TrySend(ch, cap, x)    == IF Len(ch) < cap THEN Append(ch, x) ELSE ch

-----------------------------------------------------------------------------
(* The producing components *)

\* Source s makes an item and offers it to its out channel.
Offer(s) ==
    /\ made[s] < Limit[s]
    /\ made' = [made EXCEPT ![s] = @ + 1]
    /\ out' = [out EXCEPT ![s] = TrySend(@, OutCap, made[s] + 1)]

\* The gateway has collected a batch, or the notifier has raised alarms.
Produce(s) ==
    /\ s \in {"telemetry", "alarm"} /\ Offer(s)
    /\ UNCHANGED <<high, optimizer, router, broadcast, inputs, kept, given>>

\* The calculator has computed a record, over the threshold or not.
ProducePUE ==
    /\ Offer("pue_update")
    /\ \/ high' = high \cup {made'["pue_update"]}
       \/ UNCHANGED high
    /\ UNCHANGED <<optimizer, router, broadcast, inputs, kept, given>>

\* The optimizer's ticker fires.
OptimizerTick ==
    /\ optimizer = "idle" /\ optimizer' = "optimizing"
    /\ UNCHANGED <<made, high, out, router, broadcast, inputs, kept, given>>

\* record := <-o.triggerCh: the threshold is tested again.
OptimizerTriggered ==
    /\ optimizer = "idle" /\ triggerCh # <<>>
    /\ triggerCh' = Tail(triggerCh)
    /\ optimizer' = IF Head(triggerCh) \in high THEN "optimizing" ELSE "idle"
    /\ UNCHANGED <<made, high, out, router, broadcast, telemetryIn, pueIn, kept, given>>

\* optimize returns suggestions, which are offered, or none, or an error.
OptimizerDone ==
    /\ optimizer = "optimizing" /\ optimizer' = "idle"
    /\ Offer("optimization") \/ UNCHANGED <<made, out>>
    /\ UNCHANGED <<high, router, broadcast, inputs, kept, given>>

\* The notifier's Run drains its two channels and does nothing with the items.
NotifierDrains ==
    /\ \/ telemetryIn # <<>> /\ telemetryIn' = Tail(telemetryIn) /\ UNCHANGED pueIn
       \/ pueIn # <<>> /\ pueIn' = Tail(pueIn) /\ UNCHANGED telemetryIn
    /\ UNCHANGED <<producers, router, broadcast, triggerCh, kept, given>>

-----------------------------------------------------------------------------
(* eventRouter *)

\* Where a case of the select begins, and mutant: the batch is sent to the
\* dashboard before it is stored.
SendAtOnce(s) == "send"
FirstStep(s)  == IF s = "telemetry" THEN "store" ELSE "send"

\* SetPUEMetrics, and mutant: a gauge that is set once.
GaugeOnce(s) == IF s = "pue_update" /\ pueGauge = 0 THEN Head(out[s]) ELSE pueGauge
GaugeFor(s)  == IF s = "pue_update" THEN Head(out[s]) ELSE pueGauge

\* A case of the select receives; PUE gauges and alarm counter follow at once.
\* The three gauges are one value and the alarms of a batch are counted together,
\* as no other goroutine sets them.
RouterTakes(s) ==
    /\ at = "idle" /\ out[s] # <<>>
    /\ out' = [out EXCEPT ![s] = Tail(@)]
    /\ src' = s /\ item' = Head(out[s])
    /\ at' = FirstStep(s)
    /\ pueGauge' = GaugeFor(s)
    /\ alarmsTotal' = IF s = "alarm" THEN alarmsTotal + 1 ELSE alarmsTotal
    /\ UNCHANGED <<made, high, optimizer, broadcast, inputs, stored, unstored, given>>

\* Where the router goes after InsertTelemetry failed, and mutant: it gives
\* the batch up.
SkipBatch  == "idle"
AfterError == "send"

\* InsertTelemetry: one transaction; its error is only logged.
Store ==
    /\ at = "store"
    /\ \/ stored' = Append(stored, item) /\ at' = "send" /\ UNCHANGED unstored
       \/ unstored' = unstored \cup {item} /\ at' = AfterError /\ UNCHANGED stored
    /\ UNCHANGED <<producers, src, item, broadcast, inputs, pueGauge, alarmsTotal, given>>

\* hub.broadcast <- msg, which waits for room.
Send ==
    /\ at = "send" /\ Len(broadcast) < BroadcastCap
    /\ broadcast' = Append(broadcast, <<src, item>>)
    /\ sent' = [sent EXCEPT ![src] = Append(@, item)]
    /\ at' = IF src \in {"telemetry", "pue_update"} THEN "forward" ELSE "idle"
    /\ UNCHANGED <<producers, src, item, inputs, kept, shown>>

\* telemetryIn <- batch, without waiting.
ForwardTelemetry ==
    /\ at = "forward" /\ src = "telemetry"
    /\ telemetryIn' = TrySend(telemetryIn, InCap, item)
    /\ at' = "idle"
    /\ UNCHANGED <<producers, src, item, broadcast, pueIn, triggerCh, kept, given>>

\* The trigger test, and mutant: any record over the threshold so far counts.
AnyHigh     == high # {}
OverTrigger == item \in high

\* pueIn <- record, without waiting, and the test against the threshold.
ForwardPUE ==
    /\ at = "forward" /\ src = "pue_update"
    /\ pueIn' = TrySend(pueIn, InCap, item)
    /\ at' = IF OverTrigger THEN "trigger" ELSE "idle"
    /\ UNCHANGED <<producers, src, item, broadcast, telemetryIn, triggerCh, kept, given>>

\* triggerCh <- record, without waiting.
Trigger ==
    /\ at = "trigger"
    /\ triggerCh' = TrySend(triggerCh, TriggerCap, item)
    /\ at' = "idle"
    /\ UNCHANGED <<producers, src, item, broadcast, telemetryIn, pueIn, kept, given>>

\* The hub takes the next message (module WebSocketHub).
HubTakes ==
    /\ broadcast # <<>>
    /\ broadcast' = Tail(broadcast)
    /\ shown' = [shown EXCEPT ![Head(broadcast)[1]] = Append(@, Head(broadcast)[2])]
    /\ UNCHANGED <<producers, router, inputs, kept, sent>>

-----------------------------------------------------------------------------
RouterStep == Store \/ Send \/ ForwardTelemetry \/ ForwardPUE \/ Trigger

Next == \/ \E s \in Sources : Produce(s) \/ RouterTakes(s)
        \/ ProducePUE
        \/ OptimizerTick \/ OptimizerTriggered \/ OptimizerDone
        \/ NotifierDrains
        \/ RouterStep
        \/ HubTakes

Spec == Init /\ [][Next]_vars

\* The hub never stalls (WebSocketHub!HubNeverStalls); the router's select
\* chooses at random, so a source that is ready again and again is taken; the
\* optimizer's statements return, and its select is fair to the trigger.
Fairness == /\ WF_vars(HubTakes)
            /\ WF_vars(RouterStep)
            /\ \A s \in Sources : SF_vars(RouterTakes(s))
            /\ SF_vars(OptimizerTriggered)
            /\ WF_vars(OptimizerDone)

FairSpec == Spec /\ Fairness

-----------------------------------------------------------------------------
\* Every variable has its type, and no channel is over its capacity.
TypeOK ==
    /\ made \in [Sources -> Nat] /\ high \subseteq Nat
    /\ out \in [Sources -> Seq(Nat)] /\ \A s \in Sources : Len(out[s]) <= OutCap
    /\ at \in {"idle", "store", "send", "forward", "trigger"}
    /\ src \in Sources /\ item \in Nat
    /\ broadcast \in Seq(Sources \X Nat) /\ Len(broadcast) <= BroadcastCap
    /\ telemetryIn \in Seq(Nat) /\ Len(telemetryIn) <= InCap
    /\ pueIn \in Seq(Nat) /\ Len(pueIn) <= InCap
    /\ triggerCh \in Seq(Nat) /\ Len(triggerCh) <= TriggerCap
    /\ optimizer \in {"idle", "optimizing"}
    /\ stored \in Seq(Nat) /\ unstored \subseteq Nat
    /\ pueGauge \in Nat /\ alarmsTotal \in Nat
    /\ sent \in [Sources -> Seq(Nat)] /\ shown \in [Sources -> Seq(Nat)]

\* What the router has of source s: what it has given away, and what it holds.
InRouter(s) == IF at \in {"store", "send"} /\ src = s THEN <<item>> ELSE <<>>
Taken(s)    == sent[s] \o InRouter(s)
Accepted(s) == Taken(s) \o out[s]

\* The refinement: what was accepted and is not shown is under way.
UnderWay == [s \in Sources |-> SubSeq(Accepted(s), Len(shown[s]) + 1, Len(Accepted(s)))]

Feed == INSTANCE EventFeed WITH Items <- UNION {1..Limit[s] : s \in Sources},
                                Room  <- OutCap + 1 + BroadcastCap,
                                queue <- UnderWay

\* Each source is a lossy but ordered feed: whatever the interleaving of the
\* four sources, an accepted item reaches the hub once and in order.
FeedSpec == Feed!Spec

\* Shown telemetry has been through the database first: it is stored, or its
\* insertion failed; the dashboard never runs ahead of the tables.
StoredBeforeShown ==
    \A i \in DOMAIN shown["telemetry"] :
        shown["telemetry"][i] \in Range(stored) \cup unstored

\* The metrics never lag behind the dashboard, and count no batch twice: the
\* gauge shows the newest record that was taken, and alarmsTotal the batches.
MetricsMatchFeed ==
    /\ alarmsTotal = Len(Taken("alarm"))
    /\ Taken("pue_update") # <<>> =>
           pueGauge = Taken("pue_update")[Len(Taken("pue_update"))]

\* A record wakes the optimizer only after the dashboard was given it, and
\* only if that very record is over the threshold.
TriggersJustified ==
    \A i \in DOMAIN triggerCh :
        /\ triggerCh[i] \in high
        /\ \/ triggerCh[i] \in Range(shown["pue_update"])
           \/ <<"pue_update", triggerCh[i]>> \in Range(broadcast)

\* An accepted item is shown in the end: the blocking send to the hub and the
\* loop router - optimizer - router hold nobody up for ever.
AcceptedIsShown ==
    \A s \in Sources : \A n \in 1..Limit[s] :
        n \in Range(out[s]) ~> n \in Range(shown[s])
=============================================================================
