-------------------------- MODULE CoolingOptimizer --------------------------
(***************************************************************************)
(* backend/cooling_optimizer.go: a round reads the newest sample of every  *)
(* zone, shares the cooling out again in proportion to the heat loads and  *)
(* writes, zone by zone and without a transaction, a demand row and, where *)
(* the zone should change by more than DiffPercent, a pending suggestion.  *)
(* Run offers the suggestions of a round that ended well to the router.    *)
(*                                                                         *)
(* What starts a round, the ticker or a PUE record, is in EventRouter.     *)
(* Heat loads are in units of 1/HeatLoadDivisor, and an optimal cooling is *)
(* a fraction <<numerator, denominator>>.                                  *)
(***************************************************************************)
EXTENDS Integers, Sequences, FiniteSets, Functions

CONSTANTS
    Zones,        \* the zones that may report
    Readings,     \* what a zone may report: a set of [warm, allocated]
    DiffPercent,  \* Optimization.DiffThreshold
    OutCap,       \* capacity of outCh (8)
    MaxRounds     \* bound: rounds started

ASSUME OptimizerAssumption == /\ IsFiniteSet(Zones)
                              /\ Readings \subseteq [warm : Int, allocated : Nat]
                              /\ DiffPercent \in Nat /\ OutCap \in Nat /\ MaxRounds \in Nat

VARIABLES
    at,           \* where optimize is
    rows,         \* its zones: a reading for each zone of the query's result
    todo,         \* the zones its loop has not visited
    zone,         \* the zone it visits
    found,        \* its suggestions
    round,        \* rounds started, which stands for the time column
    demand,       \* table zone_cooling_demand
    suggestions,  \* table optimization_suggestions, all pending
    out,          \* outCh
    announced,    \* history: the messages the router has taken
    lost          \* history: rounds that failed, died, or found outCh full

memory == <<at, rows, todo, zone, found>>
tables == <<demand, suggestions>>
vars   == <<memory, round, tables, out, announced, lost>>

Suggestion == [round : Nat, zone : Zones, current : Nat, suggested : Int \X Int]
Demand     == [round : Nat, zone : Zones, allocated : Nat, optimal : Int \X Int]

-----------------------------------------------------------------------------
(* The arithmetic *)

\* The heat load of a reading, and mutant: a zone under its setpoint counts
\* negative.
SignedHeat(r) == r.allocated * r.warm
Heat(r)       == IF r.warm < 0 THEN 0 ELSE r.allocated * r.warm

TotalHeat(rs)      == SumFunction([z \in DOMAIN rs |-> Heat(rs[z])])
TotalAllocated(rs) == SumFunction([z \in DOMAIN rs |-> rs[z].allocated])

\* A zone's share of the cooling; as it is, when no zone is warm.
Optimal(rs, z) == IF TotalHeat(rs) > 0
                  THEN <<TotalAllocated(rs) * Heat(rs[z]), TotalHeat(rs)>>
                  ELSE <<rs[z].allocated, 1>>

\* Whether |optimal - allocated| / allocated is over the threshold, where the
\* ratio of a zone without cooling is taken to be 0.
Differs(rs, z) ==
    LET best == Optimal(rs, z)[1]
        held == rs[z].allocated * Optimal(rs, z)[2]
        gap  == IF best < held THEN held - best ELSE best - held
    IN  rs[z].allocated # 0 /\ 100 * gap > DiffPercent * held

-----------------------------------------------------------------------------
Init == /\ at = "idle" /\ rows = <<>> /\ todo = {} /\ zone \in Zones /\ found = {}
        /\ round = 0 /\ demand = {} /\ suggestions = {}
        /\ out = <<>> /\ announced = {} /\ lost = {}

\* The query returns, with the zones that have devices and samples; the loops
\* over its rows and the totals need no statement.
StartRound ==
    /\ at = "idle" /\ round < MaxRounds
    /\ \E S \in SUBSET Zones : rows' \in [S -> Readings]
    /\ round' = round + 1
    /\ todo' = DOMAIN rows' /\ at' = "loop"
    /\ UNCHANGED <<zone, found, tables, out, announced, lost>>

\* The demand row of a zone of the round.
DemandRow(z) == [round |-> round, zone |-> z,
                 allocated |-> rows[z].allocated, optimal |-> Optimal(rows, z)]

\* INSERT INTO zone_cooling_demand for the next zone.
InsertDemand ==
    /\ at = "loop"
    /\ zone' \in todo /\ todo' = todo \ {zone'}
    /\ demand' = demand \cup {DemandRow(zone')}
    /\ at' = IF Differs(rows, zone') THEN "suggest" ELSE "loop"
    /\ UNCHANGED <<rows, found, round, suggestions, out, announced, lost>>

\* The pending row of the zone.
Row == [round |-> round, zone |-> zone, current |-> rows[zone].allocated,
        suggested |-> Optimal(rows, zone)]

\* INSERT INTO optimization_suggestions ... RETURNING id.
InsertSuggestion ==
    /\ at = "suggest"
    /\ suggestions' = suggestions \cup {Row} /\ found' = found \cup {Row}
    /\ at' = "loop"
    /\ UNCHANGED <<rows, todo, zone, round, demand, out, announced, lost>>

\* return nil, err: what the round has found is forgotten.  Mutants: it goes on
\* with the suggestion of the zone, or returns what it has so far.
Forget      == at' = "idle" /\ rows' = <<>> /\ todo' = {} /\ found' = {} /\ UNCHANGED zone
GoOn        == /\ at' = "suggest" /\ zone' \in todo /\ todo' = todo \ {zone'}
               /\ UNCHANGED <<rows, found>>
ReturnFound == at' = "loop" /\ todo' = {} /\ UNCHANGED <<rows, zone, found>>
DemandError     == Forget
SuggestionError == Forget

\* The INSERT of a demand row fails, or its row is stored and the answer lost.
DemandFails ==
    /\ at = "loop" /\ todo # {} /\ DemandError
    /\ \/ UNCHANGED demand
       \/ \E z \in todo : demand' = demand \cup {DemandRow(z)}
    /\ lost' = lost \cup {round}
    /\ UNCHANGED <<round, suggestions, out, announced>>

\* The INSERT of a suggestion fails, or its row is stored and the answer lost.
SuggestionFails ==
    /\ at = "suggest" /\ SuggestionError
    /\ \/ UNCHANGED suggestions
       \/ suggestions' = suggestions \cup {Row}
    /\ lost' = lost \cup {round}
    /\ UNCHANGED <<round, demand, out, announced>>

\* The send of Run, which does not wait.  Mutants: a channel without capacity, and
\* a full channel that loses its oldest item instead.
Unbounded(ch, m)  == Append(ch, m)
DropOldest(ch, m) == IF Len(ch) < OutCap THEN Append(ch, m) ELSE Append(Tail(ch), m)
TrySend(ch, m)    == IF Len(ch) < OutCap THEN Append(ch, m) ELSE ch

\* optimize returns its suggestions and Run offers them, if there are any.
Return ==
    /\ at = "loop" /\ todo = {} /\ Forget
    /\ \/ found = {} /\ UNCHANGED <<out, lost>>
       \/ /\ found # {} /\ out' = TrySend(out, found)
          /\ lost' = IF Len(out) < OutCap THEN lost ELSE lost \cup {round}
    /\ UNCHANGED <<round, tables, announced>>

\* The router takes a message (EventRouter!RouterTakes).
RouterTakes ==
    /\ out # <<>> /\ out' = Tail(out)
    /\ announced' = announced \cup {Head(out)}
    /\ UNCHANGED <<memory, round, tables, lost>>

\* The process dies and starts again; the tables stay.
Crash ==
    /\ at # "idle" \/ out # <<>>
    /\ Forget /\ out' = <<>>
    /\ lost' = lost \cup {s.round : s \in UNION {out[i] : i \in DOMAIN out}}
                    \cup (IF at = "idle" THEN {} ELSE {round})
    /\ UNCHANGED <<round, tables, announced>>

Next == \/ StartRound \/ InsertDemand \/ InsertSuggestion
        \/ DemandFails \/ SuggestionFails \/ Return
        \/ RouterTakes \/ Crash

Spec == Init /\ [][Next]_vars

-----------------------------------------------------------------------------
\* Every variable has its type.
TypeOK ==
    /\ at \in {"idle", "loop", "suggest"}
    /\ rows \in UNION {[S -> Readings] : S \in SUBSET Zones}
    /\ todo \subseteq DOMAIN rows /\ zone \in Zones
    /\ round \in 0..MaxRounds
    /\ demand \subseteq Demand /\ suggestions \subseteq Suggestion
    /\ found \subseteq suggestions
    /\ out \in Seq(SUBSET suggestions) /\ Len(out) <= OutCap
    /\ announced \subseteq SUBSET suggestions
    /\ lost \subseteq 1..MaxRounds

\* The tables agree, though nothing ties their rows together: a suggestion has
\* the demand row of its zone and round, with the same figures, whatever failed.
SuggestionHasDemand ==
    \A s \in suggestions :
        [round |-> s.round, zone |-> s.zone,
         allocated |-> s.current, optimal |-> s.suggested] \in demand

\* The rows of round n.
OfRound(n) == {s \in suggestions : s.round = n}
Messages   == announced \cup {out[i] : i \in DOMAIN out}

\* The dashboard is never told a part of a redistribution: a message holds
\* every suggestion of its round.
MessagesAreWhole ==
    \A m \in Messages : m # {} /\ \A s \in m : m = OfRound(s.round)

\* A pending suggestion nobody is told of belongs to a round that failed, died
\* or found the channel full; otherwise it is on its way.
NoSilentLoss ==
    \A s \in suggestions :
        \/ s.round \in lost
        \/ s \in found
        \/ \E m \in Messages : s \in m

\* The rows of round n in the demand table.
Shares(n) == {d \in demand : d.round = n}

\* In a round that was announced the cooling is only moved: no zone it read has a
\* negative share, and the shares of all of them, those that get no suggestion
\* included, add up to what was allocated.
CoolingIsMoved ==
    \A m \in Messages : \A s \in m :
        /\ \A d \in Shares(s.round) : d.optimal[1] >= 0 /\ d.optimal[2] = s.suggested[2]
        /\ SumFunction([d \in Shares(s.round) |-> d.optimal[1]])
               = s.suggested[2] * SumFunction([d \in Shares(s.round) |-> d.allocated])
=============================================================================
