----------------------- MODULE CoolingOptimizerProofs -----------------------
(***************************************************************************)
(* Proofs about CoolingOptimizer for every set of zones, readings, every   *)
(* threshold, capacity and number of rounds: the two tables agree, what    *)
(* the dashboard is told of a round is the whole of it and only moves the  *)
(* cooling, and no suggestion is lost in silence.  Beside them, the        *)
(* arithmetic of the PUE records that trigger its rounds.                  *)
(***************************************************************************)
EXTENDS CoolingOptimizer, PUERecord, CommonLemmas

(***************************************************************************)
(* Queue and rows                                                          *)
(***************************************************************************)

\* The messages in outCh are sets of stored rows, and so is what was found.
Stored == /\ out \in Seq(SUBSET suggestions) /\ OutCap \in Nat
          /\ found \subseteq suggestions
          /\ announced \subseteq SUBSET suggestions

\* What rows say about the round: none is of a later one, those found are of
\* this one, and none is in hand between two rounds.
Rounds == /\ round \in Nat
          /\ \A s \in suggestions : s.round \in Nat /\ s.round <= round
          /\ at = "idle" => found = {}
          /\ at # "idle" => found = OfRound(round)

\* The messages of a queue are its range.
LEMMA MessagesRange == /\ Messages = announced \cup Range(out)
                       /\ Messages' = announced' \cup Range(out')
BY DEF Messages, Range

\* A queue of sets of rows stays one when there are more rows.
LEMMA MoreRows ==
    ASSUME NEW S, NEW T, S \subseteq T, NEW q \in Seq(SUBSET S)
    PROVE  q \in Seq(SUBSET T)
<1>1. SUBSET S \subseteq SUBSET T
  OBVIOUS
<1>2. \A i \in 1..Len(q) : q[i] \in SUBSET T
  BY <1>1
<1>3. QED BY <1>2

\* The send without waiting adds the message or nothing.
LEMMA SendAdds ==
    ASSUME Stored
    PROVE  /\ TrySend(out, found) \in Seq(SUBSET suggestions)
           /\ Range(TrySend(out, found)) =
                  IF Len(out) < OutCap THEN Range(out) \cup {found} ELSE Range(out)
<1>1. CASE Len(out) < OutCap
  BY <1>1, RangeAppend DEF TrySend, Stored
<1>2. CASE ~(Len(out) < OutCap)
  BY <1>2 DEF TrySend, Stored
<1>3. QED BY <1>1, <1>2

\* Both hold initially, as there are no rows.
LEMMA RowsInit == Init => Stored /\ Rounds
<1> SUFFICES ASSUME Init PROVE Stored /\ Rounds
  OBVIOUS
<1>1. <<>> \in Seq(SUBSET suggestions)
  OBVIOUS
<1>2. QED BY <1>1, OptimizerAssumption DEF Init, Stored, Rounds

\* The row of the zone is of this round.
LEMMA RowRound == Row.round = round
BY DEF Row

\* Every step keeps the queue a queue of sets of rows.
LEMMA StoredStep == ASSUME Stored, [Next]_vars PROVE Stored'
<1> USE DEF Stored
<1>1. CASE UNCHANGED vars
  BY <1>1 DEF vars, memory, tables
<1>2. CASE StartRound
  BY <1>2 DEF StartRound, tables
<1>3. CASE InsertDemand
  BY <1>3 DEF InsertDemand
<1>4. CASE InsertSuggestion
  BY <1>4, MoreRows DEF InsertSuggestion
<1>5. CASE DemandFails
  BY <1>5 DEF DemandFails, DemandError, Forget, tables
<1>6. CASE SuggestionFails
  <2>1. suggestions \subseteq suggestions' /\ found' = {} /\ UNCHANGED <<out, announced>>
    BY <1>6 DEF SuggestionFails, SuggestionError, Forget
  <2>2. QED BY <2>1, MoreRows
<1>7. CASE Return
  BY <1>7, SendAdds DEF Return, Forget, tables
<1>8. CASE RouterTakes
  BY <1>8, RangeTail DEF RouterTakes, memory, tables
<1>9. CASE Crash
  <2>1. <<>> \in Seq(SUBSET suggestions)
    OBVIOUS
  <2>2. QED BY <1>9, <2>1 DEF Crash, Forget, tables
<1>10. QED BY <1>1, <1>2, <1>3, <1>4, <1>5, <1>6, <1>7, <1>8, <1>9 DEF Next

\* Every step keeps what rows say about the round.
LEMMA RoundsStep == ASSUME Stored, Rounds, [Next]_vars PROVE Rounds'
<1> USE DEF Rounds, OfRound
<1>1. CASE UNCHANGED vars
  BY <1>1 DEF vars, memory, tables
<1>2. CASE StartRound
  <2>1. found' = {} /\ round' = round + 1 /\ suggestions' = suggestions /\ at' = "loop"
    BY <1>2 DEF StartRound, tables
  <2>2. QED BY <2>1
<1>3. CASE InsertDemand
  BY <1>3 DEF InsertDemand
<1>4. CASE InsertSuggestion
  <2>1. /\ suggestions' = suggestions \cup {Row} /\ found' = found \cup {Row}
        /\ round' = round /\ at # "idle" /\ at' = "loop"
    BY <1>4 DEF InsertSuggestion
  <2>2. QED BY <2>1, RowRound
<1>5. CASE DemandFails
  BY <1>5 DEF DemandFails, DemandError, Forget, tables
<1>6. CASE SuggestionFails
  <2>1. /\ suggestions' \subseteq suggestions \cup {Row} /\ found' = {}
        /\ round' = round /\ at' = "idle"
    BY <1>6 DEF SuggestionFails, SuggestionError, Forget
  <2>2. QED BY <2>1, RowRound
<1>7. CASE Return
  BY <1>7 DEF Return, Forget, tables
<1>8. CASE RouterTakes
  BY <1>8 DEF RouterTakes, memory, tables
<1>9. CASE Crash
  BY <1>9 DEF Crash, Forget, tables
<1>10. QED BY <1>1, <1>2, <1>3, <1>4, <1>5, <1>6, <1>7, <1>8, <1>9 DEF Next

(***************************************************************************)
(* The tables agree                                                        *)
(***************************************************************************)

\* The demand row that goes with suggestion s.
DemandOf(s) == [round |-> s.round, zone |-> s.zone,
                allocated |-> s.current, optimal |-> s.suggested]

\* The zone about to be suggested has its demand row.
DemandFirst == /\ SuggestionHasDemand
               /\ at = "suggest" => DemandOf(Row) \in demand

\* The demand row of the row at hand.
LEMMA DemandOfRow ==
    DemandOf(Row) = [round |-> round, zone |-> zone,
                     allocated |-> rows[zone].allocated, optimal |-> Optimal(rows, zone)]
BY DEF DemandOf, Row

\* Every step keeps it.
LEMMA DemandStep == ASSUME DemandFirst, [Next]_vars PROVE DemandFirst'
<1>1. /\ \A s \in suggestions' : s \in suggestions \/ (at = "suggest" /\ s = Row)
      /\ demand \subseteq demand'
  BY DEF Next, vars, memory, tables, StartRound, InsertDemand, InsertSuggestion, DemandFails,
         SuggestionFails, Return, RouterTakes, Crash
<1>2. \A s \in suggestions : DemandOf(s) \in demand
  BY DEF DemandFirst, SuggestionHasDemand, DemandOf
<1>3. SuggestionHasDemand'
  BY <1>1, <1>2 DEF DemandFirst, SuggestionHasDemand, DemandOf
<1>4. ASSUME at' = "suggest" PROVE DemandOf(Row)' \in demand'
  <2>1. CASE InsertDemand
    <3>1. /\ rows' = rows /\ round' = round
          /\ demand' = demand \cup {[round |-> round, zone |-> zone',
                                     allocated |-> rows[zone'].allocated,
                                     optimal |-> Optimal(rows, zone')]}
      BY <2>1 DEF InsertDemand, DemandRow
    <3>2. QED BY <3>1, DemandOfRow DEF DemandOf, Row
  <2>2. CASE ~InsertDemand
    <3>1. at = "suggest" /\ UNCHANGED <<rows, zone, round>>
      BY <1>4, <2>2 DEF Next, vars, memory, StartRound, InsertSuggestion, DemandFails, DemandError,
             SuggestionFails, SuggestionError, Return, Forget, RouterTakes, Crash
    <3>2. QED BY <1>1, <3>1 DEF DemandFirst, DemandOf, Row
  <2>3. QED BY <2>1, <2>2
<1>5. QED BY <1>3, <1>4 DEF DemandFirst

\* A suggestion has the demand row of its zone and round, in every run.
THEOREM SuggestionHasDemandCorrect == Spec => []SuggestionHasDemand
<1>1. Init => DemandFirst
  BY DEF Init, DemandFirst, SuggestionHasDemand
<1>2. DemandFirst /\ [Next]_vars => DemandFirst'
  BY DemandStep
<1>3. DemandFirst => SuggestionHasDemand
  BY DEF DemandFirst
<1>4. QED BY <1>1, <1>2, <1>3, PTL DEF Spec

(***************************************************************************)
(* Messages                                                                *)
(***************************************************************************)

\* Only Return makes a message, of what was found, and only a crash destroys any.
LEMMA MessagesStep ==
    ASSUME Stored, [Next]_vars
    PROVE  /\ \/ Messages' \subseteq Messages
              \/ Return /\ found # {} /\ Messages' \subseteq Messages \cup {found}
           /\ Crash \/ Messages \subseteq Messages'
           /\ Return /\ found # {} => found \in Messages' \/ lost' = lost \cup {round}
<1> USE MessagesRange
<1>1. CASE Return
  <2>1. announced' = announced
    BY <1>1 DEF Return
  <2>2. CASE found = {}
    <3>1. out' = out
      BY <1>1, <2>2 DEF Return, Forget
    <3>2. QED BY <2>1, <2>2, <3>1
  <2>3. CASE found # {}
    <3>1. out' = TrySend(out, found)
          /\ lost' = IF Len(out) < OutCap THEN lost ELSE lost \cup {round}
      BY <1>1, <2>3 DEF Return
    <3>2. QED BY <1>1, <2>1, <2>3, <3>1, SendAdds
  <2>4. QED BY <2>2, <2>3
<1>2. CASE RouterTakes
  <2>1. /\ Range(out) = Range(Tail(out)) \cup {Head(out)}
        /\ out' = Tail(out) /\ announced' = announced \cup {Head(out)}
    BY <1>2, RangeTail DEF RouterTakes, Stored
  <2>2. CASE ~Return
    BY <1>2, <2>1, <2>2
  <2>3. QED BY <1>1, <2>2
<1>3. CASE Crash
  <2>1. Messages' = announced
    BY <1>3, EmptyQueue DEF Crash
  <2>2. CASE Return
    BY <1>1, <2>2
  <2>3. CASE ~Return
    BY <1>3, <2>1, <2>3
  <2>4. QED BY <2>2, <2>3
<1>4. CASE ~Return /\ ~RouterTakes /\ ~Crash
  <2>1. UNCHANGED <<out, announced>>
    BY <1>4 DEF Next, vars, StartRound, InsertDemand, InsertSuggestion, DemandFails, SuggestionFails
  <2>2. QED BY <1>4, <2>1
<1>5. QED BY <1>1, <1>2, <1>3, <1>4

\* Only this round gains rows.
LEMMA RowsGained ==
    ASSUME [Next]_vars
    PROVE  /\ suggestions \subseteq suggestions'
           /\ \A s \in suggestions' \ suggestions : at # "idle" /\ s = Row
BY DEF Next, vars, memory, tables, StartRound, InsertDemand, InsertSuggestion, DemandFails,
       SuggestionFails, Return, RouterTakes, Crash

\* A message is all of its round, which is over.
Whole == \A m \in Messages :
             /\ m # {}
             /\ \A s \in m : m = OfRound(s.round) /\ (at # "idle" => s.round # round)

\* Every step keeps it.
LEMMA WholeStep == ASSUME Stored, Rounds, Whole, [Next]_vars PROVE Whole'
<1>1. Stored' /\ Rounds'
  BY StoredStep, RoundsStep
<1>2. \A m \in Messages : m \subseteq suggestions
  BY MessagesRange, RangeInSet DEF Stored
<1>3. ASSUME NEW m \in Messages', m \notin Messages
      PROVE  m # {} /\ m = OfRound(round) /\ at' = "idle" /\ suggestions' = suggestions
  <2>1. Return /\ found # {} /\ m = found
    BY <1>3, MessagesStep
  <2>2. QED BY <2>1 DEF Return, Forget, Rounds, tables
<1>4. ASSUME NEW m \in Messages PROVE \A s \in m : m = OfRound(s.round)'
  <2>1. TAKE s \in m
  <2>2. m = OfRound(s.round) /\ (at # "idle" => s.round # round)
    BY DEF Whole
  <2>3. \A t \in suggestions' \ suggestions : t.round # s.round
    BY <2>2, RowsGained, RowRound
  <2>4. QED BY <2>2, <2>3, RowsGained DEF OfRound
<1>5. ASSUME NEW m \in Messages, NEW s \in m, at' # "idle" PROVE s.round # round'
  <2>1. s.round \in Nat /\ s.round <= round /\ round \in Nat
    BY <1>2 DEF Rounds
  <2>2. CASE at = "idle"
    <3>1. round' = round + 1
      BY <1>5, <2>2 DEF Next, vars, memory, StartRound, InsertDemand, InsertSuggestion, DemandFails,
             SuggestionFails, Return, RouterTakes, Crash, Forget
    <3>2. QED BY <2>1, <3>1
  <2>3. CASE at # "idle"
    <3>1. round' = round
      BY <2>3 DEF Next, vars, StartRound, InsertDemand, InsertSuggestion, DemandFails,
             SuggestionFails, Return, RouterTakes, Crash
    <3>2. QED BY <2>3, <3>1 DEF Whole
  <2>4. QED BY <2>2, <2>3
<1>6. ASSUME NEW m \in Messages', m \notin Messages PROVE \A s \in m : m = OfRound(s.round)'
  BY <1>3, <1>6 DEF OfRound
<1>7. QED BY <1>3, <1>4, <1>5, <1>6 DEF Whole

\* What the dashboard is told of a round is all of it, in every run.
THEOREM MessagesAreWholeCorrect == Spec => []MessagesAreWhole
<1> DEFINE IInv == Stored /\ Rounds /\ Whole
<1>1. Init => IInv
  BY RowsInit, EmptyQueue, MessagesRange DEF Init, Whole
<1>2. IInv /\ [Next]_vars => IInv'
  BY StoredStep, RoundsStep, WholeStep
<1>3. IInv => MessagesAreWhole
  BY DEF Whole, MessagesAreWhole
<1> HIDE DEF IInv
<1>4. QED BY <1>1, <1>2, <1>3, PTL DEF Spec

(***************************************************************************)
(* No silent loss                                                          *)
(***************************************************************************)

\* The rounds counted as lost stay so, a round that is given up becomes one, and
\* a crash counts those on their way.
LEMMA LostGains ==
    ASSUME [Next]_vars
    PROVE  /\ lost \subseteq lost'
           /\ (at # "idle" /\ found' # found /\ ~InsertSuggestion /\ ~Return) => round \in lost'
           /\ SuggestionFails => round \in lost'
           /\ Crash => \A m \in Range(out) : \A s \in m : s.round \in lost'
<1>1. CASE UNCHANGED vars
  BY <1>1 DEF vars, memory, SuggestionFails, Crash, Forget
<1>2. CASE Next
  <2>1. Crash => lost' = lost \cup {s.round : s \in UNION Range(out)}
                            \cup (IF at = "idle" THEN {} ELSE {round})
    BY DEF Crash, Range
  <2>2. QED BY <1>2, <2>1 DEF Next, memory, StartRound, InsertDemand, InsertSuggestion, DemandFails,
             SuggestionFails, Return, RouterTakes
<1>3. QED BY <1>1, <1>2

\* Every step keeps it.
LEMMA LossStep == ASSUME Stored, Rounds, NoSilentLoss, [Next]_vars PROVE NoSilentLoss'
<1> SUFFICES ASSUME NEW s \in suggestions'
             PROVE  s.round \in lost' \/ s \in found' \/ \E m \in Messages' : s \in m
  BY DEF NoSilentLoss
<1>1. CASE s \notin suggestions
  <2>1. s.round = round /\ (InsertSuggestion \/ SuggestionFails)
    <3>1. InsertSuggestion \/ SuggestionFails
      BY <1>1 DEF Next, vars, memory, tables, StartRound, InsertDemand, DemandFails, Return, RouterTakes, Crash
    <3>2. QED BY <1>1, <3>1, RowsGained, RowRound
  <2>2. CASE InsertSuggestion
    BY <1>1, <2>2 DEF InsertSuggestion
  <2>3. QED BY <2>1, <2>2, LostGains
<1>2. CASE s \in suggestions /\ s.round \in lost
  BY <1>2, LostGains
<1>3. CASE s \in found
  <2>1. at # "idle" /\ s.round = round /\ found # {}
    BY <1>3 DEF Rounds, OfRound
  <2>2. CASE Return
    BY <1>3, <2>1, <2>2, MessagesStep
  <2>3. CASE InsertSuggestion
    BY <1>3, <2>3 DEF InsertSuggestion
  <2>4. CASE ~Return /\ ~InsertSuggestion
    BY <1>3, <2>1, <2>4, LostGains
  <2>5. QED BY <2>2, <2>3, <2>4
<1>4. ASSUME NEW m \in Messages, s \in m
      PROVE  s.round \in lost' \/ \E n \in Messages' : s \in n
  <2>1. CASE Crash
    <3>1. announced' = announced
      BY <2>1 DEF Crash
    <3>2. QED BY <1>4, <2>1, <3>1, LostGains, MessagesRange
  <2>2. CASE ~Crash
    BY <1>4, <2>2, MessagesStep
  <2>3. QED BY <2>1, <2>2
<1>5. QED BY <1>1, <1>2, <1>3, <1>4 DEF NoSilentLoss

\* No pending suggestion is lost in silence, in any run.
THEOREM NoSilentLossCorrect == Spec => []NoSilentLoss
<1> DEFINE IInv == Stored /\ Rounds /\ NoSilentLoss
<1>1. Init => IInv
  BY RowsInit DEF Init, NoSilentLoss
<1>2. IInv /\ [Next]_vars => IInv'
  BY StoredStep, RoundsStep, LossStep
<1>3. IInv => NoSilentLoss
  OBVIOUS
<1> HIDE DEF IInv
<1>4. QED BY <1>1, <1>2, <1>3, PTL DEF Spec

(***************************************************************************)
(* Types                                                                   *)
(***************************************************************************)

\* What a round has read.
Plants == UNION {[S -> Readings] : S \in SUBSET Zones}

\* A round that is under way has a number and a zone it has read, and so has
\* each row; what else the types rest on.
InRound == /\ at # "idle" => round \in 1..MaxRounds
           /\ at = "suggest" => zone \in DOMAIN rows \ todo
           /\ \A s \in suggestions : s.round \in 1..MaxRounds
           /\ at = "idle" => found = {}

\* The zones of a round are finitely many, and its totals are numbers.
LEMMA PlantNumbers ==
    ASSUME NEW rs \in Plants
    PROVE  /\ DOMAIN rs \subseteq Zones /\ IsFiniteSet(DOMAIN rs)
           /\ \A z \in DOMAIN rs : rs[z].allocated \in Nat /\ Heat(rs[z]) \in Nat
           /\ TotalHeat(rs) \in Nat /\ TotalAllocated(rs) \in Nat
<1>1. PICK S \in SUBSET Zones : rs \in [S -> Readings]
  BY DEF Plants
<1>2. DOMAIN rs = S
  BY <1>1
<1>3. DOMAIN rs \subseteq Zones /\ IsFiniteSet(DOMAIN rs)
  BY <1>1, <1>2, OptimizerAssumption, FS_Subset
<1>4. ASSUME NEW z \in DOMAIN rs PROVE rs[z].allocated \in Nat /\ Heat(rs[z]) \in Nat
  <2>1. rs[z].allocated \in Nat /\ rs[z].warm \in Int
    BY <1>1, <1>2, OptimizerAssumption
  <2> DEFINE a == rs[z].allocated
             w == rs[z].warm
  <2>2. ASSUME ~(w < 0) PROVE a * w \in Nat
    <3> HIDE DEF a, w
    <3>1. a \in Nat /\ w \in Nat
      BY <2>1, <2>2 DEF a, w
    <3>2. QED BY <3>1
  <2>3. QED BY <2>1, <2>2 DEF Heat
<1> DEFINE h == [z \in DOMAIN rs |-> Heat(rs[z])]
           a == [z \in DOMAIN rs |-> rs[z].allocated]
<1>5. TotalHeat(rs) = SumFunctionOnSet(h, DOMAIN rs)
      /\ TotalAllocated(rs) = SumFunctionOnSet(a, DOMAIN rs)
  BY DEF TotalHeat, TotalAllocated, SumFunction
<1>6. \A z \in DOMAIN rs : h[z] \in Nat /\ a[z] \in Nat
  BY <1>4
<1> HIDE DEF h, a
<1>7. SumFunctionOnSet(h, DOMAIN rs) \in Nat /\ SumFunctionOnSet(a, DOMAIN rs) \in Nat
  BY <1>3, <1>6, SumNatural
<1>8. QED BY <1>3, <1>4, <1>5, <1>7

\* The denominator of every share.
Scale(rs) == IF TotalHeat(rs) > 0 THEN TotalHeat(rs) ELSE 1

\* A zone's share is a fraction that is not negative, and those of a round have
\* the same denominator.
LEMMA OptimalNumbers ==
    ASSUME NEW rs \in Plants, NEW z \in DOMAIN rs
    PROVE  Optimal(rs, z) \in Nat \X Nat /\ Optimal(rs, z)[2] = Scale(rs)
<1>1. /\ rs[z].allocated \in Nat /\ Heat(rs[z]) \in Nat
      /\ TotalHeat(rs) \in Nat /\ TotalAllocated(rs) \in Nat
  BY PlantNumbers
<1> DEFINE h == Heat(rs[z])
           t == TotalAllocated(rs)
<1>2. t * h \in Nat
  <2> HIDE DEF h, t
  <2>1. t \in Nat /\ h \in Nat
    BY <1>1 DEF h, t
  <2>2. QED BY <2>1
<1>3. QED BY <1>1, <1>2 DEF Optimal, Scale

\* The two rows of a zone have their types.
LEMMA RowTypes ==
    ASSUME NEW rs \in Plants, NEW z \in DOMAIN rs, NEW n \in Nat
    PROVE  /\ [round |-> n, zone |-> z, allocated |-> rs[z].allocated,
               optimal |-> Optimal(rs, z)] \in Demand
           /\ [round |-> n, zone |-> z, current |-> rs[z].allocated,
               suggested |-> Optimal(rs, z)] \in Suggestion
BY PlantNumbers, OptimalNumbers DEF Demand, Suggestion

\* The types and what they rest on.
Typed == TypeOK /\ InRound

\* Row is a suggestion of the round while one is made.
LEMMA RowTyped ==
    ASSUME Typed, at = "suggest"
    PROVE  Row \in Suggestion /\ Row.round \in 1..MaxRounds
<1>1. rows \in Plants /\ zone \in DOMAIN rows /\ round \in Nat /\ round \in 1..MaxRounds
  BY DEF Typed, TypeOK, InRound, Plants
<1>2. QED BY <1>1, RowTypes, RowRound DEF Row

\* A round that is forgotten has read nothing.
LEMMA NoPlant == <<>> \in Plants /\ DOMAIN <<>> = {}
<1>1. <<>> \in [{} -> Readings]
  OBVIOUS
<1>2. QED BY <1>1 DEF Plants

\* The messages are sets of rows, so that those of outCh name rounds that were.
LEMMA MessageRounds ==
    ASSUME Typed
    PROVE  /\ {s.round : s \in UNION {out[i] : i \in DOMAIN out}} \subseteq 1..MaxRounds
           /\ \A m \in Messages : m \subseteq suggestions
<1>1. out \in Seq(SUBSET suggestions) /\ announced \subseteq SUBSET suggestions
  BY DEF Typed, TypeOK
<1>2. \A i \in DOMAIN out : out[i] \subseteq suggestions
  BY <1>1
<1>3. QED BY <1>1, <1>2 DEF Typed, InRound, Messages

\* Initially every variable has its type.
LEMMA TypedInit == Init => Typed
<1> SUFFICES ASSUME Init PROVE Typed
  OBVIOUS
<1>1. rows = <<>> /\ out = <<>> /\ at = "idle" /\ suggestions = {} /\ found = {}
  BY DEF Init
<1>2. rows \in Plants /\ DOMAIN rows = {} /\ out \in Seq(SUBSET suggestions) /\ Len(out) = 0
  BY <1>1, NoPlant
<1>3. QED BY <1>1, <1>2, OptimizerAssumption DEF Init, Typed, TypeOK, InRound, Plants

\* Giving the round up changes the types of nothing else.
LEMMA ForgetTyped ==
    ASSUME Typed, Forget
    PROVE  /\ at' = "idle" /\ rows' \in Plants /\ DOMAIN rows' = {} /\ todo' = {}
           /\ zone' \in Zones /\ found' = {}
BY NoPlant DEF Forget, Typed, TypeOK

\* Every step keeps the types.
LEMMA TypedStep == ASSUME Typed, [Next]_vars PROVE Typed'
<1>1. /\ at \in {"idle", "loop", "suggest"} /\ rows \in Plants
      /\ todo \subseteq DOMAIN rows /\ zone \in Zones /\ round \in 0..MaxRounds
      /\ demand \subseteq Demand /\ suggestions \subseteq Suggestion /\ found \subseteq suggestions
      /\ out \in Seq(SUBSET suggestions) /\ Len(out) <= OutCap
      /\ announced \subseteq SUBSET suggestions /\ lost \subseteq 1..MaxRounds /\ InRound
      /\ MaxRounds \in Nat /\ OutCap \in Nat
  BY OptimizerAssumption DEF Typed, TypeOK, Plants
<1>2. SUFFICES
      /\ at' \in {"idle", "loop", "suggest"} /\ rows' \in Plants
      /\ todo' \subseteq DOMAIN rows' /\ zone' \in Zones /\ round' \in 0..MaxRounds
      /\ demand' \subseteq Demand /\ suggestions' \subseteq Suggestion
      /\ found' \subseteq suggestions'
      /\ out' \in Seq(SUBSET suggestions') /\ Len(out') <= OutCap
      /\ announced' \subseteq SUBSET suggestions' /\ lost' \subseteq 1..MaxRounds /\ InRound'
  BY DEF Typed, TypeOK, Plants
<1>3. CASE UNCHANGED vars
  BY <1>1, <1>3 DEF vars, memory, tables, InRound
<1>4. CASE StartRound
  <2>1. rows' \in Plants /\ round' \in 1..MaxRounds
    BY <1>1, <1>4 DEF StartRound, Plants
  <2>2. QED BY <1>1, <1>4, <2>1 DEF StartRound, tables, InRound
<1>5. CASE InsertDemand
  <2>1. zone' \in DOMAIN rows /\ zone' \in Zones /\ round \in Nat
    BY <1>1, <1>5, PlantNumbers DEF InsertDemand
  <2>2. demand' \subseteq Demand
    BY <1>1, <1>5, <2>1, RowTypes DEF InsertDemand, DemandRow
  <2>3. QED BY <1>1, <1>5, <2>1, <2>2 DEF InsertDemand, InRound
<1>6. CASE InsertSuggestion
  <2>1. /\ suggestions' = suggestions \cup {Row} /\ found' = found \cup {Row}
        /\ Row \in Suggestion /\ Row.round \in 1..MaxRounds
    BY <1>6, RowTyped DEF InsertSuggestion
  <2>2. out \in Seq(SUBSET suggestions')
    BY <1>1, <2>1, MoreRows
  <2>3. QED BY <1>1, <1>6, <2>1, <2>2 DEF InsertSuggestion, InRound
<1>7. CASE DemandFails
  <2>1. Forget /\ round \in 1..MaxRounds
    BY <1>1, <1>7 DEF DemandFails, DemandError, InRound
  <2>2. \A z \in todo : DemandRow(z) \in Demand
    <3>1. round \in Nat /\ \A z \in todo : z \in DOMAIN rows
      BY <1>1, <2>1
    <3>2. QED BY <1>1, <3>1, RowTypes DEF DemandRow
  <2>3. demand' \subseteq Demand
    BY <1>1, <1>7, <2>2 DEF DemandFails
  <2>4. QED BY <1>1, <1>7, <2>1, <2>3, ForgetTyped DEF DemandFails, InRound
<1>8. CASE SuggestionFails
  <2>1. /\ Forget /\ round \in 1..MaxRounds
        /\ suggestions \subseteq suggestions' /\ suggestions' \subseteq suggestions \cup {Row}
        /\ Row \in Suggestion /\ Row.round \in 1..MaxRounds
    BY <1>1, <1>8, RowTyped DEF SuggestionFails, SuggestionError, InRound
  <2>2. out \in Seq(SUBSET suggestions')
    BY <1>1, <2>1, MoreRows
  <2>3. QED BY <1>1, <1>8, <2>1, <2>2, ForgetTyped DEF SuggestionFails, InRound
<1>9. CASE Return
  <2>1. /\ Forget /\ round \in 1..MaxRounds /\ suggestions' = suggestions
        /\ UNCHANGED <<round, demand, announced>>
    BY <1>1, <1>9 DEF Return, InRound, tables
  <2>2. CASE found = {}
    <3>1. UNCHANGED <<out, lost>>
      BY <1>9, <2>2 DEF Return
    <3>2. QED BY <1>1, <2>1, <3>1, ForgetTyped DEF InRound
  <2>3. CASE found # {}
    <3>1. out' = TrySend(out, found) /\ lost' \subseteq lost \cup {round}
      BY <1>9, <2>3 DEF Return
    <3>2. TrySend(out, found) \in Seq(SUBSET suggestions) /\ Len(TrySend(out, found)) <= OutCap
      BY <1>1 DEF TrySend
    <3>3. QED BY <1>1, <2>1, <3>1, <3>2, ForgetTyped DEF InRound
  <2>4. QED BY <2>2, <2>3
<1>10. CASE RouterTakes
  <2>1. Tail(out) \in Seq(SUBSET suggestions) /\ Head(out) \in SUBSET suggestions
        /\ Len(Tail(out)) <= OutCap
    BY <1>1, <1>10 DEF RouterTakes
  <2>2. QED BY <1>1, <1>10, <2>1 DEF RouterTakes, memory, tables, InRound
<1>11. CASE Crash
  <2>1. Forget /\ out' = <<>> /\ UNCHANGED <<round, demand, suggestions, announced>>
        /\ lost' \subseteq 1..MaxRounds
    BY <1>1, <1>11, MessageRounds DEF Crash, tables, InRound
  <2>2. out' \in Seq(SUBSET suggestions') /\ Len(out') <= OutCap
    BY <1>1, <2>1
  <2>3. QED BY <1>1, <2>1, <2>2, ForgetTyped DEF InRound
<1>12. QED BY <1>3, <1>4, <1>5, <1>6, <1>7, <1>8, <1>9, <1>10, <1>11 DEF Next

\* Every variable has its type, in every run.
THEOREM TypeCorrect == Spec => []TypeOK
<1>1. Typed /\ [Next]_vars => Typed'
  BY TypedStep
<1>2. Typed => TypeOK
  BY DEF Typed
<1>3. QED BY TypedInit, <1>1, <1>2, PTL DEF Spec

(***************************************************************************)
(* The cooling is moved                                                    *)
(***************************************************************************)

\* What the demand table says about the round: no row is of a later one, and
\* those of the one under way are of the zones it has visited, all figured from
\* what it has read, as its suggestions are.
Shared == /\ \A d \in demand : d.round <= round
          /\ at # "idle" => Shares(round) = {DemandRow(z) : z \in DOMAIN rows \ todo}
          /\ \A s \in found : s.zone \in DOMAIN rows /\ s.suggested = Optimal(rows, s.zone)

\* Every step keeps it.
LEMMA SharedStep == ASSUME Typed, Shared, [Next]_vars PROVE Shared'
<1>1. /\ round \in Nat /\ rows \in Plants /\ todo \subseteq DOMAIN rows /\ demand \subseteq Demand
      /\ at = "idle" => found = {}
      /\ at = "suggest" => zone \in DOMAIN rows
  BY OptimizerAssumption DEF Typed, TypeOK, InRound, Plants
<1>2. CASE UNCHANGED vars
  BY <1>2 DEF Shared, Shares, DemandRow, vars, memory, tables
<1>3. CASE StartRound
  <2>1. /\ round' = round + 1 /\ todo' = DOMAIN rows' /\ demand' = demand /\ found' = {}
    BY <1>1, <1>3 DEF StartRound, tables
  <2>2. \A d \in demand : d.round <= round /\ d.round \in Nat
    BY <1>1 DEF Shared, Demand
  <2>3. \A d \in demand : d.round # round + 1 /\ d.round <= round + 1
    BY <1>1, <2>2
  <2>4. QED BY <2>1, <2>3 DEF Shared, Shares
<1>4. CASE InsertDemand
  <2>1. /\ zone' \in todo /\ todo' = todo \ {zone'} /\ at # "idle"
        /\ demand' = demand \cup {DemandRow(zone')}
        /\ UNCHANGED <<rows, found, round>>
    BY <1>4 DEF InsertDemand, DemandRow
  <2>2. \A z : DemandRow(z).round = round /\ DemandRow(z)' = DemandRow(z)
    BY <2>1 DEF DemandRow
  <2>3. Shares(round)' = Shares(round) \cup {DemandRow(zone')}
    BY <2>1, <2>2 DEF Shares
  <2>4. DOMAIN rows' \ todo' = (DOMAIN rows \ todo) \cup {zone'}
    BY <1>1, <2>1
  <2>5. Shares(round)' = {DemandRow(z) : z \in DOMAIN rows' \ todo'}
    BY <2>1, <2>3, <2>4 DEF Shared
  <2>6. \A d \in demand' : d.round <= round'
    BY <1>1, <2>1, <2>2 DEF Shared
  <2>7. QED BY <2>1, <2>2, <2>5, <2>6 DEF Shared
<1>5. CASE InsertSuggestion
  <2>1. /\ found' = found \cup {Row} /\ zone \in DOMAIN rows /\ at # "idle"
        /\ UNCHANGED <<rows, todo, round, demand>>
    BY <1>1, <1>5 DEF InsertSuggestion
  <2>2. Row.zone = zone /\ Row.suggested = Optimal(rows, zone)
    BY DEF Row
  <2>3. QED BY <2>1, <2>2 DEF Shared, Shares, DemandRow
<1>6. CASE DemandFails \/ SuggestionFails \/ Return \/ Crash
  <2>1. Forget /\ round' = round /\ demand' \subseteq demand \cup {DemandRow(z) : z \in todo}
    BY <1>6 DEF DemandFails, DemandError, SuggestionFails, SuggestionError, Return, Crash, tables
  <2>2. \A d \in demand' : d.round <= round'
    BY <1>1, <2>1 DEF Shared, DemandRow
  <2>3. QED BY <2>1, <2>2 DEF Forget, Shared
<1>7. CASE RouterTakes
  BY <1>7 DEF RouterTakes, memory, tables, Shared, Shares, DemandRow
<1>8. QED BY <1>2, <1>3, <1>4, <1>5, <1>6, <1>7 DEF Next

\* The shares of all zones of a plant add up to what they are allocated.
LEMMA SharesAddUp ==
    ASSUME NEW rs \in Plants
    PROVE  SumFunctionOnSet([z \in DOMAIN rs |-> Optimal(rs, z)[1]], DOMAIN rs)
               = Scale(rs) * SumFunctionOnSet([z \in DOMAIN rs |-> rs[z].allocated], DOMAIN rs)
<1> DEFINE R == DOMAIN rs
           h == [z \in R |-> Heat(rs[z])]
           a == [z \in R |-> rs[z].allocated]
           o == [z \in R |-> Optimal(rs, z)[1]]
           H == TotalHeat(rs)
           A == TotalAllocated(rs)
<1>1. H = SumFunctionOnSet(h, R) /\ A = SumFunctionOnSet(a, R)
  BY DEF TotalHeat, TotalAllocated, SumFunction
<1>2. IsFiniteSet(R) /\ H \in Nat /\ A \in Nat
  BY PlantNumbers
<1>3. \A z \in R : h[z] \in Nat /\ a[z] \in Nat
  BY PlantNumbers
<1>4. CASE H > 0
  <2>1. \A z \in R : o[z] = A * h[z]
    BY <1>4 DEF Optimal
  <2> HIDE DEF R, h, a, o, H, A
  <2>2. SumFunctionOnSet(o, R) = A * SumFunctionOnSet(h, R)
    <3>1. IntegersOn(h, R) /\ A \in Int
      BY <1>2, <1>3 DEF IntegersOn
    <3>2. QED BY <1>2, <2>1, <3>1, SumScaled
  <2>3. Scale(rs) = H
    BY <1>4 DEF Scale, H
  <2>4. A * H = H * A
    BY <1>2
  <2>5. QED BY <1>1, <2>2, <2>3, <2>4 DEF R, h, a, o
<1>5. CASE ~(H > 0)
  <2>1. \A z \in R : o[z] = a[z]
    BY <1>5 DEF Optimal
  <2> HIDE DEF R, h, a, o, H, A
  <2>2. SumFunctionOnSet(o, R) = SumFunctionOnSet(a, R)
    BY <1>2, <2>1, SumEqual
  <2>3. Scale(rs) = 1
    BY <1>5 DEF Scale, H
  <2>4. QED BY <1>1, <1>2, <2>2, <2>3 DEF R, h, a, o
<1>6. QED BY <1>4, <1>5

\* What CoolingIsMoved asks of the rows D of a round whose shares have the
\* denominator k.
Moved(D, k) == /\ \A d \in D : d.optimal[1] >= 0 /\ d.optimal[2] = k
               /\ SumFunction([d \in D |-> d.optimal[1]])
                      = k * SumFunction([d \in D |-> d.allocated])

\* The demand rows of a round that has visited every zone are one for each, so
\* that they add up as the zones do.
LEMMA RoundMoves ==
    ASSUME Typed
    PROVE  Moved({DemandRow(z) : z \in DOMAIN rows}, Scale(rows))
<1> DEFINE R == DOMAIN rows
           h == [z \in R |-> DemandRow(z)]
           D == {h[z] : z \in R}
           o == [z \in R |-> Optimal(rows, z)[1]]
           a == [z \in R |-> rows[z].allocated]
           od == [d \in D |-> d.optimal[1]]
           ad == [d \in D |-> d.allocated]
<1>1. rows \in Plants
  BY DEF Typed, TypeOK, Plants
<1>2. \A z \in R : Optimal(rows, z) \in Nat \X Nat /\ Optimal(rows, z)[2] = Scale(rows)
  BY <1>1, OptimalNumbers
<1>3. \A z \in R : /\ h[z].optimal = Optimal(rows, z) /\ h[z].allocated = rows[z].allocated
                   /\ h[z].zone = z
  BY DEF DemandRow
<1>4. {DemandRow(z) : z \in R} = D
  OBVIOUS
<1>5. \A z \in R : od[h[z]] = o[z] /\ ad[h[z]] = a[z] /\ o[z] \in Int /\ a[z] \in Int
  BY <1>1, <1>2, <1>3, PlantNumbers
<1>6. \A d \in D : d.optimal[1] >= 0 /\ d.optimal[2] = Scale(rows)
  BY <1>2, <1>3
<1>7. SumFunction(od) = SumFunctionOnSet(od, D) /\ SumFunction(ad) = SumFunctionOnSet(ad, D)
  BY DEF SumFunction
<1>8. SumFunctionOnSet(o, R) = Scale(rows) * SumFunctionOnSet(a, R)
  BY <1>1, SharesAddUp
<1>9. IsFiniteSet(R)
  BY <1>1, PlantNumbers
<1> HIDE DEF h, o, a, od, ad, R
<1>10. \A x, y \in R : h[x] = h[y] => x = y
  BY <1>3
<1>11. IntegersOn(o, R) /\ IntegersOn(a, R)
  BY <1>5 DEF IntegersOn
<1>12. SumFunctionOnSet(od, D) = SumFunctionOnSet(o, R)
  BY <1>5, <1>9, <1>10, <1>11, SumImage
<1>13. SumFunctionOnSet(ad, D) = SumFunctionOnSet(a, R)
  BY <1>5, <1>9, <1>10, <1>11, SumImage
<1>14. SumFunction(od) = Scale(rows) * SumFunction(ad)
  BY <1>7, <1>8, <1>12, <1>13
<1>15. QED BY <1>4, <1>6, <1>14 DEF Moved, od, ad, R

\* Every step keeps it: a new message is of a round that has visited every zone,
\* and the rows of the round of an old one stay what they were.
LEMMA MovedStep ==
    ASSUME Typed, Stored, Rounds, Whole, Shared, CoolingIsMoved, [Next]_vars
    PROVE  CoolingIsMoved'
<1>1. \A m \in Messages : \A s \in m : Moved(Shares(s.round), s.suggested[2])
  BY DEF CoolingIsMoved, Moved
<1>2. SUFFICES ASSUME NEW m \in Messages', NEW s \in m
               PROVE  Moved(Shares(s.round)', s.suggested[2])
  BY DEF CoolingIsMoved, Moved
<1>3. CASE m \in Messages
  <2>1. at # "idle" => s.round # round
    BY <1>3 DEF Whole
  <2>2. /\ demand \subseteq demand'
        /\ \A d \in demand' \ demand : at # "idle" /\ d.round = round
    BY DEF Next, vars, memory, tables, StartRound, InsertDemand, InsertSuggestion, DemandFails,
           SuggestionFails, Return, RouterTakes, Crash, DemandRow
  <2>3. Shares(s.round)' = Shares(s.round)
    BY <2>1, <2>2 DEF Shares
  <2>4. QED BY <1>1, <1>3, <2>3
<1>4. CASE m \notin Messages
  <2>1. Return /\ m = found
    BY <1>4, MessagesStep
  <2>2. /\ at # "idle" /\ todo = {} /\ demand' = demand
    BY <2>1 DEF Return, tables
  <2>3. s.round = round
    BY <2>1, <2>2 DEF Rounds, OfRound
  <2>4. s.zone \in DOMAIN rows /\ s.suggested = Optimal(rows, s.zone) /\ rows \in Plants
    BY <2>1 DEF Shared, Typed, TypeOK, Plants
  <2>5. s.suggested[2] = Scale(rows)
    BY <2>4, OptimalNumbers
  <2>6. Shares(s.round)' = {DemandRow(z) : z \in DOMAIN rows}
    BY <2>2, <2>3 DEF Shared, Shares
  <2>7. QED BY <2>5, <2>6, RoundMoves
<1>5. QED BY <1>3, <1>4

\* In a round that was announced the cooling is only moved, in every run.
THEOREM CoolingIsMovedCorrect == Spec => []CoolingIsMoved
<1> DEFINE IInv == Typed /\ Stored /\ Rounds /\ Whole /\ Shared /\ CoolingIsMoved
<1>1. Init => IInv
  <2> SUFFICES ASSUME Init PROVE IInv
    OBVIOUS
  <2>1. Messages = {}
    BY EmptyQueue, MessagesRange DEF Init
  <2>2. Shared
    BY DEF Init, Shared
  <2>3. QED BY <2>1, <2>2, TypedInit, RowsInit DEF Whole, CoolingIsMoved
<1>2. IInv /\ [Next]_vars => IInv'
  BY TypedStep, StoredStep, RoundsStep, WholeStep, SharedStep, MovedStep
<1>3. IInv => CoolingIsMoved
  OBVIOUS
<1> HIDE DEF IInv
<1>4. QED BY <1>1, <1>2, <1>3, PTL DEF Spec

(***************************************************************************)
(* The figures of a PUE record                                             *)
(***************************************************************************)

\* A loss ratio under one hundred percent leaves some of a positive power, and
\* both parts add up.
LEMMA Split ==
    ASSUME NEW g \in Nat \ {0}, NEW p \in 0..99
    PROVE  g * (100 - p) > 0 /\ g * p >= 0 /\ g * (100 - p) + g * p = 100 * g
<1>1. 100 - p \in Nat \ {0}
  OBVIOUS
<1>2. g * (100 - p) \in Nat \ {0} /\ g * p \in Nat
  BY <1>1
<1>3. QED BY <1>2

\* With a default that is not zero, whatever the readings say and the ratio is,
\* a record has a positive IT power and a PUE of at least one; IT power and loss
\* add up to the gross power, so that the loss is counted once.
THEOREM PUEAtLeastOne ==
    ASSUME ITDefault \in Nat \ {0}, LossPercent \in Nat,
           NEW reading \in Nat, NEW c \in Nat
    PROVE  LET g == GrossITPower(reading)
               r == Record(c, g)
           IN  /\ r.itPower > 0 /\ r.total >= r.itPower
               /\ r.itPower + r.loss = 100 * g /\ r.total = 100 * (g + c)
<1> DEFINE g == GrossITPower(reading)
           p == IF g * (100 - LossPercent) <= 0 THEN 3 ELSE LossPercent
<1>1. g \in Nat \ {0}
  BY DEF GrossITPower
<1> HIDE DEF g
<1>2. p \in 0..99
  <2>1. CASE LossPercent <= 99
    BY <2>1
  <2>2. CASE LossPercent > 99
    <3>1. LossPercent - 100 \in Nat
      BY <2>2
    <3>2. g * (LossPercent - 100) \in Nat
      BY <1>1, <3>1
    <3>3. g * (100 - LossPercent) = 0 - g * (LossPercent - 100)
      BY <1>1
    <3>4. QED BY <3>2, <3>3
  <2>3. QED BY <2>1, <2>2
<1>3. /\ Record(c, g).itPower = g * (100 - p) /\ Record(c, g).loss = g * p
      /\ Record(c, g).total = g * (100 - p) + 100 * c + g * p
  BY DEF Record
<1> HIDE DEF p
<1>4. g * (100 - p) > 0 /\ g * p >= 0 /\ g * (100 - p) + g * p = 100 * g
  BY <1>1, <1>2, Split
<1>5. g * (100 - p) \in Int /\ g * p \in Int /\ 100 * g \in Int
  BY <1>1, <1>2
<1>6. QED BY <1>1, <1>3, <1>4, <1>5 DEF g
=============================================================================
