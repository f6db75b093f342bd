------------------------ MODULE ModbusGatewayProofs ------------------------
(***************************************************************************)
(* Proofs about ModbusGateway for every number of units and attempts,      *)
(* every length of header and registers and every pair of timeouts: no     *)
(* leaked socket, whole batches, a harmless cleanup, and, when answers     *)
(* arrive in one piece, readings of the right device and no panic.         *)
(***************************************************************************)
EXTENDS ModbusGateway, SequenceTheorems, TLAPS

(***************************************************************************)
(* Bytes                                                                   *)
(***************************************************************************)

\* The sizes are naturals.
LEMMA Sizes == /\ Units \in Nat \ {0} /\ MaxRetries \in Nat \ {0} /\ HeaderLen \in Nat \ {0}
               /\ Spare \in Nat /\ Needed \in Nat \ {0, 1} /\ Nil \notin Sockets
               /\ ReadTimeout \in Nat \ {0} /\ IdleLimit \in Nat /\ ReadTimeout <= IdleLimit
               /\ DataLen \in Nat \ {0, 1} /\ Needed <= DataLen
BY SizeAssumption, TimeAssumption DEF DataLen

\* A piece of an answer is a sequence of bytes of the length it should have.
LEMMA PieceType ==
    ASSUME NEW req \in Requests, NEW ok \in BOOLEAN,
           NEW a \in Nat \ {0}, NEW b \in Nat, a <= b + 1, b <= HeaderLen + DataLen
    PROVE  /\ Piece(req, ok, a, b) \in Seq(Bytes)
           /\ Len(Piece(req, ok, a, b)) = b - a + 1
           /\ \A k \in 1..(b - a + 1) :
                 Piece(req, ok, a, b)[k] = [req |-> req, ok |-> ok, at |-> a + k - 1]
<1> DEFINE p == Piece(req, ok, a, b)
           n == b - a + 1
<1>1. n \in Nat /\ p = [k \in 1..n |-> [req |-> req, ok |-> ok, at |-> a + k - 1]]
  BY DEF Piece
<1>2. ASSUME NEW k \in 1..n PROVE [req |-> req, ok |-> ok, at |-> a + k - 1] \in Bytes
  <2>1. a + k - 1 \in 1..(HeaderLen + DataLen)
    BY Sizes
  <2>2. QED BY <2>1 DEF Bytes
<1>3. p \in [1..n -> Bytes]
  <2> HIDE DEF p, n
  <2>1. QED BY <1>1, <1>2
<1> HIDE DEF p, n
<1>4. p \in Seq(Bytes)
  BY <1>1, <1>3, SeqDef
<1>5. Len(p) = n
  BY <1>1, <1>3, <1>4, LenProperties
<1>6. \A k \in 1..n : p[k] = [req |-> req, ok |-> ok, at |-> a + k - 1]
  BY <1>1
<1>7. QED BY <1>4, <1>5, <1>6 DEF p, n

\* What the header and the registers of an answer look like.
LEMMA Frames ==
    ASSUME NEW req \in Requests
    PROVE  /\ Data(req) \in Seq(Bytes) /\ Len(Data(req)) = DataLen
           /\ \A ok \in BOOLEAN : /\ Header(req, ok) \in Seq(Bytes)
                                  /\ Len(Header(req, ok)) = HeaderLen
                                  /\ Header(req, ok)[HeaderLen].at = HeaderLen
                                  /\ Header(req, ok)[HeaderLen].ok = ok
<1>1. Data(req) \in Seq(Bytes) /\ Len(Data(req)) = DataLen
  <2> DEFINE a == HeaderLen + 1
             b == HeaderLen + DataLen
  <2>1. a \in Nat \ {0} /\ b \in Nat /\ a <= b + 1 /\ b - a + 1 = DataLen
    BY Sizes
  <2>2. Data(req) = Piece(req, TRUE, a, b)
    BY DEF Data
  <2>3. b <= HeaderLen + DataLen
    BY Sizes
  <2> HIDE DEF a, b
  <2>4. Piece(req, TRUE, a, b) \in Seq(Bytes) /\ Len(Piece(req, TRUE, a, b)) = b - a + 1
    BY <2>1, <2>3, PieceType
  <2>5. QED BY <2>1, <2>2, <2>4
<1>2. ASSUME NEW ok \in BOOLEAN
      PROVE  /\ Header(req, ok) \in Seq(Bytes) /\ Len(Header(req, ok)) = HeaderLen
             /\ Header(req, ok)[HeaderLen].at = HeaderLen
             /\ Header(req, ok)[HeaderLen].ok = ok
  <2>1. /\ 1 \in Nat \ {0} /\ HeaderLen \in Nat /\ 1 <= HeaderLen + 1
        /\ HeaderLen <= HeaderLen + DataLen /\ HeaderLen - 1 + 1 = HeaderLen
        /\ HeaderLen \in 1..HeaderLen /\ 1 + HeaderLen - 1 = HeaderLen
    BY Sizes
  <2> DEFINE p == Piece(req, ok, 1, HeaderLen)
  <2>2. p \in Seq(Bytes) /\ Len(p) = HeaderLen - 1 + 1
        /\ \A k \in 1..(HeaderLen - 1 + 1) : p[k] = [req |-> req, ok |-> ok, at |-> 1 + k - 1]
    BY <2>1, PieceType
  <2> HIDE DEF p
  <2>3. p[HeaderLen] = [req |-> req, ok |-> ok, at |-> HeaderLen]
    BY <2>1, <2>2
  <2>4. QED BY <2>1, <2>2, <2>3 DEF Header, p
<1>3. QED BY <1>1, <1>2

\* An answer is a sequence of bytes.
LEMMA AnswerType == ASSUME NEW req \in Requests PROVE AnswerTo(req) \in Seq(Bytes)
BY Frames, ConcatProperties DEF AnswerTo

\* Reading n bytes splits the stream.
LEMMA ReadTypes ==
    ASSUME stream \in Seq(Bytes), NEW n \in Nat
    PROVE  /\ Took(n) \in Seq(Bytes) /\ Remain(n) \in Seq(Bytes)
           /\ Len(Took(n)) = IF n < Len(stream) THEN n ELSE Len(stream)
<1> DEFINE m == IF n < Len(stream) THEN n ELSE Len(stream)
<1>1. /\ Len(stream) \in Nat /\ m \in 0..Len(stream)
      /\ \A i \in 1..Len(stream) : stream[i] \in Bytes
  BY LenProperties
<1>2. Took(n) \in Seq(Bytes) /\ Len(Took(n)) = m
  <2>1. \A i \in 1..m : stream[i] \in Bytes
    BY <1>1
  <2> HIDE DEF m
  <2>2. /\ SubSeq(stream, 1, m) \in Seq(Bytes)
        /\ Len(SubSeq(stream, 1, m)) = IF 1 <= m THEN m - 1 + 1 ELSE 0
    BY <1>1, <2>1, SubSeqProperties
  <2>3. QED BY <1>1, <2>2 DEF Took, m
<1>3. Remain(n) \in Seq(Bytes)
  <2>1. \A i \in (m + 1)..Len(stream) : stream[i] \in Bytes
    BY <1>1
  <2> HIDE DEF m
  <2>2. SubSeq(stream, m + 1, Len(stream)) \in Seq(Bytes)
    BY <1>1, <2>1, SubSeqProperties
  <2>3. QED BY <1>2, <2>2 DEF Remain
<1>4. QED BY <1>2, <1>3 DEF m

\* Reading as many bytes as the first part of a stream has takes that part.
LEMMA ReadFirst ==
    ASSUME NEW h \in Seq(Bytes), NEW d \in Seq(Bytes), stream = h \o d
    PROVE  Took(Len(h)) = h /\ Remain(Len(h)) = d
<1>1. /\ stream \in Seq(Bytes) /\ Len(stream) = Len(h) + Len(d)
      /\ \A i \in 1..(Len(h) + Len(d)) : stream[i] = IF i <= Len(h) THEN h[i] ELSE d[i - Len(h)]
      /\ Len(h) \in Nat /\ Len(d) \in Nat
      /\ \A i \in 1..Len(stream) : stream[i] \in Bytes
  BY ConcatProperties, LenProperties
<1>2. Took(Len(h)) = SubSeq(stream, 1, Len(h))
  BY <1>1 DEF Took
<1>3. /\ SubSeq(stream, 1, Len(h)) \in Seq(Bytes)
      /\ Len(SubSeq(stream, 1, Len(h))) = Len(h)
      /\ \A i \in 1..Len(h) : SubSeq(stream, 1, Len(h))[i] = stream[i]
  <2>1. \A i \in 1..Len(h) : stream[i] \in Bytes
    BY <1>1
  <2>2. /\ SubSeq(stream, 1, Len(h)) \in Seq(Bytes)
        /\ Len(SubSeq(stream, 1, Len(h))) = IF 1 <= Len(h) THEN Len(h) - 1 + 1 ELSE 0
        /\ \A i \in 1..(Len(h) - 1 + 1) : SubSeq(stream, 1, Len(h))[i] = stream[1 + i - 1]
    BY <1>1, <2>1, SubSeqProperties
  <2>3. QED BY <1>1, <2>2
<1>4. Took(Len(h)) = h
  <2>1. \A i \in 1..Len(h) : stream[i] = h[i]
    BY <1>1
  <2>2. QED BY <1>1, <1>2, <1>3, <2>1, SeqEqual
<1> DEFINE r == SubSeq(stream, Len(h) + 1, Len(stream))
<1>5. Remain(Len(h)) = r
  BY <1>4 DEF Remain
<1>6. r \in Seq(Bytes) /\ Len(r) = Len(d) /\ \A i \in 1..Len(d) : r[i] = stream[Len(h) + i]
  <2>1. \A i \in (Len(h) + 1)..Len(stream) : stream[i] \in Bytes
    BY <1>1
  <2>2. /\ r \in Seq(Bytes)
        /\ Len(r) = IF Len(h) + 1 <= Len(stream) THEN Len(stream) - (Len(h) + 1) + 1 ELSE 0
        /\ \A i \in 1..(Len(stream) - (Len(h) + 1) + 1) : r[i] = stream[Len(h) + 1 + i - 1]
    BY <1>1, <2>1, SubSeqProperties
  <2>3. Len(h) + 1 \in Nat /\ Len(stream) - (Len(h) + 1) + 1 = Len(d)
    BY <1>1
  <2>4. Len(r) = Len(d)
    <3> HIDE DEF r
    <3>1. QED BY <1>1, <2>2
  <2>5. ASSUME NEW i \in 1..Len(d) PROVE r[i] = stream[Len(h) + i]
    <3>1. i \in 1..(Len(stream) - (Len(h) + 1) + 1) /\ Len(h) + 1 + i - 1 = Len(h) + i
      BY <1>1
    <3> HIDE DEF r
    <3>2. r[i] = stream[Len(h) + 1 + i - 1]
      BY <2>2, <3>1
    <3>3. QED BY <3>1, <3>2
  <2> HIDE DEF r
  <2>6. QED BY <2>2, <2>4, <2>5
<1>7. r = d
  <2> HIDE DEF r
  <2>1. \A i \in 1..Len(d) : stream[Len(h) + i] = d[i]
    BY <1>1
  <2>2. QED BY <1>6, <2>1, SeqEqual
<1>8. QED BY <1>4, <1>5, <1>7

\* The length read from a header is in range.
LEMMA CountType ==
    ASSUME NEW h \in Seq(Bytes) PROVE ByteCounts(h) \subseteq 0..(DataLen + 1)
<1>1. 0 \in 0..(DataLen + 1) /\ 1 \in 0..(DataLen + 1) /\ DataLen \in 0..(DataLen + 1)
  BY Sizes
<1>2. QED BY <1>1 DEF ByteCounts

(***************************************************************************)
(* Types                                                                   *)
(***************************************************************************)

Phases   == {"idle", "connect", "backoff", "write", "header", "data", "returned", "panicked"}
Results  == Seq([device : 1..Units, genuine : BOOLEAN])

\* Types, and what makes the increment of attempt safe: a backoff is only
\* entered when an attempt is left.
TypeInv == TypeOK /\ (phase = "backoff" => attempt + 1 < MaxRetries)

\* The types hold initially.
LEMMA TypeInit == Init => TypeInv
<1> SUFFICES ASSUME Init PROVE TypeInv
  OBVIOUS
<1>1. <<>> \in Seq(Requests) /\ <<>> \in Seq(Bytes) /\ <<>> \in Results
  BY DEF Results
<1>2. 0 \in 0..(MaxRetries - 1) /\ 1 \in 1..Units /\ 0 \in 0..(DataLen + 1)
      /\ 0 \in 0..(IdleLimit + 1) /\ 0 \in 0..ReadTimeout /\ 0 \in 0..1
  BY Sizes
<1>3. served \subseteq 1..Units
  BY Sizes DEF Init
<1>4. QED BY <1>1, <1>2, <1>3 DEF Init, TypeInv, TypeOK, Results

\* Closing the connection keeps the types of what it changes.
LEMMA TypeHangup ==
    ASSUME TypeOK, Hangup
    PROVE  /\ conn' \in Sockets \cup {Nil} /\ open' \subseteq Sockets
           /\ asked' \in Seq(Requests) /\ wire' \in Seq(Bytes) /\ stream' \in Seq(Bytes)
           /\ peer' \in BOOLEAN /\ idle' \in 0..(IdleLimit + 1) /\ left' \in 0..ReadTimeout
<1>1. <<>> \in Seq(Requests) /\ <<>> \in Seq(Bytes)
  OBVIOUS
<1>2. 0 \in 0..(IdleLimit + 1) /\ 0 \in 0..ReadTimeout
  BY Sizes
<1>3. QED BY <1>1, <1>2 DEF Hangup, NoChannel, TypeOK

\* The end of a failed attempt keeps the types.
LEMMA TypeFails == ASSUME TypeInv, AttemptFails PROVE TypeInv'
<1> USE DEF TypeInv
<1>1. Hangup
  BY DEF AttemptFails, invalidateConnection
<1>2. 1 \in 1..Units /\ 0 \in 0..(DataLen + 1) /\ 0 \in 0..(MaxRetries - 1)
  BY Sizes
<1>3. /\ phase' \in {"idle", "backoff"} /\ attempt' \in 0..(MaxRetries - 1)
      /\ phase' = "backoff" => attempt' + 1 < MaxRetries
  BY <1>2, Sizes DEF AttemptFails, LastAttempt, TypeOK
<1>4. /\ unit' = 1 /\ count' = 0 /\ held' = Nil
      /\ results' = results /\ epoch' = epoch /\ served' = served /\ whole' = whole
  BY DEF AttemptFails, network
<1>5. QED BY <1>1, <1>2, <1>3, <1>4, TypeHangup DEF TypeOK

\* The start of an attempt keeps the types of what it changes.
LEMMA TypeStart ==
    ASSUME TypeOK, NEW c \in Sockets \cup {Nil}, StartAttempt(c)
    PROVE  /\ phase' = "write" /\ attempt' \in 0..(MaxRetries - 1) /\ unit' \in 1..Units
           /\ count' \in 0..(DataLen + 1) /\ results' = <<>> /\ results' \in Results
           /\ held' \in Sockets \cup {Nil} /\ idle' \in 0..(IdleLimit + 1)
           /\ left' \in 0..ReadTimeout /\ epoch' \in 0..1
           /\ served' \subseteq 1..Units /\ whole' \in BOOLEAN
<1>1. 1 \in 1..Units /\ 0 \in 0..(IdleLimit + 1) /\ ReadTimeout \in 0..ReadTimeout /\ <<>> \in Results
  BY Sizes DEF Results
<1>2. epoch \in 0..1 => 1 - epoch \in 0..1
  OBVIOUS
<1>3. QED BY <1>1, <1>2 DEF StartAttempt, Readings, Touched, Deadline, TypeOK, network

\* Every step of the collector keeps the types.
LEMMA TypeCollector == ASSUME TypeInv, Collector PROVE TypeInv'
<1> USE DEF TypeInv
<1>1. CASE TickerFires
  BY <1>1 DEF TickerFires, TypeOK, socket, timers, channel, network
<1>2. CASE BackoffEnds
  <2>1. attempt + 1 \in 0..(MaxRetries - 1)
    BY <1>2, Sizes DEF BackoffEnds, TypeOK
  <2>2. QED BY <1>2, <2>1 DEF BackoffEnds, TypeOK, socket, timers, channel, network
<1>3. CASE Reuse
  <2>1. StartAttempt(conn) /\ conn \in Sockets \cup {Nil}
    BY <1>3 DEF Reuse, TypeOK
  <2>2. stream' \in Seq(Bytes)
    BY <1>3 DEF Reuse, TypeOK
  <2>3. QED BY <1>3, <2>1, <2>2, TypeStart DEF Reuse, TypeOK, Results
<1>4. CASE Dial
  <2>1. PICK c \in Sockets \ open : /\ conn' = c /\ open' = Opened(c) /\ StartAttempt(c)
                                    /\ asked' = <<>> /\ wire' = <<>> /\ stream' = <<>>
                                    /\ peer' = TRUE
    BY <1>4 DEF Dial
  <2>2. <<>> \in Seq(Requests) /\ <<>> \in Seq(Bytes)
    OBVIOUS
  <2>3. open' \subseteq Sockets
    BY <2>1 DEF Opened, TypeOK
  <2>4. QED BY <2>1, <2>2, <2>3, TypeStart DEF TypeOK, Results
<1>5. CASE DialFails \/ WriteFails \/ ReadFails
  BY <1>5, TypeFails DEF DialFails, WriteFails, ReadFails
<1>6. CASE WriteRequest
  <2>1. Request \in Requests
    BY DEF Request, Requests, TypeOK
  <2>2. asked' \in Seq(Requests)
    BY <1>6, <2>1 DEF WriteRequest, TypeOK
  <2>3. QED BY <1>6, <2>2 DEF WriteRequest, TypeOK, socket, timers, network
<1>7. CASE ReadHeader
  <2>1. Took(HeaderLen) \in Seq(Bytes) /\ Remain(HeaderLen) \in Seq(Bytes)
    BY ReadTypes, Sizes DEF TypeOK
  <2>2. count' \in 0..(DataLen + 1) /\ stream' \in Seq(Bytes)
    BY <1>7, <2>1, CountType DEF ReadHeader
  <2>3. QED BY <1>7, <2>2 DEF ReadHeader, TypeOK, socket, timers, network
<1>8. CASE StoreReading
  <2>1. stream' \in Seq(Bytes)
    BY <1>8, ReadTypes DEF StoreReading, DataRead, TypeOK
  <2>2. (Took(count) = Data(Request)) \in BOOLEAN
    OBVIOUS
  <2>3. results' \in Results
    BY <1>8, <2>2 DEF StoreReading, TypeOK, Results
  <2>4. phase' \in {"returned", "write"} /\ unit' \in 1..Units
    BY <1>8, Sizes DEF StoreReading, TypeOK
  <2>5. QED BY <1>8, <2>1, <2>3, <2>4 DEF StoreReading, TypeOK, Results, socket, timers, network
<1>9. CASE Panic
  <2>1. stream' \in Seq(Bytes)
    BY <1>9, ReadTypes DEF Panic, DataRead, TypeOK
  <2>2. QED BY <1>9, <2>1 DEF Panic, TypeOK, socket, timers, network
<1>10. CASE Deliver
  <2>1. /\ 0 \in 0..(MaxRetries - 1) /\ 1 \in 1..Units /\ 0 \in 0..(DataLen + 1)
        /\ <<>> \in Results
    BY Sizes DEF Results
  <2>2. QED BY <1>10, <2>1 DEF Deliver, TypeOK, Results, timers, channel, network
<1>11. QED BY <1>1, <1>2, <1>3, <1>4, <1>5, <1>6, <1>7, <1>8, <1>9, <1>10 DEF Collector

\* So does every step of cleanup, clock, server and network.
LEMMA TypeOthers ==
    ASSUME TypeInv, CleanupCloses \/ Tick \/ ServerAnswers \/ Arrive \/ ServerCloses
    PROVE  TypeInv'
<1> USE DEF TypeInv
<1>1. CASE CleanupCloses
  <2>1. Hangup
    BY <1>1 DEF CleanupCloses
  <2>2. QED BY <1>1, <2>1, TypeHangup DEF CleanupCloses, TypeOK, round, network
<1>2. CASE Tick
  <2>1. idle' \in 0..(IdleLimit + 1) /\ left' \in 0..ReadTimeout
    BY <1>2, Sizes DEF Tick, Expired, TypeOK
  <2>2. QED BY <1>2, <2>1 DEF Tick, TypeOK, round, socket, channel, network
<1>3. CASE ServerAnswers
  <2>1. Head(asked) \in Requests /\ Tail(asked) \in Seq(Requests)
    BY <1>3 DEF ServerAnswers, TypeOK
  <2>2. AnswerTo(Head(asked)) \in Seq(Bytes)
    BY <2>1, AnswerType
  <2> DEFINE a == AnswerTo(Head(asked))
  <2>3. stream \o a \in Seq(Bytes) /\ wire \o a \in Seq(Bytes)
    <3> HIDE DEF a
    <3>1. stream \in Seq(Bytes) /\ wire \in Seq(Bytes)
      BY DEF TypeOK
    <3>2. a \in Seq(Bytes)
      BY <2>2 DEF a
    <3>3. QED BY <3>1, <3>2, ConcatProperties
  <2>4. stream' \in Seq(Bytes) /\ wire' \in Seq(Bytes)
    BY <1>3, <2>3 DEF ServerAnswers, TypeOK
  <2>5. QED BY <1>3, <2>1, <2>4 DEF ServerAnswers, TypeOK, round, socket, timers, network
<1>4. CASE Arrive
  <2>1. PICK k \in 1..Len(wire) : /\ stream' = stream \o SubSeq(wire, 1, k)
                                  /\ wire' = SubSeq(wire, k + 1, Len(wire))
    BY <1>4 DEF Arrive
  <2>2. wire \in Seq(Bytes) /\ Len(wire) \in Nat /\ \A i \in 1..Len(wire) : wire[i] \in Bytes
    BY LenProperties DEF TypeOK
  <2>3. SubSeq(wire, 1, k) \in Seq(Bytes) /\ SubSeq(wire, k + 1, Len(wire)) \in Seq(Bytes)
    BY <2>2, SubSeqProperties
  <2>4. stream' \in Seq(Bytes) /\ wire' \in Seq(Bytes)
    BY <2>1, <2>3, ConcatProperties DEF TypeOK
  <2>5. QED BY <1>4, <2>4 DEF Arrive, TypeOK, round, socket, timers, network
<1>5. CASE ServerCloses
  <2>1. <<>> \in Seq(Requests) /\ <<>> \in Seq(Bytes) /\ stream \o wire \in Seq(Bytes)
    BY ConcatProperties DEF TypeOK
  <2>2. stream' \in Seq(Bytes) /\ asked' \in Seq(Requests) /\ wire' \in Seq(Bytes)
    BY <1>5, <2>1 DEF ServerCloses
  <2>3. QED BY <1>5, <2>2 DEF ServerCloses, TypeOK, round, socket, timers, network
<1>6. QED BY <1>1, <1>2, <1>3, <1>4, <1>5

\* Every step keeps the types.
LEMMA TypeStep == ASSUME TypeInv, [Next]_vars PROVE TypeInv'
<1>1. CASE UNCHANGED vars
  BY <1>1 DEF vars, round, socket, timers, channel, network, TypeInv, TypeOK
<1>2. QED BY <1>1, TypeCollector, TypeOthers DEF Next

\* Every variable keeps its type and range: attempts stay below MaxRetries and
\* the connection always has a deadline.
THEOREM TypeCorrect == Spec => []TypeOK
<1>1. Spec => []TypeInv
  BY TypeInit, TypeStep, PTL DEF Spec
<1>2. TypeInv => TypeOK
  BY DEF TypeInv
<1>3. QED BY <1>1, <1>2, PTL

(***************************************************************************)
(* Sockets, timers and batches                                             *)
(***************************************************************************)

\* An attempt works on a socket, which is g.conn unless cleanup closed it.
HeldIsConn == InAttempt => held \in Sockets /\ (conn = held \/ conn = Nil)

\* The deadline and lastUsed are set together and move together.
TimersAgree == left # 0 => idle + left <= ReadTimeout

\* The readings so far are those of the units before the current one.
Ordered ==
    /\ InAttempt => Len(results) = unit - 1
    /\ phase = "returned" => Len(results) = Units
    /\ InAttempt \/ phase = "returned" =>
          \A i \in 1..Len(results) : results[i].device = i

SocketInv == TypeInv /\ OneSocket /\ HeldIsConn /\ TimersAgree

\* Closing the connection leaves no socket open and no timer running.
LEMMA HangupCloses ==
    ASSUME OneSocket, Hangup PROVE open' = {} /\ conn' = Nil /\ left' = 0 /\ OneSocket' /\ TimersAgree'
BY DEF OneSocket, Hangup, TimersAgree

\* Sockets and timers hold initially.
LEMMA SocketInit == Init => SocketInv
<1> SUFFICES ASSUME Init PROVE SocketInv
  OBVIOUS
<1>1. TypeInv
  BY TypeInit
<1>2. OneSocket /\ HeldIsConn /\ TimersAgree
  BY DEF Init, OneSocket, HeldIsConn, TimersAgree, InAttempt
<1>3. QED BY <1>1, <1>2 DEF SocketInv

\* A failed attempt keeps sockets and timers.
LEMMA SocketFails ==
    ASSUME SocketInv, AttemptFails PROVE OneSocket' /\ HeldIsConn' /\ TimersAgree'
<1>1. Hangup /\ phase' \in {"idle", "backoff"}
  BY DEF AttemptFails, invalidateConnection
<1>2. QED BY <1>1, HangupCloses DEF SocketInv, HeldIsConn, InAttempt

\* Every step keeps sockets and timers.
LEMMA SocketStep == ASSUME SocketInv, [Next]_vars PROVE SocketInv'
<1> USE DEF SocketInv
<1>0. TypeInv'
  BY TypeStep
<1>1. CASE TickerFires \/ BackoffEnds \/ Deliver \/ Panic
  BY <1>0, <1>1 DEF TickerFires, BackoffEnds, Deliver, Panic, OneSocket, HeldIsConn,
                    TimersAgree, InAttempt, socket, timers
<1>2. CASE Reuse
  <2>1. /\ conn # Nil /\ conn' = conn /\ open' = open /\ held' = conn
        /\ idle' = 0 /\ left' = ReadTimeout
    BY <1>2 DEF Reuse, StartAttempt, Touched, Deadline
  <2>2. conn \in Sockets
    BY <2>1 DEF TypeInv, TypeOK
  <2>3. QED BY <1>0, <2>1, <2>2, Sizes DEF OneSocket, HeldIsConn, TimersAgree
<1>3. CASE Dial
  <2>1. PICK c \in Sockets \ open : conn' = c /\ open' = Opened(c) /\ StartAttempt(c)
    BY <1>3 DEF Dial
  <2>2. held' = c /\ idle' = 0 /\ left' = ReadTimeout
    BY <2>1 DEF StartAttempt, Touched, Deadline
  <2>3. open' = {c} /\ c # Nil
    BY <2>1, Sizes DEF Opened, OneSocket
  <2>4. QED BY <1>0, <2>1, <2>2, <2>3, Sizes DEF OneSocket, HeldIsConn, TimersAgree
<1>4. CASE DialFails \/ WriteFails \/ ReadFails
  BY <1>0, <1>4, SocketFails DEF DialFails, WriteFails, ReadFails
<1>5. CASE WriteRequest \/ ReadHeader \/ StoreReading
  BY <1>0, <1>5 DEF WriteRequest, ReadHeader, StoreReading, DataRead, OneSocket, HeldIsConn,
                    TimersAgree, InAttempt, socket, timers
<1>6. CASE CleanupCloses
  <2>1. Hangup /\ held' = held /\ phase' = phase
    BY <1>6 DEF CleanupCloses, round
  <2>2. QED BY <1>0, <2>1, HangupCloses DEF HeldIsConn, InAttempt
<1>7. CASE Tick
  <2>1. TimersAgree'
    BY <1>7, Sizes DEF Tick, Expired, TimersAgree, TypeInv, TypeOK
  <2>2. QED BY <1>0, <1>7, <2>1 DEF Tick, OneSocket, HeldIsConn, InAttempt, round, socket
<1>8. CASE ServerAnswers \/ Arrive \/ ServerCloses
  BY <1>0, <1>8 DEF ServerAnswers, Arrive, ServerCloses, OneSocket, HeldIsConn, TimersAgree,
                    InAttempt, round, socket, timers
<1>9. CASE UNCHANGED vars
  BY <1>0, <1>9 DEF vars, OneSocket, HeldIsConn, TimersAgree, InAttempt, round, socket, timers
<1>10. QED BY <1>0, <1>1, <1>2, <1>3, <1>4, <1>5, <1>6, <1>7, <1>8, <1>9 DEF Next, Collector

\* The sockets this process has open are exactly g.conn: none leaks through
\* reuse, redial, failed attempts and the cleanup goroutine.
THEOREM OneSocketCorrect == Spec => []OneSocket
<1>1. Spec => []SocketInv
  BY SocketInit, SocketStep, PTL DEF Spec
<1>2. SocketInv => OneSocket
  BY DEF SocketInv
<1>3. QED BY <1>1, <1>2, PTL

\* The cleanup goroutine takes the connection from a running attempt only when
\* the deadline has passed anyway.
THEOREM CleanupHarmlessCorrect == Spec => CleanupHarmless
<1>1. ASSUME SocketInv, [Next]_vars PROVE [ClosedOnlyWhenLate]_vars
  <2> SUFFICES ASSUME Next, InAttempt, held \in open, phase' = phase, held \notin open'
               PROVE  left = 0
    BY <1>1 DEF ClosedOnlyWhenLate
  <2>1. CASE CleanupCloses
    <3>1. idle > IdleLimit
      BY <2>1 DEF CleanupCloses, Expired
    <3>2. QED BY <1>1, <3>1, Sizes DEF SocketInv, TimersAgree, TypeInv, TypeOK
  <2>2. CASE TickerFires \/ BackoffEnds \/ Deliver \/ Panic \/ WriteRequest \/ ReadHeader
             \/ StoreReading \/ Tick \/ ServerAnswers \/ Arrive \/ ServerCloses
    BY <2>2 DEF TickerFires, BackoffEnds, Deliver, Panic, WriteRequest, ReadHeader, StoreReading,
                Tick, ServerAnswers, Arrive, ServerCloses, socket
  <2>3. CASE Reuse \/ Dial \/ DialFails
    BY <2>3 DEF Reuse, Dial, DialFails, StartAttempt, InAttempt
  <2>4. CASE WriteFails \/ ReadFails
    BY <2>4 DEF WriteFails, ReadFails, AttemptFails, InAttempt
  <2>5. QED BY <2>1, <2>2, <2>3, <2>4 DEF Next, Collector
<1>2. Spec => []SocketInv
  BY SocketInit, SocketStep, PTL DEF Spec
<1>3. QED BY <1>1, <1>2, PTL DEF Spec, CleanupHarmless

\* Every step keeps the order of the readings: an attempt starts with none, and
\* storing one moves on to the next unit.
LEMMA OrderedStep == ASSUME TypeInv, Ordered, [Next]_vars PROVE Ordered'
<1> USE DEF Ordered, InAttempt
<1>1. CASE Reuse \/ Dial
  <2>1. PICK c \in Sockets \cup {Nil} : StartAttempt(c)
    BY <1>1 DEF Reuse, Dial, TypeInv, TypeOK
  <2>2. phase' = "write" /\ unit' = 1 /\ results' = <<>>
    BY <2>1 DEF StartAttempt, Readings
  <2>3. QED BY <2>2
<1>2. CASE TickerFires \/ BackoffEnds \/ Deliver \/ Panic
  BY <1>2 DEF TickerFires, BackoffEnds, Deliver, Panic
<1>3. CASE DialFails \/ WriteFails \/ ReadFails
  BY <1>3 DEF DialFails, WriteFails, ReadFails, AttemptFails
<1>4. CASE WriteRequest \/ ReadHeader
  BY <1>4 DEF WriteRequest, ReadHeader
<1>5. CASE StoreReading
  <2> DEFINE r == [device |-> unit, genuine |-> Took(count) = Data(Request)]
  <2>1. phase = "data" /\ results' = Append(results, r) /\ r.device = unit
    BY <1>5 DEF StoreReading, DataRead
  <2>2. results \in Seq([device : 1..Units, genuine : BOOLEAN]) /\ unit \in 1..Units
    BY DEF TypeInv, TypeOK
  <2> HIDE DEF r
  <2>3. /\ Len(results') = Len(results) + 1 /\ results'[Len(results) + 1] = r
        /\ \A i \in 1..Len(results) : results'[i] = results[i]
        /\ Len(results) \in Nat
    BY <2>1, <2>2
  <2>4. \A i \in 1..Len(results') : results'[i].device = i
    BY <2>1, <2>2, <2>3
  <2>5. Len(results') = unit
    BY <2>1, <2>2, <2>3
  <2>6. QED BY <1>5, <2>2, <2>4, <2>5 DEF StoreReading
<1>6. CASE CleanupCloses \/ Tick \/ ServerAnswers \/ Arrive \/ ServerCloses \/ UNCHANGED vars
  BY <1>6 DEF CleanupCloses, Tick, ServerAnswers, Arrive, ServerCloses, vars, round
<1>7. QED BY <1>1, <1>2, <1>3, <1>4, <1>5, <1>6 DEF Next, Collector

\* A batch has each device once, in order, however many attempts failed.
THEOREM WholeBatchCorrect == Spec => []WholeBatch
<1>1. Init => TypeInv /\ Ordered
  BY TypeInit DEF Init, Ordered, InAttempt
<1>2. TypeInv /\ Ordered /\ [Next]_vars => TypeInv' /\ Ordered'
  BY TypeStep, OrderedStep
<1>3. TypeInv /\ Ordered => WholeBatch
  BY DEF Ordered, WholeBatch
<1>4. QED BY <1>1, <1>2, <1>3, PTL DEF Spec

(***************************************************************************)
(* Framing, when answers arrive in one piece                               *)
(***************************************************************************)

\* Outside an attempt, and before its next request, nothing is under way.
Quiet == asked = <<>> /\ stream = <<>>

\* After the request, it is unanswered, or its answer has arrived, or it is lost.
HeaderPending == \/ asked = <<Request>> /\ stream = <<>>
                 \/ asked = <<>> /\ stream \in {<<>>, AnswerTo(Request)}

\* After the header, its length is right and the registers are next, or it was
\* an exception and nothing follows; a reset may have dropped the registers.
DataPending == /\ asked = <<>>
               /\ \/ count = DataLen /\ stream \in {<<>>, Data(Request)}
                  \/ count = 1 /\ stream = <<>>

Framed ==
    /\ Running /\ wire = <<>>
    /\ phase \notin {"header", "data"} => Quiet
    /\ phase = "header" => HeaderPending
    /\ phase = "data" => DataPending

Genuine == InAttempt \/ phase = "returned" => \A i \in 1..Len(results) : results[i].genuine

FrameInv == TypeInv /\ (whole => Framed /\ Genuine)

\* The current request, and its answer, are those of the types.
LEMMA RequestType == ASSUME TypeOK PROVE Request \in Requests
BY DEF TypeOK, Request, Requests

\* Framing holds initially.
LEMMA FrameInit == Init => FrameInv
BY TypeInit DEF Init, FrameInv, Framed, Genuine, Quiet, InAttempt, Running

\* Closing the connection leaves nothing under way.
LEMMA FrameFails ==
    ASSUME Framed, Genuine, AttemptFails PROVE Framed' /\ Genuine'
<1>1. asked' = <<>> /\ wire' = <<>> /\ stream' = <<>> /\ phase' \in {"idle", "backoff"}
  BY DEF AttemptFails, invalidateConnection, Hangup, NoChannel
<1>2. QED BY <1>1 DEF Framed, Genuine, Quiet, InAttempt, Running

\* Reading the header of the answer leaves its registers, or nothing.
LEMMA FrameHeader ==
    ASSUME TypeOK, Framed, Genuine, ReadHeader PROVE Framed' /\ Genuine'
<1>1. Request \in Requests /\ Request' = Request
  BY RequestType DEF ReadHeader, Request
<1>2. phase' = "data" /\ asked' = <<>> /\ wire' = <<>> /\ stream = AnswerTo(Request)
  BY DEF ReadHeader, Framed, HeaderPending
<1>3. CASE Request.unit \in served
  <2>1. stream = Header(Request, TRUE) \o Data(Request)
    BY <1>2, <1>3 DEF AnswerTo
  <2>2. Took(HeaderLen) = Header(Request, TRUE) /\ Remain(HeaderLen) = Data(Request)
    BY <1>1, <2>1, Frames, ReadFirst
  <2>3. count' = DataLen
    <3>1. Len(Header(Request, TRUE)) = HeaderLen
      BY <1>1, Frames
    <3>2. Header(Request, TRUE)[HeaderLen].at = HeaderLen /\ Header(Request, TRUE)[HeaderLen].ok
      BY <1>1, Frames
    <3>3. ~(HeaderLen < HeaderLen)
      BY Sizes
    <3>4. ByteCounts(Header(Request, TRUE)) = {DataLen}
      BY <3>1, <3>2, <3>3, Zenon DEF ByteCounts
    <3>5. QED BY <2>2, <3>4 DEF ReadHeader
  <2>4. DataPending'
    <3>1. Data(Request)' = Data(Request)
      BY <1>1 DEF Data, Piece
    <3>2. stream' = Data(Request)
      BY <2>2 DEF ReadHeader
    <3>3. DataLen' = DataLen
      BY DEF DataLen
    <3>4. QED BY <1>2, <2>3, <3>1, <3>2, <3>3 DEF DataPending
  <2>5. QED BY <1>2, <2>4 DEF ReadHeader, Framed, Genuine, InAttempt, Running
<1>4. CASE Request.unit \notin served
  <2>1. stream = Header(Request, FALSE) \o <<>>
    BY <1>1, <1>2, <1>4, Frames, ConcatEmptySeq DEF AnswerTo
  <2>2. <<>> \in Seq(Bytes)
    OBVIOUS
  <2>3. Took(HeaderLen) = Header(Request, FALSE) /\ Remain(HeaderLen) = <<>>
    BY <1>1, <2>1, <2>2, Frames, ReadFirst
  <2>4. count' = 1
    <3>1. Len(Header(Request, FALSE)) = HeaderLen
      BY <1>1, Frames
    <3>2. Header(Request, FALSE)[HeaderLen].at = HeaderLen /\ ~Header(Request, FALSE)[HeaderLen].ok
      BY <1>1, Frames
    <3>3. ~(HeaderLen < HeaderLen)
      BY Sizes
    <3>4. ByteCounts(Header(Request, FALSE)) = {1}
      BY <3>1, <3>2, <3>3, Zenon DEF ByteCounts
    <3>5. QED BY <2>3, <3>4 DEF ReadHeader
  <2>5. stream' = <<>>
    BY <2>3 DEF ReadHeader
  <2>6. DataPending'
    BY <1>2, <2>4, <2>5 DEF DataPending
  <2>7. QED BY <1>2, <2>6 DEF ReadHeader, Framed, Genuine, InAttempt, Running
<1>5. QED BY <1>3, <1>4

\* When the registers can be read they are those of the answer, and they are
\* all that is left of it.
LEMMA RegistersRead ==
    ASSUME TypeOK, Framed, DataRead
    PROVE  count = DataLen /\ Took(count) = Data(Request) /\ stream' = <<>> /\ asked = <<>>
<1>1. DataPending /\ count # 0 /\ stream # <<>>
  BY Sizes DEF Framed, DataRead, DataPending
<1>2. count = DataLen /\ stream = Data(Request) /\ asked = <<>>
  BY <1>1 DEF DataPending
<1>3. Request \in Requests /\ <<>> \in Seq(Bytes)
  BY RequestType
<1>4. stream = Data(Request) \o <<>>
  BY <1>2, <1>3, Frames, ConcatEmptySeq
<1>5. Took(DataLen) = Data(Request) /\ Remain(DataLen) = <<>>
  BY <1>3, <1>4, Frames, ReadFirst
<1>6. QED BY <1>2, <1>5 DEF DataRead

\* Storing a reading stores a genuine one.
LEMMA FrameStore ==
    ASSUME TypeOK, Framed, Genuine, StoreReading PROVE Framed' /\ Genuine'
<1>1. DataRead
  BY DEF StoreReading
<1>2. Took(count) = Data(Request) /\ stream' = <<>> /\ asked = <<>>
  BY <1>1, RegistersRead
<1>3. /\ phase' \in {"returned", "write"} /\ asked' = asked /\ wire' = wire /\ phase = "data"
      /\ results' = Append(results, [device |-> unit, genuine |-> Took(count) = Data(Request)])
  BY DEF StoreReading, DataRead
<1>4. Framed'
  BY <1>2, <1>3 DEF Framed, Quiet, Running
<1>5. Genuine'
  <2> DEFINE r == [device |-> unit, genuine |-> Took(count) = Data(Request)]
  <2>1. r.genuine
    BY <1>2
  <2>2. results' = Append(results, r) /\ results \in Seq([device : 1..Units, genuine : BOOLEAN])
    BY <1>3 DEF TypeOK
  <2> HIDE DEF r
  <2>3. /\ Len(results') = Len(results) + 1 /\ results'[Len(results) + 1] = r
        /\ \A i \in 1..Len(results) : results'[i] = results[i]
        /\ Len(results) \in Nat
    BY <2>2
  <2>4. \A i \in 1..Len(results) : results[i].genuine
    BY <1>3 DEF Genuine, InAttempt
  <2>5. ASSUME NEW i \in 1..Len(results') PROVE results'[i].genuine
    BY <2>1, <2>3, <2>4
  <2>6. QED BY <2>5 DEF Genuine
<1>6. QED BY <1>4, <1>5

\* An answer, a piece of one and the end of the connection keep the framing.
LEMMA FrameServer ==
    ASSUME TypeOK, whole, Framed, Genuine, ServerAnswers \/ Arrive \/ ServerCloses
    PROVE  Framed' /\ Genuine'
<1>1. /\ phase' = phase /\ results' = results /\ count' = count /\ unit' = unit
      /\ epoch' = epoch /\ served' = served
  BY DEF ServerAnswers, Arrive, ServerCloses, round, network
<1>2. /\ Request' = Request /\ AnswerTo(Request)' = AnswerTo(Request)
      /\ Data(Request)' = Data(Request) /\ DataLen' = DataLen
  BY <1>1 DEF Request, AnswerTo, Data, Header, Piece, DataLen
<1>3. Genuine'
  BY <1>1 DEF Genuine, InAttempt
<1>4. CASE ServerAnswers
  <2>1. phase = "header" /\ asked = <<Request>> /\ stream = <<>>
    BY <1>4 DEF ServerAnswers, Framed, Quiet, HeaderPending, DataPending
  <2>2. asked' = <<>> /\ wire' = <<>>
    BY <1>4, <2>1 DEF ServerAnswers, Framed
  <2>3. stream' = AnswerTo(Request)
    <3>1. stream' = <<>> \o AnswerTo(Request)
      BY <1>4, <2>1 DEF ServerAnswers
    <3>2. AnswerTo(Request) \in Seq(Bytes)
      BY RequestType, AnswerType
    <3>3. QED BY <3>1, <3>2, ConcatEmptySeq
  <2>4. HeaderPending'
    BY <1>2, <2>2, <2>3 DEF HeaderPending
  <2>5. QED BY <1>1, <1>3, <2>1, <2>2, <2>4 DEF Framed, Running
<1>5. CASE Arrive
  <2>1. Len(wire) = 0
    BY DEF Framed
  <2>2. QED BY <1>5, <2>1 DEF Arrive
<1>6. CASE ServerCloses
  <2>1. stream \o <<>> = stream
    BY ConcatEmptySeq DEF TypeOK
  <2>2. asked' = <<>> /\ wire' = <<>> /\ stream' \in {stream, <<>>}
    BY <1>6, <2>1 DEF ServerCloses, Framed
  <2>3. phase \notin {"header", "data"} => Quiet'
    BY <2>2 DEF Framed, Quiet
  <2>4. phase = "header" => HeaderPending'
    BY <1>2, <2>2 DEF Framed, HeaderPending
  <2>5. phase = "data" => DataPending'
    BY <1>1, <1>2, <2>2 DEF Framed, DataPending
  <2>6. QED BY <1>1, <1>3, <2>2, <2>3, <2>4, <2>5 DEF Framed, Running
<1>7. QED BY <1>4, <1>5, <1>6

\* Every step keeps the framing.
LEMMA FrameStep == ASSUME FrameInv, [Next]_vars PROVE FrameInv'
<1>1. TypeInv' /\ TypeOK
  BY TypeStep DEF FrameInv, TypeInv
<1>2. whole' = whole
  BY DEF Next, Collector, TickerFires, BackoffEnds, Reuse, Dial, StartAttempt, DialFails,
         WriteRequest, WriteFails, ReadHeader, StoreReading, Panic, ReadFails, Deliver,
         AttemptFails, CleanupCloses, Tick, ServerAnswers, Arrive, ServerCloses, vars, network
<1> SUFFICES ASSUME whole, Framed, Genuine PROVE Framed' /\ Genuine'
  BY <1>1, <1>2 DEF FrameInv
<1>3. CASE TickerFires \/ BackoffEnds \/ Deliver
  BY <1>3 DEF TickerFires, BackoffEnds, Deliver, Framed, Genuine, Quiet, InAttempt, Running,
              channel
<1>4. CASE Reuse
  <2>1. /\ phase = "connect" /\ phase' = "write" /\ results' = <<>>
        /\ asked' = asked /\ wire' = wire
    BY <1>4 DEF Reuse, StartAttempt, Readings
  <2>2. stream' = <<>>
    BY <1>4, <2>1 DEF Reuse, Framed, Quiet
  <2>3. QED BY <2>1, <2>2 DEF Framed, Genuine, Quiet, Running
<1>5. CASE Dial
  <2>1. /\ phase' = "write" /\ results' = <<>>
        /\ asked' = <<>> /\ wire' = <<>> /\ stream' = <<>>
    BY <1>5 DEF Dial, StartAttempt, Readings
  <2>2. QED BY <2>1 DEF Framed, Genuine, Quiet, Running
<1>6. CASE DialFails \/ WriteFails \/ ReadFails
  BY <1>6, FrameFails DEF DialFails, WriteFails, ReadFails
<1>7. CASE WriteRequest
  <2>1. /\ phase = "write" /\ phase' = "header" /\ wire' = wire /\ stream' = stream
        /\ results' = results /\ Request' = Request
        /\ asked' \in {asked, Append(asked, Request)}
    BY <1>7 DEF WriteRequest, Request
  <2>2. asked = <<>> /\ stream = <<>>
    BY <2>1 DEF Framed, Quiet
  <2>3. asked' \in {<<>>, <<Request>>}
    BY <2>1, <2>2
  <2>4. HeaderPending'
    BY <2>1, <2>2, <2>3 DEF HeaderPending
  <2>5. QED BY <2>1, <2>4 DEF Framed, Genuine, InAttempt, Running
<1>8. CASE ReadHeader
  BY <1>1, <1>8, FrameHeader
<1>9. CASE StoreReading
  BY <1>1, <1>9, FrameStore
<1>10. CASE Panic
  <2>1. count = DataLen /\ count < Needed
    BY <1>1, <1>10, RegistersRead DEF Panic
  <2>2. QED BY <2>1, Sizes
<1>11. CASE CleanupCloses
  <2>1. /\ asked' = <<>> /\ wire' = <<>> /\ stream' = <<>>
        /\ phase' = phase /\ count' = count /\ results' = results
    BY <1>11 DEF CleanupCloses, Hangup, NoChannel, round
  <2>2. DataLen' = DataLen
    BY DEF DataLen
  <2>3. phase = "data" => DataPending'
    BY <2>1, <2>2 DEF Framed, DataPending
  <2>4. QED BY <2>1, <2>3 DEF Framed, Genuine, Quiet, HeaderPending, InAttempt, Running
<1>12. CASE ServerAnswers \/ Arrive \/ ServerCloses
  BY <1>1, <1>12, FrameServer
<1>13. CASE Tick \/ UNCHANGED vars
  <2>1. UNCHANGED <<round, channel, network>>
    BY <1>13 DEF Tick, vars
  <2>2. /\ Request' = Request /\ AnswerTo(Request)' = AnswerTo(Request)
        /\ Data(Request)' = Data(Request) /\ DataLen' = DataLen
    BY <2>1 DEF Request, AnswerTo, Data, Header, Piece, DataLen, round, network
  <2>3. QED BY <2>1, <2>2 DEF Framed, Genuine, Quiet, HeaderPending, DataPending, InAttempt,
                              Running, round, channel
<1>14. QED BY <1>3, <1>4, <1>5, <1>6, <1>7, <1>8, <1>9, <1>10, <1>11, <1>12, <1>13
           DEF Next, Collector

\* When answers arrive in one piece, every reading of a batch was sent whole by
\* the device it is filed under, in answer to a request of the same attempt.
THEOREM RightReadingsCorrect == Spec => []RightReadings
<1>1. Spec => []FrameInv
  BY FrameInit, FrameStep, PTL DEF Spec
<1>2. FrameInv => RightReadings
  BY DEF FrameInv, Genuine, RightReadings
<1>3. QED BY <1>1, <1>2, PTL

\* When answers arrive in one piece, readRegister never slices beyond its
\* buffer, whatever the server knows and whenever it leaves.
THEOREM NoPanicCorrect == Spec => []NoPanic
<1>1. Spec => []FrameInv
  BY FrameInit, FrameStep, PTL DEF Spec
<1>2. FrameInv => NoPanic
  BY DEF FrameInv, Framed, NoPanic
<1>3. QED BY <1>1, <1>2, PTL
============================================================================
