---------------------------- MODULE ModbusGateway ----------------------------
(***************************************************************************)
(* The collector of modbus_gateway.go: the goroutine of Run, which asks    *)
(* every unit in turn over one reused TCP connection, and cleanupLoop,     *)
(* which closes that connection when it is idle; at the other end the      *)
(* device server (_handle_client of the simulator) and the network.        *)
(*                                                                         *)
(* Answers are sequences of bytes: a header whose last byte is the length, *)
(* and the registers.  A byte is known by the request it answers and its   *)
(* place in the answer, and lengths are scaled down.  conn.Read returns    *)
(* what has arrived, up to the size of the buffer, and does not wait for   *)
(* the rest.  The mutex makes getConnection, invalidateConnection and a    *)
(* round of cleanupLoop one step each.                                     *)
(***************************************************************************)
EXTENDS Integers, Sequences

CONSTANTS
    Units,       \* number of units, asked in the order 1..Units (120 in the code)
    Sockets,     \* the sockets dialing may return
    Nil,         \* no connection
    HeaderLen,   \* bytes of a header (9 in the code)
    Needed,      \* register bytes the code decodes (18 in the code)
    Spare,       \* register bytes asked for beyond those (2 in the code)
    MaxRetries,  \* attempts of a round
    ReadTimeout, \* clock steps an attempt may take
    IdleLimit,   \* clock steps after which an unused connection is closed
    MaxBacklog   \* bound: requests unanswered and bytes unread when a request is written

ASSUME SizeAssumption == /\ Units \in Nat \ {0} /\ MaxRetries \in Nat \ {0}
                         /\ HeaderLen \in Nat \ {0} /\ Spare \in Nat /\ MaxBacklog \in Nat
                         /\ Needed \in Nat \ {0, 1}
                         /\ Nil \notin Sockets

\* The shipped configuration has 10 and 60 seconds.
ASSUME TimeAssumption == /\ ReadTimeout \in Nat \ {0} /\ IdleLimit \in Nat
                         /\ ReadTimeout <= IdleLimit

VARIABLES
    phase,    \* where Run is
    attempt,  \* the attempt of the round
    unit,     \* the unit being asked
    count,    \* byteCount of the header just read
    results,  \* readings of the attempt; genuine is a history: the bytes answer it
    conn,     \* g.conn
    held,     \* the connection collect works on
    open,     \* sockets this process has not closed
    idle,     \* clock steps since g.lastUsed
    left,     \* clock steps before the deadline of the connection
    asked,    \* requests the device server has to answer
    wire,     \* bytes of answers under way
    stream,   \* bytes that arrived and were not read
    peer,     \* the server keeps the connection
    epoch,    \* history: distinguishes an attempt from the one before
    served,   \* the units the server knows
    whole     \* every answer arrives in one piece

round   == <<phase, attempt, unit, count, results, epoch>>
socket  == <<conn, held, open>>
timers  == <<idle, left>>
channel == <<asked, wire, stream, peer>>
network == <<served, whole>>
vars    == <<round, socket, timers, channel, network>>

Running == phase # "panicked"

Init == /\ phase = "idle" /\ attempt = 0 /\ unit = 1 /\ count = 0
        /\ results = <<>> /\ epoch = 0
        /\ conn = Nil /\ held = Nil /\ open = {}
        /\ idle = 0 /\ left = 0
        /\ asked = <<>> /\ wire = <<>> /\ stream = <<>> /\ peer = FALSE
        /\ served \in {1..n : n \in 0..Units}
        /\ whole \in BOOLEAN

-----------------------------------------------------------------------------
(* Answers *)

\* The length of the registers asked for, and a mutant: too few.
TooShort == Needed - 1
DataLen  == Needed + Spare

\* The bytes from place a to place b of the answer to a request.
Piece(req, ok, a, b) ==
    [k \in 1..(b - a + 1) |-> [req |-> req, ok |-> ok, at |-> a + k - 1]]

\* An exception answer ends with its code instead of a length.
Header(req, ok) == Piece(req, ok, 1, HeaderLen)
Data(req)       == Piece(req, TRUE, HeaderLen + 1, HeaderLen + DataLen)

AnswerTo(req) ==
    IF req.unit \in served THEN Header(req, TRUE) \o Data(req) ELSE Header(req, FALSE)

\* The values header[8] may have: zero where the read was short, a length,
\* exception code 1, or any byte where the read was not at the start.
ByteCounts(h) ==
    IF Len(h) < HeaderLen THEN {0}
    ELSE IF h[HeaderLen].at # HeaderLen THEN 0..(DataLen + 1)
    ELSE IF h[HeaderLen].ok THEN {DataLen} ELSE {1}

-----------------------------------------------------------------------------
(* The connection *)

NoChannel == asked' = <<>> /\ wire' = <<>> /\ stream' = <<>> /\ peer' = FALSE

\* Closing g.conn: what belongs to the connection goes with it, and lastUsed
\* is not read again before the next dial sets it.
Hangup == /\ conn' = Nil /\ open' = open \ {conn} /\ NoChannel
          /\ idle' = 0 /\ left' = 0

\* Mutant of invalidateConnection: the connection is kept for the next attempt.
KeepConnection       == UNCHANGED <<conn, open, channel, timers>>
invalidateConnection == Hangup

\* time.Since(g.lastUsed) after a use, and the time to a new deadline; mutants
\* leave lastUsed as it was, and clear the deadline the probe has set.
NotTouched == idle
Touched    == 0
NoDeadline == -1
Deadline   == ReadTimeout

\* The reused connection is closed for its age, or because the probe reads an
\* error that is no timeout; otherwise the probe may take a byte.
Expired == idle > IdleLimit
Dead    == stream = <<>> /\ ~peer

\* Mutant of Readings: the list outlives the attempt.
OldReadings == results
Readings    == <<>>

\* The attempt starts on the connection c.
StartAttempt(c) ==
    /\ phase = "connect"
    /\ phase' = "write" /\ unit' = 1 /\ results' = Readings /\ epoch' = 1 - epoch
    /\ held' = c /\ idle' = Touched /\ left' = Deadline
    /\ UNCHANGED <<attempt, count, network>>

\* The reuse branch of getConnection.
Reuse ==
    /\ conn # Nil /\ ~Expired /\ ~Dead
    /\ stream' = IF stream = <<>> THEN <<>> ELSE Tail(stream)
    /\ StartAttempt(conn)
    /\ UNCHANGED <<conn, open, asked, wire, peer>>

\* Mutant of Opened: the old socket is not closed.
AlsoOpened(c) == open \cup {c}
Opened(c)     == (open \ {conn}) \cup {c}

\* The dial branch of getConnection, when it answers.
Dial == \E c \in Sockets \ open :
    /\ conn = Nil \/ Expired \/ Dead
    /\ conn' = c /\ open' = Opened(c)
    /\ asked' = <<>> /\ wire' = <<>> /\ stream' = <<>> /\ peer' = TRUE
    /\ StartAttempt(c)

\* Mutant of LastAttempt: one more.
OneMoreAttempt == attempt = MaxRetries
LastAttempt    == attempt = MaxRetries - 1

\* The end of an attempt that failed.
AttemptFails ==
    /\ invalidateConnection
    /\ held' = Nil /\ unit' = 1 /\ count' = 0
    /\ IF LastAttempt THEN phase' = "idle" /\ attempt' = 0
                      ELSE phase' = "backoff" /\ attempt' = attempt
    /\ UNCHANGED <<results, epoch, network>>

\* The dial branch of getConnection, when it fails.
DialFails ==
    /\ phase = "connect"
    /\ conn = Nil \/ Expired \/ Dead
    /\ AttemptFails

-----------------------------------------------------------------------------
(* A round of Run *)

\* case <-ticker.C
TickerFires ==
    /\ phase = "idle"
    /\ phase' = "connect"
    /\ UNCHANGED <<attempt, unit, count, results, epoch, socket, timers, channel, network>>

\* time.Sleep(backoff) is over.
BackoffEnds ==
    /\ phase = "backoff"
    /\ phase' = "connect" /\ attempt' = attempt + 1
    /\ UNCHANGED <<unit, count, results, epoch, socket, timers, channel, network>>

\* I/O on the connection is possible: not closed, and before the deadline.
Usable == held \in open /\ left # 0

\* The request the attempt is at.  The transaction id is the number of the
\* unit again in every attempt; epoch tells them apart in the properties.
Request == [unit |-> unit, epoch |-> epoch]

\* conn.Write(req): a request to a server that left is lost.
WriteRequest ==
    /\ phase = "write" /\ Usable
    /\ Len(asked) + Len(wire) + Len(stream) <= MaxBacklog
    /\ asked' = IF peer THEN Append(asked, Request) ELSE asked
    /\ phase' = "header"
    /\ UNCHANGED <<attempt, unit, count, results, epoch, socket, timers, wire, stream, peer, network>>

\* conn.Write returns an error.
WriteFails ==
    /\ phase = "write"
    /\ ~Usable \/ ~peer
    /\ AttemptFails

\* A buffer of n bytes takes what has arrived, up to its size.
Took(n)   == SubSeq(stream, 1, IF n < Len(stream) THEN n ELSE Len(stream))
Remain(n) == SubSeq(stream, Len(Took(n)) + 1, Len(stream))

\* conn.Read(header)
ReadHeader ==
    /\ phase = "header" /\ Usable /\ stream # <<>>
    /\ count' \in ByteCounts(Took(HeaderLen))
    /\ stream' = Remain(HeaderLen)
    /\ phase' = "data"
    /\ UNCHANGED <<attempt, unit, results, epoch, socket, timers, asked, wire, peer, network>>

\* conn.Read(data) returns: at once for an empty buffer.
DataRead ==
    /\ phase = "data"
    /\ count = 0 \/ (Usable /\ stream # <<>>)
    /\ stream' = Remain(count)

\* The reading is stored; after the last unit collect returns.
StoreReading ==
    /\ DataRead /\ count >= Needed
    /\ results' = Append(results, [device |-> unit, genuine |-> Took(count) = Data(Request)])
    /\ IF unit = Units THEN phase' = "returned" /\ unit' = unit
                       ELSE phase' = "write" /\ unit' = unit + 1
    /\ UNCHANGED <<attempt, count, epoch, socket, timers, asked, wire, peer, network>>

\* readRegister slices beyond the buffer.
Panic ==
    /\ DataRead /\ count < Needed
    /\ phase' = "panicked"
    /\ UNCHANGED <<attempt, unit, count, results, epoch, socket, timers, asked, wire, peer, network>>

\* conn.Read returns an error: closed, late, or the end of the stream.
ReadFails ==
    /\ phase = "header" \/ (phase = "data" /\ count # 0)
    /\ ~Usable \/ Dead
    /\ AttemptFails

\* The batch is offered on outCh (EventRouter has the channel).
Deliver ==
    /\ phase = "returned"
    /\ phase' = "idle" /\ attempt' = 0 /\ unit' = 1 /\ count' = 0 /\ results' = <<>> /\ held' = Nil
    /\ UNCHANGED <<epoch, conn, open, timers, channel, network>>

Collector == \/ TickerFires \/ BackoffEnds \/ Reuse \/ Dial \/ DialFails
             \/ WriteRequest \/ WriteFails \/ ReadHeader \/ StoreReading \/ Panic
             \/ ReadFails \/ Deliver

-----------------------------------------------------------------------------
(* cleanupLoop, the clock, the device server and the network *)

\* case <-ticker.C of cleanupLoop
CleanupCloses ==
    /\ Running /\ conn # Nil /\ Expired
    /\ Hangup
    /\ UNCHANGED <<round, held, network>>

\* The timers of the connection; both stop where they make no more difference.
Tick ==
    /\ Running /\ conn # Nil
    /\ idle' = IF Expired THEN idle ELSE idle + 1
    /\ left' = IF left > 0 THEN left - 1 ELSE left
    /\ UNCHANGED <<round, socket, channel, network>>

\* The server answers the oldest request.
ServerAnswers ==
    /\ Running /\ peer /\ asked # <<>>
    /\ asked' = Tail(asked)
    /\ IF whole THEN stream' = stream \o AnswerTo(Head(asked)) /\ wire' = wire
                ELSE stream' = stream /\ wire' = wire \o AnswerTo(Head(asked))
    /\ UNCHANGED <<round, socket, timers, peer, network>>

\* A piece of an answer arrives.
Arrive == \E k \in 1..Len(wire) :
    /\ Running /\ peer
    /\ stream' = stream \o SubSeq(wire, 1, k)
    /\ wire' = SubSeq(wire, k + 1, Len(wire))
    /\ UNCHANGED <<round, socket, timers, asked, peer, network>>

\* The server closes the connection or dies; a reset drops what has arrived.
ServerCloses ==
    /\ Running /\ peer
    /\ peer' = FALSE /\ asked' = <<>> /\ wire' = <<>>
    /\ stream' \in {stream \o wire, <<>>}
    /\ UNCHANGED <<round, socket, timers, network>>

Next == Collector \/ CleanupCloses \/ Tick \/ ServerAnswers \/ Arrive \/ ServerCloses

Spec == Init /\ [][Next]_vars

\* The goroutine of Run proceeds when it can: the ticker fires, a dial and a
\* sleep end.  The clock goes on.  Nothing is assumed of server and network.
Fairness == WF_vars(Collector) /\ WF_vars(Tick)

FairSpec == Spec /\ Fairness

-----------------------------------------------------------------------------
(* Properties *)

Requests == [unit : 1..Units, epoch : 0..1]
Bytes    == [req : Requests, ok : BOOLEAN, at : 1..(HeaderLen + DataLen)]

\* Type and range of every variable: attempts stay below MaxRetries, and a
\* deadline is always set.
TypeOK ==
    /\ phase \in {"idle", "connect", "backoff", "write", "header", "data", "returned", "panicked"}
    /\ attempt \in 0..(MaxRetries - 1) /\ unit \in 1..Units /\ count \in 0..(DataLen + 1)
    /\ results \in Seq([device : 1..Units, genuine : BOOLEAN])
    /\ conn \in Sockets \cup {Nil} /\ held \in Sockets \cup {Nil} /\ open \subseteq Sockets
    /\ idle \in 0..(IdleLimit + 1) /\ left \in 0..ReadTimeout
    /\ asked \in Seq(Requests) /\ wire \in Seq(Bytes) /\ stream \in Seq(Bytes)
    /\ peer \in BOOLEAN /\ epoch \in 0..1 /\ served \subseteq 1..Units /\ whole \in BOOLEAN

InAttempt == phase \in {"write", "header", "data"}

\* No socket leaks and none is used after it was closed and forgotten: the
\* open sockets are exactly g.conn, through reuse, redial, failed attempts and
\* the cleanup goroutine.
OneSocket == open = {conn} \ {Nil}

\* Every reading of a batch was sent by the device it is filed under, whole,
\* in answer to a request of this very attempt, although answers are matched
\* to requests by their position only: no late answer of a failed attempt is
\* left on the connection.  The code relies on answers that arrive whole.
RightReadings == whole => \A i \in 1..Len(results) :
    InAttempt \/ phase = "returned" => results[i].genuine

\* With answers that arrive whole, no length taken from the peer makes
\* readRegister slice beyond its buffer.
NoPanic == whole => Running

\* A batch has each device once, in order: a failed attempt leaves nothing.
\* This holds however answers are split.
WholeBatch == phase = "returned" =>
    /\ Len(results) = Units
    /\ \A i \in 1..Units : results[i].device = i

\* The cleanup goroutine takes the connection from a running attempt only when
\* the deadline of the attempt has passed anyway, though it holds no lock that
\* the attempt holds.
ClosedOnlyWhenLate == InAttempt /\ held \in open /\ phase' = phase /\ held \notin open' => left = 0
CleanupHarmless    == [][ClosedOnlyWhenLate]_vars

\* A round ends, with a batch, an error or a panic, even when the server never
\* answers: the deadline is set again after the probe has cleared it.
RoundEnds == phase = "connect" ~> phase \in {"idle", "returned", "panicked"}
=============================================================================
