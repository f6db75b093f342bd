------------------------- MODULE WebSocketHubProofs -------------------------
(***************************************************************************)
(* Proofs about WebSocketHub for every set of connections, every capacity  *)
(* of the two kinds of channels and every number of messages: no panic, no *)
(* leaked channel, no gap, no missed message, and the refinement of        *)
(* AtomicBroadcast.                                                        *)
(***************************************************************************)
EXTENDS WebSocketHub, SequenceTheorems, TLAPS

(***************************************************************************)
(* Types                                                                   *)
(***************************************************************************)

\* The capacities are naturals.
LEMMA Caps == BroadcastCap \in Nat /\ SendCap \in Nat /\ MaxMsgs \in Nat
BY CapAssumption

\* The types hold initially.
LEMMA TypeInit == Init => TypeOK
<1> SUFFICES ASSUME Init PROVE TypeOK
  OBVIOUS
<1>1. <<>> \in Seq(Nat) /\ Len(<<>>) = 0
  OBVIOUS
<1>2. QED BY <1>1, Caps DEF Init, TypeOK

\* Taking the head of a queue of numbers, and appending a number to it.
LEMMA QueueTypes ==
    ASSUME NEW s \in Seq(Nat), NEW n \in Nat
    PROVE  /\ Append(s, n) \in Seq(Nat) /\ Len(Append(s, n)) = Len(s) + 1 /\ Len(s) \in Nat
           /\ s # <<>> => /\ Head(s) \in Nat /\ Tail(s) \in Seq(Nat)
                          /\ Len(Tail(s)) = Len(s) - 1 /\ Len(s) > 0
                          /\ <<Head(s)>> \in Seq(Nat)
OBVIOUS

\* Messages and the hub goroutine keep the types.
LEMMA TypeHub ==
    ASSUME TypeOK, \/ Broadcast \/ TakeMessage
                   \/ \E c \in Clients : Register(c) \/ Unregister(c) \/ Visit(c)
    PROVE  TypeOK'
<1> USE DEF TypeOK, hub, chans, gos
<1>1. CASE Broadcast
  <2>1. produced + 1 \in Nat
    OBVIOUS
  <2>2. broadcast' \in Seq(Nat) /\ Len(broadcast') <= BroadcastCap
    BY <1>1, <2>1, QueueTypes, Caps DEF Broadcast
  <2>3. QED BY <1>1, <2>1, <2>2 DEF Broadcast
<1>2. CASE TakeMessage
  <2>1. broadcast' \in Seq(Nat) /\ Len(broadcast') <= BroadcastCap /\ seen' \in Nat
    BY <1>2, QueueTypes, Caps DEF TakeMessage
  <2>2. QED BY <1>2, <2>1 DEF TakeMessage
<1>3. ASSUME NEW c \in Clients, Register(c) PROVE TypeOK'
  BY <1>3 DEF Register
<1>4. ASSUME NEW c \in Clients, Unregister(c) PROVE TypeOK'
  BY <1>4 DEF Unregister, Close
<1>5. ASSUME NEW c \in Clients, Deliver(c) PROVE TypeOK'
  <2>1. send[c] \in Seq(Nat) /\ send' = [send EXCEPT ![c] = Append(send[c], seen)]
    BY <1>5 DEF Deliver
  <2>2. Append(send[c], seen) \in Seq(Nat) /\ Len(Append(send[c], seen)) <= SendCap
    BY <1>5, <2>1, QueueTypes, Caps DEF Deliver
  <2>3. send' \in [Clients -> Seq(Nat)] /\ \A d \in Clients : Len(send'[d]) <= SendCap
    BY <2>1, <2>2
  <2>4. QED BY <1>5, <2>3 DEF Deliver
<1>6. ASSUME NEW c \in Clients, Evict(c) PROVE TypeOK'
  <2>1. closes[c] + 1 \in Nat
    OBVIOUS
  <2>2. closes' \in [Clients -> Nat]
    BY <1>6, <2>1 DEF Evict, Close
  <2>3. clients' \subseteq Clients /\ todo' \subseteq Clients
    BY <1>6 DEF Evict
  <2>4. UNCHANGED <<broadcast, produced, seen, send, conn, handler, reader, writer, inHand, written, base>>
    BY <1>6 DEF Evict
  <2>5. QED BY <2>2, <2>3, <2>4
<1>7. QED BY <1>1, <1>2, <1>3, <1>4, <1>5, <1>6 DEF Visit

\* The handler, the reader and the peer of a connection keep the types.
LEMMA TypeConnection ==
    ASSUME TypeOK, NEW c \in Clients,
           Connect(c) \/ StartGoroutines(c) \/ PeerLeaves(c) \/ Reader(c)
    PROVE  TypeOK'
<1> USE DEF TypeOK, hub, chans, gos
<1>1. CASE Connect(c)
  BY <1>1 DEF Connect
<1>2. CASE StartGoroutines(c)
  BY <1>2 DEF StartGoroutines
<1>3. CASE PeerLeaves(c)
  BY <1>3 DEF PeerLeaves
<1>4. CASE ReadFails(c)
  BY <1>4 DEF ReadFails
<1>5. CASE ReaderCloses(c)
  BY <1>5 DEF ReaderCloses
<1>6. QED BY <1>1, <1>2, <1>3, <1>4, <1>5 DEF Reader

\* The writer of a connection keeps the types.
LEMMA TypeWriter == ASSUME TypeOK, NEW c \in Clients, Writer(c) \/ Write(c) PROVE TypeOK'
<1> USE DEF TypeOK, hub, chans, gos
<1>0. <<>> \in Seq(Nat)
  OBVIOUS
<1>1. CASE WriterTakes(c)
  <2>1. /\ send[c] \in Seq(Nat) /\ Len(send[c]) <= SendCap
        /\ send' = [send EXCEPT ![c] = Tail(send[c])]
        /\ inHand' = [inHand EXCEPT ![c] = <<Head(send[c])>>]
    BY <1>1 DEF WriterTakes
  <2>2. Tail(send[c]) \in Seq(Nat) /\ <<Head(send[c])>> \in Seq(Nat) /\ Len(Tail(send[c])) <= SendCap
    BY <1>1, <2>1, QueueTypes, Caps DEF WriterTakes
  <2>3. /\ send' \in [Clients -> Seq(Nat)] /\ \A d \in Clients : Len(send'[d]) <= SendCap
        /\ inHand' \in [Clients -> Seq(Nat)]
    BY <2>1, <2>2
  <2>4. QED BY <1>1, <2>3 DEF WriterTakes
<1>2. CASE WriterEnds(c)
  BY <1>2 DEF WriterEnds
<1>3. CASE WriterCloses(c)
  BY <1>3 DEF WriterCloses
<1>4. CASE WriteMessage(c)
  <2>1. written[c] \o inHand[c] \in Seq(Nat)
    OBVIOUS
  <2>2. written' \in [Clients -> Seq(Nat)] /\ inHand' \in [Clients -> Seq(Nat)]
    BY <1>0, <1>4, <2>1 DEF WriteMessage
  <2>3. QED BY <1>4, <2>2 DEF WriteMessage
<1>5. CASE WriteFails(c)
  BY <1>0, <1>5 DEF WriteFails
<1>6. QED BY <1>1, <1>2, <1>3, <1>4, <1>5 DEF Writer, Write

\* Every step keeps the types.
LEMMA TypeStep == ASSUME TypeOK, [Next]_vars PROVE TypeOK'
<1>1. CASE UNCHANGED vars
  BY <1>1 DEF vars, hub, chans, gos, TypeOK
<1>2. CASE Next
  BY <1>2, TypeHub, TypeConnection, TypeWriter DEF Next
<1>3. QED BY <1>1, <1>2

\* Every variable of the hub and its connections keeps its type.
THEOREM TypeCorrect == Spec => []TypeOK
BY TypeInit, TypeStep, PTL DEF Spec

(***************************************************************************)
(* Closing                                                                 *)
(***************************************************************************)

\* A channel is closed once, exactly when its client leaves the map, and the
\* hub visits only clients of the map.
Lifecycle ==
    /\ todo \subseteq clients
    /\ \A c \in clients : Registered(c)
    /\ \A c \in Clients : closes[c] = IF Registered(c) /\ c \notin clients THEN 1 ELSE 0

\* No client is in the map and no channel is closed initially.
LEMMA LifecycleInit == Init => Lifecycle
BY DEF Init, Lifecycle, Registered

\* Map and channel change together.
LEMMA LifecycleStep == ASSUME TypeOK, Lifecycle, [Next]_vars PROVE Lifecycle'
<1> USE DEF Lifecycle, Registered, hub, chans, gos
<1>1. CASE Broadcast \/ TakeMessage
  BY <1>1 DEF Broadcast, TakeMessage
<1>2. ASSUME NEW c \in Clients, Register(c) PROVE Lifecycle'
  BY <1>2 DEF Register, TypeOK, Selecting
<1>3. ASSUME NEW c \in Clients, Unregister(c) PROVE Lifecycle'
  BY <1>3 DEF Unregister, StillThere, Close, TypeOK, Selecting
<1>4. ASSUME NEW c \in Clients, Deliver(c) PROVE Lifecycle'
  BY <1>4 DEF Deliver
<1>5. ASSUME NEW c \in Clients, Evict(c) PROVE Lifecycle'
  BY <1>5 DEF Evict, Close, TypeOK
<1>6. ASSUME NEW c \in Clients, Connect(c) \/ StartGoroutines(c) PROVE Lifecycle'
  <2>1. UNCHANGED <<todo, clients, closes>>
    BY <1>6 DEF Connect, StartGoroutines
  <2>2. handler \in [Clients -> {"none", "registering", "starting", "done"}] /\ clients \subseteq Clients
    BY DEF TypeOK
  <2>3. \A d \in Clients : Registered(d)' <=> Registered(d)
    <3>1. CASE Connect(c)
      BY <2>2, <3>1 DEF Connect
    <3>2. CASE StartGoroutines(c)
      BY <2>2, <3>2 DEF StartGoroutines
    <3>3. QED BY <1>6, <3>1, <3>2
  <2>4. todo' \subseteq clients' /\ \A d \in clients' : Registered(d)'
    BY <2>1, <2>2, <2>3
  <2>5. \A d \in Clients : closes'[d] = IF Registered(d)' /\ d \notin clients' THEN 1 ELSE 0
    BY <2>1, <2>3
  <2>6. QED BY <2>4, <2>5
<1>7. ASSUME NEW c \in Clients, PeerLeaves(c) \/ Reader(c) \/ Writer(c) \/ Write(c)
      PROVE  Lifecycle'
  BY <1>7 DEF PeerLeaves, Reader, ReadFails, ReaderCloses,
              Writer, WriterTakes, WriterEnds, WriterCloses, Write, WriteMessage, WriteFails
<1>8. CASE UNCHANGED vars
  BY <1>8 DEF vars
<1>9. QED BY <1>1, <1>2, <1>3, <1>4, <1>5, <1>6, <1>7, <1>8 DEF Next, Visit

\* No channel is closed twice and none is sent to after it was closed, in
\* every run of the hub.
THEOREM NoPanicCorrect == Spec => []NoPanic
<1>1. Init => TypeOK /\ Lifecycle
  BY TypeInit, LifecycleInit
<1>2. TypeOK /\ Lifecycle /\ [Next]_vars => TypeOK' /\ Lifecycle'
  BY TypeStep, LifecycleStep
<1>3. Lifecycle => NoPanic
  <2> SUFFICES ASSUME Lifecycle, NEW c \in Clients
               PROVE  closes[c] <= 1 /\ (c \in clients \cup todo => ~Closed(c))
    BY DEF NoPanic
  <2>1. closes[c] = 0 \/ closes[c] = 1
    BY DEF Lifecycle
  <2>2. c \in clients \cup todo => closes[c] = 0
    BY DEF Lifecycle
  <2>3. QED BY <2>1, <2>2 DEF Closed
<1>4. QED BY <1>1, <1>2, <1>3, PTL DEF Spec

\* A client that has left the map has a closed channel, in every run.
THEOREM LeftIsClosedCorrect == Spec => []LeftIsClosed
<1>1. Init => TypeOK /\ Lifecycle
  BY TypeInit, LifecycleInit
<1>2. TypeOK /\ Lifecycle /\ [Next]_vars => TypeOK' /\ Lifecycle'
  BY TypeStep, LifecycleStep
<1>3. Lifecycle => LeftIsClosed
  BY DEF Lifecycle, LeftIsClosed, Closed
<1>4. QED BY <1>1, <1>2, <1>3, PTL DEF Spec

(***************************************************************************)
(* The stream of a client                                                  *)
(***************************************************************************)

\* s counts up from n + 1.
Consecutive(s, n) == \A k \in DOMAIN s : s[k] = n + k

\* The empty sequence counts up from anywhere.
LEMMA ConsecutiveEmpty == ASSUME NEW n \in Nat PROVE Consecutive(<<>>, n)
BY DEF Consecutive

\* So does one with the next number at its end.
LEMMA ConsecutiveAppend ==
    ASSUME NEW s \in Seq(Nat), NEW n \in Nat, Consecutive(s, n)
    PROVE  Consecutive(Append(s, n + Len(s) + 1), n)
BY DEF Consecutive

\* Without its head it counts up from one later.
LEMMA ConsecutiveTail ==
    ASSUME NEW s \in Seq(Nat), NEW n \in Nat, Consecutive(s, n), s # <<>>
    PROVE  Head(s) = n + 1 /\ Consecutive(Tail(s), n + 1)
<1>1. Len(s) \in Nat /\ Len(s) > 0 /\ Head(s) = s[1]
  OBVIOUS
<1>2. \A k \in DOMAIN Tail(s) : k \in Nat /\ k + 1 \in DOMAIN s /\ Tail(s)[k] = s[k + 1]
  OBVIOUS
<1>3. Head(s) = n + 1
  BY <1>1 DEF Consecutive
<1>4. \A k \in DOMAIN Tail(s) : Tail(s)[k] = (n + 1) + k
  BY <1>2 DEF Consecutive
<1>5. QED BY <1>3, <1>4 DEF Consecutive

\* Two join when the second counts up from where the first ends.
LEMMA ConsecutiveJoin ==
    ASSUME NEW s \in Seq(Nat), NEW t \in Seq(Nat), NEW n \in Nat,
           Consecutive(s, n), Consecutive(t, n + Len(s))
    PROVE  Consecutive(s \o t, n) /\ Len(s \o t) = Len(s) + Len(t) /\ s \o t \in Seq(Nat)
<1>1. s \o t \in Seq(Nat) /\ Len(s \o t) = Len(s) + Len(t)
  OBVIOUS
<1>2. ASSUME NEW k \in DOMAIN (s \o t) PROVE (s \o t)[k] = n + k
  <2>1. k \in 1..(Len(s) + Len(t)) /\ Len(s) \in Nat /\ Len(t) \in Nat
    BY <1>1
  <2>2. CASE k <= Len(s)
    <3>1. k \in DOMAIN s /\ (s \o t)[k] = s[k]
      BY <2>1, <2>2
    <3>2. QED BY <3>1 DEF Consecutive
  <2>3. CASE k > Len(s)
    <3>1. k - Len(s) \in DOMAIN t /\ (s \o t)[k] = t[k - Len(s)]
      BY <2>1, <2>3
    <3>2. t[k - Len(s)] = n + Len(s) + (k - Len(s))
      BY <3>1 DEF Consecutive
    <3>3. QED BY <2>1, <3>1, <3>2
  <2>4. QED BY <2>1, <2>2, <2>3
<1>3. QED BY <1>1, <1>2 DEF Consecutive

\* The messages in broadcast are the ones after the last one taken.
Numbered == Consecutive(broadcast, seen) /\ produced = seen + Len(broadcast)

\* How many messages the writer has written or holds.
Taken(c) == Len(written[c]) + Len(inHand[c])

\* What was written, what the writer holds and what waits in Send count up
\* from the registration, without a gap between them.
Pieces(c) ==
    /\ Consecutive(written[c], base[c])
    /\ inHand[c] = <<>> \/ inHand[c] = <<base[c] + Len(written[c]) + 1>>
    /\ writer[c] # "writing" => inHand[c] = <<>>
    /\ ~Stopped(c) => Consecutive(send[c], base[c] + Taken(c))

\* A client that is not registered has nothing, and a writer runs only for a
\* registered one.
Unused(c) ==
    /\ ~Registered(c) => send[c] = <<>> /\ written[c] = <<>>
    /\ handler[c] # "done" => writer[c] = "none"

\* A client in the map lags behind the hub by the message it is owed, at most.
UpToDate(c) ==
    c \in clients /\ ~Stopped(c) =>
        base[c] + Taken(c) + Len(send[c]) = seen - (IF c \in todo THEN 1 ELSE 0)

Streams == Numbered /\ \A c \in Clients : Pieces(c) /\ Unused(c) /\ UpToDate(c)


\* Nothing is under way initially.
LEMMA StreamsInit == Init => Streams
<1> SUFFICES ASSUME Init PROVE Streams
  OBVIOUS
<1>1. Numbered
  BY ConsecutiveEmpty DEF Init, Numbered
<1>2. ASSUME NEW c \in Clients PROVE Pieces(c) /\ Unused(c) /\ UpToDate(c)
  BY ConsecutiveEmpty DEF Init, Pieces, Unused, UpToDate, Taken
<1>3. QED BY <1>1, <1>2 DEF Streams

\* A client whose channel, writer and history are left alone.
Untouched(c) == /\ written'[c] = written[c] /\ inHand'[c] = inHand[c] /\ send'[c] = send[c]
                /\ base'[c] = base[c] /\ writer'[c] = writer[c] /\ handler'[c] = handler[c]

\* It keeps its stream.
LEMMA UntouchedKeeps ==
    ASSUME NEW c \in Clients, Pieces(c), Unused(c), Untouched(c)
    PROVE  Pieces(c)' /\ Unused(c)' /\ Taken(c)' = Taken(c) /\ (Stopped(c)' <=> Stopped(c))
BY DEF Untouched, Pieces, Unused, Taken, Stopped, Registered

\* It stays up to date as long as the hub does nothing that concerns it.
LEMMA UntouchedUpToDate ==
    ASSUME NEW c \in Clients, Pieces(c), Unused(c), UpToDate(c), Untouched(c),
           seen' = seen, c \in clients' => c \in clients, c \in todo' <=> c \in todo
    PROVE  Pieces(c)' /\ Unused(c)' /\ UpToDate(c)'
<1>1. Pieces(c)' /\ Unused(c)' /\ Taken(c)' = Taken(c) /\ (Stopped(c)' <=> Stopped(c))
  BY UntouchedKeeps
<1>2. QED BY <1>1 DEF UpToDate, Untouched

\* Lengths add up to a length.
LEMMA NatPlus == ASSUME NEW a \in Nat, NEW b \in Nat PROVE a + b \in Nat
OBVIOUS

\* A message more on one side, and one less owed on the other.
LEMMA OneMore ==
    ASSUME NEW b \in Nat, NEW t \in Nat, NEW l \in Nat, NEW n \in Nat, b + t + l = n - 1
    PROVE  b + t + (l + 1) = n - 0
OBVIOUS

\* What the types say of one client.
LEMMA ClientTypes ==
    ASSUME TypeOK, NEW c \in Clients
    PROVE  /\ send[c] \in Seq(Nat) /\ written[c] \in Seq(Nat) /\ inHand[c] \in Seq(Nat)
           /\ base[c] \in Nat /\ Taken(c) \in Nat /\ base[c] + Taken(c) \in Nat
           /\ Len(send[c]) \in Nat /\ Len(written[c]) \in Nat /\ seen \in Nat
<1>1. send[c] \in Seq(Nat) /\ written[c] \in Seq(Nat) /\ inHand[c] \in Seq(Nat) /\ base[c] \in Nat /\ seen \in Nat
  BY DEF TypeOK
<1>2. Len(send[c]) \in Nat /\ Len(written[c]) \in Nat /\ Len(inHand[c]) \in Nat
  BY <1>1
<1>3. Taken(c) \in Nat
  BY <1>2, NatPlus DEF Taken
<1>4. base[c] + Taken(c) \in Nat
  BY <1>1, <1>3
<1>5. QED BY <1>1, <1>2, <1>3, <1>4

\* Messages enter and leave broadcast in their order.
LEMMA NumberedStep == ASSUME TypeOK, Numbered, [Next]_vars PROVE Numbered'
<1>0. broadcast \in Seq(Nat) /\ seen \in Nat /\ Len(broadcast) \in Nat /\ produced = seen + Len(broadcast)
  BY DEF TypeOK, Numbered
<1>1. CASE Broadcast
  <2>1. produced' = produced + 1 /\ broadcast' = Append(broadcast, seen + Len(broadcast) + 1) /\ seen' = seen
    BY <1>0, <1>1 DEF Broadcast
  <2>2. Consecutive(broadcast', seen)
    BY <1>0, <2>1, ConsecutiveAppend DEF Numbered
  <2>3. Len(broadcast') = Len(broadcast) + 1
    BY <1>0, <2>1
  <2>4. QED BY <1>0, <2>1, <2>2, <2>3 DEF Numbered
<1>2. CASE TakeMessage
  <2>1. /\ broadcast # <<>> /\ broadcast' = Tail(broadcast) /\ seen' = Head(broadcast)
        /\ produced' = produced
    BY <1>2 DEF TakeMessage
  <2>2. seen' = seen + 1 /\ Consecutive(broadcast', seen + 1)
    BY <1>0, <2>1, ConsecutiveTail DEF Numbered
  <2>3. Len(broadcast') = Len(broadcast) - 1
    BY <1>0, <2>1
  <2>4. QED BY <1>0, <2>1, <2>2, <2>3 DEF Numbered
<1>3. ASSUME UNCHANGED <<broadcast, seen, produced>> PROVE Numbered'
  BY <1>3 DEF Numbered
<1>4. ASSUME NEW c \in Clients, Register(c) \/ Unregister(c) \/ Visit(c) PROVE Numbered'
  BY <1>3, <1>4 DEF Register, Unregister, Visit, Deliver, Evict
<1>5. ASSUME NEW c \in Clients, Connect(c) \/ StartGoroutines(c) \/ PeerLeaves(c) \/ Reader(c)
      PROVE  Numbered'
  BY <1>3, <1>5 DEF Connect, StartGoroutines, PeerLeaves, Reader, ReadFails, ReaderCloses, hub
<1>6. ASSUME NEW c \in Clients, Writer(c) \/ Write(c) PROVE Numbered'
  BY <1>3, <1>6 DEF Writer, WriterTakes, WriterEnds, WriterCloses, Write, WriteMessage, WriteFails, hub
<1>7. CASE UNCHANGED vars
  BY <1>3, <1>7 DEF vars, hub
<1>8. QED BY <1>1, <1>2, <1>4, <1>5, <1>6, <1>7 DEF Next

\* The hub keeps the streams: it owes every client of the map the message it
\* takes, and pays by delivering it or by closing the client.
LEMMA StreamsHub ==
    ASSUME TypeOK, Lifecycle, Streams, NEW d \in Clients,
           \/ Broadcast \/ TakeMessage
           \/ \E c \in Clients : Register(c) \/ Unregister(c) \/ Visit(c)
    PROVE  Pieces(d)' /\ Unused(d)' /\ UpToDate(d)'
<1> USE DEF hub, chans, gos
<1>0. Pieces(d) /\ Unused(d) /\ UpToDate(d) /\ todo \subseteq clients
  BY DEF Streams, Lifecycle
<1>1. CASE Broadcast
  <2>1. Untouched(d) /\ UNCHANGED <<seen, clients, todo>>
    BY <1>1 DEF Broadcast, Untouched
  <2>2. QED BY <1>0, <2>1, UntouchedUpToDate
<1>2. CASE TakeMessage
  <2>1. Untouched(d) /\ todo = {} /\ todo' = clients /\ clients' = clients
    BY <1>2 DEF TakeMessage, Untouched, Selecting
  <2>2. seen' = seen + 1
    <3>1. broadcast \in Seq(Nat) /\ seen \in Nat /\ Consecutive(broadcast, seen)
      BY DEF TypeOK, Streams, Numbered
    <3>2. QED BY <1>2, <3>1, ConsecutiveTail DEF TakeMessage
  <2>3. Pieces(d)' /\ Unused(d)' /\ Taken(d)' = Taken(d) /\ (Stopped(d)' <=> Stopped(d))
    BY <1>0, <2>1, UntouchedKeeps
  <2>4. UpToDate(d)'
    BY <1>0, <2>1, <2>2, <2>3, ClientTypes DEF UpToDate, Untouched
  <2>5. QED BY <2>3, <2>4
<1>3. ASSUME NEW c \in Clients, Register(c) PROVE Pieces(d)' /\ Unused(d)' /\ UpToDate(d)'
  <2>1. CASE d # c
    <3>1. Untouched(d) /\ seen' = seen /\ todo' = todo /\ clients' = clients \cup {c}
      BY <1>3, <2>1 DEF Register, Untouched, TypeOK
    <3>2. QED BY <1>0, <2>1, <3>1, UntouchedUpToDate
  <2>2. CASE d = c
    <3>1. /\ send[c] = <<>> /\ written[c] = <<>> /\ inHand[c] = <<>> /\ writer[c] = "none"
      BY <1>0, <1>3, <2>2 DEF Register, Unused, Registered, Pieces
    <3>2. /\ UNCHANGED <<send, written, inHand, writer, seen, todo>> /\ todo = {}
          /\ base'[c] = seen /\ handler'[c] = "starting"
      BY <1>3 DEF Register, Selecting, TypeOK
    <3>3. Taken(c)' = 0
      <4>1. written'[c] = <<>> /\ inHand'[c] = <<>> /\ Len(<<>>) = 0
        BY <3>1, <3>2
      <4>2. QED BY <4>1 DEF Taken
    <3>4. Consecutive(<<>>, seen) /\ seen \in Nat /\ seen + 0 = seen
      BY ConsecutiveEmpty, ClientTypes
    <3>5. Pieces(c)'
      BY <3>1, <3>2, <3>3, <3>4 DEF Pieces
    <3>6. Unused(c)' /\ UpToDate(c)'
      BY <3>1, <3>2, <3>3, <3>4 DEF Unused, UpToDate, Registered
    <3>7. QED BY <2>2, <3>5, <3>6
  <2>3. QED BY <2>1, <2>2
<1>4. ASSUME NEW c \in Clients, Unregister(c) PROVE Pieces(d)' /\ Unused(d)' /\ UpToDate(d)'
  <2>1. Untouched(d) /\ seen' = seen /\ todo' = todo /\ clients' \subseteq clients
    BY <1>4 DEF Unregister, Untouched
  <2>2. QED BY <1>0, <2>1, UntouchedUpToDate
<1>5. ASSUME NEW c \in Clients, Deliver(c) PROVE Pieces(d)' /\ Unused(d)' /\ UpToDate(d)'
  <2>0. /\ UNCHANGED <<written, inHand, base, writer, handler, seen, clients>>
        /\ todo' = todo \ {c} /\ send' = [send EXCEPT ![c] = Append(send[c], seen)]
        /\ c \in todo
    BY <1>5 DEF Deliver
  <2>1. CASE d # c
    <3>1. Untouched(d) /\ (d \in todo' <=> d \in todo)
      BY <2>0, <2>1 DEF Untouched, TypeOK
    <3>2. QED BY <1>0, <2>0, <3>1, UntouchedUpToDate
  <2>2. CASE d = c
    <3>1. send'[c] = Append(send[c], seen) /\ Taken(c)' = Taken(c) /\ (Stopped(c)' <=> Stopped(c))
      BY <2>0 DEF TypeOK, Taken, Stopped
    <3>2. c \in clients /\ Registered(c) /\ Registered(c)'
      BY <1>0, <2>0 DEF Lifecycle, Registered
    <3>3. ~Stopped(c) => base[c] + Taken(c) + Len(send[c]) = seen - 1
      BY <1>0, <2>0, <2>2, <3>2 DEF UpToDate
    <3>4. /\ base[c] + Taken(c) \in Nat /\ send[c] \in Seq(Nat) /\ Len(send[c]) \in Nat /\ seen \in Nat
          /\ Len(send'[c]) = Len(send[c]) + 1
      BY <3>1, ClientTypes
    <3>5. ~Stopped(c) => Consecutive(send'[c], base[c] + Taken(c))
      <4>1. ~Stopped(c) => seen = base[c] + Taken(c) + Len(send[c]) + 1
        BY <3>3, <3>4
      <4>2. ~Stopped(c) => Consecutive(send[c], base[c] + Taken(c))
        BY <1>0, <2>2 DEF Pieces
      <4>3. QED BY <3>1, <3>4, <4>1, <4>2, ConsecutiveAppend
    <3>6. Pieces(c)'
      BY <1>0, <2>0, <2>2, <3>1, <3>5 DEF Pieces
    <3>7. Unused(c)'
      BY <1>0, <2>0, <2>2, <3>2 DEF Unused
    <3>8. UpToDate(c)'
      <4>1. ~Stopped(c) => base[c] + Taken(c) + (Len(send[c]) + 1) = seen - 0
        <5>1. base[c] \in Nat /\ Taken(c) \in Nat /\ Len(send[c]) \in Nat /\ seen \in Nat
          BY ClientTypes
        <5>2. SUFFICES ASSUME ~Stopped(c)
                       PROVE  base[c] + Taken(c) + (Len(send[c]) + 1) = seen - 0
          OBVIOUS
        <5>3. base[c] + Taken(c) + Len(send[c]) = seen - 1
          BY <3>3, <5>2
        <5> DEFINE b == base[c]
                   t == Taken(c)
                   l == Len(send[c])
        <5>4. b \in Nat /\ t \in Nat /\ l \in Nat /\ b + t + l = seen - 1 /\ seen \in Nat
          BY <5>1, <5>3
        <5> HIDE DEF b, t, l
        <5>5. b + t + (l + 1) = seen - 0
          BY <5>4
        <5>6. QED BY <5>5 DEF b, t, l
      <4>2. QED BY <2>0, <3>1, <3>4, <4>1 DEF UpToDate
    <3>9. QED BY <2>2, <3>6, <3>7, <3>8
  <2>3. QED BY <2>1, <2>2
<1>6. ASSUME NEW c \in Clients, Evict(c) PROVE Pieces(d)' /\ Unused(d)' /\ UpToDate(d)'
  <2>1. /\ Untouched(d) /\ seen' = seen /\ todo' = todo \ {c} /\ clients' = clients \ {c}
    BY <1>6 DEF Evict, Untouched
  <2>2. CASE d # c
    BY <1>0, <2>1, <2>2, UntouchedUpToDate
  <2>3. CASE d = c
    <3>1. Pieces(d)' /\ Unused(d)'
      BY <1>0, <2>1, UntouchedKeeps
    <3>2. UpToDate(d)'
      BY <2>1, <2>3 DEF UpToDate
    <3>3. QED BY <3>1, <3>2
  <2>4. QED BY <2>2, <2>3
<1>7. QED BY <1>1, <1>2, <1>3, <1>4, <1>5, <1>6 DEF Visit

\* A connection's own steps keep the streams: they only move the oldest
\* message on, or stop for good.
LEMMA StreamsClient ==
    ASSUME TypeOK, Streams, NEW c \in Clients, NEW d \in Clients,
           \/ Connect(c) \/ StartGoroutines(c) \/ PeerLeaves(c) \/ Reader(c)
           \/ Writer(c) \/ Write(c)
    PROVE  Pieces(d)' /\ Unused(d)' /\ UpToDate(d)'
<1> USE DEF hub, chans, gos
<1>0. Pieces(d) /\ Unused(d) /\ UpToDate(d) /\ Pieces(c) /\ Unused(c) /\ UpToDate(c)
  BY DEF Streams
<1>1. UNCHANGED <<seen, clients, todo, base>>
  BY DEF Connect, StartGoroutines, PeerLeaves, Reader, ReadFails, ReaderCloses,
         Writer, WriterTakes, WriterEnds, WriterCloses, Write, WriteMessage, WriteFails
<1>2. CASE d # c
  <2>1. Untouched(d)
    BY <1>2 DEF Connect, StartGoroutines, PeerLeaves, Reader, ReadFails, ReaderCloses, Untouched,
         Writer, WriterTakes, WriterEnds, WriterCloses, Write, WriteMessage, WriteFails, TypeOK
  <2>2. QED BY <1>0, <1>1, <2>1, UntouchedUpToDate
<1>3. CASE PeerLeaves(c) \/ Reader(c)
  <2>1. Untouched(d)
    BY <1>3 DEF PeerLeaves, Reader, ReadFails, ReaderCloses, Untouched
  <2>2. QED BY <1>0, <1>1, <2>1, UntouchedUpToDate
<1>4. CASE d = c /\ (Connect(c) \/ StartGoroutines(c))
  <2>1. UNCHANGED <<send, written, inHand>>
    BY <1>4 DEF Connect, StartGoroutines
  <2>2. \/ writer'[c] = "none"
        \/ writer[c] = "none" /\ writer'[c] = "waiting"
    BY <1>0, <1>4 DEF Connect, StartGoroutines, Unused, TypeOK
  <2>3. writer[c] = "none" /\ (Registered(c) => Registered(c)')
        /\ (handler'[c] # "done" => writer'[c] = "none")
    BY <1>0, <1>4 DEF Connect, StartGoroutines, Unused, Registered, TypeOK
  <2>4. Taken(c)' = Taken(c) /\ ~Stopped(c) /\ ~Stopped(c)'
    BY <2>1, <2>2, <2>3 DEF Taken, Stopped
  <2>5. Pieces(c)'
    BY <1>0, <1>1, <2>1, <2>3, <2>4 DEF Pieces
  <2>6. Unused(c)' /\ UpToDate(c)'
    BY <1>0, <1>1, <2>1, <2>3, <2>4 DEF Unused, UpToDate
  <2>7. QED BY <1>4, <2>5, <2>6
<1>5. CASE d = c /\ WriterTakes(c)
  <2>1. /\ writer[c] = "waiting" /\ writer'[c] = "writing" /\ send[c] # <<>>
        /\ inHand'[c] = <<Head(send[c])>> /\ send'[c] = Tail(send[c])
        /\ written' = written /\ handler' = handler
    BY <1>5 DEF WriterTakes, TypeOK
  <2>2. ~Stopped(c) /\ ~Stopped(c)' /\ inHand[c] = <<>> /\ Registered(c)
    BY <1>0, <2>1 DEF Stopped, Pieces, Unused, Registered
  <2>3. Taken(c) = Len(written[c]) /\ Taken(c)' = Len(written[c]) + 1
    BY <2>1, <2>2, ClientTypes DEF Taken
  <2>4. /\ Head(send[c]) = base[c] + Taken(c) + 1
        /\ Consecutive(Tail(send[c]), base[c] + Taken(c) + 1)
    BY <1>0, <2>1, <2>2, ClientTypes, ConsecutiveTail DEF Pieces
  <2>5. base[c] + Taken(c) + 1 = base[c] + Taken(c)' /\ base[c] + Taken(c) = base[c] + Len(written[c])
    <3>1. base[c] \in Nat /\ Len(written[c]) \in Nat
      BY ClientTypes
    <3>2. QED BY <2>3, <3>1
  <2>6. Len(send'[c]) = Len(send[c]) - 1 /\ Len(send[c]) \in Nat
    BY <2>1, ClientTypes
  <2>7. Pieces(c)'
    BY <1>0, <1>1, <2>1, <2>2, <2>3, <2>4, <2>5 DEF Pieces
  <2>8. UpToDate(c)'
    <3>1. c \in clients => base[c] + Taken(c) + Len(send[c]) = seen - (IF c \in todo THEN 1 ELSE 0)
      BY <1>0, <2>2 DEF UpToDate
    <3>2. base[c] + Taken(c)' + Len(send'[c]) = base[c] + Taken(c) + Len(send[c])
      <4>1. base[c] \in Nat /\ Len(written[c]) \in Nat
        BY ClientTypes
      <4> DEFINE b == base[c]
                 w == Len(written[c])
                 l == Len(send[c])
      <4>2. Taken(c) = w /\ Taken(c)' = w + 1 /\ Len(send'[c]) = l - 1 /\ b \in Nat /\ w \in Nat /\ l \in Nat
        BY <2>3, <2>6, <4>1
      <4> HIDE DEF b, w, l
      <4>3. b + (w + 1) + (l - 1) = b + w + l
        BY <4>2
      <4>4. QED BY <4>2, <4>3 DEF b, l
    <3>3. QED BY <1>1, <3>1, <3>2 DEF UpToDate
  <2>9. Unused(c)'
    BY <1>0, <2>1, <2>2 DEF Unused, Registered
  <2>10. QED BY <1>5, <2>7, <2>8, <2>9
<1>6. CASE d = c /\ WriteMessage(c)
  <2>1. /\ writer[c] = "writing" /\ writer'[c] = "waiting"
        /\ written'[c] = written[c] \o inHand[c] /\ inHand'[c] = <<>>
        /\ send' = send /\ handler' = handler
    BY <1>6 DEF WriteMessage, TypeOK
  <2>2. ~Stopped(c) /\ ~Stopped(c)' /\ Registered(c) /\ handler[c] = "done"
    BY <1>0, <2>1 DEF Stopped, Unused, Registered
  <2>3. Consecutive(inHand[c], base[c] + Len(written[c]))
    BY <1>0, ClientTypes DEF Pieces, Consecutive
  <2>4. /\ Consecutive(written'[c], base[c]) /\ Len(written'[c]) = Taken(c)
    <3>1. /\ written[c] \in Seq(Nat) /\ inHand[c] \in Seq(Nat) /\ base[c] \in Nat
          /\ Consecutive(written[c], base[c])
      BY <1>0, ClientTypes DEF Pieces
    <3>2. /\ Consecutive(written[c] \o inHand[c], base[c])
          /\ Len(written[c] \o inHand[c]) = Len(written[c]) + Len(inHand[c])
      BY <2>3, <3>1, ConsecutiveJoin
    <3>3. QED BY <2>1, <3>2 DEF Taken
  <2>5. Taken(c)' = Taken(c)
    BY <2>1, <2>4, ClientTypes DEF Taken
  <2>6. Pieces(c)'
    BY <1>0, <1>1, <2>1, <2>2, <2>4, <2>5 DEF Pieces
  <2>7. Unused(c)' /\ UpToDate(c)'
    BY <1>0, <1>1, <2>1, <2>2, <2>5 DEF Unused, UpToDate, Registered
  <2>8. QED BY <1>6, <2>6, <2>7
<1>7. CASE d = c /\ (WriterEnds(c) \/ WriteFails(c) \/ WriterCloses(c))
  <2>1. /\ writer'[c] \in {"closing", "done"} /\ writer[c] # "none"
        /\ inHand'[c] = inHand[c] \/ inHand'[c] = <<>>
        /\ writer[c] # "writing" => inHand'[c] = inHand[c]
        /\ writer[c] = "writing" => inHand'[c] = <<>>
        /\ UNCHANGED <<send, written, handler>>
    BY <1>7 DEF WriterEnds, WriteFails, WriterCloses, TypeOK
  <2>2. Stopped(c)' /\ writer'[c] # "writing" /\ inHand'[c] = <<>>
    BY <1>0, <2>1 DEF Stopped, Pieces
  <2>3. QED BY <1>0, <1>1, <1>7, <2>1, <2>2 DEF Pieces, Unused, UpToDate, Registered
<1>8. QED BY <1>2, <1>3, <1>4, <1>5, <1>6, <1>7 DEF Writer, Write

\* Every step keeps the streams.
LEMMA StreamsStep == ASSUME TypeOK, Lifecycle, Streams, [Next]_vars PROVE Streams'
<1>1. Numbered'
  BY NumberedStep DEF Streams
<1>2. ASSUME NEW d \in Clients PROVE Pieces(d)' /\ Unused(d)' /\ UpToDate(d)'
  <2>1. CASE UNCHANGED vars
    <3>1. Untouched(d) /\ UNCHANGED <<seen, clients, todo>>
      BY <2>1 DEF vars, hub, chans, gos, Untouched
    <3>2. QED BY <3>1, UntouchedUpToDate DEF Streams
  <2>2. CASE Next
    BY <2>2, StreamsHub, StreamsClient DEF Next
  <2>3. QED BY <2>1, <2>2
<1>3. QED BY <1>1, <1>2 DEF Streams

\* The three pieces of a client's stream join without a gap.
LEMMA StreamShape ==
    ASSUME TypeOK, Streams, NEW c \in Clients
    PROVE  /\ Consecutive(Stream(c), base[c])
           /\ ~Stopped(c) => Len(Stream(c)) = Taken(c) + Len(send[c])
<1>0. Pieces(c)
  BY DEF Streams
<1>1. CASE Stopped(c)
  BY <1>0, <1>1 DEF Pieces, Stream
<1>2. CASE ~Stopped(c)
  <2>1. Consecutive(inHand[c], base[c] + Len(written[c]))
    BY <1>0, ClientTypes DEF Pieces, Consecutive
  <2>2. /\ Consecutive(written[c] \o inHand[c], base[c]) /\ Len(written[c] \o inHand[c]) = Taken(c)
        /\ written[c] \o inHand[c] \in Seq(Nat)
    BY <1>0, <2>1, ClientTypes, ConsecutiveJoin DEF Pieces, Taken
  <2>3. Consecutive(send[c], base[c] + Taken(c))
    BY <1>0, <1>2 DEF Pieces
  <2>4. /\ Consecutive((written[c] \o inHand[c]) \o send[c], base[c])
        /\ Len((written[c] \o inHand[c]) \o send[c]) = Taken(c) + Len(send[c])
    BY <2>2, <2>3, ClientTypes, ConsecutiveJoin
  <2>5. QED BY <1>2, <2>4 DEF Stream
<1>3. QED BY <1>1, <1>2

\* What a client sees is a gapless piece of the broadcast, in every run.
THEOREM NoGapsCorrect == Spec => []NoGaps
<1> DEFINE IInv == TypeOK /\ Lifecycle /\ Streams
<1>1. Init => IInv
  BY TypeInit, LifecycleInit, StreamsInit
<1>2. IInv /\ [Next]_vars => IInv'
  BY TypeStep, LifecycleStep, StreamsStep
<1>3. IInv => NoGaps
  BY StreamShape DEF NoGaps, Consecutive
<1> HIDE DEF IInv
<1>4. QED BY <1>1, <1>2, <1>3, PTL DEF Spec

\* A client in the map whose writer runs has been given every message the hub
\* took since its registration, but for the one whose visit is still to come.
NothingMissed == \A c \in clients :
    ~Stopped(c) => base[c] + Len(Stream(c)) = seen - (IF c \in todo THEN 1 ELSE 0)

\* A client of the map has been given all the hub took, in every run.
THEOREM NothingMissedCorrect == Spec => []NothingMissed
<1> DEFINE IInv == TypeOK /\ Lifecycle /\ Streams
<1>1. Init => IInv
  BY TypeInit, LifecycleInit, StreamsInit
<1>2. IInv /\ [Next]_vars => IInv'
  BY TypeStep, LifecycleStep, StreamsStep
<1>3. IInv => NothingMissed
  <2> SUFFICES ASSUME IInv, NEW c \in clients, ~Stopped(c)
               PROVE  base[c] + Len(Stream(c)) = seen - (IF c \in todo THEN 1 ELSE 0)
    BY DEF NothingMissed
  <2>1. c \in Clients /\ UpToDate(c)
    BY DEF TypeOK, Streams
  <2>2. Len(Stream(c)) = Taken(c) + Len(send[c])
    BY <2>1, StreamShape
  <2>3. base[c] + (Taken(c) + Len(send[c])) = base[c] + Taken(c) + Len(send[c])
    BY <2>1, ClientTypes
  <2>4. QED BY <2>1, <2>2, <2>3 DEF UpToDate
<1> HIDE DEF IInv
<1>4. QED BY <1>1, <1>2, <1>3, PTL DEF Spec

(***************************************************************************)
(* The promise of AtomicBroadcast                                          *)
(***************************************************************************)

\* A message moves from the visit still to come to the end of Send.
LEMMA AppendMoves ==
    ASSUME NEW h \in Seq(Nat), NEW s \in Seq(Nat), NEW n \in Nat
    PROVE  (h \o Append(s, n)) \o <<>> = (h \o s) \o <<n>>
<1>1. <<n>> \in Seq(Nat) /\ Append(s, n) \in Seq(Nat)
  OBVIOUS
<1>2. Append(s, n) = s \o <<n>>
  BY AppendIsConcat
<1>3. h \o Append(s, n) \in Seq(Nat)
  BY <1>1, ConcatProperties
<1>4. (h \o Append(s, n)) \o <<>> = h \o Append(s, n)
  BY <1>3, ConcatEmptySeq
<1>5. QED BY <1>1, <1>2, <1>4, ConcatAssociative

\* The oldest message moves from Send into the hand.
LEMMA HeadMoves ==
    ASSUME NEW s \in Seq(Nat), s # <<>>
    PROVE  <<>> \o s = s /\ <<Head(s)>> \o Tail(s) = s
<1>1. <<>> \o s = s
  BY ConcatEmptySeq
<1> DEFINE u == <<Head(s)>> \o Tail(s)
<1>2. /\ Head(s) = s[1] /\ Tail(s) \in Seq(Nat) /\ Len(Tail(s)) = Len(s) - 1 /\ Len(s) > 0
      /\ \A i \in 1..Len(Tail(s)) : Tail(s)[i] = s[i + 1]
      /\ Len(s) \in Nat /\ <<Head(s)>> \in Seq(Nat) /\ Len(<<Head(s)>>) = 1
  OBVIOUS
<1>3. /\ u \in Seq(Nat) /\ Len(u) = Len(s)
      /\ \A i \in 1..Len(s) : u[i] = IF i <= 1 THEN <<Head(s)>>[i] ELSE Tail(s)[i - 1]
  BY <1>2, ConcatProperties
<1>4. ASSUME NEW i \in 1..Len(s) PROVE u[i] = s[i]
  <2>1. CASE i = 1
    BY <1>2, <1>3, <2>1
  <2>2. CASE i # 1
    <3>1. i - 1 \in 1..Len(Tail(s)) /\ (i - 1) + 1 = i /\ ~(i <= 1)
      BY <1>2, <2>2
    <3>2. QED BY <1>2, <1>3, <3>1
  <2>3. QED BY <2>1, <2>2
<1> HIDE DEF u
<1>5. u = s
  BY <1>3, <1>4, SeqEqual
<1>6. QED BY <1>1, <1>5 DEF u

\* The message in hand is the first of those a client is owed.
LEMMA OldestFirst ==
    ASSUME NEW s \in Seq(Nat), NEW t \in Seq(Nat), NEW n \in Nat
    PROVE  /\ (<<n>> \o s) \o t # <<>>
           /\ Head((<<n>> \o s) \o t) = n
           /\ Tail((<<n>> \o s) \o t) = (<<>> \o s) \o t
<1> DEFINE v == s \o t
           u == <<n>> \o v
<1>1. v \in Seq(Nat) /\ <<n>> \in Seq(Nat) /\ Len(<<n>>) = 1 /\ <<n>>[1] = n
  BY ConcatProperties
<1>2. (<<n>> \o s) \o t = u /\ (<<>> \o s) \o t = v
  BY <1>1, ConcatAssociative, ConcatEmptySeq
<1> HIDE DEF v
<1>3. /\ u \in Seq(Nat) /\ Len(u) = 1 + Len(v) /\ Len(v) \in Nat
      /\ \A i \in 1..(1 + Len(v)) : u[i] = IF i <= 1 THEN <<n>>[i] ELSE v[i - 1]
  BY <1>1, ConcatProperties
<1> HIDE DEF u
<1>4. u[1] = n
  BY <1>1, <1>3
<1>5. u # <<>> /\ Head(u) = n
  BY <1>3, <1>4
<1>6. /\ Tail(u) \in Seq(Nat) /\ Len(Tail(u)) = Len(v)
      /\ \A i \in 1..Len(v) : Tail(u)[i] = u[i + 1]
  BY <1>3, <1>5
<1>7. \A i \in 1..Len(v) : u[i + 1] = v[i]
  <2>1. SUFFICES ASSUME NEW i \in 1..Len(v) PROVE u[i + 1] = v[i]
    OBVIOUS
  <2>2. i + 1 \in 1..(1 + Len(v)) /\ ~(i + 1 <= 1) /\ (i + 1) - 1 = i
    BY <1>3
  <2>3. QED BY <1>3, <2>2
<1>8. Tail(u) = v
  BY <1>1, <1>6, <1>7, SeqEqual
<1>9. QED BY <1>2, <1>5, <1>8

\* Dropping the last message leaves the beginning.
LEMMA DropLast ==
    ASSUME NEW s \in Seq(Nat), NEW n \in Nat
    PROVE  /\ Len(s) \in 0..Len(s \o <<n>>)
           /\ s \o <<>> = SubSeq(s \o <<n>>, 1, Len(s))
<1>1. <<n>> \in Seq(Nat) /\ Len(<<n>>) = 1 /\ Len(s) \in Nat
  OBVIOUS
<1>2. Len(s \o <<n>>) = Len(s) + 1
  BY <1>1, ConcatProperties
<1>3. SubSeq(s \o <<n>>, 1, Len(s)) = s
  BY <1>1, SubSeqOfConcat1, SubSeqFull
<1>4. s \o <<>> = s
  BY ConcatEmptySeq
<1>5. QED BY <1>1, <1>2, <1>3, <1>4

\* All of a sequence is its own beginning.
LEMMA WholeSeq ==
    ASSUME NEW s \in Seq(Nat)
    PROVE  Len(s) \in 0..Len(s) /\ s = SubSeq(s, 1, Len(s))
<1>1. Len(s) \in Nat
  OBVIOUS
<1>2. QED BY <1>1, SubSeqFull

\* What the types say of what a client is owed.
LEMMA OwedTypes ==
    ASSUME TypeOK, NEW c \in Clients
    PROVE  /\ Owed(c) \in Seq(Nat) /\ inHand[c] \in Seq(Nat) /\ send[c] \in Seq(Nat)
           /\ inHand[c] \o send[c] \in Seq(Nat) /\ seen \in Nat
           /\ Debts[c] = Owed(c) /\ Statuses[c] = Status(c)
<1>1. inHand[c] \in Seq(Nat) /\ send[c] \in Seq(Nat) /\ seen \in Nat
  BY ClientTypes
<1>2. inHand[c] \o send[c] \in Seq(Nat) /\ <<seen>> \in Seq(Nat) /\ <<>> \in Seq(Nat)
  BY <1>1
<1>3. /\ (inHand[c] \o send[c]) \o <<seen>> \in Seq(Nat)
      /\ (inHand[c] \o send[c]) \o <<>> \in Seq(Nat)
  BY <1>2
<1>4. QED BY <1>1, <1>2, <1>3 DEF Owed, Debts, Statuses

\* Outside the visits of a message, and for a client without one to come.
LEMMA OwedIdle ==
    ASSUME TypeOK, NEW c \in Clients, c \notin todo, ~Stopped(c)
    PROVE  Owed(c) = inHand[c] \o send[c]
<1>1. inHand[c] \o send[c] \in Seq(Nat)
  BY OwedTypes
<1>2. (inHand[c] \o send[c]) \o <<>> = inHand[c] \o send[c]
  BY <1>1
<1>3. QED BY <1>2 DEF Owed

\* A client whose part of the state is left alone.
LEMMA UntouchedOwed ==
    ASSUME NEW c \in Clients, Untouched(c), seen' = seen,
           c \in todo' <=> c \in todo, c \in clients' <=> c \in clients
    PROVE  Owed(c)' = Owed(c) /\ Status(c)' = Status(c)
BY DEF Untouched, Owed, Status, Stopped, Registered

\* A step that changes nothing of what the promise speaks of.
LEMMA Invisible ==
    ASSUME seen' = seen, written' = written,
           \A d \in Clients : Owed(d)' = Owed(d) /\ Status(d)' = Status(d)
    PROVE  UNCHANGED <<seen, Statuses, Debts, written>>
BY DEF Statuses, Debts

\* A step of one client changes its entries only.
LEMMA OneClient ==
    ASSUME NEW c \in Clients,
           \A d \in Clients \ {c} : Owed(d)' = Owed(d) /\ Status(d)' = Status(d)
    PROVE  /\ Debts' = [Debts EXCEPT ![c] = Owed(c)']
           /\ Statuses' = [Statuses EXCEPT ![c] = Status(c)']
BY DEF Statuses, Debts

\* One message in hand and a full channel are less than the room.
LEMMA LagBound ==
    ASSUME NEW h \in {0, 1}, NEW l \in Nat, NEW m \in Nat, l <= m
    PROVE  h + l < m + 2
OBVIOUS

\* The hub takes a message: it is published to all in the map that still write.
LEMMA TakePublishes ==
    ASSUME TypeOK, Lifecycle, Streams, TakeMessage
    PROVE  Club!Publish
<1>1. /\ todo = {} /\ todo' = clients /\ seen' = seen + 1
      /\ UNCHANGED <<clients, send, handler, writer, inHand, written>>
  <2>1. seen' = seen + 1
    BY ConsecutiveTail DEF TakeMessage, TypeOK, Streams, Numbered
  <2>2. QED BY <2>1 DEF TakeMessage, Selecting, chans, gos
<1>2. ASSUME NEW c \in Clients
      PROVE  /\ (c \in Club!Listening) <=> (c \in clients /\ ~Stopped(c))
             /\ Status(c)' = Status(c)
             /\ Stopped(c)' <=> Stopped(c)
  <2>1. c \in clients => Registered(c)
    BY DEF Lifecycle
  <2>2. QED BY <1>1, <2>1, OwedTypes DEF Club!Listening, Status, Stopped, Registered
<1>3. ASSUME NEW c \in Clients
      PROVE  Owed(c)' = IF c \in Club!Listening THEN Append(Owed(c), seen + 1) ELSE Owed(c)
  <2>1. CASE Stopped(c)
    BY <1>2, <2>1 DEF Owed
  <2>2. CASE ~Stopped(c)
    <3> DEFINE u == inHand[c] \o send[c]
    <3>1. u \in Seq(Nat) /\ Owed(c) = u
      BY <1>1, <2>2, OwedTypes, OwedIdle
    <3>2. Owed(c)' = u \o (IF c \in clients THEN <<seen + 1>> ELSE <<>>)
      BY <1>1, <1>2, <2>2 DEF Owed
    <3> HIDE DEF u
    <3>3. u \o <<>> = u /\ u \o <<seen + 1>> = Append(u, seen + 1)
      BY <3>1
    <3>4. QED BY <1>2, <2>2, <3>1, <3>2, <3>3
  <2>3. QED BY <2>1, <2>2
<1>4. ASSUME NEW c \in Club!Listening PROVE Len(Debts[c]) < SendCap + 2
  <2>1. c \in Clients /\ ~Stopped(c)
    BY <1>2 DEF Club!Listening
  <2>2. Debts[c] = inHand[c] \o send[c] /\ inHand[c] \in Seq(Nat) /\ send[c] \in Seq(Nat)
    BY <1>1, <2>1, OwedTypes, OwedIdle
  <2>3. Len(inHand[c]) \in {0, 1}
    <3>1. inHand[c] = <<>> \/ inHand[c] = <<base[c] + Len(written[c]) + 1>>
      BY <2>1 DEF Streams, Pieces
    <3>2. Len(<<>>) = 0 /\ Len(<<base[c] + Len(written[c]) + 1>>) = 1
      OBVIOUS
    <3>3. QED BY <3>1, <3>2
  <2>4. Len(send[c]) \in Nat /\ SendCap \in Nat /\ Len(send[c]) <= SendCap
    BY <2>1, ClientTypes, Caps DEF TypeOK
  <2>5. Len(inHand[c] \o send[c]) = Len(inHand[c]) + Len(send[c])
    BY <2>2, ConcatProperties
  <2>6. Len(inHand[c]) + Len(send[c]) < SendCap + 2
    BY <2>3, <2>4, LagBound
  <2>7. QED BY <2>2, <2>5, <2>6
<1>5. Debts' = [c \in Clients |-> IF c \in Club!Listening THEN Append(Debts[c], seen + 1)
                                  ELSE Debts[c]]
  BY <1>3 DEF Debts
<1>6. Statuses' = Statuses
  BY <1>2 DEF Statuses
<1>7. QED BY <1>1, <1>4, <1>5, <1>6 DEF Club!Publish

\* The registration of a client.
LEMMA RegisterJoins ==
    ASSUME TypeOK, Lifecycle, Streams, NEW c \in Clients, Register(c)
    PROVE  Club!Join(c)
<1>1. /\ handler[c] = "registering" /\ todo = {} /\ clients' = clients \cup {c}
      /\ handler' = [handler EXCEPT ![c] = "starting"]
      /\ UNCHANGED <<seen, todo, send, writer, inHand, written>>
      /\ \A d \in Clients \ {c} : base'[d] = base[d]
  BY DEF Register, Selecting, chans, TypeOK
<1>2. ASSUME NEW d \in Clients \ {c} PROVE Owed(d)' = Owed(d) /\ Status(d)' = Status(d)
  <2>1. Untouched(d)
    BY <1>1 DEF Untouched, TypeOK
  <2>2. QED BY <1>1, <2>1, UntouchedOwed
<1>3. ~Stopped(c) /\ ~Stopped(c)' /\ Owed(c)' = Owed(c)
  <2>1. writer[c] = "none"
    BY <1>1 DEF Streams, Unused
  <2>2. QED BY <1>1, <2>1 DEF Stopped, Owed
<1>4. Status(c) = "outside" /\ Status(c)' = "listening"
  BY <1>1, <1>3 DEF Status, Registered, TypeOK
<1>5. Debts' = Debts
  BY <1>2, <1>3 DEF Debts
<1>6. Statuses' = [Statuses EXCEPT ![c] = "listening"] /\ Statuses[c] = "outside"
  BY <1>2, <1>4, OneClient, OwedTypes
<1>7. QED BY <1>1, <1>5, <1>6 DEF Club!Join

\* What leaving looks like: the client is known, it is not in the map any more
\* or its writer has stopped, and it keeps the beginning of what it was owed.
LEMMA Leaving ==
    ASSUME TypeOK, NEW c \in Clients, seen' = seen, written' = written,
           Status(c) # "outside", Status(c)' = "left",
           \E n \in 0..Len(Owed(c)) : Owed(c)' = SubSeq(Owed(c), 1, n),
           \A d \in Clients \ {c} : Owed(d)' = Owed(d) /\ Status(d)' = Status(d)
    PROVE  \E n \in 0..Len(Debts[c]) : Club!Leave(c, n)
<1>1. PICK n \in 0..Len(Owed(c)) : Owed(c)' = SubSeq(Owed(c), 1, n)
  OBVIOUS
<1>2. Debts[c] = Owed(c) /\ Statuses[c] = Status(c) /\ c \in DOMAIN Debts
  BY OwedTypes DEF Debts
<1>3. Debts' = [Debts EXCEPT ![c] = SubSeq(@, 1, n)] /\ Statuses' = [Statuses EXCEPT ![c] = "left"]
  BY <1>1, <1>2, OneClient
<1>4. Club!Leave(c, n)
  BY <1>2, <1>3 DEF Club!Leave
<1>5. QED BY <1>1, <1>2, <1>4

\* The hub puts the message into a client's channel: what is owed is the same.
LEMMA DeliverInvisible ==
    ASSUME TypeOK, Lifecycle, NEW c \in Clients, Deliver(c)
    PROVE  UNCHANGED <<seen, Statuses, Debts, written>>
<1>1. /\ c \in todo /\ todo' = todo \ {c} /\ send' = [send EXCEPT ![c] = Append(@, seen)]
      /\ UNCHANGED <<seen, clients, handler, writer, inHand, written, base>>
  BY DEF Deliver, gos
<1>2. ASSUME NEW d \in Clients \ {c} PROVE Owed(d)' = Owed(d) /\ Status(d)' = Status(d)
  <2>1. Untouched(d)
    BY <1>1 DEF Untouched, TypeOK
  <2>2. QED BY <1>1, <2>1, UntouchedOwed
<1>3. Status(c)' = Status(c) /\ (Stopped(c)' <=> Stopped(c))
  BY <1>1 DEF Status, Stopped, Registered
<1>4. ASSUME ~Stopped(c) PROVE Owed(c)' = Owed(c)
  <2>1. inHand[c] \in Seq(Nat) /\ send[c] \in Seq(Nat) /\ seen \in Nat
    BY ClientTypes
  <2>2. send'[c] = Append(send[c], seen)
    BY <1>1 DEF TypeOK
  <2>3. Owed(c)' = (inHand[c] \o Append(send[c], seen)) \o <<>>
    BY <1>1, <1>3, <1>4, <2>2 DEF Owed
  <2>4. Owed(c) = (inHand[c] \o send[c]) \o <<seen>>
    BY <1>1, <1>4 DEF Owed
  <2>5. QED BY <2>1, <2>3, <2>4, AppendMoves
<1>5. Stopped(c) => Owed(c)' = Owed(c)
  BY <1>3 DEF Owed
<1>6. QED BY <1>1, <1>2, <1>3, <1>4, <1>5, Invisible

\* The hub drops a full client: it leaves, and loses the last message.
LEMMA EvictLeaves ==
    ASSUME TypeOK, Lifecycle, NEW c \in Clients, Evict(c)
    PROVE  \/ \E n \in 0..Len(Debts[c]) : Club!Leave(c, n)
           \/ UNCHANGED <<seen, Statuses, Debts, written>>
<1>1. /\ c \in todo /\ todo' = todo \ {c} /\ clients' = clients \ {c}
      /\ UNCHANGED <<seen, send, handler, writer, inHand, written, base>>
  BY DEF Evict, gos
<1>2. \A d \in Clients \ {c} : Owed(d)' = Owed(d) /\ Status(d)' = Status(d)
  BY <1>1, UntouchedOwed DEF Untouched
<1>3. Status(c) # "outside" /\ Status(c)' = "left" /\ (Stopped(c)' <=> Stopped(c))
  BY <1>1 DEF Lifecycle, Status, Stopped, Registered
<1>4. CASE Stopped(c)
  <2>1. Owed(c)' = Owed(c) /\ Status(c)' = Status(c)
    BY <1>3, <1>4 DEF Owed, Status
  <2>2. QED BY <1>1, <1>2, <2>1, Invisible
<1>5. CASE ~Stopped(c)
  <2> DEFINE u == inHand[c] \o send[c]
  <2>1. u \in Seq(Nat) /\ seen \in Nat
    BY OwedTypes
  <2>2. Owed(c) = u \o <<seen>>
    BY <1>1, <1>5 DEF Owed
  <2>3. Owed(c)' = u \o <<>>
    BY <1>1, <1>3, <1>5 DEF Owed
  <2> HIDE DEF u
  <2>4. Len(u) \in 0..Len(u \o <<seen>>) /\ u \o <<>> = SubSeq(u \o <<seen>>, 1, Len(u))
    BY <2>1, DropLast
  <2>5. QED BY <1>1, <1>2, <1>3, <2>2, <2>3, <2>4, Leaving
<1>6. QED BY <1>4, <1>5

\* The unregistration: the client leaves, and may still get all that waits.
LEMMA UnregisterLeaves ==
    ASSUME TypeOK, Lifecycle, Streams, NEW c \in Clients, Unregister(c)
    PROVE  \/ \E n \in 0..Len(Debts[c]) : Club!Leave(c, n)
           \/ UNCHANGED <<seen, Statuses, Debts, written>>
<1>1. /\ todo = {} /\ clients' = clients \ {c}
      /\ UNCHANGED <<seen, todo, send, handler, writer, inHand, written, base>>
  BY DEF Unregister, Selecting
<1>2. \A d \in Clients \ {c} : Owed(d)' = Owed(d) /\ Status(d)' = Status(d)
  BY <1>1, UntouchedOwed DEF Untouched
<1>3. Owed(c)' = Owed(c)
  BY <1>1 DEF Owed, Stopped
<1>4. CASE Registered(c)
  <2>1. Status(c) # "outside" /\ Status(c)' = "left"
    BY <1>1, <1>4 DEF Status, Stopped, Registered
  <2>2. Owed(c) \in Seq(Nat)
    BY OwedTypes
  <2>3. Len(Owed(c)) \in 0..Len(Owed(c)) /\ Owed(c)' = SubSeq(Owed(c), 1, Len(Owed(c)))
    BY <1>3, <2>2, WholeSeq
  <2>4. QED BY <1>1, <1>2, <2>1, <2>3, Leaving
<1>5. CASE ~Registered(c)
  <2>1. Status(c)' = Status(c)
    BY <1>1, <1>5 DEF Status, Registered
  <2>2. QED BY <1>1, <1>2, <1>3, <2>1, Invisible
<1>6. QED BY <1>4, <1>5

\* The writer takes the next message from its channel into its hand.
LEMMA WriterTakesInvisible ==
    ASSUME TypeOK, Streams, NEW c \in Clients, WriterTakes(c)
    PROVE  UNCHANGED <<seen, Statuses, Debts, written>>
<1>1. /\ writer[c] = "waiting" /\ send[c] # <<>>
      /\ writer' = [writer EXCEPT ![c] = "writing"]
      /\ inHand' = [inHand EXCEPT ![c] = <<Head(send[c])>>]
      /\ send' = [send EXCEPT ![c] = Tail(@)]
      /\ UNCHANGED <<seen, todo, clients, handler, written, base>>
  BY DEF WriterTakes, hub
<1>2. ASSUME NEW d \in Clients \ {c} PROVE Owed(d)' = Owed(d) /\ Status(d)' = Status(d)
  <2>1. Untouched(d)
    BY <1>1 DEF Untouched, TypeOK
  <2>2. QED BY <1>1, <2>1, UntouchedOwed
<1>3. ~Stopped(c) /\ ~Stopped(c)'
  BY <1>1 DEF Stopped, TypeOK
<1>4. Status(c)' = Status(c)
  BY <1>1, <1>3 DEF Status, Registered
<1>5. Owed(c)' = Owed(c)
  <2>1. inHand[c] = <<>>
    BY <1>1 DEF Streams, Pieces
  <2>2. inHand'[c] = <<Head(send[c])>> /\ send'[c] = Tail(send[c])
    BY <1>1 DEF TypeOK
  <2>3. <<>> \o send[c] = send[c] /\ <<Head(send[c])>> \o Tail(send[c]) = send[c]
    BY <1>1, ClientTypes, HeadMoves
  <2> DEFINE t == IF c \in todo THEN <<seen>> ELSE <<>>
  <2>4. Owed(c) = (inHand[c] \o send[c]) \o t
    BY <1>3 DEF Owed
  <2>5. Owed(c)' = (inHand'[c] \o send'[c]) \o t
    BY <1>1, <1>3 DEF Owed
  <2> HIDE DEF t
  <2>6. Owed(c)' = (<<Head(send[c])>> \o Tail(send[c])) \o t
    BY <2>2, <2>5
  <2>7. Owed(c) = (<<>> \o send[c]) \o t
    BY <2>1, <2>4
  <2>8. QED BY <2>3, <2>6, <2>7
<1>6. QED BY <1>1, <1>2, <1>4, <1>5, Invisible

\* The writer of a closed and drained channel ends: nothing was owed any more.
LEMMA WriterEndsInvisible ==
    ASSUME TypeOK, Lifecycle, Streams, NEW c \in Clients, WriterEnds(c)
    PROVE  UNCHANGED <<seen, Statuses, Debts, written>>
<1>1. /\ writer[c] = "waiting" /\ send[c] = <<>> /\ closes[c] > 0
      /\ writer' = [writer EXCEPT ![c] = "closing"]
      /\ UNCHANGED <<seen, todo, clients, send, handler, inHand, written, base>>
  BY DEF WriterEnds, Closed, hub, chans
<1>2. ASSUME NEW d \in Clients \ {c} PROVE Owed(d)' = Owed(d) /\ Status(d)' = Status(d)
  <2>1. Untouched(d)
    BY <1>1 DEF Untouched, TypeOK
  <2>2. QED BY <1>1, <2>1, UntouchedOwed
<1>3. Registered(c) /\ c \notin clients /\ c \notin todo
  BY <1>1 DEF Lifecycle
<1>4. ~Stopped(c) /\ Stopped(c)'
  BY <1>1 DEF Stopped, TypeOK
<1>5. Status(c)' = Status(c)
  BY <1>1, <1>3 DEF Status, Registered
<1>6. Owed(c)' = Owed(c)
  <2>1. inHand[c] = <<>>
    BY <1>1 DEF Streams, Pieces
  <2>2. Owed(c) = <<>> \o <<>>
    BY <1>1, <1>3, <1>4, <2>1, OwedIdle
  <2>3. <<>> \o <<>> = <<>>
    OBVIOUS
  <2>4. QED BY <1>4, <2>2, <2>3 DEF Owed
<1>7. QED BY <1>1, <1>2, <1>5, <1>6, Invisible

\* A successful write: the client receives the oldest message it is owed.
LEMMA WriteReceives ==
    ASSUME TypeOK, Streams, NEW c \in Clients, WriteMessage(c)
    PROVE  \/ Club!Receive(c)
           \/ UNCHANGED <<seen, Statuses, Debts, written>>
<1>1. /\ writer[c] = "writing"
      /\ writer' = [writer EXCEPT ![c] = "waiting"]
      /\ written' = [written EXCEPT ![c] = @ \o inHand[c]]
      /\ inHand' = [inHand EXCEPT ![c] = <<>>]
      /\ UNCHANGED <<seen, todo, clients, send, handler, base>>
  BY DEF WriteMessage, hub, chans
<1>2. ASSUME NEW d \in Clients \ {c} PROVE Owed(d)' = Owed(d) /\ Status(d)' = Status(d)
  <2>1. Untouched(d)
    BY <1>1 DEF Untouched, TypeOK
  <2>2. QED BY <1>1, <2>1, UntouchedOwed
<1>3. ~Stopped(c) /\ ~Stopped(c)' /\ inHand'[c] = <<>>
  BY <1>1 DEF Stopped, TypeOK
<1>4. Status(c)' = Status(c)
  BY <1>1, <1>3 DEF Status, Registered
<1> DEFINE t == IF c \in todo THEN <<seen>> ELSE <<>>
<1>5. t \in Seq(Nat) /\ send[c] \in Seq(Nat) /\ written[c] \in Seq(Nat)
  BY ClientTypes
<1>6. Owed(c) = (inHand[c] \o send[c]) \o t /\ Owed(c)' = (<<>> \o send[c]) \o t
  BY <1>1, <1>3 DEF Owed
<1> HIDE DEF t
<1>7. CASE inHand[c] = <<>>
  <2>1. Owed(c)' = Owed(c)
    BY <1>6, <1>7
  <2>2. written' = written
    BY <1>1, <1>5, <1>7 DEF TypeOK
  <2>3. QED BY <1>1, <1>2, <1>4, <2>1, <2>2, Invisible
<1>8. CASE inHand[c] # <<>>
  <2>1. PICK n \in Nat : inHand[c] = <<n>>
    <3>1. inHand[c] = <<base[c] + Len(written[c]) + 1>>
      BY <1>8 DEF Streams, Pieces
    <3>2. base[c] + Len(written[c]) + 1 \in Nat
      BY ClientTypes
    <3>3. QED BY <3>1, <3>2
  <2>2. Owed(c) # <<>> /\ Head(Owed(c)) = n /\ Tail(Owed(c)) = Owed(c)'
    <3>1. Owed(c) = (<<n>> \o send[c]) \o t
      BY <1>6, <2>1
    <3> DEFINE u == (<<n>> \o send[c]) \o t
    <3>2. u # <<>> /\ Head(u) = n /\ Tail(u) = (<<>> \o send[c]) \o t
      BY <1>5, OldestFirst
    <3>3. Owed(c) = u
      BY <3>1
    <3> HIDE DEF u
    <3>4. Owed(c)' = (<<>> \o send[c]) \o t
      BY <1>6
    <3>5. Tail(u) = Owed(c)'
      BY <3>2, <3>4
    <3>6. QED BY <3>2, <3>3, <3>5
  <2>3. Debts[c] = Owed(c) /\ c \in DOMAIN Debts
    BY DEF Debts
  <2>4. Debts' = [Debts EXCEPT ![c] = Tail(@)]
    BY <1>2, <2>2, <2>3, OneClient
  <2>5. written' = [written EXCEPT ![c] = Append(@, Head(Debts[c]))]
    <3>1. written[c] \o <<n>> = Append(written[c], n)
      BY <1>5
    <3>2. QED BY <1>1, <2>1, <2>2, <2>3, <3>1
  <2>6. Statuses' = Statuses
    BY <1>2, <1>4 DEF Statuses
  <2>7. QED BY <1>1, <2>2, <2>3, <2>4, <2>5, <2>6 DEF Club!Receive
<1>9. QED BY <1>7, <1>8

\* A failed write: the client has left, and loses all it was owed.
LEMMA WriteFailsLeaves ==
    ASSUME TypeOK, Streams, NEW c \in Clients, WriteFails(c)
    PROVE  \E n \in 0..Len(Debts[c]) : Club!Leave(c, n)
<1>1. /\ writer[c] = "writing"
      /\ writer' = [writer EXCEPT ![c] = "closing"]
      /\ inHand' = [inHand EXCEPT ![c] = <<>>]
      /\ UNCHANGED <<seen, todo, clients, send, handler, written, base>>
  BY DEF WriteFails, hub, chans
<1>2. ASSUME NEW d \in Clients \ {c} PROVE Owed(d)' = Owed(d) /\ Status(d)' = Status(d)
  <2>1. Untouched(d)
    BY <1>1 DEF Untouched, TypeOK
  <2>2. QED BY <1>1, <2>1, UntouchedOwed
<1>3. Registered(c) /\ Registered(c)' /\ Stopped(c)'
  BY <1>1 DEF Streams, Unused, Registered, Stopped, TypeOK
<1>4. Status(c) # "outside" /\ Status(c)' = "left"
  BY <1>3 DEF Status
<1>5. Owed(c) \in Seq(Nat) /\ Owed(c)' = <<>>
  BY <1>3, OwedTypes DEF Owed
<1>6. 0 \in 0..Len(Owed(c)) /\ Owed(c)' = SubSeq(Owed(c), 1, 0)
  BY <1>5
<1>7. QED BY <1>1, <1>2, <1>4, <1>6, Leaving

\* Connections come up and go down, and messages queue up, unseen by the promise.
LEMMA OthersInvisible ==
    ASSUME TypeOK, Streams, NEW c \in Clients,
           \/ Broadcast \/ Connect(c) \/ StartGoroutines(c) \/ PeerLeaves(c)
           \/ Reader(c) \/ WriterCloses(c)
    PROVE  UNCHANGED <<seen, Statuses, Debts, written>>
<1>1. UNCHANGED <<seen, todo, clients, send, inHand, written>>
  BY DEF Broadcast, Connect, StartGoroutines, PeerLeaves, Reader, ReadFails, ReaderCloses,
         WriterCloses, hub, chans
<1>2. ASSUME NEW d \in Clients
      PROVE  (Stopped(d)' <=> Stopped(d)) /\ (Registered(d)' <=> Registered(d))
  <2>1. handler[d] # "done" => writer[d] = "none"
    BY DEF Streams, Unused
  <2>2. CASE Broadcast \/ PeerLeaves(c) \/ Reader(c)
    BY <2>2 DEF Broadcast, PeerLeaves, Reader, ReadFails, ReaderCloses, gos, Stopped, Registered
  <2>3. CASE Connect(c)
    BY <2>3 DEF Connect, Stopped, Registered, TypeOK
  <2>4. CASE StartGoroutines(c)
    BY <2>1, <2>4 DEF StartGoroutines, Stopped, Registered, TypeOK
  <2>5. CASE WriterCloses(c)
    BY <2>5 DEF WriterCloses, Stopped, Registered, TypeOK
  <2>6. QED BY <2>2, <2>3, <2>4, <2>5
<1>3. \A d \in Clients : Owed(d)' = Owed(d) /\ Status(d)' = Status(d)
  BY <1>1, <1>2 DEF Owed, Status
<1>4. QED BY <1>1, <1>3, Invisible

\* Every step of the hub is a step of the promise, or invisible to it.
LEMMA BroadcastStep ==
    ASSUME TypeOK, Lifecycle, Streams, [Next]_vars
    PROVE  Club!Next \/ UNCHANGED <<seen, Statuses, Debts, written>>
<1>1. CASE UNCHANGED vars
  <2>1. UNCHANGED <<seen, todo, clients, send, handler, writer, inHand, written>>
    BY <1>1 DEF vars, hub, chans, gos
  <2>2. \A d \in Clients : Owed(d)' = Owed(d) /\ Status(d)' = Status(d)
    BY <2>1 DEF Owed, Status, Stopped, Registered
  <2>3. QED BY <2>1, <2>2, Invisible
<1>2. CASE Broadcast
  <2>1. CASE Clients = {}
    BY <1>2, <2>1 DEF Broadcast, Statuses, Debts
  <2>2. CASE Clients # {}
    BY <1>2, <2>2, OthersInvisible
  <2>3. QED BY <2>1, <2>2
<1>3. CASE TakeMessage
  BY <1>3, TakePublishes DEF Club!Next
<1>4. ASSUME NEW c \in Clients, Register(c) \/ Unregister(c) \/ Visit(c)
      PROVE  Club!Next \/ UNCHANGED <<seen, Statuses, Debts, written>>
  BY <1>4, RegisterJoins, UnregisterLeaves, DeliverInvisible, EvictLeaves DEF Visit, Club!Next
<1>5. ASSUME NEW c \in Clients, Connect(c) \/ StartGoroutines(c) \/ PeerLeaves(c) \/ Reader(c)
      PROVE  UNCHANGED <<seen, Statuses, Debts, written>>
  BY <1>5, OthersInvisible
<1>6. ASSUME NEW c \in Clients, Writer(c) \/ Write(c)
      PROVE  Club!Next \/ UNCHANGED <<seen, Statuses, Debts, written>>
  BY <1>6, WriterTakesInvisible, WriterEndsInvisible, OthersInvisible, WriteReceives,
     WriteFailsLeaves DEF Writer, Write, Club!Next
<1>7. QED BY <1>1, <1>2, <1>3, <1>4, <1>5, <1>6 DEF Next

\* Nothing is published, owed or received initially.
LEMMA BroadcastInit == Init => Club!Init
<1> SUFFICES ASSUME Init PROVE Club!Init
  OBVIOUS
<1>1. \A c \in Clients : Owed(c) = <<>> /\ Status(c) = "outside"
  <2>1. (<<>> \o <<>>) \o <<>> = <<>>
    OBVIOUS
  <2>2. SUFFICES ASSUME NEW c \in Clients PROVE Owed(c) = <<>> /\ Status(c) = "outside"
    OBVIOUS
  <2>3. Status(c) = "outside"
    BY DEF Init, Status, Registered
  <2>4. /\ inHand[c] = <<>> /\ send[c] = <<>> /\ c \notin todo
    BY DEF Init
  <2>5. QED BY <2>1, <2>3, <2>4 DEF Owed
<1>2. QED BY <1>1 DEF Init, Club!Init, Statuses, Debts

\* The hub keeps the promise of AtomicBroadcast in every run: each client gets
\* every message published while it listens, in order and once, with a lag
\* that the capacity of Send bounds, and only one that has left loses any.
THEOREM BroadcastRefined == Spec => BroadcastSpec
<1> DEFINE IInv == TypeOK /\ Lifecycle /\ Streams
<1>1. Init => IInv /\ Club!Init
  BY TypeInit, LifecycleInit, StreamsInit, BroadcastInit
<1>2. IInv /\ [Next]_vars => IInv'
  BY TypeStep, LifecycleStep, StreamsStep
<1>3. IInv /\ [Next]_vars => [Club!Next]_(Club!club)
  <2>1. IInv /\ [Next]_vars => Club!Next \/ UNCHANGED <<seen, Statuses, Debts, written>>
    BY BroadcastStep
  <2>2. QED BY <2>1 DEF Club!club
<1> HIDE DEF IInv
<1>4. QED BY <1>1, <1>2, <1>3, PTL DEF Spec, BroadcastSpec, Club!Spec

=============================================================================
