---------------------------- MODULE WebSocketHub ----------------------------
(***************************************************************************)
(* The WebSocket hub of cmd/web/main.go: the hub goroutine (Run), which    *)
(* alone changes the map of clients, and for each connection the handler   *)
(* that registers it, a reader goroutine and a writer goroutine            *)
(* (handleWebSocket).  A client is one connection: it is used once.        *)
(*                                                                         *)
(* Messages are numbered in the order they enter the broadcast channel.    *)
(* register and unregister are unbuffered, so a send on them and the hub's *)
(* receive are one step.  A connection is "open" until its peer, the       *)
(* network or a local Close ends it; then it is "gone".                    *)
(***************************************************************************)
EXTENDS Naturals, Sequences

CONSTANTS
    Clients,       \* the connections
    BroadcastCap,  \* capacity of broadcast (256 in the code)
    SendCap,       \* capacity of a client's Send (256 in the code)
    MaxMsgs        \* bound: messages produced

ASSUME CapAssumption == /\ BroadcastCap \in Nat \ {0}
                        /\ SendCap \in Nat \ {0}
                        /\ MaxMsgs \in Nat

VARIABLES
    broadcast,  \* the channel of messages for everyone
    produced,   \* messages put into broadcast so far
    seen,       \* messages the hub has taken from it
    todo,       \* clients the hub has still to visit for the message it took
    clients,    \* h.clients
    send,       \* the Send channel of each client
    closes,     \* how often that channel was closed; twice would panic
    conn,       \* the connection of each client
    handler,    \* where the handler of each connection is
    reader,     \* where its reader goroutine is
    writer,     \* where its writer goroutine is
    inHand,     \* the message the writer took and has not written, or none
    written,    \* history: messages WriteMessage accepted
    base        \* history: messages the hub had taken when it registered the client

hub   == <<broadcast, produced, seen, todo, clients>>
chans == <<send, closes>>
gos   == <<handler, reader, writer>>
vars  == <<hub, chans, conn, gos, inHand, written, base>>

Closed(c)     == closes[c] > 0
Registered(c) == handler[c] \in {"starting", "done"}

Init == /\ broadcast = <<>> /\ produced = 0 /\ seen = 0
        /\ todo = {} /\ clients = {}
        /\ send = [c \in Clients |-> <<>>]
        /\ closes = [c \in Clients |-> 0]
        /\ conn = [c \in Clients |-> "none"]
        /\ handler = [c \in Clients |-> "none"]
        /\ reader = [c \in Clients |-> "none"]
        /\ writer = [c \in Clients |-> "none"]
        /\ inHand = [c \in Clients |-> <<>>]
        /\ written = [c \in Clients |-> <<>>]
        /\ base = [c \in Clients |-> 0]

-----------------------------------------------------------------------------
(* The event router, and the hub goroutine *)

\* hub.broadcast <- msg, which waits for room.
Broadcast ==
    /\ produced < MaxMsgs /\ Len(broadcast) < BroadcastCap
    /\ produced' = produced + 1
    /\ broadcast' = Append(broadcast, produced + 1)
    /\ UNCHANGED <<seen, todo, clients, chans, conn, gos, inHand, written, base>>

\* The hub is in its select statement.
Selecting == todo = {}

\* case client := <-h.register
Register(c) ==
    /\ Selecting /\ handler[c] = "registering"
    /\ handler' = [handler EXCEPT ![c] = "starting"]
    /\ clients' = clients \cup {c}
    /\ base' = [base EXCEPT ![c] = seen]
    /\ UNCHANGED <<broadcast, produced, seen, todo, chans, conn, reader, writer, inHand, written>>

\* The test of the unregister case, and mutants: it is left out, or the
\* channel is left to the garbage collector.
NoTest(c)      == TRUE
NeverCloses(c) == FALSE
StillThere(c)  == c \in clients

Close(c) == closes' = [closes EXCEPT ![c] = @ + 1]

\* case client := <-h.unregister
Unregister(c) ==
    /\ Selecting /\ reader[c] = "unregistering"
    /\ reader' = [reader EXCEPT ![c] = "closing"]
    /\ clients' = clients \ {c}
    /\ IF StillThere(c) THEN Close(c) ELSE UNCHANGED closes
    /\ UNCHANGED <<broadcast, produced, seen, todo, send, conn, handler, writer, inHand,
                   written, base>>

\* case message := <-h.broadcast; the loop over h.clients follows.
TakeMessage ==
    /\ Selecting /\ broadcast # <<>>
    /\ broadcast' = Tail(broadcast)
    /\ seen' = Head(broadcast)
    /\ todo' = clients
    /\ UNCHANGED <<produced, clients, chans, conn, gos, inHand, written, base>>

\* Mutant of Deliver: Send takes one message too many.
Overfill(c) ==
    /\ c \in todo /\ Len(send[c]) <= SendCap
    /\ send' = [send EXCEPT ![c] = Append(@, seen)]
    /\ todo' = todo \ {c}
    /\ UNCHANGED <<broadcast, produced, seen, clients, closes, conn, gos, inHand, written, base>>

\* case client.Send <- message: Go visits the map in any order.
Deliver(c) ==
    /\ c \in todo /\ Len(send[c]) < SendCap
    /\ send' = [send EXCEPT ![c] = Append(@, seen)]
    /\ todo' = todo \ {c}
    /\ UNCHANGED <<broadcast, produced, seen, clients, closes, conn, gos, inHand, written, base>>

\* Mutant of Evict: a full client is skipped and keeps its place.
SkipFull(c) ==
    /\ c \in todo /\ Len(send[c]) = SendCap
    /\ todo' = todo \ {c}
    /\ UNCHANGED <<broadcast, produced, seen, clients, chans, conn, gos, inHand, written, base>>

\* Mutant of Evict: the channel is closed but the client stays in the map.
CloseOnly(c) ==
    /\ c \in todo /\ Len(send[c]) = SendCap
    /\ Close(c)
    /\ todo' = todo \ {c}
    /\ UNCHANGED <<broadcast, produced, seen, clients, send, conn, gos, inHand, written, base>>

\* Mutant of Evict: a plain send, which waits while Send is full.
WaitFull(c) == FALSE

\* default: Send is full; the client is closed and deleted.
Evict(c) ==
    /\ c \in todo /\ Len(send[c]) = SendCap
    /\ Close(c)
    /\ clients' = clients \ {c} /\ todo' = todo \ {c}
    /\ UNCHANGED <<broadcast, produced, seen, send, conn, gos, inHand, written, base>>

-----------------------------------------------------------------------------
(* A connection *)

\* A browser connects and Upgrade succeeds (a failed upgrade changes nothing).
Connect(c) ==
    /\ handler[c] = "none"
    /\ handler' = [handler EXCEPT ![c] = "registering"]
    /\ conn' = [conn EXCEPT ![c] = "open"]
    /\ UNCHANGED <<hub, chans, reader, writer, inHand, written, base>>

\* The two goroutines start only after the hub has taken the registration.
StartGoroutines(c) ==
    /\ handler[c] = "starting"
    /\ handler' = [handler EXCEPT ![c] = "done"]
    /\ reader' = [reader EXCEPT ![c] = "reading"]
    /\ writer' = [writer EXCEPT ![c] = "waiting"]
    /\ UNCHANGED <<hub, chans, conn, inHand, written, base>>

\* The peer or the network ends the connection.
PeerLeaves(c) ==
    /\ conn[c] = "open"
    /\ conn' = [conn EXCEPT ![c] = "gone"]
    /\ UNCHANGED <<hub, chans, gos, inHand, written, base>>

\* ReadMessage returns an error: the deferred function unregisters.
ReadFails(c) ==
    /\ reader[c] = "reading" /\ conn[c] = "gone"
    /\ reader' = [reader EXCEPT ![c] = "unregistering"]
    /\ UNCHANGED <<hub, chans, conn, handler, writer, inHand, written, base>>

\* The deferred function closes the connection after the unregistration.
ReaderCloses(c) ==
    /\ reader[c] = "closing"
    /\ reader' = [reader EXCEPT ![c] = "done"]
    /\ conn' = [conn EXCEPT ![c] = "gone"]
    /\ UNCHANGED <<hub, chans, handler, writer, inHand, written, base>>

\* for msg := range client.Send: the next message, also of a closed channel
\* that is not yet drained.
WriterTakes(c) ==
    /\ writer[c] = "waiting" /\ send[c] # <<>>
    /\ writer' = [writer EXCEPT ![c] = "writing"]
    /\ inHand' = [inHand EXCEPT ![c] = <<Head(send[c])>>]
    /\ send' = [send EXCEPT ![c] = Tail(@)]
    /\ UNCHANGED <<hub, closes, conn, handler, reader, written, base>>

\* The range ends: the channel is closed and drained.
WriterEnds(c) ==
    /\ writer[c] = "waiting" /\ send[c] = <<>> /\ Closed(c)
    /\ writer' = [writer EXCEPT ![c] = "closing"]
    /\ UNCHANGED <<hub, chans, conn, handler, reader, inHand, written, base>>

\* WriteMessage succeeds; the bytes may still be lost with the connection.
\* There is no write deadline, so on an open connection it may never return.
WriteMessage(c) ==
    /\ writer[c] = "writing"
    /\ writer' = [writer EXCEPT ![c] = "waiting"]
    /\ written' = [written EXCEPT ![c] = @ \o inHand[c]]
    /\ inHand' = [inHand EXCEPT ![c] = <<>>]
    /\ UNCHANGED <<hub, chans, conn, handler, reader, base>>

\* Mutant of WriteFails: the loop continues.
WriteContinues(c) ==
    /\ writer[c] = "writing" /\ conn[c] = "gone"
    /\ writer' = [writer EXCEPT ![c] = "waiting"]
    /\ inHand' = [inHand EXCEPT ![c] = <<>>]
    /\ UNCHANGED <<hub, chans, conn, handler, reader, written, base>>

\* WriteMessage fails: the loop is left and the message is lost.
WriteFails(c) ==
    /\ writer[c] = "writing" /\ conn[c] = "gone"
    /\ writer' = [writer EXCEPT ![c] = "closing"]
    /\ inHand' = [inHand EXCEPT ![c] = <<>>]
    /\ UNCHANGED <<hub, chans, conn, handler, reader, written, base>>

\* conn.Close() after the loop.
WriterCloses(c) ==
    /\ writer[c] = "closing"
    /\ writer' = [writer EXCEPT ![c] = "done"]
    /\ conn' = [conn EXCEPT ![c] = "gone"]
    /\ UNCHANGED <<hub, chans, handler, reader, inHand, written, base>>

-----------------------------------------------------------------------------
Visit(c) == Deliver(c) \/ Evict(c)

Reader(c) == ReadFails(c) \/ ReaderCloses(c)

Writer(c) == WriterTakes(c) \/ WriterEnds(c) \/ WriterCloses(c)

Write(c) == WriteMessage(c) \/ WriteFails(c)

Next == \/ Broadcast
        \/ TakeMessage
        \/ \E c \in Clients : \/ Register(c)
                              \/ Unregister(c)
                              \/ Visit(c)
                              \/ Connect(c)
                              \/ StartGoroutines(c)
                              \/ PeerLeaves(c)
                              \/ Reader(c)
                              \/ Writer(c)
                              \/ Write(c)

Spec == Init /\ [][Next]_vars

\* Go's select chooses at random among its ready cases, so a case that is
\* ready again and again is taken: strong fairness.  A write has no deadline
\* and returns for sure only when the connection is gone.  (Actions of one
\* goroutine, and the two cases of a client, are never enabled together.)
Fairness ==
    /\ SF_vars(TakeMessage)
    /\ \A c \in Clients :
        /\ SF_vars(Register(c) \/ Unregister(c))
        /\ WF_vars(Visit(c))
        /\ WF_vars(StartGoroutines(c) \/ Reader(c))
        /\ WF_vars(Writer(c) \/ (conn[c] = "gone" /\ Write(c)))

FairSpec == Spec /\ Fairness

-----------------------------------------------------------------------------
\* Every variable has its type.
TypeOK ==
    /\ broadcast \in Seq(Nat) /\ Len(broadcast) <= BroadcastCap
    /\ produced \in Nat /\ seen \in Nat
    /\ clients \subseteq Clients /\ todo \subseteq Clients
    /\ send \in [Clients -> Seq(Nat)]
    /\ \A c \in Clients : Len(send[c]) <= SendCap
    /\ closes \in [Clients -> Nat]
    /\ conn \in [Clients -> {"none", "open", "gone"}]
    /\ handler \in [Clients -> {"none", "registering", "starting", "done"}]
    /\ reader \in [Clients -> {"none", "reading", "unregistering", "closing", "done"}]
    /\ writer \in [Clients -> {"none", "waiting", "writing", "closing", "done"}]
    /\ inHand \in [Clients -> Seq(Nat)]
    /\ written \in [Clients -> Seq(Nat)]
    /\ base \in [Clients -> Nat]

\* No panic: a Send channel is closed once at most, and the hub never sends to
\* a closed one.  The eviction of a full client and the unregistration of its
\* reader both close it, in either order, while writer and peer go on.
NoPanic == \A c \in Clients :
    closes[c] <= 1 /\ (c \in clients \cup todo => ~Closed(c))

\* No leak: a client that is out of the map after its registration has a
\* closed channel, so its writer can end.
LeftIsClosed == \A c \in Clients : Registered(c) /\ c \notin clients => Closed(c)

\* The writer has left its loop; what is still in Send is for nobody.
Stopped(c) == writer[c] \in {"closing", "done"}

\* What a client was given since its registration, oldest first.
Stream(c) == IF Stopped(c) THEN written[c] ELSE written[c] \o inHand[c] \o send[c]

\* A client sees a gapless piece of the broadcast that starts right after its
\* registration: a slow client is disconnected, it is never skipped, and no
\* message overtakes another in the hub, in Send or in the writer.
NoGaps == \A c \in Clients : \A k \in DOMAIN Stream(c) : Stream(c)[k] = base[c] + k

-----------------------------------------------------------------------------
\* What client c has still to get: what its writer holds, what waits in Send,
\* and the message whose visit is still to come.
Owed(c) == IF Stopped(c) THEN <<>>
           ELSE inHand[c] \o send[c] \o (IF c \in todo THEN <<seen>> ELSE <<>>)

Status(c) == IF ~Registered(c) THEN "outside"
             ELSE IF c \in clients /\ ~Stopped(c) THEN "listening" ELSE "left"

Statuses == [c \in Clients |-> Status(c)]
Debts    == [c \in Clients |-> Owed(c)]

Club == INSTANCE AtomicBroadcast WITH
            Room   <- SendCap + 2,
            news   <- seen,
            status <- Statuses,
            owed   <- Debts,
            got    <- written

\* The hub keeps the promise of AtomicBroadcast: its loop over the clients,
\* during which writers, readers and peers go on, cannot be told from a
\* publication to all of them at once, and nobody who stays misses a message.
BroadcastSpec == Club!Spec

-----------------------------------------------------------------------------
\* The hub comes to the end of every message, whatever the clients do: a peer
\* that stops reading stalls its writer, never the hub.
HubNeverStalls == \A m \in 1..MaxMsgs :
    produced >= m ~> seen > m \/ (seen = m /\ todo = {})

\* A connection that is gone is reaped: it leaves the map and both its
\* goroutines end.
GoneIsReaped == \A c \in Clients :
    conn[c] = "gone" ~> c \notin clients /\ reader[c] = "done" /\ writer[c] = "done"
=============================================================================
