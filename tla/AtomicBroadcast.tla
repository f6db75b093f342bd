--------------------------- MODULE AtomicBroadcast ---------------------------
(***************************************************************************)
(* What the hub promises its clients, without its loop and its channels.   *)
(* A message is published to every listening client at once.  Each client  *)
(* gets what it is owed in order, at its own pace, and is never owed more  *)
(* than Room messages; only when it has left may it lose some, and then    *)
(* the latest ones.                                                        *)
(***************************************************************************)
EXTENDS Naturals, Sequences

CONSTANTS Clients,  \* the connections
          Room      \* most messages a client may be owed

VARIABLES news,     \* messages published so far
          status,   \* outside, listening or left, for each client
          owed,     \* messages each client has still to get, oldest first
          got       \* messages each client has got

club == <<news, status, owed, got>>

Init == /\ news = 0
        /\ status = [c \in Clients |-> "outside"]
        /\ owed = [c \in Clients |-> <<>>]
        /\ got = [c \in Clients |-> <<>>]

Listening == {c \in Clients : status[c] = "listening"}

Publish ==
    /\ \A c \in Listening : Len(owed[c]) < Room
    /\ news' = news + 1
    /\ owed' = [c \in Clients |-> IF c \in Listening THEN Append(owed[c], news + 1) ELSE owed[c]]
    /\ UNCHANGED <<status, got>>

Join(c) ==
    /\ status[c] = "outside"
    /\ status' = [status EXCEPT ![c] = "listening"]
    /\ UNCHANGED <<news, owed, got>>

Receive(c) ==
    /\ owed[c] # <<>>
    /\ got' = [got EXCEPT ![c] = Append(@, Head(owed[c]))]
    /\ owed' = [owed EXCEPT ![c] = Tail(@)]
    /\ UNCHANGED <<news, status>>

\* Client c leaves, or has left, and no more than n messages still reach it.
Leave(c, n) ==
    /\ status[c] # "outside"
    /\ status' = [status EXCEPT ![c] = "left"]
    /\ owed' = [owed EXCEPT ![c] = SubSeq(@, 1, n)]
    /\ UNCHANGED <<news, got>>

Next == \/ Publish
        \/ \E c \in Clients : \/ Join(c) \/ Receive(c)
                              \/ \E n \in 0..Len(owed[c]) : Leave(c, n)

Spec == Init /\ [][Next]_club
=============================================================================
