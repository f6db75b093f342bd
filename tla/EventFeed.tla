------------------------------ MODULE EventFeed ------------------------------
(***************************************************************************)
(* What the pipeline from a producing component to the dashboard promises, *)
(* per source: an item that was accepted is shown exactly once, in the     *)
(* order of acceptance, after every earlier one; an item may be dropped,   *)
(* but only at the door, and no source delays or reorders another.         *)
(***************************************************************************)
EXTENDS Naturals, Sequences

CONSTANTS Sources,   \* the producing components
          Items,     \* the numbers items may carry
          Room       \* most items of a source that may be under way

VARIABLES queue,     \* accepted items under way, per source, oldest first
          shown      \* items shown, per source, oldest first

feed == <<queue, shown>>

Init == /\ queue = [s \in Sources |-> <<>>]
        /\ shown = [s \in Sources |-> <<>>]

\* Source s accepts an item newer than all before it.
Accept(s) ==
    /\ Len(queue[s]) < Room
    /\ \E n \in Items : /\ \A i \in DOMAIN queue[s] : queue[s][i] < n
                        /\ \A i \in DOMAIN shown[s] : shown[s][i] < n
                        /\ queue' = [queue EXCEPT ![s] = Append(@, n)]
    /\ UNCHANGED shown

\* The oldest item of source s is shown.
Show(s) ==
    /\ queue[s] # <<>>
    /\ queue' = [queue EXCEPT ![s] = Tail(@)]
    /\ shown' = [shown EXCEPT ![s] = Append(@, Head(queue[s]))]

Next == \E s \in Sources : Accept(s) \/ Show(s)

Spec == Init /\ [][Next]_feed
=============================================================================
