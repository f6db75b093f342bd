---------------------------- MODULE AlarmDelivery ----------------------------
(***************************************************************************)
(* What the alarm notifier promises, without its goroutines, lists and     *)
(* counts.  An alarm is raised when its key has none open.  It is owed to  *)
(* the webhook until it is accepted, has been posted as often as may be,   *)
(* or is forgotten with an error or a crash; it is posted only while it    *)
(* is owed, and marked as sent only when it was accepted.                  *)
(***************************************************************************)
EXTENDS Naturals, Sequences

CONSTANTS Keys,      \* what an alarm is about
          MaxPosts   \* most posts of an alarm

VARIABLES alarms,    \* the table
          posts,     \* posts of each alarm so far
          reached,   \* alarms of which a post has reached the webhook
          fate       \* owed, accepted, spent or forgotten, for each alarm

delivery == <<alarms, posts, reached, fate>>

Init == alarms = <<>> /\ posts = <<>> /\ reached = {} /\ fate = <<>>

IsOpen(k) == \E i \in DOMAIN alarms : alarms[i].key = k /\ ~alarms[i].acknowledged
Owed      == {i \in DOMAIN alarms : fate[i] = "owed"}

\* An alarm of key k is raised; an error may hide it from its own process.
Raise(k) ==
    /\ ~IsOpen(k)
    /\ alarms' = Append(alarms, [key |-> k, acknowledged |-> FALSE, dingtalk_sent |-> FALSE])
    /\ posts' = Append(posts, 0)
    /\ \E f \in {"owed", "forgotten"} : fate' = Append(fate, f)
    /\ UNCHANGED reached

Post(i) ==
    /\ i \in Owed /\ posts[i] < MaxPosts
    /\ posts' = [posts EXCEPT ![i] = @ + 1]
    /\ UNCHANGED <<alarms, reached, fate>>

Reach(i) ==
    /\ i \in Owed /\ posts[i] > 0
    /\ reached' = reached \cup {i}
    /\ UNCHANGED <<alarms, posts, fate>>

Accept(i) ==
    /\ i \in Owed /\ i \in reached
    /\ fate' = [fate EXCEPT ![i] = "accepted"]
    /\ UNCHANGED <<alarms, posts, reached>>

Mark(i) ==
    /\ i \in DOMAIN alarms /\ fate[i] = "accepted"
    /\ alarms' = [alarms EXCEPT ![i].dingtalk_sent = TRUE]
    /\ UNCHANGED <<posts, reached, fate>>

GiveUp(i) ==
    /\ i \in Owed /\ posts[i] = MaxPosts
    /\ fate' = [fate EXCEPT ![i] = "spent"]
    /\ UNCHANGED <<alarms, posts, reached>>

\* Some of the owed alarms are forgotten at once.
Forget(S) ==
    /\ S \subseteq Owed
    /\ fate' = [i \in DOMAIN fate |-> IF i \in S THEN "forgotten" ELSE fate[i]]
    /\ UNCHANGED <<alarms, posts, reached>>

Acknowledge(i) ==
    /\ i \in DOMAIN alarms /\ ~alarms[i].acknowledged
    /\ alarms' = [alarms EXCEPT ![i].acknowledged = TRUE]
    /\ UNCHANGED <<posts, reached, fate>>

Next == \/ \E k \in Keys : Raise(k)
        \/ \E i \in DOMAIN alarms : \/ Post(i) \/ Reach(i) \/ Accept(i) \/ Mark(i)
                                    \/ GiveUp(i) \/ Acknowledge(i)
        \/ \E S \in SUBSET Owed : Forget(S)

Spec == Init /\ [][Next]_delivery
=============================================================================
