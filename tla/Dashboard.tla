----------------------------- MODULE Dashboard ------------------------------
(***************************************************************************)
(* The lists of the dashboard (frontend/static/js/app.js): each is fetched *)
(* over HTTP and extended by what /ws pushes, and the two are not in step. *)
(* The server's part is the tables, the queries behind the lists           *)
(* (backend/api.go, alarm_notifier.go, pue_calculator.go) and the messages *)
(* that follow an INSERT; buffers and hub are in EventRouter, WebSocketHub.*)
(*                                                                         *)
(* A row is known by its place in its table, an entry of a list by the     *)
(* rows it stands for.  A connection is an upgrade of /ws that succeeded.  *)
(***************************************************************************)
EXTENDS Integers, SequencesExt

CONSTANTS
    Feeds,       \* among "alarm", "optimization" and "pue_update"
    Limit,       \* LIMIT of the lists but the trend (50 and 100)
    Null,        \* JavaScript's null
    MaxRows,     \* bound: rows of the table of a feed
    MaxFetches   \* bound: requests for the trend

ASSUME DashboardAssumption == /\ Limit \in Nat /\ MaxRows \in [Feeds -> Nat]
                              /\ MaxFetches \in Nat \ {0}

VARIABLES
    stored,    \* rows in the table of a feed: 1..stored[f]
    said,      \* its rows up to this one were broadcast or dropped
    dropped,   \* history: those of them that were dropped
    open,      \* whether the WebSocket is open
    wire,      \* the messages on their way to the dashboard
    calls,     \* the requests under way; rows is Null until the server answers
    fetches,   \* requests made for the trend
    list,      \* alarms, suggestions and pueData
    got,       \* history: the last row that reached the dashboard or was missed
    since      \* history: got, or the rows of the list, when it was fetched

server  == <<stored, said, dropped>>
network == <<open, wire>>
http    == <<calls, fetches>>
history == <<got, since>>
vars    == <<server, network, http, list, history>>

\* The places in the tables.
Places == UNION {0..MaxRows[f] : f \in Feeds}

-----------------------------------------------------------------------------
\* fetchAlarms, fetchSuggestions, fetchPUE: call n asks for the list of f.
Call(f, n) == [feed |-> f, id |-> n, rows |-> Null]

\* What a query answers when the table has n rows: the newest first and limited,
\* or the trend in order.  A nil slice is encoded as null.
Newest(n) == [i \in 1 .. (IF n < Limit THEN n ELSE Limit) |-> <<n + 1 - i>>]
Trend(n)  == [i \in 1..n |-> <<i>>]
Answer(f, n) == IF n = 0 THEN Null ELSE IF f = "pue_update" THEN Trend(n) ELSE Newest(n)

\* init: the page connects and asks for every list, of a server at any point.
Init ==
    /\ stored \in [Feeds -> Places] /\ said \in [Feeds -> Places]
    /\ \A f \in Feeds : stored[f] < MaxRows[f] /\ said[f] <= stored[f]
    /\ dropped = [f \in Feeds |-> {}]
    /\ open = FALSE /\ wire = <<>>
    /\ calls = {Call(f, 1) : f \in Feeds} /\ fetches = 1
    /\ list = [f \in Feeds |-> <<>>]
    /\ got = said /\ since = said

-----------------------------------------------------------------------------
(* The server *)

\* An INSERT.
Store(f) ==
    /\ stored[f] < MaxRows[f] /\ stored' = [stored EXCEPT ![f] = @ + 1]
    /\ UNCHANGED <<said, dropped, network, http, list, history>>

\* Rows of one message: of a round or a check, or one record.
Batches(f) == IF f = "pue_update" THEN {said[f] + 1} ELSE said[f] + 1 .. stored[f]

\* The message with the rows of f up to n.
Message(f, n) == [feed |-> f, rows |-> [i \in 1 .. n - said[f] |-> said[f] + i]]

\* The rows up to n are broadcast; a page that is not connected misses them.
Push(f) ==
    \E n \in Batches(f) \cap (1..stored[f]) :
        /\ said' = [said EXCEPT ![f] = n]
        /\ wire' = IF open THEN Append(wire, Message(f, n)) ELSE wire
        /\ UNCHANGED <<stored, dropped, open, http, list, history>>

\* outCh is full, or the check that inserted the rows ends with an error.
Drop(f) ==
    \E n \in Batches(f) \cap (1..stored[f]) :
        /\ said' = [said EXCEPT ![f] = n]
        /\ dropped' = [dropped EXCEPT ![f] = @ \cup (said[f] + 1 .. n)]
        /\ UNCHANGED <<stored, network, http, list, history>>

\* HandleGetAlarms, HandleGetSuggestions, HandleGetPUETrend run their query.
ServerAnswers(c) ==
    /\ c.rows = Null
    /\ calls' = (calls \ {c}) \cup {[c EXCEPT !.rows = stored[c.feed]]}
    /\ UNCHANGED <<server, network, fetches, list, history>>

-----------------------------------------------------------------------------
(* The page *)

\* The promise of a request is resolved: the list is replaced.
Apply(c) ==
    /\ c.rows # Null /\ calls' = calls \ {c}
    /\ list' = [list EXCEPT ![c.feed] = Answer(c.feed, c.rows)]
    /\ since' = [since EXCEPT ![c.feed] = IF c.rows > got[c.feed] THEN c.rows ELSE got[c.feed]]
    /\ UNCHANGED <<server, network, fetches, got>>

\* The request fails, or is answered with an error: catch does nothing.
FetchFails(c) ==
    /\ calls' = calls \ {c}
    /\ UNCHANGED <<server, network, fetches, list, history>>

\* switchTab('pue') asks for the trend again, whatever is under way.
SwitchTab ==
    /\ "pue_update" \in Feeds /\ fetches < MaxFetches
    /\ fetches' = fetches + 1 /\ calls' = calls \cup {Call("pue_update", fetches')}
    /\ UNCHANGED <<server, network, list, history>>

\* concat adds the records of a message one by one, unshift puts the array of
\* the others in front as one element, and both throw on null.  Mutant: the
\* message replaces the list.
Entries(f, rows)  == IF f = "pue_update" THEN [i \in DOMAIN rows |-> <<rows[i]>>] ELSE <<rows>>
Replaced(f, rows) == IF list[f] = Null THEN Null ELSE Entries(f, rows)
Extended(f, rows) == IF list[f] = Null THEN Null
                     ELSE IF f = "pue_update" THEN list[f] \o Entries(f, rows)
                     ELSE Entries(f, rows) \o list[f]

\* onmessage.
Receive ==
    /\ open /\ wire # <<>> /\ wire' = Tail(wire)
    /\ LET m == Head(wire) IN
           /\ list' = [list EXCEPT ![m.feed] = Extended(m.feed, m.rows)]
           /\ got' = [got EXCEPT ![m.feed] = Last(m.rows)]
    /\ UNCHANGED <<server, open, http, since>>

\* What becomes of the messages on their way, and mutant: they come later.
Kept(w) == w
Lost(w) == <<>>

\* onclose.
Close ==
    /\ open /\ open' = FALSE /\ wire' = Lost(wire)
    /\ UNCHANGED <<server, http, list, history>>

\* connectWebSocket again, five seconds later; nothing is fetched.
Connect ==
    /\ ~open /\ open' = TRUE
    /\ got' = said
    /\ since' = [f \in Feeds |-> IF said[f] > since[f] THEN said[f] ELSE since[f]]
    /\ UNCHANGED <<server, wire, http, list>>

Next == \/ \E f \in Feeds : Store(f) \/ Push(f) \/ Drop(f)
        \/ \E c \in calls : ServerAnswers(c) \/ Apply(c) \/ FetchFails(c)
        \/ SwitchTab \/ Receive \/ Close \/ Connect

Spec == Init /\ [][Next]_vars

-----------------------------------------------------------------------------
\* Every variable has its type; the trend is a list of single records, and only
\* an open connection carries messages.
TypeOK ==
    /\ \A f \in Feeds : stored[f] \in 0..MaxRows[f] /\ said[f] \in 0..stored[f]
    /\ \A f \in Feeds : dropped[f] \subseteq 1..said[f] /\ got[f] \in 0..said[f]
    /\ since \in [Feeds -> Places] /\ fetches \in 1..MaxFetches
    /\ open \in BOOLEAN /\ (wire = <<>> \/ open)
    /\ \A i \in DOMAIN wire : wire[i].feed \in Feeds /\ wire[i].rows \in Seq(Places)
    /\ \A c \in calls : c.feed \in Feeds /\ c.id \in 1..fetches /\ c.rows \in Places \cup {Null}
    /\ \A f \in Feeds : list[f] # Null =>
           \A i \in DOMAIN list[f] :
               list[f][i] \in Seq(Places) /\ (f = "pue_update" => Len(list[f][i]) = 1)

\* The rows the list of f stands for, the oldest first, and those on their way.
Rows(f)     == FlattenSeq(IF f = "pue_update" THEN list[f] ELSE Reverse(list[f]))
Arriving(f) == FlattenSeq([i \in DOMAIN wire |-> IF wire[i].feed = f THEN wire[i].rows ELSE <<>>])

\* The rows of s after row n are those of the set T, each once and in order.
Shows(s, n, T) == LET Later == {i \in DOMAIN s : s[i] > n}
                  IN  /\ {s[i] : i \in Later} = T
                      /\ \A i, j \in Later : i < j => s[i] < s[j]

\* What a page may miss is bounded: after its list was fetched and the connection
\* opened, whichever came last, every row that is broadcast is in the list once
\* and in order, or on its way, while the connection stays open.
LaterRowsShown ==
    open => \A f \in Feeds : list[f] # Null =>
        Shows(Rows(f) \o Arriving(f), since[f], (since[f] + 1 .. said[f]) \ dropped[f])
=============================================================================
