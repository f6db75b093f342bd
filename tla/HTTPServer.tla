----------------------------- MODULE HTTPServer -----------------------------
(***************************************************************************)
(* The HTTP side of cmd/web/main.go: every request goes through            *)
(* GzipMiddleware (backend/gzip.go), which takes a gzip writer from a pool *)
(* shared by all requests, then through MetricsMiddleware                  *)
(* (backend/metrics.go), which counts it, to the handler of its route: one *)
(* of backend/api.go, /ws, /metrics, pprof or the file server.             *)
(*                                                                         *)
(* A handler is known by the status codes it may answer with; what is sent *)
(* is known by the request it was written for.  A request is used once,    *)
(* and is no HEAD request.                                                 *)
(***************************************************************************)
EXTENDS Integers, FiniteSets

CONSTANTS
    Requests,  \* the requests
    Writers,   \* the gzip writers there may be
    None       \* no writer, no request

ASSUME HTTPAssumption == None \notin Requests \cup Writers /\ IsFiniteSet(Requests)

VARIABLES
    at,        \* where a request is
    route,     \* its route
    gw,        \* its gzip writer
    pool,      \* the idle writers of gzipWriterPool
    target,    \* the response a writer writes to
    status,    \* the status on the wire, 0 while there is none
    recorded,  \* statusCode of the metrics wrapper
    wire,      \* the requests whose bytes are in a response
    ended,     \* the responses whose gzip stream was ended
    total      \* http_requests_total, per status

request == <<at, route, gw>>
writers == <<pool, target>>
sent    == <<status, wire, ended>>
vars    == <<request, writers, sent, recorded, total>>

-----------------------------------------------------------------------------
(* The handlers *)

\* A query that fails is answered with 500, whatever the step it failed in; its
\* rows are answered with 200, no rows too.
HandleGet                == {200, 500}
HandleGetDeviceTelemetry == {400} \cup HandleGet
HandleGetCurrentPUE      == {404} \cup HandleGet
\* An alarm that does not exist is an error of AcknowledgeAlarm like any other.
HandleAcknowledgeAlarm   == {400} \cup HandleGet

\* /metrics of promhttp, and pprof.
Diagnostics == HandleGet

\* http.FileServer: a file, a part of it, a redirection, a file the browser has, or
\* none.  It has the catch-all route, where unknown paths and wrong methods end
\* too; the 301 is also that of mux for a path that is not clean.
Files == {200, 206, 301, 304, 404, 500}

\* The methods of the writer net/http gives, those of http.ResponseWriter, and
\* those of a struct that embeds the latter, as both middlewares' do.
Native          == {"Header", "Write", "WriteHeader", "Flush", "Hijack"}
ResponseWriter  == {"Header", "Write", "WriteHeader"}
Wrapped(methods) == methods \cap ResponseWriter

\* The methods that reach the handler of request r.
Methods(r) == Wrapped(IF gw[r] = None THEN Native ELSE Wrapped(Native))

\* upgrader.Upgrade: a good handshake needs to take the connection over.
HandleWebSocket(r) == IF "Hijack" \in Methods(r) THEN {101} ELSE {500}

Answers(r) == [get |-> HandleGet, telemetry |-> HandleGetDeviceTelemetry,
               current |-> HandleGetCurrentPUE, ack |-> HandleAcknowledgeAlarm,
               ws |-> HandleWebSocket(r), diagnostics |-> Diagnostics,
               files |-> Files][route[r]]
Routes     == {"get", "telemetry", "current", "ack", "ws", "diagnostics", "files"}
Statuses   == {0, 101, 200, 206, 301, 304, 400, 404, 500}

\* What is answered without a body, and what net/http allows none for.
NotModified == 304
Bodiless    == {301, NotModified}

-----------------------------------------------------------------------------
\* statusCode of a new metrics wrapper, and mutant: it is not set.
NoStatus      == 0
InitialStatus == 200

Init == /\ at = [r \in Requests |-> "new"] /\ route \in [Requests -> Routes]
        /\ gw = [r \in Requests |-> None]
        /\ pool = {} /\ target = [w \in Writers |-> None]
        /\ status = [r \in Requests |-> 0]
        /\ recorded = [r \in Requests |-> InitialStatus]
        /\ wire = [r \in Requests |-> {}] /\ ended = {}
        /\ total = [s \in Statuses |-> 0]

\* gw.Reset(w), and mutant: the writer keeps the response it had.
ResetFirst(w, r) == IF target[w] = None THEN r ELSE target[w]
Reset(w, r)      == r

\* Writers in the hands of a request.
Busy == {gw[r] : r \in {q \in Requests : at[q] \notin {"new", "done"}}} \ {None}

\* A request without gzip in Accept-Encoding passes through.
AcceptPlain(r) ==
    /\ at[r] = "new" /\ at' = [at EXCEPT ![r] = "handler"]
    /\ UNCHANGED <<route, gw, writers, sent, recorded, total>>

\* gzipWriterPool.Get and Reset: an idle writer, or a new one, which it may be
\* although there are idle ones.
AcceptGzip(r) ==
    /\ at[r] = "new" /\ at' = [at EXCEPT ![r] = "handler"]
    /\ \E w \in pool \cup {v \in Writers : target[v] = None} :
           /\ gw' = [gw EXCEPT ![r] = w] /\ pool' = pool \ {w}
           /\ target' = [target EXCEPT ![w] = Reset(w, r)]
    /\ UNCHANGED <<route, sent, recorded, total>>

\* Bytes of request r go where its writer writes to.
Into(r)  == IF gw[r] = None THEN r ELSE target[gw[r]]
Write(r) == wire' = [wire EXCEPT ![Into(r)] = @ \cup {r}]

\* A 200 is left to the first Write, except by the file server.
Implicit(r, s) == s = 200 /\ route[r] # "files"

\* The handler answers: by WriteHeader, past the compression and recorded on its
\* way, or with 200 by the first Write.
Handle(r) ==
    /\ at[r] = "handler" /\ at' = [at EXCEPT ![r] = "count"]
    /\ \E s \in Answers(r) :
           /\ IF Implicit(r, s)
              THEN status' = [status EXCEPT ![Into(r)] = IF @ = 0 THEN 200 ELSE @]
              ELSE status' = [status EXCEPT ![r] = s]
           /\ recorded' = IF Implicit(r, s) THEN recorded ELSE [recorded EXCEPT ![r] = s]
           /\ IF s \in Bodiless THEN UNCHANGED wire ELSE Write(r)
    /\ UNCHANGED <<route, gw, writers, ended, total>>

\* MetricsMiddleware counts the request once the handler has returned.
Count(r) ==
    /\ at[r] = "count" /\ at' = [at EXCEPT ![r] = IF gw[r] = None THEN "done" ELSE "close"]
    /\ total' = [total EXCEPT ![recorded[r]] = @ + 1]
    /\ UNCHANGED <<route, gw, writers, sent, recorded>>

\* gw.Flush and gw.Close write what is left and the end of the stream, an empty
\* one where there was no body; both fail, unseen, where there may be none.
Close(r) ==
    /\ at[r] = "close" /\ at' = [at EXCEPT ![r] = "put"]
    /\ IF status[Into(r)] = NotModified
       THEN UNCHANGED <<wire, ended>>
       ELSE Write(r) /\ ended' = ended \cup {Into(r)}
    /\ UNCHANGED <<route, gw, writers, status, recorded, total>>

\* The deferred Put.
Put(r) ==
    /\ at[r] = "put" /\ at' = [at EXCEPT ![r] = "done"]
    /\ pool' = pool \cup {gw[r]}
    /\ UNCHANGED <<route, gw, target, sent, recorded, total>>

Next == \E r \in Requests :
            AcceptPlain(r) \/ AcceptGzip(r) \/ Handle(r) \/ Count(r) \/ Close(r) \/ Put(r)

Spec == Init /\ [][Next]_vars

-----------------------------------------------------------------------------
\* Every variable has its type.
TypeOK ==
    /\ at \in [Requests -> {"new", "handler", "count", "close", "put", "done"}]
    /\ route \in [Requests -> Routes] /\ gw \in [Requests -> Writers \cup {None}]
    /\ pool \subseteq Writers /\ target \in [Writers -> Requests \cup {None}]
    /\ status \in [Requests -> Statuses] /\ recorded \in [Requests -> Statuses \ {0}]
    /\ wire \in [Requests -> SUBSET Requests] /\ ended \subseteq Requests
    /\ total \in [Statuses -> Nat]

\* However requests share the writers, a response holds the bytes of its own
\* request and no others, and none only where it has no body; a compressed one is
\* complete when it is done, a redirection with an empty stream too.
OwnResponse ==
    \A r \in Requests :
        /\ wire[r] \subseteq {r}
        /\ at[r] = "done" => status[r] # 0 /\ (wire[r] = {r} \/ status[r] \in Bodiless)
        /\ at[r] = "done" /\ gw[r] # None => r \in ended \/ status[r] = NotModified

\* The counters agree with what clients were sent: a request is counted once,
\* under the status on its wire.
CountedAsSent ==
    \A s \in Statuses :
        total[s] = Cardinality({r \in Requests : at[r] \in {"close", "put", "done"}
                                                 /\ status[r] = s})

\* A dashboard that asks for /ws is given a WebSocket connection.
UpgradeSucceeds ==
    \A r \in Requests : route[r] = "ws" /\ at[r] = "done" => status[r] = 101
=============================================================================
