-------------------------- MODULE HTTPServerProofs --------------------------
(***************************************************************************)
(* Proofs about HTTPServer for every set of requests and writers: however  *)
(* the pool hands its writers out, a response holds the bytes of its own   *)
(* request, and the counters agree with the status lines.                  *)
(***************************************************************************)
EXTENDS HTTPServer, FiniteSetTheorems, TLAPS

(***************************************************************************)
(* Types                                                                   *)
(***************************************************************************)

\* The answers of the handlers are statuses.
LEMMA AnswerTypes ==
    ASSUME TypeOK, NEW r \in Requests
    PROVE  Answers(r) \subseteq Statuses \ {0}
<1>1. route[r] \in Routes
  BY DEF TypeOK
<1>2. HandleWebSocket(r) \subseteq Statuses \ {0}
  BY DEF HandleWebSocket, Statuses
<1>3. /\ HandleGet \subseteq Statuses \ {0}
      /\ HandleGetDeviceTelemetry \subseteq Statuses \ {0}
      /\ HandleGetCurrentPUE \subseteq Statuses \ {0}
      /\ HandleAcknowledgeAlarm \subseteq Statuses \ {0}
      /\ Diagnostics \subseteq Statuses \ {0} /\ Files \subseteq Statuses \ {0}
  BY DEF HandleGet, HandleGetDeviceTelemetry, HandleGetCurrentPUE, HandleAcknowledgeAlarm,
         Diagnostics, Files, Statuses
<1>4. QED BY <1>1, <1>2, <1>3 DEF Answers, Routes

(***************************************************************************)
(* Custody of the writers                                                  *)
(***************************************************************************)

\* Requests that hold a writer.
Holds(r) == at[r] \notin {"new", "done"} /\ gw[r] # None

\* A writer is held by one request, is not in the pool meanwhile, and writes to
\* the response of that request.
Custody == \A r \in Requests :
    /\ at[r] = "new" => gw[r] = None
    /\ Holds(r) => gw[r] \notin pool /\ target[gw[r]] = r
    /\ at[r] \in {"close", "put"} => gw[r] # None

\* Then a request's bytes go into its own response.
LEMMA IntoOwn ==
    ASSUME Custody, NEW r \in Requests, at[r] \notin {"new", "done"}
    PROVE  Into(r) = r
BY DEF Custody, Holds, Into

\* The types and the custody hold initially.
LEMMA TypeInit == Init => TypeOK /\ Custody
BY DEF Init, TypeOK, Custody, Holds, Statuses, InitialStatus

\* Every step of a request keeps the types.
LEMMA TypeRequest ==
    ASSUME TypeOK, Custody, NEW r \in Requests,
           AcceptPlain(r) \/ AcceptGzip(r) \/ Handle(r) \/ Count(r) \/ Close(r) \/ Put(r)
    PROVE  TypeOK'
<1> USE DEF TypeOK, writers, sent
<1>1. CASE AcceptPlain(r)
  BY <1>1 DEF AcceptPlain
<1>2. CASE AcceptGzip(r)
  BY <1>2 DEF AcceptGzip, Reset
<1>3. CASE Handle(r)
  <2>1. Into(r) = r
    BY <1>3, IntoOwn DEF Handle
  <2>2. PICK s \in Answers(r) :
            /\ IF Implicit(r, s)
               THEN status' = [status EXCEPT ![Into(r)] = IF @ = 0 THEN 200 ELSE @]
               ELSE status' = [status EXCEPT ![r] = s]
            /\ recorded' = IF Implicit(r, s) THEN recorded ELSE [recorded EXCEPT ![r] = s]
            /\ IF s \in Bodiless THEN UNCHANGED wire ELSE Write(r)
    BY <1>3 DEF Handle
  <2>3. s \in Statuses \ {0} /\ 200 \in Statuses
    BY <2>2, AnswerTypes DEF Statuses
  <2>4. status' \in [Requests -> Statuses] /\ recorded' \in [Requests -> Statuses \ {0}]
    BY <2>1, <2>2, <2>3
  <2>5. wire' \in [Requests -> SUBSET Requests]
    BY <2>1, <2>2 DEF Write
  <2>6. QED BY <1>3, <2>4, <2>5 DEF Handle
<1>4. CASE Count(r)
  <2>1. total' \in [Statuses -> Nat]
    BY <1>4 DEF Count
  <2>2. QED BY <1>4, <2>1 DEF Count
<1>5. CASE Close(r)
  <2>1. Into(r) = r
    BY <1>5, IntoOwn DEF Close
  <2>2. wire' \in [Requests -> SUBSET Requests] /\ ended' \subseteq Requests
    BY <1>5, <2>1 DEF Close, Write
  <2>3. QED BY <1>5, <2>2 DEF Close
<1>6. CASE Put(r)
  <2>1. gw[r] \in Writers
    BY <1>6 DEF Put, Custody
  <2>2. QED BY <1>6, <2>1 DEF Put
<1>7. QED BY <1>1, <1>2, <1>3, <1>4, <1>5, <1>6

\* Every step of a request keeps the custody.
LEMMA CustodyRequest ==
    ASSUME TypeOK, Custody, NEW r \in Requests,
           AcceptPlain(r) \/ AcceptGzip(r) \/ Handle(r) \/ Count(r) \/ Close(r) \/ Put(r)
    PROVE  Custody'
<1> USE DEF TypeOK, Custody, Holds
<1>1. CASE AcceptPlain(r)
  BY <1>1 DEF AcceptPlain, writers
<1>2. CASE AcceptGzip(r)
  <2>1. PICK w \in pool \cup {v \in Writers : target[v] = None} :
            /\ gw' = [gw EXCEPT ![r] = w] /\ pool' = pool \ {w}
            /\ target' = [target EXCEPT ![w] = r]
    BY <1>2 DEF AcceptGzip, Reset
  <2>2. w \in Writers /\ w # None /\ r # None
    BY <2>1, HTTPAssumption
  <2>3. \A q \in Requests : Holds(q) => gw[q] # w /\ q # r
    BY <1>2, <2>1, HTTPAssumption DEF AcceptGzip
  <2>4. at' = [at EXCEPT ![r] = "handler"]
    BY <1>2 DEF AcceptGzip
  <2>5. ASSUME NEW q \in Requests, q # r
        PROVE  /\ at'[q] = "new" => gw'[q] = None
               /\ Holds(q)' => gw'[q] \notin pool' /\ target'[gw'[q]] = q
               /\ at'[q] \in {"close", "put"} => gw'[q] # None
    BY <2>1, <2>2, <2>3, <2>4, <2>5
  <2>6. gw'[r] = w /\ w \notin pool' /\ target'[w] = r /\ at'[r] = "handler"
    BY <2>1, <2>2, <2>4
  <2>7. QED BY <2>5, <2>6
<1>3. CASE Handle(r)
  BY <1>3 DEF Handle, writers
<1>4. CASE Count(r)
  BY <1>4 DEF Count, writers
<1>5. CASE Close(r)
  BY <1>5 DEF Close, writers
<1>6. CASE Put(r)
  <2>1. gw[r] # None /\ \A q \in Requests : Holds(q) /\ gw[q] = gw[r] => q = r
    BY <1>6 DEF Put
  <2>2. at' = [at EXCEPT ![r] = "done"] /\ pool' = pool \cup {gw[r]} /\ UNCHANGED <<gw, target>>
    BY <1>6 DEF Put
  <2>3. QED BY <2>1, <2>2
<1>7. QED BY <1>1, <1>2, <1>3, <1>4, <1>5, <1>6

\* Every step keeps both.
LEMMA CustodyStep == ASSUME TypeOK, Custody, [Next]_vars PROVE TypeOK' /\ Custody'
<1>1. CASE UNCHANGED vars
  BY <1>1 DEF vars, request, writers, sent, TypeOK, Custody, Holds
<1>2. CASE Next
  BY <1>2, TypeRequest, CustodyRequest DEF Next
<1>3. QED BY <1>1, <1>2

\* Every variable has its type, in every run.
THEOREM TypesHold == Spec => []TypeOK
<1> DEFINE IInv == TypeOK /\ Custody
<1>1. Init => IInv
  BY TypeInit
<1>2. IInv /\ [Next]_vars => IInv'
  BY CustodyStep
<1>3. IInv => TypeOK
  OBVIOUS
<1> HIDE DEF IInv
<1>4. QED BY <1>1, <1>2, <1>3, PTL DEF Spec

(***************************************************************************)
(* Responses                                                               *)
(***************************************************************************)

\* The requests whose handler has returned.
Answered(r) == at[r] \in {"count", "close", "put", "done"}

\* What has been sent and recorded at each point of a request.
Response == \A r \in Requests :
    /\ wire[r] \subseteq {r}
    /\ ~Answered(r) => status[r] = 0 /\ recorded[r] = 200
    /\ Answered(r) => /\ status[r] # 0 /\ recorded[r] = status[r]
                      /\ wire[r] = {r} \/ status[r] \in Bodiless
    /\ at[r] \in {"put", "done"} /\ gw[r] # None => r \in ended \/ status[r] = NotModified

\* Nothing is sent initially.
LEMMA ResponseInit == Init => Response
BY DEF Init, Response, Answered, InitialStatus

\* Every step of a request keeps its response, and those of the others.
LEMMA ResponseRequest ==
    ASSUME TypeOK, Custody, Response, NEW r \in Requests,
           AcceptPlain(r) \/ AcceptGzip(r) \/ Handle(r) \/ Count(r) \/ Close(r) \/ Put(r)
    PROVE  Response'
<1> USE DEF TypeOK, Response, Answered
<1>1. CASE AcceptPlain(r)
  BY <1>1 DEF AcceptPlain, sent
<1>2. CASE AcceptGzip(r)
  BY <1>2 DEF AcceptGzip, sent
<1>3. CASE Handle(r)
  <2>1. Into(r) = r /\ status[r] = 0 /\ recorded[r] = 200
    BY <1>3, IntoOwn DEF Handle
  <2>2. PICK s \in Answers(r) :
            /\ IF Implicit(r, s)
               THEN status' = [status EXCEPT ![Into(r)] = IF @ = 0 THEN 200 ELSE @]
               ELSE status' = [status EXCEPT ![r] = s]
            /\ recorded' = IF Implicit(r, s) THEN recorded ELSE [recorded EXCEPT ![r] = s]
            /\ IF s \in Bodiless THEN UNCHANGED wire ELSE Write(r)
    BY <1>3 DEF Handle
  <2>3. s # 0
    BY <2>2, AnswerTypes
  <2>4. /\ status'[r] = s /\ recorded'[r] = s
        /\ \A q \in Requests : q # r => status'[q] = status[q] /\ recorded'[q] = recorded[q]
    BY <2>1, <2>2 DEF Implicit
  <2>5. /\ \/ wire' = wire /\ s \in Bodiless
           \/ wire' = [wire EXCEPT ![r] = wire[r] \cup {r}]
        /\ at' = [at EXCEPT ![r] = "count"] /\ UNCHANGED <<gw, ended>>
    BY <1>3, <2>1, <2>2 DEF Handle, Write
  <2>6. QED BY <2>3, <2>4, <2>5
<1>4. CASE Count(r)
  BY <1>4 DEF Count, sent, writers
<1>5. CASE Close(r)
  <2>1. Into(r) = r
    BY <1>5, IntoOwn DEF Close
  <2>2. /\ \/ status[r] = NotModified /\ UNCHANGED <<wire, ended>>
           \/ wire' = [wire EXCEPT ![r] = wire[r] \cup {r}] /\ ended' = ended \cup {r}
        /\ at' = [at EXCEPT ![r] = "put"] /\ UNCHANGED <<gw, status, recorded>>
    BY <1>5, <2>1 DEF Close, Write
  <2>3. QED BY <1>5, <2>2 DEF Close
<1>6. CASE Put(r)
  BY <1>6 DEF Put, sent
<1>7. QED BY <1>1, <1>2, <1>3, <1>4, <1>5, <1>6

\* Every step keeps the responses.
LEMMA ResponseStep == ASSUME TypeOK, Custody, Response, [Next]_vars PROVE Response'
<1>1. CASE UNCHANGED vars
  BY <1>1 DEF vars, request, sent, Response, Answered
<1>2. CASE Next
  BY <1>2, ResponseRequest DEF Next
<1>3. QED BY <1>1, <1>2

\* A response holds its own bytes and is complete when done, in every run.
THEOREM OwnResponseCorrect == Spec => []OwnResponse
<1> DEFINE IInv == TypeOK /\ Custody /\ Response
<1>1. Init => IInv
  BY TypeInit, ResponseInit
<1>2. IInv /\ [Next]_vars => IInv'
  BY CustodyStep, ResponseStep
<1>3. IInv => OwnResponse
  BY DEF Response, Answered, OwnResponse
<1> HIDE DEF IInv
<1>4. QED BY <1>1, <1>2, <1>3, PTL DEF Spec

(***************************************************************************)
(* Counters                                                                *)
(***************************************************************************)

\* The requests that were counted under status s.
Counted(s) == {r \in Requests : at[r] \in {"close", "put", "done"} /\ status[r] = s}

\* What a step of a request does to the counters and to what they count.
LEMMA CountedStep ==
    ASSUME TypeOK, Custody, Response, [Next]_vars, CountedAsSent
    PROVE  CountedAsSent'
<1> SUFFICES ASSUME NEW s \in Statuses PROVE total'[s] = Cardinality(Counted(s)')
  BY DEF CountedAsSent, Counted
<1>0. total[s] = Cardinality(Counted(s)) /\ IsFiniteSet(Counted(s))
  BY HTTPAssumption, FS_Subset DEF CountedAsSent, Counted
<1>1. ASSUME NEW r \in Requests, Count(r) PROVE total'[s] = Cardinality(Counted(s)')
  <2>1. /\ recorded[r] = status[r] /\ status[r] \in Statuses /\ status' = status
        /\ at' = [at EXCEPT ![r] = IF gw[r] = None THEN "done" ELSE "close"]
        /\ total' = [total EXCEPT ![status[r]] = total[status[r]] + 1]
    <3>1. recorded[r] = status[r] /\ status[r] \in Statuses
      BY <1>1 DEF Count, Response, Answered, TypeOK
    <3>2. QED BY <1>1, <3>1 DEF Count, sent
  <2>2. at[r] = "count" /\ r \notin Counted(s)
    BY <1>1 DEF Count, Counted
  <2>3. Counted(s)' = IF status[r] = s THEN Counted(s) \cup {r} ELSE Counted(s)
    BY <2>1, <2>2 DEF Counted, TypeOK
  <2>4. CASE status[r] = s
    <3>1. Cardinality(Counted(s) \cup {r}) = Cardinality(Counted(s)) + 1
      BY <1>0, <2>2, FS_AddElement
    <3>2. total'[s] = total[s] + 1
      BY <2>1, <2>4 DEF TypeOK
    <3>3. QED BY <1>0, <2>3, <2>4, <3>1, <3>2
  <2>5. CASE status[r] # s
    <3>1. total'[s] = total[s]
      BY <2>1, <2>5 DEF TypeOK
    <3>2. QED BY <1>0, <2>3, <2>5, <3>1
  <2>6. QED BY <2>4, <2>5
<1>2. CASE \A r \in Requests : ~Count(r)
  <2>1. total' = total
    BY <1>2 DEF Next, vars, AcceptPlain, AcceptGzip, Handle, Close, Put
  <2>2. \A r \in Requests :
            at'[r] \in {"close", "put", "done"} /\ status'[r] = s
                <=> at[r] \in {"close", "put", "done"} /\ status[r] = s
    <3>1. CASE UNCHANGED vars
      BY <3>1 DEF vars, request, sent
    <3>2. ASSUME NEW q \in Requests, AcceptPlain(q) \/ AcceptGzip(q)
          PROVE  /\ at[q] = "new" /\ at' = [at EXCEPT ![q] = "handler"] /\ status' = status
      BY <3>2 DEF AcceptPlain, AcceptGzip, sent
    <3>3. ASSUME NEW q \in Requests, Handle(q)
          PROVE  /\ at[q] = "handler" /\ at' = [at EXCEPT ![q] = "count"]
                 /\ \A r \in Requests : r # q => status'[r] = status[r]
      <4>1. Into(q) = q
        BY <3>3, IntoOwn DEF Handle
      <4>2. QED BY <3>3, <4>1 DEF Handle, TypeOK
    <3>4. ASSUME NEW q \in Requests, Close(q) \/ Put(q)
          PROVE  /\ at[q] \in {"close", "put"} /\ status' = status
                 /\ \E p \in {"put", "done"} : at' = [at EXCEPT ![q] = p]
      BY <3>4 DEF Close, Put, sent
    <3>5. QED BY <1>2, <3>1, <3>2, <3>3, <3>4 DEF Next, TypeOK
  <2>3. Counted(s)' = Counted(s)
    BY <2>2 DEF Counted
  <2>4. QED BY <1>0, <2>1, <2>3
<1>3. QED BY <1>1, <1>2

\* The counters agree with the status lines, in every run.
THEOREM CountedAsSentCorrect == Spec => []CountedAsSent
<1> DEFINE IInv == TypeOK /\ Custody /\ Response /\ CountedAsSent
<1>1. Init => IInv
  <2>1. Init => CountedAsSent
    <3> SUFFICES ASSUME Init, NEW s \in Statuses PROVE total[s] = Cardinality(Counted(s))
      BY DEF CountedAsSent, Counted
    <3>1. Counted(s) = {} /\ total[s] = 0
      BY DEF Init, Counted
    <3>2. QED BY <3>1, FS_EmptySet
  <2>2. QED BY <2>1, TypeInit, ResponseInit
<1>2. IInv /\ [Next]_vars => IInv'
  BY CustodyStep, ResponseStep, CountedStep
<1>3. IInv => CountedAsSent
  OBVIOUS
<1> HIDE DEF IInv
<1>4. QED BY <1>1, <1>2, <1>3, PTL DEF Spec
=============================================================================
