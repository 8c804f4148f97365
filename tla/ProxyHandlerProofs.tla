------------------------- MODULE ProxyHandlerProofs -------------------------
(***************************************************************************)
(* Proofs about ProxyHandler, for every set of requests and every length   *)
(* of a stream: types, one record per request, honest stream records.      *)
(***************************************************************************)
EXTENDS ProxyHandler, TLAPS

(* The inductive invariant.  Handlers do not interact, so it is a statement *)
(* about each request.                                                      *)

\* Records for r that its goroutine of enqueueError has yet to hand over, and
\* records that a handler which has logged r must have accounted for.
Owed(r) == IF errlog[r] = "ready" /\ r \in LoggedRequests THEN 1 ELSE 0
Due(r) == IF r \in LoggedRequests THEN 1 ELSE 0

\* Up to its exit a handler has logged nothing; from then on it has logged, or
\* owes, exactly one record.
RecordInv(r) ==
    IF pc[r] \in {"answer", "done"}
    THEN calls[r] + Owed(r) = Due(r)
    ELSE calls[r] = 0 /\ errlog[r] = "none"

\* A stream takes the path of handleStreamingResponse or that of an error.
PathInv(r) ==
    /\ pc[r] \notin {"response", "enqueue"}
    /\ pc[r] = "answer" => errlog[r] # "none"

\* Any other request never gets there.
PlainInv(r) == pc[r] \notin {"read", "write", "check", "finish"}

\* The status of a stream within the loop, and after it.
StatusInv(r) ==
    /\ pc[r] \in {"read", "write", "check"} =>
          status[r] \in {"completed", "upstream_error"}
    /\ pc[r] = "finish" =>
          \/ status[r] = "completed" /\ readErr[r] = "EOF"
          \/ status[r] = "upstream_error" /\ readErr[r] = "error"
          \/ status[r] = "client_disconnected" /\ client[r] # "here"

\* One read at most is captured and not written: the one being written, or the
\* last one of a client that is gone.
DeliveryInv(r) ==
    \/ captured[r] = written[r] /\ pc[r] # "write"
    \/ /\ captured[r] = written[r] + 1
       /\ \/ pc[r] = "write"
          \/ pc[r] \in {"finish", "done"} /\ status[r] = "client_disconnected"

\* What StreamStatusHonest says of one request.
HonestInv(r) ==
    pc[r] = "done" /\ errlog[r] = "none" =>
        \/ status[r] = "completed" /\ (doneSeen[r] \/ readErr[r] = "EOF")
        \/ status[r] = "upstream_error" /\ readErr[r] = "error" /\ ~doneSeen[r]
        \/ status[r] = "client_disconnected" /\ client[r] # "here"

StreamInv(r) ==
    PathInv(r) /\ StatusInv(r) /\ DeliveryInv(r) /\ HonestInv(r)

IInv ==
    /\ TypeOK
    /\ \A r \in Requests : RecordInv(r)
    /\ \A r \in Requests : IF r \in StreamRequests THEN StreamInv(r) ELSE PlainInv(r)

-----------------------------------------------------------------------------
(* A step of one handler.                                                  *)

\* What a step for r leaves alone: everything of the other requests.
OthersUnchanged(r) ==
    \A q \in Requests \ {r} :
        /\ pc'[q] = pc[q] /\ client'[q] = client[q] /\ status'[q] = status[q]
        /\ readErr'[q] = readErr[q] /\ captured'[q] = captured[q]
        /\ written'[q] = written[q] /\ doneSeen'[q] = doneSeen[q]
        /\ errlog'[q] = errlog[q] /\ calls'[q] = calls[q]

\* A step for r keeps the invariant if it keeps it for r.
LEMMA OneRequest ==
    ASSUME IInv, NEW r \in Requests, OthersUnchanged(r), TypeOK', RecordInv(r)',
           IF r \in StreamRequests THEN StreamInv(r)' ELSE PlainInv(r)'
    PROVE  IInv'
<1>1. ASSUME NEW q \in Requests, q # r
      PROVE  /\ RecordInv(q)'
             /\ IF q \in StreamRequests THEN StreamInv(q)' ELSE PlainInv(q)'
  <2>1. RecordInv(q)'
    BY <1>1 DEF IInv, OthersUnchanged, RecordInv, Owed, Due
  <2>2. CASE q \in StreamRequests
    <3>1. PathInv(q)'
      BY <1>1, <2>2 DEF IInv, OthersUnchanged, StreamInv, PathInv
    <3>2. StatusInv(q)'
      BY <1>1, <2>2 DEF IInv, OthersUnchanged, StreamInv, StatusInv
    <3>3. DeliveryInv(q)'
      BY <1>1, <2>2 DEF IInv, OthersUnchanged, StreamInv, DeliveryInv
    <3>4. HonestInv(q)'
      BY <1>1, <2>2 DEF IInv, OthersUnchanged, StreamInv, HonestInv
    <3> QED BY <2>1, <2>2, <3>1, <3>2, <3>3, <3>4 DEF StreamInv
  <2>3. CASE q \notin StreamRequests
    BY <1>1, <2>1, <2>3 DEF IInv, OthersUnchanged, PlainInv
  <2> QED BY <2>2, <2>3
<1> QED BY <1>1 DEF IInv

\* A failure before the answer leaves one record owed.
LEMMA ErrorKeeps ==
    ASSUME IInv, NEW r \in Requests, NEW s \in {"proxy_error", "upstream_error"},
           pc[r] \in {"body", "upstream", "response"}, EnqueueError(r, s)
    PROVE  IInv'
<1>0. TypeOK /\ RecordInv(r) /\ IF r \in StreamRequests THEN StreamInv(r) ELSE PlainInv(r)
  BY DEF IInv
<1>1. OthersUnchanged(r)
  BY <1>0 DEF TypeOK, OthersUnchanged, EnqueueError, streamVars
<1>2. TypeOK'
  BY <1>0 DEF TypeOK, Places, Statuses, EnqueueError, streamVars
<1>3. RecordInv(r)'
  BY <1>0 DEF TypeOK, RecordInv, Owed, Due, EnqueueError
<1>4. CASE r \in StreamRequests
  <2>1. PathInv(r)'
    BY <1>0 DEF TypeOK, PathInv, EnqueueError
  <2>2. StatusInv(r)'
    BY <1>0 DEF TypeOK, StatusInv, EnqueueError
  <2>3. DeliveryInv(r)'
    BY <1>0, <1>4 DEF TypeOK, StreamInv, DeliveryInv, EnqueueError, streamVars
  <2>4. HonestInv(r)'
    BY <1>0 DEF TypeOK, HonestInv, EnqueueError
  <2> QED BY OneRequest, <1>1, <1>2, <1>3, <1>4, <2>1, <2>2, <2>3, <2>4 DEF StreamInv
<1>5. CASE r \notin StreamRequests
  <2>1. PlainInv(r)'
    BY <1>0 DEF TypeOK, PlainInv, EnqueueError
  <2> QED BY OneRequest, <1>1, <1>2, <1>3, <1>5, <2>1
<1> QED BY <1>4, <1>5

\* A client that leaves disturbs no claim about its stream.
LEMMA ClientLeavesKeeps ==
    ASSUME IInv, NEW r \in Requests, ClientLeaves(r)
    PROVE  IInv'
<1>0. TypeOK /\ RecordInv(r) /\ IF r \in StreamRequests THEN StreamInv(r) ELSE PlainInv(r)
  BY DEF IInv
<1>1. OthersUnchanged(r)
  BY <1>0 DEF TypeOK, OthersUnchanged, ClientLeaves, streamVars
<1>2. TypeOK'
  BY <1>0 DEF TypeOK, ClientLeaves, streamVars
<1>3. RecordInv(r)'
  BY <1>0 DEF TypeOK, RecordInv, Owed, ClientLeaves
<1>4. CASE r \in StreamRequests
  <2>1. PathInv(r)'
    BY <1>0 DEF TypeOK, StreamInv, PathInv, ClientLeaves
  <2>2. StatusInv(r)'
    BY <1>0 DEF TypeOK, StreamInv, StatusInv, ClientLeaves, streamVars
  <2>3. DeliveryInv(r)'
    BY <1>0 DEF TypeOK, StreamInv, DeliveryInv, ClientLeaves, streamVars
  <2>4. HonestInv(r)'
    BY <1>0 DEF TypeOK, HonestInv, ClientLeaves
  <2> QED BY OneRequest, <1>1, <1>2, <1>3, <1>4, <2>1, <2>2, <2>3, <2>4 DEF StreamInv
<1>5. CASE r \notin StreamRequests
  <2>1. PlainInv(r)'
    BY <1>0, <1>5 DEF TypeOK, ClientLeaves
  <2> QED BY OneRequest, <1>1, <1>2, <1>3, <1>5, <2>1
<1> QED BY <1>4, <1>5

\* A request arrives.
LEMMA ArriveKeeps ==
    ASSUME IInv, NEW r \in Requests, Arrive(r)
    PROVE  IInv'
<1>0. TypeOK /\ RecordInv(r) /\ IF r \in StreamRequests THEN StreamInv(r) ELSE PlainInv(r)
  BY DEF IInv
<1>1. OthersUnchanged(r)
  BY <1>0 DEF TypeOK, OthersUnchanged, Arrive, streamVars
<1>2. TypeOK'
  BY <1>0 DEF TypeOK, Places, Arrive, streamVars
<1>3. RecordInv(r)'
  BY <1>0 DEF TypeOK, RecordInv, Arrive
<1>4. CASE r \in StreamRequests
  <2>1. PathInv(r)'
    BY <1>0 DEF TypeOK, PathInv, Arrive
  <2>2. StatusInv(r)'
    BY <1>0 DEF TypeOK, StatusInv, Arrive
  <2>3. DeliveryInv(r)'
    BY <1>0, <1>4 DEF TypeOK, StreamInv, DeliveryInv, Arrive, streamVars
  <2>4. HonestInv(r)'
    BY <1>0 DEF TypeOK, HonestInv, Arrive
  <2> QED BY OneRequest, <1>1, <1>2, <1>3, <1>4, <2>1, <2>2, <2>3, <2>4 DEF StreamInv
<1>5. CASE r \notin StreamRequests
  <2>1. PlainInv(r)'
    BY <1>0 DEF TypeOK, PlainInv, Arrive
  <2> QED BY OneRequest, <1>1, <1>2, <1>3, <1>5, <2>1
<1> QED BY <1>4, <1>5

\* Its body is read.
LEMMA ReadBodyKeeps ==
    ASSUME IInv, NEW r \in Requests, ReadBody(r)
    PROVE  IInv'
<1>0. TypeOK /\ RecordInv(r) /\ IF r \in StreamRequests THEN StreamInv(r) ELSE PlainInv(r)
  BY DEF IInv
<1>1. OthersUnchanged(r)
  BY <1>0 DEF TypeOK, OthersUnchanged, ReadBody, streamVars
<1>2. TypeOK'
  BY <1>0 DEF TypeOK, Places, ReadBody, streamVars
<1>3. RecordInv(r)'
  BY <1>0 DEF TypeOK, RecordInv, ReadBody
<1>4. CASE r \in StreamRequests
  <2>1. PathInv(r)'
    BY <1>0 DEF TypeOK, PathInv, ReadBody
  <2>2. StatusInv(r)'
    BY <1>0 DEF TypeOK, StatusInv, ReadBody
  <2>3. DeliveryInv(r)'
    BY <1>0, <1>4 DEF TypeOK, StreamInv, DeliveryInv, ReadBody, streamVars
  <2>4. HonestInv(r)'
    BY <1>0 DEF TypeOK, HonestInv, ReadBody
  <2> QED BY OneRequest, <1>1, <1>2, <1>3, <1>4, <2>1, <2>2, <2>3, <2>4 DEF StreamInv
<1>5. CASE r \notin StreamRequests
  <2>1. PlainInv(r)'
    BY <1>0 DEF TypeOK, PlainInv, ReadBody
  <2> QED BY OneRequest, <1>1, <1>2, <1>3, <1>5, <2>1
<1> QED BY <1>4, <1>5

\* The upstream answers.
LEMMA DoReturnsKeeps ==
    ASSUME IInv, NEW r \in Requests, DoReturns(r)
    PROVE  IInv'
<1>0. TypeOK /\ RecordInv(r) /\ IF r \in StreamRequests THEN StreamInv(r) ELSE PlainInv(r)
  BY DEF IInv
<1>1. OthersUnchanged(r)
  BY <1>0 DEF TypeOK, OthersUnchanged, DoReturns, streamVars
<1>2. TypeOK'
  BY <1>0 DEF TypeOK, Places, Statuses, DoReturns, streamVars
<1>3. RecordInv(r)'
  BY <1>0 DEF TypeOK, RecordInv, DoReturns
<1>4. CASE r \in StreamRequests
  <2>1. PathInv(r)'
    BY <1>0, <1>4 DEF TypeOK, PathInv, DoReturns
  <2>2. StatusInv(r)'
    BY <1>0 DEF TypeOK, StatusInv, DoReturns
  <2>3. DeliveryInv(r)'
    BY <1>0, <1>4 DEF TypeOK, StreamInv, DeliveryInv, DoReturns, streamVars
  <2>4. HonestInv(r)'
    BY <1>0 DEF TypeOK, HonestInv, DoReturns
  <2> QED BY OneRequest, <1>1, <1>2, <1>3, <1>4, <2>1, <2>2, <2>3, <2>4 DEF StreamInv
<1>5. CASE r \notin StreamRequests
  <2>1. PlainInv(r)'
    BY <1>0, <1>5 DEF TypeOK, PlainInv, DoReturns
  <2> QED BY OneRequest, <1>1, <1>2, <1>3, <1>5, <2>1
<1> QED BY <1>4, <1>5

\* A plain answer is read.
LEMMA ReadResponseKeeps ==
    ASSUME IInv, NEW r \in Requests, ReadResponse(r)
    PROVE  IInv'
<1>0. TypeOK /\ RecordInv(r) /\ IF r \in StreamRequests THEN StreamInv(r) ELSE PlainInv(r)
  BY DEF IInv
<1>1. OthersUnchanged(r)
  BY <1>0 DEF TypeOK, OthersUnchanged, ReadResponse, streamVars
<1>2. TypeOK'
  BY <1>0 DEF TypeOK, Places, ReadResponse, streamVars
<1>3. RecordInv(r)'
  BY <1>0 DEF TypeOK, RecordInv, ReadResponse
<1>4. CASE r \in StreamRequests
  <2>1. PathInv(r)'
    BY <1>0, <1>4 DEF TypeOK, StreamInv, PathInv, ReadResponse
  <2>2. StatusInv(r)'
    BY <1>0 DEF TypeOK, StatusInv, ReadResponse
  <2>3. DeliveryInv(r)'
    BY <1>0, <1>4 DEF TypeOK, StreamInv, DeliveryInv, ReadResponse, streamVars
  <2>4. HonestInv(r)'
    BY <1>0 DEF TypeOK, HonestInv, ReadResponse
  <2> QED BY OneRequest, <1>1, <1>2, <1>3, <1>4, <2>1, <2>2, <2>3, <2>4 DEF StreamInv
<1>5. CASE r \notin StreamRequests
  <2>1. PlainInv(r)'
    BY <1>0 DEF TypeOK, PlainInv, ReadResponse
  <2> QED BY OneRequest, <1>1, <1>2, <1>3, <1>5, <2>1
<1> QED BY <1>4, <1>5

\* The client is answered.
LEMMA AnswerKeeps ==
    ASSUME IInv, NEW r \in Requests, Answer(r)
    PROVE  IInv'
<1>0. TypeOK /\ RecordInv(r) /\ IF r \in StreamRequests THEN StreamInv(r) ELSE PlainInv(r)
  BY DEF IInv
<1>1. OthersUnchanged(r)
  BY <1>0 DEF TypeOK, OthersUnchanged, Answer, streamVars
<1>2. TypeOK'
  BY <1>0 DEF TypeOK, Places, Answer, streamVars
<1>3. RecordInv(r)'
  BY <1>0 DEF TypeOK, RecordInv, Owed, Answer
<1>4. CASE r \in StreamRequests
  <2>1. PathInv(r)'
    BY <1>0, <1>4 DEF TypeOK, StreamInv, PathInv, Answer
  <2>2. StatusInv(r)'
    BY <1>0 DEF TypeOK, StatusInv, Answer
  <2>3. DeliveryInv(r)'
    BY <1>0, <1>4 DEF TypeOK, StreamInv, DeliveryInv, Answer, streamVars
  <2>4. HonestInv(r)'
    BY <1>0, <1>4 DEF TypeOK, StreamInv, PathInv, HonestInv, Answer
  <2> QED BY OneRequest, <1>1, <1>2, <1>3, <1>4, <2>1, <2>2, <2>3, <2>4 DEF StreamInv
<1>5. CASE r \notin StreamRequests
  <2>1. PlainInv(r)'
    BY <1>0 DEF TypeOK, PlainInv, Answer
  <2> QED BY OneRequest, <1>1, <1>2, <1>3, <1>5, <2>1
<1> QED BY <1>4, <1>5

\* A read of a stream.
LEMMA StreamReadKeeps ==
    ASSUME IInv, NEW r \in Requests, StreamRead(r)
    PROVE  IInv'
<1>0. TypeOK /\ RecordInv(r) /\ IF r \in StreamRequests THEN StreamInv(r) ELSE PlainInv(r)
  BY DEF IInv
<1>1. OthersUnchanged(r)
  BY <1>0 DEF TypeOK, OthersUnchanged, StreamRead
<1>2. TypeOK'
  BY <1>0, HandlerAssumption DEF TypeOK, Places, StreamRead
<1>3. RecordInv(r)'
  BY <1>0 DEF TypeOK, RecordInv, StreamRead
<1>4. CASE r \in StreamRequests
  <2>1. PathInv(r)'
    BY <1>0 DEF TypeOK, PathInv, StreamRead
  <2>2. StatusInv(r)'
    BY <1>0, <1>4 DEF TypeOK, StreamInv, StatusInv, StreamRead
  <2>3. DeliveryInv(r)'
    BY <1>0, <1>4 DEF TypeOK, StreamInv, DeliveryInv, StreamRead
  <2>4. HonestInv(r)'
    BY <1>0 DEF TypeOK, HonestInv, StreamRead
  <2> QED BY OneRequest, <1>1, <1>2, <1>3, <1>4, <2>1, <2>2, <2>3, <2>4 DEF StreamInv
<1>5. CASE r \notin StreamRequests
  <2>1. PlainInv(r)'
    BY <1>0, <1>5 DEF TypeOK, PlainInv, StreamRead
  <2> QED BY OneRequest, <1>1, <1>2, <1>3, <1>5, <2>1
<1> QED BY <1>4, <1>5

\* The write that makes up for the read.
LEMMA StreamWriteKeeps ==
    ASSUME IInv, NEW r \in Requests, StreamWrite(r)
    PROVE  IInv'
<1>0. TypeOK /\ RecordInv(r) /\ IF r \in StreamRequests THEN StreamInv(r) ELSE PlainInv(r)
  BY DEF IInv
<1>1. OthersUnchanged(r)
  BY <1>0 DEF TypeOK, OthersUnchanged, StreamWrite
<1>2. TypeOK'
  BY <1>0 DEF TypeOK, Places, StreamInv, PlainInv, DeliveryInv, StreamWrite
<1>3. RecordInv(r)'
  BY <1>0 DEF TypeOK, RecordInv, StreamWrite
<1>4. CASE r \in StreamRequests
  <2>1. PathInv(r)'
    BY <1>0 DEF TypeOK, PathInv, StreamWrite
  <2>2. StatusInv(r)'
    BY <1>0, <1>4 DEF TypeOK, StreamInv, StatusInv, StreamWrite
  <2>3. DeliveryInv(r)'
    BY <1>0, <1>4 DEF TypeOK, StreamInv, DeliveryInv, StreamWrite
  <2>4. HonestInv(r)'
    BY <1>0 DEF TypeOK, HonestInv, StreamWrite
  <2> QED BY OneRequest, <1>1, <1>2, <1>3, <1>4, <2>1, <2>2, <2>3, <2>4 DEF StreamInv
<1>5. CASE r \notin StreamRequests
  <2>1. PlainInv(r)'
    BY <1>0, <1>5 DEF TypeOK, PlainInv, StreamWrite
  <2> QED BY OneRequest, <1>1, <1>2, <1>3, <1>5, <2>1
<1> QED BY <1>4, <1>5

\* A failed write of a stream.
LEMMA StreamWriteFailsKeeps ==
    ASSUME IInv, NEW r \in Requests, StreamWriteFails(r)
    PROVE  IInv'
<1>0. TypeOK /\ RecordInv(r) /\ IF r \in StreamRequests THEN StreamInv(r) ELSE PlainInv(r)
  BY DEF IInv
<1>1. OthersUnchanged(r)
  BY <1>0 DEF TypeOK, OthersUnchanged, StreamWriteFails, streamVars
<1>2. TypeOK'
  BY <1>0 DEF TypeOK, Places, Statuses, StreamWriteFails, streamVars
<1>3. RecordInv(r)'
  BY <1>0 DEF TypeOK, RecordInv, StreamWriteFails
<1>4. CASE r \in StreamRequests
  <2>1. PathInv(r)'
    BY <1>0 DEF TypeOK, PathInv, StreamWriteFails
  <2>2. StatusInv(r)'
    BY <1>0 DEF TypeOK, StatusInv, StreamWriteFails
  <2>3. DeliveryInv(r)'
    BY <1>0, <1>4 DEF TypeOK, StreamInv, DeliveryInv, StreamWriteFails, streamVars
  <2>4. HonestInv(r)'
    BY <1>0 DEF TypeOK, HonestInv, StreamWriteFails
  <2> QED BY OneRequest, <1>1, <1>2, <1>3, <1>4, <2>1, <2>2, <2>3, <2>4 DEF StreamInv
<1>5. CASE r \notin StreamRequests
  <2>1. PlainInv(r)'
    BY <1>0, <1>5 DEF TypeOK, PlainInv, StreamWriteFails
  <2> QED BY OneRequest, <1>1, <1>2, <1>3, <1>5, <2>1
<1> QED BY <1>4, <1>5

\* The end of an iteration, perhaps of the loop.
LEMMA StreamCheckKeeps ==
    ASSUME IInv, NEW r \in Requests, StreamCheck(r)
    PROVE  IInv'
<1>0. TypeOK /\ RecordInv(r) /\ IF r \in StreamRequests THEN StreamInv(r) ELSE PlainInv(r)
  BY DEF IInv
<1>1. OthersUnchanged(r)
  BY <1>0 DEF TypeOK, OthersUnchanged, StreamCheck, streamVars
<1>2. TypeOK'
  BY <1>0 DEF TypeOK, Places, Statuses, StreamCheck, streamVars, StatusAtReadError
<1>3. RecordInv(r)'
  BY <1>0 DEF TypeOK, RecordInv, StreamCheck
<1>4. CASE r \in StreamRequests
  <2>1. PathInv(r)'
    BY <1>0 DEF TypeOK, PathInv, StreamCheck
  <2>2. StatusInv(r)'
    BY <1>0, <1>4 DEF TypeOK, StreamInv, StatusInv, StreamCheck, streamVars,
       StatusAtReadError, ContextDone
  <2>3. DeliveryInv(r)'
    BY <1>0, <1>4 DEF TypeOK, StreamInv, DeliveryInv, StreamCheck, streamVars
  <2>4. HonestInv(r)'
    BY <1>0 DEF TypeOK, HonestInv, StreamCheck
  <2> QED BY OneRequest, <1>1, <1>2, <1>3, <1>4, <2>1, <2>2, <2>3, <2>4 DEF StreamInv
<1>5. CASE r \notin StreamRequests
  <2>1. PlainInv(r)'
    BY <1>0, <1>5 DEF TypeOK, PlainInv, StreamCheck
  <2> QED BY OneRequest, <1>1, <1>2, <1>3, <1>5, <2>1
<1> QED BY <1>4, <1>5

\* The record of a plain answer.
LEMMA EnqueueRecordKeeps ==
    ASSUME IInv, NEW r \in Requests, EnqueueRecord(r)
    PROVE  IInv'
<1>0. TypeOK /\ RecordInv(r) /\ IF r \in StreamRequests THEN StreamInv(r) ELSE PlainInv(r)
  BY DEF IInv
<1>1. OthersUnchanged(r)
  BY <1>0 DEF TypeOK, OthersUnchanged, EnqueueRecord, streamVars, Log
<1>2. TypeOK'
  BY <1>0 DEF TypeOK, Places, RecordInv, EnqueueRecord, streamVars, Log
<1>3. RecordInv(r)'
  BY <1>0 DEF TypeOK, RecordInv, Owed, Due, EnqueueRecord, Log
<1>4. CASE r \in StreamRequests
  <2>1. PathInv(r)'
    BY <1>0, <1>4 DEF TypeOK, StreamInv, PathInv, EnqueueRecord
  <2>2. StatusInv(r)'
    BY <1>0 DEF TypeOK, StatusInv, EnqueueRecord
  <2>3. DeliveryInv(r)'
    BY <1>0, <1>4 DEF TypeOK, StreamInv, DeliveryInv, EnqueueRecord, streamVars
  <2>4. HonestInv(r)'
    BY <1>0 DEF TypeOK, HonestInv, EnqueueRecord
  <2> QED BY OneRequest, <1>1, <1>2, <1>3, <1>4, <2>1, <2>2, <2>3, <2>4 DEF StreamInv
<1>5. CASE r \notin StreamRequests
  <2>1. PlainInv(r)'
    BY <1>0 DEF TypeOK, PlainInv, EnqueueRecord
  <2> QED BY OneRequest, <1>1, <1>2, <1>3, <1>5, <2>1
<1> QED BY <1>4, <1>5

\* The record of a stream.
LEMMA StreamFinishKeeps ==
    ASSUME IInv, NEW r \in Requests, StreamFinish(r)
    PROVE  IInv'
<1>0. TypeOK /\ RecordInv(r) /\ IF r \in StreamRequests THEN StreamInv(r) ELSE PlainInv(r)
  BY DEF IInv
<1>1. OthersUnchanged(r)
  BY <1>0 DEF TypeOK, OthersUnchanged, StreamFinish, streamVars, Log
<1>2. TypeOK'
  BY <1>0 DEF TypeOK, Places, Statuses, RecordInv, StreamFinish, streamVars, Log
<1>3. RecordInv(r)'
  BY <1>0 DEF TypeOK, RecordInv, Owed, Due, StreamFinish, Log
<1>4. CASE r \in StreamRequests
  <2>1. PathInv(r)'
    BY <1>0 DEF TypeOK, PathInv, StreamFinish
  <2>2. StatusInv(r)'
    BY <1>0 DEF TypeOK, StatusInv, StreamFinish
  <2>3. DeliveryInv(r)'
    BY <1>0, <1>4 DEF TypeOK, StreamInv, DeliveryInv, StreamFinish, streamVars
  <2>4. HonestInv(r)'
    BY <1>0, <1>4 DEF TypeOK, StreamInv, StatusInv, HonestInv, StreamFinish,
       streamVars
  <2> QED BY OneRequest, <1>1, <1>2, <1>3, <1>4, <2>1, <2>2, <2>3, <2>4 DEF StreamInv
<1>5. CASE r \notin StreamRequests
  <2>1. PlainInv(r)'
    BY <1>0, <1>5 DEF TypeOK, PlainInv, StreamFinish
  <2> QED BY OneRequest, <1>1, <1>2, <1>3, <1>5, <2>1
<1> QED BY <1>4, <1>5

\* The record a goroutine of enqueueError owes.
LEMMA LogErrorRecordKeeps ==
    ASSUME IInv, NEW r \in Requests, LogErrorRecord(r)
    PROVE  IInv'
<1>0. TypeOK /\ RecordInv(r) /\ IF r \in StreamRequests THEN StreamInv(r) ELSE PlainInv(r)
  BY DEF IInv
<1>1. OthersUnchanged(r)
  BY <1>0 DEF TypeOK, OthersUnchanged, LogErrorRecord, streamVars, Log
<1>2. TypeOK'
  BY <1>0 DEF TypeOK, RecordInv, Owed, Due, LogErrorRecord, streamVars, Log
<1>3. RecordInv(r)'
  BY <1>0 DEF TypeOK, RecordInv, Owed, LogErrorRecord, Log
<1>4. CASE r \in StreamRequests
  <2>1. PathInv(r)'
    BY <1>0, <1>4 DEF TypeOK, StreamInv, PathInv, LogErrorRecord
  <2>2. StatusInv(r)'
    BY <1>0, <1>4 DEF TypeOK, StreamInv, StatusInv, LogErrorRecord, streamVars
  <2>3. DeliveryInv(r)'
    BY <1>0, <1>4 DEF TypeOK, StreamInv, DeliveryInv, LogErrorRecord, streamVars
  <2>4. HonestInv(r)'
    BY <1>0 DEF TypeOK, HonestInv, LogErrorRecord
  <2> QED BY OneRequest, <1>1, <1>2, <1>3, <1>4, <2>1, <2>2, <2>3, <2>4 DEF StreamInv
<1>5. CASE r \notin StreamRequests
  <2>1. PlainInv(r)'
    BY <1>0, <1>5 DEF TypeOK, PlainInv, LogErrorRecord
  <2> QED BY OneRequest, <1>1, <1>2, <1>3, <1>5, <2>1
<1> QED BY <1>4, <1>5

-----------------------------------------------------------------------------
(* The invariant of the specification.                                     *)

LEMMA InitInvariant == Init => IInv
<1> SUFFICES ASSUME Init PROVE IInv
  OBVIOUS
<1>1. TypeOK
  BY HandlerAssumption DEF Init, TypeOK, Places, Statuses
<1>2. \A r \in Requests : RecordInv(r)
  BY DEF Init, RecordInv
<1>3. \A r \in Requests : StreamInv(r) /\ PlainInv(r)
  BY DEF Init, StreamInv, PathInv, StatusInv, DeliveryInv, HonestInv, PlainInv
<1> QED BY <1>1, <1>2, <1>3 DEF IInv

LEMMA OwnStepKeeps ==
    ASSUME IInv, NEW r \in Requests, OwnStep(r)
    PROVE  IInv'
<1>1. CASE NewRequestFails(r) \/ DoFails(r) \/ ReadResponseFails(r)
  BY <1>1, ErrorKeeps DEF NewRequestFails, DoFails, ReadResponseFails
<1>2. CASE DoReturns(r)
  BY <1>2, DoReturnsKeeps
<1>3. CASE ReadResponse(r)
  BY <1>3, ReadResponseKeeps
<1>4. CASE EnqueueRecord(r)
  BY <1>4, EnqueueRecordKeeps
<1>5. CASE StreamRead(r)
  BY <1>5, StreamReadKeeps
<1>6. CASE StreamWriteFails(r)
  BY <1>6, StreamWriteFailsKeeps
<1>7. CASE StreamCheck(r)
  BY <1>7, StreamCheckKeeps
<1>8. CASE StreamFinish(r)
  BY <1>8, StreamFinishKeeps
<1> QED BY <1>1, <1>2, <1>3, <1>4, <1>5, <1>6, <1>7, <1>8 DEF OwnStep

LEMMA ClientStepKeeps ==
    ASSUME IInv, NEW r \in Requests, ClientStep(r)
    PROVE  IInv'
<1>1. CASE ReadBody(r)
  BY <1>1, ReadBodyKeeps
<1>2. CASE ReadBodyFails(r)
  BY <1>2, ErrorKeeps DEF ReadBodyFails
<1>3. CASE StreamWrite(r)
  BY <1>3, StreamWriteKeeps
<1>4. CASE Answer(r)
  BY <1>4, AnswerKeeps
<1> QED BY <1>1, <1>2, <1>3, <1>4 DEF ClientStep

\* A step that changes nothing.
LEMMA StutterKeeps == IInv /\ UNCHANGED vars => IInv'
<1> SUFFICES ASSUME IInv, UNCHANGED vars PROVE IInv'
  OBVIOUS
<1>1. TypeOK'
  BY DEF IInv, TypeOK, vars, streamVars
<1>2. \A r \in Requests : RecordInv(r)'
  BY DEF IInv, RecordInv, Owed, vars
<1>3. \A r \in Requests :
         IF r \in StreamRequests THEN StreamInv(r)' ELSE PlainInv(r)'
  BY DEF IInv, StreamInv, PathInv, StatusInv, DeliveryInv, HonestInv, PlainInv,
     vars, streamVars
<1> QED BY <1>1, <1>2, <1>3 DEF IInv

LEMMA NextInvariant == IInv /\ [Next]_vars => IInv'
<1> SUFFICES ASSUME IInv, [Next]_vars PROVE IInv'
  OBVIOUS
<1>1. ASSUME NEW r \in Requests, Arrive(r) PROVE IInv'
  BY <1>1, ArriveKeeps
<1>2. ASSUME NEW r \in Requests, ClientLeaves(r) PROVE IInv'
  BY <1>2, ClientLeavesKeeps
<1>3. ASSUME NEW r \in Requests, OwnStep(r) PROVE IInv'
  BY <1>3, OwnStepKeeps
<1>4. ASSUME NEW r \in Requests, ClientStep(r) PROVE IInv'
  BY <1>4, ClientStepKeeps
<1>5. ASSUME NEW r \in Requests, LogErrorRecord(r) PROVE IInv'
  BY <1>5, LogErrorRecordKeeps
<1>6. CASE UNCHANGED vars
  BY <1>6, StutterKeeps
<1> QED BY <1>1, <1>2, <1>3, <1>4, <1>5, <1>6 DEF Next, HandlerStep, Settled

LEMMA Invariant == Spec => []IInv
BY InitInvariant, NextInvariant, PTL DEF Spec

\* The variables keep their types, the counts of reads and calls their bounds.
THEOREM TypeCorrect == Spec => []TypeOK
<1>1. IInv => TypeOK
  BY DEF IInv
<1> QED BY <1>1, Invariant, PTL

\* ServeHTTP, its error paths and the goroutines of enqueueError account for
\* exactly one record of every request on a logged path, and none on others.
THEOREM OneRecord == Spec => []OneRecordPerRequest
<1>1. IInv => OneRecordPerRequest
  <2> SUFFICES ASSUME IInv, NEW r \in Requests
               PROVE  LET owed == IF errlog[r] = "ready" THEN 1 ELSE 0
                      IN  IF r \in LoggedRequests
                          THEN /\ calls[r] + owed <= 1
                               /\ pc[r] = "done" => calls[r] + owed = 1
                          ELSE calls[r] = 0
    BY DEF OneRecordPerRequest
  <2>1. RecordInv(r) /\ calls[r] \in 0..1
    BY DEF IInv, TypeOK
  <2> QED BY <2>1 DEF RecordInv, Owed, Due
<1> QED BY <1>1, Invariant, PTL

\* The status of a stream's record is true in whatever order the last read, its
\* "[DONE]", a failed write and the cancelled context came.
THEOREM StreamRecordsHonest == Spec => []StreamStatusHonest
<1>1. IInv => StreamStatusHonest
  BY HandlerAssumption DEF IInv, StreamInv, HonestInv, StreamStatusHonest,
     HandlerAssumption
<1> QED BY <1>1, Invariant, PTL

\* handleStreamingResponse records nothing that it did not write to the client,
\* the last read of a client that is gone excepted.
THEOREM StreamRecordsDelivered == Spec => []CapturedWasDelivered
<1>1. IInv => CapturedWasDelivered
  <2> SUFFICES ASSUME IInv, NEW r \in StreamRequests
               PROVE  /\ captured[r] - written[r] \in {0, 1}
                      /\ pc[r] = "done" /\ captured[r] # written[r] =>
                            status[r] = "client_disconnected"
    BY DEF CapturedWasDelivered
  <2>1. DeliveryInv(r) /\ captured[r] \in Nat /\ written[r] \in Nat
    BY HandlerAssumption DEF IInv, TypeOK, StreamInv, HandlerAssumption
  <2> QED BY <2>1 DEF DeliveryInv
<1> QED BY <1>1, Invariant, PTL
=============================================================================
