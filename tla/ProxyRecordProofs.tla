------------------------- MODULE ProxyRecordProofs -------------------------
(***************************************************************************)
(* Proofs about ProxyRecord, for every capture limit and all bodies and    *)
(* events: the handlers are those of ProxyHandler, what the limit cuts off *)
(* is marked, and a stream's record shows what AssembleFinalState makes of *)
(* the tee, from which follows what it says of the data its client was     *)
(* given.                                                                  *)
(***************************************************************************)
EXTENDS ProxyRecord, ProxyHandlerProofs, SseAssemblyProofs
LOCAL INSTANCE SequencesExt

\* The data adds no step to the handlers.
LEMMA HandlerStepOrStutter == RecordNext => [Next]_vars
BY DEF RecordNext, ReadRequest, FailEarly, FailAtUpstream, UpstreamAnswers, ReadAnswer,
       RecordAnswer, TeeRead, RecordStream, Unrecorded, Next, HandlerStep, OwnStep, ClientStep

\* With its data ServeHTTP does what ProxyHandler says: the theorems about one
\* record per request, honest statuses and delivered captures hold of it.
THEOREM HandlerWithData == RecordSpec => Spec
<1>1. RecordInit => Init
  BY DEF RecordInit
<1>2. [RecordNext]_recordVars => [Next]_vars
  BY HandlerStepOrStutter DEF recordVars, vars, streamVars
<1> QED BY <1>1, <1>2, PTL DEF RecordSpec, Spec

-----------------------------------------------------------------------------
(* The bodies of a record and the mark of their cuts.                      *)

Body == [len : Nat, json : Nat]

\* What CutsAreMarked says of one record, but for the state of a stream.
Marked(rec, r) ==
    /\ ~rec.trunc.truncated /\ rec.status # "proxy_error" =>
          rec.reqBody = SanitizeRawMessage(reqBody[r])
    /\ ~rec.trunc.truncated /\ ~rec.error /\ r \notin StreamRequests =>
          rec.respBody = SanitizeResponseBody(respBody[r])
    /\ captureMax > 0 /\ ~rec.error =>
          /\ rec.reqBody.len <= captureMax \/ rec.reqBody = NullBody
          /\ rec.respBody.len <= captureMax \/ rec.respBody = NullBody

\* A record is built when the handler leaves, from bodies that stay.
DataInv ==
    /\ captureMax \in Nat
    /\ reqBody \in [Requests -> Body]
    /\ respBody \in [Requests -> Body]
    /\ DOMAIN record = Requests
    /\ \A r \in Requests : record[r].built =>
          pc[r] \in {"answer", "done"} /\ Marked(record[r], r)

LEMMA SanitizedAnswer ==
    ASSUME NEW b \in Body
    PROVE  SanitizeResponseBody(b) \in Body /\ SanitizeResponseBody(b).json > 0
BY DEF SanitizeResponseBody, NullBody, Wrapped, Body

LEMMA LimitMarks ==
    ASSUME captureMax \in Nat, NEW r \in Requests, reqBody[r] \in Body,
           respBody[r] \in Body, NEW body \in Body, NEW state,
           r \notin StreamRequests => body = SanitizeResponseBody(respBody[r])
    PROVE  Marked(NewRecord(r, body, state), r)
<1> DEFINE full == [built |-> TRUE, error |-> FALSE, status |-> status'[r], ok |-> ok[r],
                    reqBody |-> reqBody[r], respBody |-> body, state |-> state,
                    trunc |-> NotTruncated]
           rec == Limited(full)
<1>1. /\ ~rec.trunc.truncated => rec.reqBody = reqBody[r] /\ rec.respBody = body
      /\ captureMax > 0 => rec.reqBody.len <= captureMax /\ rec.respBody.len <= captureMax
      /\ rec.error = FALSE /\ rec.status = status'[r]
  <2>1. /\ rec.reqBody = IF captureMax > 0 /\ reqBody[r].len > captureMax
                         THEN Cut(reqBody[r], captureMax) ELSE reqBody[r]
        /\ rec.respBody = IF captureMax > 0 /\ body.len > captureMax
                          THEN Cut(body, captureMax) ELSE body
    BY DEF Limited, ApplyCaptureMax
  <2>2. captureMax > 0 /\ (reqBody[r].len > captureMax \/ body.len > captureMax) =>
           rec.trunc.truncated
    BY DEF Limited, ApplyCaptureMax, NotTruncated
  <2>3. rec.error = FALSE /\ rec.status = status'[r]
    BY DEF Limited, ApplyCaptureMax
  <2> HIDE DEF rec
  <2> QED BY <2>1, <2>2, <2>3 DEF Cut, Body
<1>2. /\ Sent(rec).reqBody = SanitizeRawMessage(rec.reqBody)
      /\ Sent(rec).respBody = SanitizeRawMessage(rec.respBody)
      /\ Sent(rec).trunc = rec.trunc /\ Sent(rec).error = rec.error
      /\ Sent(rec).status = rec.status
  BY DEF Sent, Limited, ApplyCaptureMax
<1>3. r \notin StreamRequests => SanitizeRawMessage(body) = body
  BY SanitizedAnswer DEF SanitizeRawMessage, Body
<1>4. NewRecord(r, body, state) = Sent(rec)
  BY DEF NewRecord
<1> HIDE DEF rec
<1> QED BY <1>1, <1>2, <1>3, <1>4 DEF Marked, SanitizeRawMessage

LEMMA ErrorMarks ==
    ASSUME NEW r \in Requests, NEW body \in Body,
           body = reqBody[r] \/ status'[r] = "proxy_error"
    PROVE  Marked(ErrorRecord(r, body), r)
BY DEF Marked, ErrorRecord, Sent, NotTruncated

\* The record of r is built from bodies that do not change any more.
LEMMA BuildKeeps ==
    ASSUME IInv, DataInv, NEW r \in Requests, NEW rec, Build(r, rec),
           Marked(rec, r), pc'[r] \in {"answer", "done"},
           \A q \in Requests \ {r} : pc'[q] = pc[q]
    PROVE  DataInv'
<1>1. /\ captureMax' = captureMax /\ reqBody' = reqBody /\ respBody' = respBody
      /\ DOMAIN record' = Requests
  BY DEF Build, DataInv
<1>2. record'[r] = rec /\ \A q \in Requests \ {r} : record'[q] = record[q]
  BY DEF Build, DataInv
<1> QED BY <1>1, <1>2 DEF DataInv, Marked

LEMMA NextData ==
    ASSUME RecordAssumption, IInv, DataInv, [RecordNext]_recordVars
    PROVE  DataInv'
<1> USE DEF IInv, TypeOK
<1>0. /\ reqBody \in [Requests -> Body] /\ respBody \in [Requests -> Body]
      /\ captureMax \in Nat
  BY DEF DataInv
<1>1. ASSUME NEW r \in Requests, ReadRequest(r) PROVE DataInv'
  BY <1>1 DEF ReadRequest, ReadBody, DataInv, Marked, RecordAssumption, Body
<1>2. ASSUME NEW r \in Requests, FailEarly(r) PROVE DataInv'
  <2>1. /\ status'[r] = "proxy_error" /\ pc'[r] = "answer"
        /\ \A q \in Requests \ {r} : pc'[q] = pc[q]
    BY <1>2 DEF FailEarly, ReadBodyFails, NewRequestFails, EnqueueError
  <2> QED BY <1>2, <2>1, ErrorMarks, BuildKeeps DEF FailEarly, NoBody, Body
<1>3. ASSUME NEW r \in Requests, FailAtUpstream(r) PROVE DataInv'
  <2>1. pc'[r] = "answer" /\ \A q \in Requests \ {r} : pc'[q] = pc[q]
    BY <1>3 DEF FailAtUpstream, DoFails, ReadResponseFails, EnqueueError
  <2> QED BY <1>0, <1>3, <2>1, ErrorMarks, BuildKeeps DEF FailAtUpstream
<1>4. ASSUME NEW r \in Requests, RecordAnswer(r) PROVE DataInv'
  <2>1. pc'[r] = "answer" /\ \A q \in Requests \ {r} : pc'[q] = pc[q]
    BY <1>4 DEF RecordAnswer, EnqueueRecord
  <2>2. SanitizeResponseBody(respBody[r]) \in Body
    BY <1>0, SanitizedAnswer
  <2> QED BY <1>0, <1>4, <2>1, <2>2, LimitMarks, BuildKeeps DEF RecordAnswer
<1>5. ASSUME NEW r \in Requests, RecordStream(r) PROVE DataInv'
  <2>1. /\ pc'[r] = "done" /\ r \in StreamRequests
        /\ \A q \in Requests \ {r} : pc'[q] = pc[q]
    BY <1>5 DEF RecordStream, StreamFinish, PlainInv
  <2>2. PICK n \in AssembledSizes :
           LET state == AssembleFinalState(tee[r])
           IN  Build(r, NewRecord(r, StateBody(state, n), state))
    BY <1>5 DEF RecordStream
  <2> DEFINE state == AssembleFinalState(tee[r])
             body == StateBody(state, n)
  <2>3. body \in Body
    BY DEF RecordAssumption, StateBody, NoBody, NullBody, Body
  <2>4. Build(r, NewRecord(r, body, state))
    BY <2>2
  <2> HIDE DEF state, body
  <2> QED BY <1>0, <2>1, <2>3, <2>4, LimitMarks, BuildKeeps
<1>6. ASSUME NEW r \in Requests, UpstreamAnswers(r) \/ TeeRead(r) \/ Unrecorded(r)
      PROVE  DataInv'
  <2>1. UNCHANGED <<captureMax, reqBody, respBody, record>>
    BY <1>6 DEF UpstreamAnswers, TeeRead, Unrecorded, dataVars
  <2>2. \A q \in Requests : pc[q] \in {"answer", "done"} => pc'[q] \in {"answer", "done"}
    BY <1>6 DEF UpstreamAnswers, TeeRead, Unrecorded, DoReturns, StreamRead, Arrive,
                ClientLeaves, LogErrorRecord, Answer, StreamWrite, StreamWriteFails,
                StreamCheck
  <2> QED BY <2>1, <2>2 DEF DataInv, Marked
<1>7. CASE UNCHANGED recordVars
  BY <1>7 DEF DataInv, Marked, recordVars, vars, dataVars
<1>8. ASSUME NEW r \in Requests, ReadAnswer(r) PROVE DataInv'
  <2>1. /\ pc[r] = "response" /\ \A q \in Requests \ {r} : pc'[q] = pc[q]
        /\ UNCHANGED <<captureMax, reqBody, record>>
    BY <1>8 DEF ReadAnswer, ReadResponse
  <2>2. PICK b \in ResponseBodies : respBody' = [respBody EXCEPT ![r] = b]
    BY <1>8 DEF ReadAnswer
  <2>3. /\ respBody' \in [Requests -> Body]
        /\ \A q \in Requests \ {r} : respBody'[q] = respBody[q]
    BY <1>0, <2>2 DEF RecordAssumption, Body
  <2>4. ~record[r].built
    BY <2>1 DEF DataInv
  <2> QED BY <2>1, <2>3, <2>4 DEF DataInv, Marked
<1> QED BY <1>1, <1>2, <1>3, <1>4, <1>5, <1>6, <1>7, <1>8
        DEF RecordNext, Settled, recordVars

LEMMA DataInvariant == RecordSpec => []DataInv
<1>1. RecordInit => DataInv
  BY RecordAssumption DEF RecordInit, DataInv, RecordAssumption, NoRecord, NoBody, Body
<1>2. RecordSpec => []IInv
  BY HandlerWithData, Invariant, PTL
<1> QED BY <1>1, <1>2, NextData, RecordAssumption, PTL DEF RecordSpec

-----------------------------------------------------------------------------
(* The capture of a stream and the record made of it.                      *)

\* The tee holds what was read, and the handler knows a [DONE] in it.
TeeInv(r) ==
    /\ tee[r] \in Seq(Events)
    /\ Len(tee[r]) = captured[r]
    /\ doneSeen[r] = HasDone(tee[r])

\* Both bodies of a record are JSON.
Valid(rec) == rec.built /\ rec.reqBody.json > 0 /\ rec.respBody.json > 0

\* A record shows an assembled state, or null: without a marked cut only for the
\* bytes of a state that are none.
Shows(rec, state) ==
    /\ rec.state \in {Null, state}
    /\ ~rec.trunc.truncated => rec.state = IF state = Nothing THEN Null ELSE state

\* A record is built when the handler leaves, of a capture that stays.
ShownInv(r) ==
    \/ record[r] = NoRecord
    \/ /\ pc[r] \in {"answer", "done"} /\ Valid(record[r])
       /\ r \in StreamRequests /\ ~record[r].error =>
             Shows(record[r], AssembleFinalState(tee[r]))

AssembledInv ==
    /\ captureMax \in CaptureLimits
    /\ reqBody \in [Requests -> RequestBodies \cup {NoBody}]
    /\ ok \in [Requests -> BOOLEAN]
    /\ respBody \in [Requests -> ResponseBodies \cup {NoBody}]
    /\ DOMAIN tee = Requests /\ DOMAIN record = Requests
    /\ \A r \in Requests : TeeInv(r) /\ ShownInv(r)

LEMMA SanitizedIsValid ==
    ASSUME NEW b \in Body
    PROVE  SanitizeRawMessage(b).json > 0
BY DEF SanitizeRawMessage, Body, NullBody

LEMMA LimitShows ==
    ASSUME captureMax \in Nat, NEW r \in Requests, reqBody[r] \in Body,
           NEW body \in Body, NEW state, state = Nothing => body = NoBody,
           state # Nothing => body.json > 0
    PROVE  /\ Valid(NewRecord(r, body, state)) /\ ~NewRecord(r, body, state).error
           /\ Shows(NewRecord(r, body, state), state)
<1> DEFINE full == [built |-> TRUE, error |-> FALSE, status |-> status'[r], ok |-> ok[r],
                    reqBody |-> reqBody[r], respBody |-> body, state |-> state,
                    trunc |-> NotTruncated]
           rec == Limited(full)
<1>0. \A b \in Body : Cut(b, captureMax) \in Body
  BY DEF Cut, Body
<1>1. /\ rec.reqBody \in Body /\ rec.respBody \in Body
      /\ rec.built = TRUE /\ rec.error = FALSE /\ rec.state = state
      /\ ~rec.trunc.truncated => rec.respBody = body
      /\ body = NoBody => rec.respBody = body
  <2>1. rec.reqBody \in {reqBody[r], Cut(reqBody[r], captureMax)}
    BY DEF Limited, ApplyCaptureMax
  <2>2. rec.respBody = IF captureMax > 0 /\ body.len > captureMax
                       THEN Cut(body, captureMax) ELSE body
    BY DEF Limited, ApplyCaptureMax
  <2>3. rec.built = TRUE /\ rec.error = FALSE /\ rec.state = state
    BY DEF Limited, ApplyCaptureMax
  <2>4. captureMax > 0 /\ body.len > captureMax => rec.trunc.truncated
    BY DEF Limited, ApplyCaptureMax, NotTruncated
  <2>5. body = NoBody => ~(body.len > captureMax)
    BY DEF NoBody
  <2> HIDE DEF rec
  <2> QED BY <1>0, <2>1, <2>2, <2>3, <2>4, <2>5
<1>2. /\ Sent(rec).reqBody = SanitizeRawMessage(rec.reqBody)
      /\ Sent(rec).respBody = SanitizeRawMessage(rec.respBody)
      /\ Sent(rec).trunc = rec.trunc /\ Sent(rec).error = rec.error
      /\ Sent(rec).built = rec.built
      /\ Sent(rec).state = IF rec.respBody.json = 0 THEN Null ELSE rec.state
  BY DEF Sent, Limited, ApplyCaptureMax
<1>3. NewRecord(r, body, state) = Sent(rec)
  BY DEF NewRecord
<1> HIDE DEF rec
<1>4. Valid(Sent(rec)) /\ ~Sent(rec).error
  BY <1>1, <1>2, SanitizedIsValid DEF Valid
<1>5. body \in Body /\ (body = NoBody => body.json = 0)
  BY DEF NoBody
<1>6. Shows(Sent(rec), state)
  BY <1>1, <1>2, <1>5 DEF Shows, Body
<1> QED BY <1>3, <1>4, <1>6

LEMMA ErrorIsValid ==
    ASSUME NEW r \in Requests, NEW body \in Body
    PROVE  Valid(ErrorRecord(r, body)) /\ ErrorRecord(r, body).error
<1>1. /\ ErrorRecord(r, body).reqBody = SanitizeRawMessage(body)
      /\ ErrorRecord(r, body).respBody = SanitizeRawMessage(NoBody)
      /\ ErrorRecord(r, body).built = TRUE /\ ErrorRecord(r, body).error = TRUE
  BY DEF ErrorRecord, Sent
<1>2. NoBody \in Body
  BY DEF NoBody, Body
<1> QED BY <1>1, <1>2, SanitizedIsValid DEF Valid

LEMMA StateBodyType ==
    ASSUME NEW state, NEW n \in Nat \ {0}
    PROVE  /\ StateBody(state, n) \in Body
           /\ state = Nothing => StateBody(state, n) = NoBody
           /\ state # Nothing => StateBody(state, n).json > 0
BY DEF StateBody, NoBody, NullBody, Body

\* The record of r is built, and the data of the others stays.
LEMMA BuildShows ==
    ASSUME AssembledInv, NEW r \in Requests, NEW rec, Build(r, rec), Valid(rec),
           pc'[r] \in {"answer", "done"}, \A q \in Requests \ {r} : pc'[q] = pc[q],
           UNCHANGED <<captured, doneSeen>>,
           r \in StreamRequests /\ ~rec.error => Shows(rec, AssembleFinalState(tee[r]))
    PROVE  AssembledInv'
<1>1. /\ captureMax' = captureMax /\ reqBody' = reqBody /\ ok' = ok /\ tee' = tee
      /\ respBody' = respBody /\ DOMAIN record' = Requests
      /\ record'[r] = rec /\ \A q \in Requests \ {r} : record'[q] = record[q]
  BY DEF Build, AssembledInv
<1>2. ASSUME NEW q \in Requests PROVE TeeInv(q)'
  BY <1>1 DEF AssembledInv, TeeInv
<1>3. ASSUME NEW q \in Requests PROVE ShownInv(q)'
  <2>1. CASE q = r
    BY <1>1, <2>1 DEF ShownInv
  <2>2. CASE q # r
    BY <1>1, <2>2 DEF AssembledInv, ShownInv
  <2> QED BY <2>1, <2>2
<1> QED BY <1>1, <1>2, <1>3 DEF AssembledInv

\* A step that builds no record and reads nothing.
LEMMA OtherStepShows ==
    ASSUME AssembledInv, UNCHANGED <<captureMax, tee, record, captured, doneSeen>>,
           reqBody' \in [Requests -> RequestBodies \cup {NoBody}],
           ok' \in [Requests -> BOOLEAN],
           respBody' \in [Requests -> ResponseBodies \cup {NoBody}],
           \A q \in Requests : pc[q] \in {"answer", "done"} => pc'[q] \in {"answer", "done"}
    PROVE  AssembledInv'
<1>1. ASSUME NEW q \in Requests PROVE TeeInv(q)'
  BY DEF AssembledInv, TeeInv
<1>2. ASSUME NEW q \in Requests PROVE ShownInv(q)'
  BY DEF AssembledInv, ShownInv
<1> QED BY <1>1, <1>2 DEF AssembledInv

LEMMA TeeReadShows ==
    ASSUME IInv, AssembledInv, NEW r \in Requests, TeeRead(r)
    PROVE  AssembledInv'
<1> USE DEF IInv, TypeOK
<1>1. /\ pc[r] = "read" /\ \A q \in Requests \ {r} : pc'[q] = pc[q]
      /\ captured'[r] = captured[r] \/ captured'[r] = captured[r] + 1
      /\ \A q \in Requests \ {r} : captured'[q] = captured[q] /\ doneSeen'[q] = doneSeen[q]
  BY DEF TeeRead, StreamRead
<1>2. /\ captureMax' = captureMax /\ reqBody' = reqBody /\ ok' = ok /\ record' = record
      /\ respBody' = respBody /\ doneSeen'[r] = HasDone(tee'[r])
  BY DEF TeeRead
<1>3. DOMAIN tee' = Requests /\ \A q \in Requests \ {r} : tee'[q] = tee[q]
  BY DEF TeeRead, AssembledInv
<1>4. tee'[r] \in Seq(Events) /\ Len(tee'[r]) = captured'[r]
  <2>1. tee[r] \in Seq(Events) /\ Len(tee[r]) = captured[r] /\ captured[r] \in Nat
    BY HandlerAssumption DEF AssembledInv, TeeInv, HandlerAssumption
  <2>2. CASE captured'[r] = captured[r]
    BY <2>1, <2>2 DEF TeeRead
  <2>3. CASE captured'[r] # captured[r]
    <3>1. PICK e \in Events : tee'[r] = Append(tee[r], e)
      BY <2>3 DEF TeeRead, AssembledInv
    <3> QED BY <1>1, <2>1, <2>3, <3>1
  <2> QED BY <2>2, <2>3
<1>5. ASSUME NEW q \in Requests PROVE TeeInv(q)'
  BY <1>1, <1>2, <1>3, <1>4 DEF AssembledInv, TeeInv
<1>6. ASSUME NEW q \in Requests PROVE ShownInv(q)'
  <2>1. CASE q = r
    BY <1>1, <1>2, <2>1 DEF AssembledInv, ShownInv
  <2>2. CASE q # r
    BY <1>1, <1>2, <1>3, <2>2 DEF AssembledInv, ShownInv
  <2> QED BY <2>1, <2>2
<1> QED BY <1>2, <1>3, <1>5, <1>6 DEF AssembledInv

LEMMA NextAssembled ==
    ASSUME RecordAssumption, IInv, DataInv, AssembledInv, [RecordNext]_recordVars
    PROVE  AssembledInv'
<1> USE DEF IInv, TypeOK
<1>0. /\ reqBody \in [Requests -> Body] /\ respBody \in [Requests -> Body]
      /\ respBody \in [Requests -> ResponseBodies \cup {NoBody}] /\ captureMax \in Nat
      /\ reqBody \in [Requests -> RequestBodies \cup {NoBody}]
      /\ ok \in [Requests -> BOOLEAN]
  BY DEF DataInv, AssembledInv
<1>1. ASSUME NEW r \in Requests, ReadRequest(r) PROVE AssembledInv'
  <2>1. /\ UNCHANGED <<captureMax, ok, tee, respBody, record, captured, doneSeen>>
        /\ pc' = [pc EXCEPT ![r] = "upstream"] /\ pc[r] = "body"
        /\ reqBody' \in [Requests -> RequestBodies \cup {NoBody}]
    BY <1>0, <1>1 DEF ReadRequest, ReadBody, streamVars
  <2> QED BY <1>0, <2>1, OtherStepShows
<1>2. ASSUME NEW r \in Requests, FailEarly(r) PROVE AssembledInv'
  <2>1. /\ pc'[r] = "answer" /\ UNCHANGED <<captured, doneSeen>>
        /\ \A q \in Requests \ {r} : pc'[q] = pc[q]
    BY <1>2 DEF FailEarly, ReadBodyFails, NewRequestFails, EnqueueError, streamVars
  <2>2. NoBody \in Body
    BY DEF NoBody, Body
  <2> QED BY <1>2, <2>1, <2>2, ErrorIsValid, BuildShows DEF FailEarly
<1>3. ASSUME NEW r \in Requests, FailAtUpstream(r) PROVE AssembledInv'
  <2>1. /\ pc'[r] = "answer" /\ UNCHANGED <<captured, doneSeen>>
        /\ \A q \in Requests \ {r} : pc'[q] = pc[q]
    BY <1>3 DEF FailAtUpstream, DoFails, ReadResponseFails, EnqueueError, streamVars
  <2> QED BY <1>0, <1>3, <2>1, ErrorIsValid, BuildShows DEF FailAtUpstream
<1>4. ASSUME NEW r \in Requests, RecordAnswer(r) PROVE AssembledInv'
  <2>1. /\ pc'[r] = "answer" /\ UNCHANGED <<captured, doneSeen>> /\ pc[r] = "enqueue"
        /\ \A q \in Requests \ {r} : pc'[q] = pc[q]
    BY <1>4 DEF RecordAnswer, EnqueueRecord, streamVars
  <2>2. r \notin StreamRequests
    BY <2>1 DEF StreamInv, PathInv
  <2> DEFINE body == SanitizeResponseBody(respBody[r])
             rec == NewRecord(r, body, Null)
  <2>3. body \in Body /\ body.json > 0
    BY <1>0, SanitizedAnswer
  <2>4. Null # Nothing
    BY DEF Null, Nothing
  <2>5. Valid(rec)
    BY <1>0, <2>3, <2>4, LimitShows
  <2>6. Build(r, rec)
    BY <1>4 DEF RecordAnswer
  <2> HIDE DEF rec, body
  <2> QED BY <2>1, <2>2, <2>5, <2>6, BuildShows
<1>5. ASSUME NEW r \in Requests, RecordStream(r) PROVE AssembledInv'
  <2>1. /\ pc'[r] = "done" /\ UNCHANGED <<captured, doneSeen>>
        /\ \A q \in Requests \ {r} : pc'[q] = pc[q]
    BY <1>5 DEF RecordStream, StreamFinish, streamVars
  <2>2. PICK n \in AssembledSizes :
           LET state == AssembleFinalState(tee[r])
           IN  Build(r, NewRecord(r, StateBody(state, n), state))
    BY <1>5 DEF RecordStream
  <2> DEFINE state == AssembleFinalState(tee[r])
             body == StateBody(state, n)
             rec == NewRecord(r, body, state)
  <2>3. n \in Nat \ {0}
    BY DEF RecordAssumption
  <2>4. Build(r, rec)
    BY <2>2
  <2>5. Valid(rec) /\ Shows(rec, state)
    <3> HIDE DEF state
    <3> QED BY <1>0, <2>3, StateBodyType, LimitShows
  <2> HIDE DEF rec, body
  <2> QED BY <2>1, <2>4, <2>5, BuildShows
<1>6. ASSUME NEW r \in Requests, UpstreamAnswers(r) PROVE AssembledInv'
  <2>1. /\ UNCHANGED <<captureMax, reqBody, tee, respBody, record, captured, doneSeen>>
        /\ ok' \in [Requests -> BOOLEAN] /\ pc[r] = "upstream"
        /\ \A q \in Requests \ {r} : pc'[q] = pc[q]
    BY <1>0, <1>6 DEF UpstreamAnswers, DoReturns, streamVars
  <2> QED BY <1>0, <2>1, OtherStepShows
<1>7. ASSUME NEW r \in Requests, Unrecorded(r) PROVE AssembledInv'
  <2>1. UNCHANGED <<captureMax, reqBody, ok, tee, respBody, record, captured, doneSeen>>
    BY <1>7 DEF Unrecorded, dataVars, Arrive, ClientLeaves, LogErrorRecord, Answer,
                StreamWrite, StreamWriteFails, StreamCheck, streamVars
  <2>2. \A q \in Requests : pc[q] \in {"answer", "done"} => pc'[q] \in {"answer", "done"}
    BY <1>7 DEF Unrecorded, Arrive, ClientLeaves, LogErrorRecord, Answer, StreamWrite,
                StreamWriteFails, StreamCheck
  <2> QED BY <1>0, <2>1, <2>2, OtherStepShows
<1>8. CASE UNCHANGED recordVars
  BY <1>0, <1>8, OtherStepShows DEF recordVars, vars, streamVars, dataVars
<1>9. ASSUME NEW r \in Requests, ReadAnswer(r) PROVE AssembledInv'
  <2>1. /\ UNCHANGED <<captureMax, reqBody, ok, tee, record, captured, doneSeen>>
        /\ pc[r] = "response" /\ \A q \in Requests \ {r} : pc'[q] = pc[q]
        /\ respBody' \in [Requests -> ResponseBodies \cup {NoBody}]
    BY <1>0, <1>9 DEF ReadAnswer, ReadResponse, streamVars
  <2> QED BY <1>0, <2>1, OtherStepShows
<1> QED BY <1>1, <1>2, <1>3, <1>4, <1>5, <1>6, <1>7, <1>8, <1>9, TeeReadShows
        DEF RecordNext, Settled, recordVars

LEMMA InitAssembled ==
    ASSUME RecordAssumption, RecordInit
    PROVE  AssembledInv
<1>1. HasDone(<<>>) = FALSE
  <2>1. <<>> \in Seq(Event) /\ Len(<<>>) = 0
    OBVIOUS
  <2>2. Len(ReadableEvents(<<>>)) <= 0 /\ ReadableEvents(<<>>) \in Seq(Event)
    BY <2>1, ReadableFacts
  <2>3. DOMAIN ReadableEvents(<<>>) = {}
    BY <2>2
  <2> QED BY <2>3 DEF HasDone
<1>2. ASSUME NEW r \in Requests PROVE TeeInv(r) /\ ShownInv(r)
  <2>1. tee[r] = <<>> /\ captured[r] = 0 /\ doneSeen[r] = FALSE /\ record[r] = NoRecord
    BY DEF RecordInit, Init
  <2>2. <<>> \in Seq(Events) /\ Len(<<>>) = 0
    OBVIOUS
  <2>3. TeeInv(r)
    BY <1>1, <2>1, <2>2 DEF TeeInv
  <2> QED BY <2>1, <2>3 DEF ShownInv
<1> QED BY <1>2 DEF RecordInit, AssembledInv

LEMMA AssembledInvariant == RecordSpec => [](IInv /\ AssembledInv)
<1>1. RecordInit => AssembledInv
  BY RecordAssumption, InitAssembled
<1>2. RecordSpec => [](IInv /\ DataInv)
  BY HandlerWithData, Invariant, DataInvariant, PTL
<1>3. IInv /\ DataInv /\ AssembledInv /\ [RecordNext]_recordVars => AssembledInv'
  BY NextAssembled, RecordAssumption
<1> QED BY <1>1, <1>2, <1>3, PTL DEF RecordSpec

\* The body, the tee and the record of a request keep their types: the tee holds as
\* many reads as were counted, the handler has seen a [DONE] if and only if the
\* capture shows one, and both bodies of a record are JSON.
THEOREM RecordTypes == RecordSpec => []RecordTypeOK
<1>1. AssembledInv => RecordTypeOK
  <2> SUFFICES ASSUME AssembledInv PROVE RecordTypeOK
    OBVIOUS
  <2>1. ASSUME NEW r \in Requests
        PROVE  /\ Len(tee[r]) = captured[r] /\ \A i \in DOMAIN tee[r] : tee[r][i] \in Events
               /\ doneSeen[r] = HasDone(tee[r])
               /\ record[r] # NoRecord =>
                     record[r].reqBody.json > 0 /\ record[r].respBody.json > 0
    <3>1. TeeInv(r) /\ ShownInv(r)
      BY DEF AssembledInv
    <3> QED BY <3>1 DEF TeeInv, ShownInv, Valid
  <2> QED BY <2>1 DEF AssembledInv, RecordTypeOK
<1> QED BY <1>1, AssembledInvariant, PTL

\* Whatever the limit, the bodies and the stream, a record of an answered request
\* without the mark has the request body as it was, and the answer as it was or what
\* the stream was assembled to; and no such record exceeds the limit.
THEOREM CutsMarked == RecordSpec => []CutsAreMarked
<1>1. DataInv /\ AssembledInv => CutsAreMarked
  <2> SUFFICES ASSUME DataInv, AssembledInv, NEW r \in Requests, record[r].built
               PROVE  LET rec == record[r]
                          whole == ~rec.trunc.truncated
                          Within(b) == b.len <= captureMax \/ b = NullBody
                      IN  /\ whole /\ rec.status # "proxy_error" =>
                                rec.reqBody = SanitizeRawMessage(reqBody[r])
                          /\ whole /\ ~rec.error =>
                                IF r \in StreamRequests
                                THEN AssembleFinalState(tee[r]) \in {rec.state, Nothing}
                                ELSE rec.respBody = SanitizeResponseBody(respBody[r])
                          /\ captureMax > 0 /\ ~rec.error =>
                                Within(rec.reqBody) /\ Within(rec.respBody)
    BY DEF CutsAreMarked
  <2>1. Marked(record[r], r)
    BY DEF DataInv
  <2>2. r \in StreamRequests /\ ~record[r].error /\ ~record[r].trunc.truncated =>
           AssembleFinalState(tee[r]) \in {record[r].state, Nothing}
    <3>1. ShownInv(r)
      BY DEF AssembledInv
    <3> QED BY <3>1 DEF ShownInv, Shows, NoRecord
  <2> QED BY <2>1, <2>2 DEF Marked
<1> QED BY <1>1, DataInvariant, AssembledInvariant, PTL

\* What the client was given of a stream is how the capture begins.
LEMMA StreamShown ==
    ASSUME RecordAssumption, IInv, AssembledInv, NEW r \in Requests, Streamed(r)
    PROVE  /\ tee[r] \in Seq(Event)
           /\ Given(r) \in Seq(Event) /\ Begins(Given(r), tee[r], Event)
           /\ Shows(record[r], AssembleFinalState(tee[r]))
<1>1. tee[r] \in Seq(Event) /\ Len(tee[r]) = captured[r]
  BY DEF AssembledInv, TeeInv, RecordAssumption
<1>2. Shows(record[r], AssembleFinalState(tee[r]))
  BY DEF AssembledInv, ShownInv, NoRecord, Streamed
<1>3. written[r] \in Nat /\ written[r] <= captured[r]
  <2>1. DeliveryInv(r)
    BY DEF IInv, StreamInv, Streamed
  <2>2. written[r] \in Nat /\ captured[r] \in Nat
    BY HandlerAssumption DEF IInv, TypeOK, HandlerAssumption
  <2> QED BY <2>1, <2>2 DEF DeliveryInv
<1>4. /\ Given(r) \in Seq(Event) /\ Len(Given(r)) <= Len(tee[r])
      /\ \A k \in 1..Len(Given(r)) : Given(r)[k] = tee[r][k]
  BY <1>1, <1>3 DEF Given
<1> QED BY <1>1, <1>2, <1>4, BeginsIs

\* The text of a choice, for every choice at once.
LEMMA TextOfIs ==
    ASSUME NEW s
    PROVE  /\ \A i : TextOf(s, i) = Text(Deltas(Payloads(s)), i)
           /\ IndicesOf(s) = IndexSet(Deltas(Payloads(s)))
BY DEF TextOf, Text, IndicesOf, IndexSet

LEMMA PrefixOfBeginning ==
    ASSUME NEW E, NEW s, NEW t, t \in Seq(E), Begins(s, t, E)
    PROVE  IsPrefix(s, t)
<1>1. s \in Seq(E) /\ Len(s) <= Len(t) /\ \A k \in 1..Len(s) : s[k] = t[k]
  <2>1. s \in Seq(E)
    BY DEF Begins
  <2> QED BY <2>1, BeginsIs
<1>2. s = SubSeq(t, 1, Len(s))
  BY <1>1
<1> QED BY <1>1, <1>2 DEF IsPrefix

\* A chat state is assembled from the payloads the parser could read.
LEMMA ChatStateIs ==
    ASSUME NEW s, AssembleFinalState(s).kind = "chat"
    PROVE  AssembleFinalState(s) = AssembleChat(Payloads(ReadableEvents(s)))
<1>1. \A e : ExtractResponse(e).kind # "chat"
  BY DEF ExtractResponse, Null
<1> QED BY <1>1, AssembledIs

\* For streams of any length, cut off anywhere: the text recorded for a choice is the
\* text the client was given, up to an event the parser refuses, and at most what was
\* read beyond it; a choice whose index is no negative one is left out only behind a gap.
THEOREM ChatFaithful == RecordSpec => []ChatTextFaithful
<1>1. ASSUME RecordAssumption, IInv, AssembledInv PROVE ChatTextFaithful
  <2> SUFFICES ASSUME NEW r \in Requests, Streamed(r), record[r].state.kind = "chat"
               PROVE  LET choices == record[r].state.choices
                          given == ReadableEvents(Given(r))
                      IN  /\ \A i \in DOMAIN choices :
                                /\ IsPrefix(TextOf(given, i), choices[i].text)
                                /\ IsPrefix(choices[i].text, TextOf(tee[r], i))
                          /\ \A i \in IndicesOf(given) \ DOMAIN choices : i >= 0 =>
                                \E k \in 0..i : k \notin IndicesOf(ReadableEvents(tee[r]))
    BY DEF ChatTextFaithful
  <2> DEFINE choices == record[r].state.choices
             given == ReadableEvents(Given(r))
             es == ReadableEvents(tee[r])
             ds == Deltas(Payloads(es))
  <2>1. /\ tee[r] \in Seq(Event) /\ Given(r) \in Seq(Event)
        /\ Begins(Given(r), tee[r], Event)
        /\ Shows(record[r], AssembleFinalState(tee[r]))
    BY <1>1, StreamShown
  <2>2. es \in Seq(Event) /\ Begins(given, es, Event) /\ Begins(es, tee[r], Event)
    BY <2>1, ReadableFacts, ReadableBegins
  <2>3. record[r].state = AssembleFinalState(tee[r])
    BY <2>1 DEF Shows, Null
  <2>4. record[r].state = AssembleChat(Payloads(es))
    BY <2>3, ChatStateIs
  <2>5. Payloads(es) \in Seq(Event) /\ ds \in Seq(Delta)
    BY <2>1, <2>2, StreamBegins
  <2>6. /\ \A i \in DOMAIN choices : choices[i].text = Text(ds, i)
        /\ \A i \in IndexSet(ds) \ DOMAIN choices : i >= 0 =>
              \E k \in 0..i : k \notin IndexSet(ds)
    BY <2>4, <2>5, ChatAssembled
  <2> HIDE DEF choices, given, es, ds
  <2>7. ASSUME NEW i \in DOMAIN choices
        PROVE  /\ IsPrefix(TextOf(given, i), choices[i].text)
               /\ IsPrefix(choices[i].text, TextOf(tee[r], i))
    <3>1. /\ Begins(Text(Deltas(Payloads(given)), i), Text(ds, i), Tokens)
          /\ Begins(Text(ds, i), Text(Deltas(Payloads(tee[r])), i), Tokens)
      BY <2>1, <2>2, StreamBegins DEF ds
    <3>2. Text(ds, i) \in Seq(Tokens) /\ Text(Deltas(Payloads(tee[r])), i) \in Seq(Tokens)
      <4>1. Deltas(Payloads(tee[r])) \in Seq(Delta)
        BY <2>1, <2>2, StreamBegins
      <4> QED BY <2>5, <4>1, TextFlat, PartsTypes, FlatMapAppend
    <3>3. /\ IsPrefix(Text(Deltas(Payloads(given)), i), Text(ds, i))
          /\ IsPrefix(Text(ds, i), Text(Deltas(Payloads(tee[r])), i))
      BY <3>1, <3>2, PrefixOfBeginning
    <3> QED BY <2>6, <3>3, TextOfIs
  <2>8. ASSUME NEW i \in IndicesOf(given) \ DOMAIN choices, i >= 0
        PROVE  \E k \in 0..i : k \notin IndicesOf(es)
    <3>1. Begins(Deltas(Payloads(given)), ds, Delta)
      BY <2>2, StreamBegins DEF ds
    <3>2. IndexSet(Deltas(Payloads(given))) \subseteq IndexSet(ds)
      <4>1. Deltas(Payloads(given)) \in Seq(Delta)
        BY <3>1 DEF Begins
      <4>2. /\ Len(Deltas(Payloads(given))) <= Len(ds)
            /\ \A k \in 1..Len(Deltas(Payloads(given))) : Deltas(Payloads(given))[k] = ds[k]
        BY <2>5, <3>1, <4>1, BeginsIs
      <4> QED BY <2>5, <4>1, <4>2 DEF IndexSet
    <3>3. IndicesOf(given) \subseteq IndexSet(ds) /\ IndicesOf(es) = IndexSet(ds)
      BY <3>2, TextOfIs DEF ds
    <3> QED BY <2>6, <2>8, <3>3
  <2> QED BY <2>7, <2>8 DEF choices, given, es
<1> QED BY <1>1, AssembledInvariant, RecordAssumption, PTL

\* The first of the events read so far that completes a response decides.
LEMMA FirstCompleted ==
    ASSUME NEW s \in Seq(Event), NEW i \in 1..Len(ReadableEvents(s)),
           ReadableEvents(s)[i].completed,
           \A k \in 1..i-1 : ~ReadableEvents(s)[k].completed
    PROVE  AssembleFinalState(s) = ExtractResponse(ReadableEvents(s)[i])
<1> DEFINE es == ReadableEvents(s)
           first == Min(Completed(es))
<1>1. es \in Seq(Event) /\ Len(es) \in Nat
  BY ReadableFacts
<1>2. Completed(es) \in SUBSET (1..Len(es)) /\ i \in Completed(es)
  BY DEF Completed
<1>3. first \in Completed(es) /\ first <= i
  <2> HIDE DEF es
  <2> QED BY <1>1, <1>2, MinOfSome
<1>4. first = i
  <2> HIDE DEF first
  <2> QED BY <1>3 DEF Completed
<1>5. i # 0 /\ Completed(es) # {}
  BY <1>2
<1> QED BY <1>4, <1>5, AssembledIs

\* However a stream goes on after it and wherever it ends, the response of the first
\* response.completed event the client was given is the recorded state.
THEOREM CompletedKept == RecordSpec => []CompletedResponseKept
<1>1. ASSUME RecordAssumption, IInv, AssembledInv PROVE CompletedResponseKept
  <2> SUFFICES ASSUME NEW r \in Requests, Streamed(r), ~record[r].trunc.truncated,
                      NEW i \in DOMAIN ReadableEvents(Given(r)),
                      tee[r][i].completed, tee[r][i].kind = "object",
                      tee[r][i].response \notin {Nil, JsonNull}, \A k \in 1..i-1 : ~tee[r][k].completed
               PROVE  record[r].state = [kind |-> "response", response |-> tee[r][i].response]
    BY DEF CompletedResponseKept
  <2> DEFINE given == ReadableEvents(Given(r))
             es == ReadableEvents(tee[r])
  <2>1. /\ tee[r] \in Seq(Event) /\ Given(r) \in Seq(Event)
        /\ Begins(Given(r), tee[r], Event)
        /\ Shows(record[r], AssembleFinalState(tee[r]))
    BY <1>1, StreamShown
  <2>2. given \in Seq(Event) /\ es \in Seq(Event) /\ Begins(given, es, Event)
    BY <2>1, ReadableFacts, ReadableBegins
  <2>3. i \in 1..Len(given) /\ Len(given) <= Len(es)
    <3> HIDE DEF given, es
    <3>1. Len(given) <= Len(es)
      BY <2>2, BeginsIs
    <3> QED BY <2>2, <3>1 DEF given
  <2>4. i \in 1..Len(es) /\ \A k \in 1..i : es[k] = tee[r][k]
    <3>1. \A k \in 1..Len(es) : es[k] = tee[r][k]
      BY <2>1, ReadableFacts
    <3> HIDE DEF given, es
    <3> QED BY <2>2, <2>3, <3>1
  <2> HIDE DEF given
  <2>5. es[i].completed /\ \A k \in 1..i-1 : ~es[k].completed
    BY <2>4
  <2>6. AssembleFinalState(tee[r]) = ExtractResponse(es[i])
    BY <2>1, <2>4, <2>5, FirstCompleted
  <2>7. ExtractResponse(es[i]) = [kind |-> "response", response |-> tee[r][i].response]
    <3>1. es[i] = tee[r][i]
      BY <2>3, <2>4
    <3> QED BY <3>1 DEF ExtractResponse
  <2>8. [kind |-> "response", response |-> tee[r][i].response] # Nothing
    BY DEF Nothing
  <2> QED BY <2>1, <2>6, <2>7, <2>8 DEF Shows
<1> QED BY <1>1, AssembledInvariant, RecordAssumption, PTL

\* Why a stream may be recorded as null.
Cause(es) ==
    \/ Payloads(es) = <<>> \/ Last(Payloads(es)).kind = "null"
    \/ \E i \in DOMAIN es :
          /\ es[i].completed /\ \A k \in 1..i-1 : ~es[k].completed
          /\ es[i].kind # "object" \/ es[i].response = JsonNull
    \/ \E i \in DOMAIN Deltas(Payloads(es)) : ~Deltas(Payloads(es))[i].numeric

\* When the assembly has nothing to show.
LEMMA EmptyState ==
    ASSUME NEW s \in Seq(Event), AssembleFinalState(s) \in {Null, Nothing}
    PROVE  Cause(ReadableEvents(s))
<1> DEFINE es == ReadableEvents(s)
           first == Min(Completed(es))
<1>1. es \in Seq(Event) /\ Len(es) \in Nat
  BY ReadableFacts
<1>2. CASE Completed(es) # {}
  <2>1. first \in Completed(es) /\ \A k \in Completed(es) : first <= k
    <3>1. Completed(es) \in SUBSET (1..Len(es))
      BY DEF Completed
    <3> HIDE DEF es
    <3> QED BY <1>1, <1>2, <3>1, MinOfSome
  <2>2. first \in 1..Len(es) /\ es[first].completed
    BY <2>1 DEF Completed
  <2>3. AssembleFinalState(s) = ExtractResponse(es[first])
    BY <1>2, <2>2, AssembledIs
  <2> HIDE DEF first
  <2>4. es[first].kind # "object" \/ es[first].response = JsonNull
    BY <2>3 DEF ExtractResponse, Null, Nothing
  <2> HIDE DEF es
  <2>5. first \in DOMAIN es /\ \A k \in 1..first-1 : ~es[k].completed
    BY <1>1, <2>1, <2>2 DEF Completed
  <2> QED BY <2>2, <2>4, <2>5 DEF Cause, es
<1>3. CASE Completed(es) = {}
  <2>1. AssembleChat(Payloads(es)) \in {Null, Nothing}
    BY <1>3, AssembledIs
  <2> HIDE DEF es
  <2> QED BY <2>1 DEF AssembleChat, Null, Nothing, Cause, es
<1> QED BY <1>2, <1>3

\* A stream is recorded as null only for one of the causes named, however long it is.
THEOREM NullForCause == RecordSpec => []NullOnlyIfNothing
<1>1. ASSUME RecordAssumption, IInv, AssembledInv PROVE NullOnlyIfNothing
  <2> SUFFICES ASSUME NEW r \in Requests, Streamed(r), record[r].state = Null,
                      ~record[r].trunc.truncated
               PROVE  Cause(ReadableEvents(tee[r]))
    BY DEF NullOnlyIfNothing, Cause
  <2>1. tee[r] \in Seq(Event) /\ Shows(record[r], AssembleFinalState(tee[r]))
    BY <1>1, StreamShown
  <2>2. AssembleFinalState(tee[r]) \in {Null, Nothing}
    BY <2>1 DEF Shows
  <2> QED BY <2>1, <2>2, EmptyState
<1> QED BY <1>1, AssembledInvariant, RecordAssumption, PTL
=============================================================================
