---------------------------- MODULE ProxyRecord ----------------------------
(***************************************************************************)
(* The handlers of ProxyHandler with the data of their requests: the body  *)
(* a request brings, the events of a stream as they pass the TeeReader,    *)
(* and the record that goes to the log client, as the client sends it.     *)
(*                                                                         *)
(* A read of a stream brings the end of at most one event; a read that     *)
(* ends none is a blank event.                                             *)
(***************************************************************************)
EXTENDS ProxyHandler, SseAssembly, CaptureLimit
LOCAL INSTANCE SequencesExt

CONSTANTS
    Events,             \* what a read of a stream may bring
    RequestBodies,      \* what a request may bring
    ResponseBodies,     \* the answers to requests that are not streams
    AssembledSizes,     \* the sizes assembled JSON may have
    CaptureLimits       \* the values of CAPTURE_MAX_BYTES; 0 is no limit

ASSUME RecordAssumption ==
    /\ Events \subseteq Event
    /\ RequestBodies \cup ResponseBodies \subseteq [len : Nat, json : Nat]
    /\ \E b \in RequestBodies : b.json > 0
    /\ CaptureLimits \subseteq Nat /\ AssembledSizes \subseteq Nat \ {0}

VARIABLES
    captureMax,     \* CAPTURE_MAX_BYTES
    reqBody,        \* the request's body, NoBody before it is read
    ok,             \* the upstream answered with a 2xx status
    tee,            \* what the TeeReader has captured, read by read
    respBody,       \* the upstream's answer to a request that is no stream
    record          \* the record built for the request; NoRecord before

dataVars == <<captureMax, reqBody, ok, tee, respBody, record>>
recordVars == <<vars, dataVars>>

NoRecord == [built |-> FALSE]

RecordInit ==
    /\ Init
    /\ captureMax \in CaptureLimits
    /\ reqBody = [r \in Requests |-> NoBody]
    /\ ok = [r \in Requests |-> FALSE]
    /\ tee = [r \in Requests |-> <<>>]
    /\ respBody = [r \in Requests |-> NoBody]
    /\ record = [r \in Requests |-> NoRecord]

-----------------------------------------------------------------------------
(* The record.                                                             *)

\* SanitizeRawMessages, which the log client calls before it sends.
Sent(rec) ==
    [rec EXCEPT !.reqBody = SanitizeRawMessage(@), !.respBody = SanitizeRawMessage(@),
                !.state = IF rec.respBody.json = 0 THEN Null ELSE @]

Limited(rec) == IF captureMax > 0 THEN ApplyCaptureMax(rec, captureMax) ELSE rec

\* newRecord, and the same assignments in ServeHTTP.
NewRecord(r, body, state) ==
    Sent(Limited([built |-> TRUE, error |-> FALSE, status |-> status'[r], ok |-> ok[r],
                  reqBody |-> reqBody[r], respBody |-> body, state |-> state,
                  trunc |-> NotTruncated]))

\* The record of enqueueError, which no limit applies to.
ErrorRecord(r, body) ==
    Sent([built |-> TRUE, error |-> TRUE, status |-> status'[r], ok |-> ok[r],
          reqBody |-> body, respBody |-> NoBody, state |-> Null,
          trunc |-> NotTruncated])

Build(r, rec) ==
    /\ record' = [record EXCEPT ![r] = rec]
    /\ UNCHANGED <<captureMax, reqBody, ok, tee, respBody>>

-----------------------------------------------------------------------------
(* ServeHTTP and handleStreamingResponse.                                  *)

\* requestIsStream: only a body that is JSON can ask for a stream.
ReadRequest(r) ==
    /\ ReadBody(r)
    /\ \E b \in RequestBodies :
          /\ r \in StreamRequests => b.json > 0
          /\ reqBody' = [reqBody EXCEPT ![r] = b]
    /\ UNCHANGED <<captureMax, ok, tee, respBody, record>>

\* Before the upstream is called the record gets neither body nor headers.
FailEarly(r) ==
    /\ ReadBodyFails(r) \/ NewRequestFails(r)
    /\ Build(r, ErrorRecord(r, NoBody))

FailAtUpstream(r) ==
    /\ DoFails(r) \/ ReadResponseFails(r)
    /\ Build(r, ErrorRecord(r, reqBody[r]))

UpstreamAnswers(r) ==
    /\ DoReturns(r)
    /\ ok' = [ok EXCEPT ![r] = status'[r] = "completed"]
    /\ UNCHANGED <<captureMax, reqBody, tee, respBody, record>>

ReadAnswer(r) ==
    /\ ReadResponse(r)
    /\ \E b \in ResponseBodies : respBody' = [respBody EXCEPT ![r] = b]
    /\ UNCHANGED <<captureMax, reqBody, ok, tee, record>>

RecordAnswer(r) ==
    /\ EnqueueRecord(r)
    /\ Build(r, NewRecord(r, SanitizeResponseBody(respBody[r]), Null))

\* Read through the tee: what came with the read is captured before it is written.
TeeRead(r) ==
    /\ StreamRead(r)
    /\ IF captured'[r] = captured[r] THEN UNCHANGED tee
       ELSE \E e \in Events : tee' = [tee EXCEPT ![r] = Append(@, e)]
    /\ doneSeen'[r] = HasDone(tee'[r])
    /\ UNCHANGED <<captureMax, reqBody, ok, respBody, record>>

\* The bytes of an assembled state.
StateBody(state, n) ==
    IF state = Nothing THEN NoBody
    ELSE IF state = Null THEN NullBody ELSE [len |-> n, json |-> n]

\* The final state is assembled from the capture.
RecordStream(r) ==
    /\ StreamFinish(r)
    /\ \E n \in AssembledSizes :
          LET state == AssembleFinalState(tee[r])
          IN  Build(r, NewRecord(r, StateBody(state, n), state))

Unrecorded(r) ==
    /\ \/ Arrive(r) \/ ClientLeaves(r) \/ LogErrorRecord(r)
       \/ Answer(r) \/ StreamWrite(r) \/ StreamWriteFails(r) \/ StreamCheck(r)
    /\ UNCHANGED dataVars

RecordNext ==
    \/ \E r \in Requests :
          \/ ReadRequest(r) \/ FailEarly(r) \/ FailAtUpstream(r) \/ UpstreamAnswers(r)
          \/ ReadAnswer(r) \/ RecordAnswer(r) \/ TeeRead(r) \/ RecordStream(r)
          \/ Unrecorded(r)
    \/ Settled /\ UNCHANGED dataVars

RecordSpec == RecordInit /\ [][RecordNext]_recordVars

-----------------------------------------------------------------------------
(* Properties.                                                             *)

Streamed(r) == r \in StreamRequests /\ record[r].built /\ ~record[r].error
Given(r) == SubSeq(tee[r], 1, written[r])

\* The text of choice i in a stream, as a client that reads all of it sees it.
TextOf(events, i) ==
    LET ds == Deltas(Payloads(events))
    IN  FlattenSeq([k \in DOMAIN ds |-> IF Key(ds[k]) = i THEN ds[k].text ELSE <<>>])
IndicesOf(events) ==
    LET ds == Deltas(Payloads(events)) IN {Key(ds[k]) : k \in DOMAIN ds}

RecordTypeOK ==
    /\ captureMax \in CaptureLimits
    /\ reqBody \in [Requests -> RequestBodies \cup {NoBody}]
    /\ ok \in [Requests -> BOOLEAN]
    /\ respBody \in [Requests -> ResponseBodies \cup {NoBody}]
    /\ \A r \in Requests :
          /\ Len(tee[r]) = captured[r] /\ \A i \in DOMAIN tee[r] : tee[r][i] \in Events
          /\ doneSeen[r] = HasDone(tee[r])
          /\ record[r] # NoRecord =>
                record[r].reqBody.json > 0 /\ record[r].respBody.json > 0

\* sseutil.go: the assembly "merges all delta.content".  The text recorded for a
\* choice is the text the client was given, in its order, up to an event the parser
\* refuses, and at most one read more.  A choice whose index is no negative one is
\* left out only behind a gap, an index the stream does not have.
ChatTextFaithful ==
    \A r \in Requests : Streamed(r) /\ record[r].state.kind = "chat" =>
        LET choices == record[r].state.choices
            given == ReadableEvents(Given(r))
        IN  /\ \A i \in DOMAIN choices :
                  /\ IsPrefix(TextOf(given, i), choices[i].text)
                  /\ IsPrefix(choices[i].text, TextOf(tee[r], i))
            /\ \A i \in IndicesOf(given) \ DOMAIN choices : i >= 0 =>
                  \E k \in 0..i : k \notin IndicesOf(ReadableEvents(tee[r]))

\* The first response.completed event the client was given is in the record with
\* its response, whatever follows it: another one, chat chunks, an event the parser
\* refuses, a failing upstream or a client that leaves.  Only a marked cut loses it.
CompletedResponseKept ==
    \A r \in Requests : Streamed(r) /\ ~record[r].trunc.truncated =>
        \A i \in DOMAIN ReadableEvents(Given(r)) :
            /\ tee[r][i].completed /\ tee[r][i].kind = "object"
            /\ tee[r][i].response \notin {Nil, JsonNull}
            /\ \A k \in 1..i-1 : ~tee[r][k].completed
            => record[r].state = [kind |-> "response", response |-> tee[r][i].response]

\* sseutil.go: "Always returns valid JSON".  A stream is recorded as null only if a
\* cut is marked, no JSON came that the parser could read, the last of it was null,
\* the first response.completed event had no JSON or a null response, or a choice had
\* no index.
NullOnlyIfNothing ==
    \A r \in Requests :
        Streamed(r) /\ record[r].state = Null /\ ~record[r].trunc.truncated =>
            LET es == ReadableEvents(tee[r])
                payloads == Payloads(es)
                deltas == Deltas(payloads)
            IN  \/ payloads = <<>> \/ Last(payloads).kind = "null"
                \/ \E i \in DOMAIN es :
                      /\ es[i].completed /\ \A k \in 1..i-1 : ~es[k].completed
                      /\ es[i].kind # "object" \/ es[i].response = JsonNull
                \/ \E i \in DOMAIN deltas : ~deltas[i].numeric

\* config.example.env: "Larger bodies are truncated with TruncationInfo metadata".
\* A record without the mark shows the request body as it was, unless the request
\* failed before the upstream was called, and the upstream's answer as it was (wrapped
\* if it is no JSON), or what the stream was assembled to.  A record of an answered
\* request holds no more than the limit of either body, or null.
CutsAreMarked ==
    \A r \in Requests : record[r].built =>
        LET rec == record[r]
            whole == ~rec.trunc.truncated
            Within(b) == b.len <= captureMax \/ b = NullBody
        IN  /\ whole /\ rec.status # "proxy_error" =>
                  rec.reqBody = SanitizeRawMessage(reqBody[r])
            /\ whole /\ ~rec.error =>
                  IF r \in StreamRequests
                  THEN AssembleFinalState(tee[r]) \in {rec.state, Nothing}
                  ELSE rec.respBody = SanitizeResponseBody(respBody[r])
            /\ captureMax > 0 /\ ~rec.error => Within(rec.reqBody) /\ Within(rec.respBody)

\* The same: "original_bytes" of a record whose request body was cut is the size of
\* that body.
OriginalSizeTold ==
    \A r \in Requests :
        /\ record[r].built /\ record[r].trunc.truncated
        /\ reqBody[r].len > captureMax
        => record[r].trunc.original = reqBody[r].len

\* proxy_test.go: "Upstream non-2xx captured with terminal status upstream_error".
\* An answer that is not 2xx is not recorded as completed.
NonSuccessMarked ==
    \A r \in Requests : record[r].built /\ record[r].status = "completed" =>
        record[r].ok
=============================================================================
