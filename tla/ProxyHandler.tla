---------------------------- MODULE ProxyHandler ----------------------------
(***************************************************************************)
(* internal/proxy: Handler.ServeHTTP, one goroutine per request, from the  *)
(* reading of the request body to the answer, and the record each request  *)
(* hands to the log client on its way.                                     *)
(*                                                                         *)
(* A step ends where the handler can wait: at its client, at the upstream, *)
(* or at the call of Enqueue.  The client may leave at any time.  Its      *)
(* connection is then dead (writes may fail) before net/http notices and   *)
(* cancels the request's context.  A response body is a number of reads.   *)
(***************************************************************************)
EXTENDS Integers

CONSTANTS
    Requests,           \* the requests that may arrive, once each
    StreamRequests,     \* those whose body says "stream": true
    LoggedRequests,     \* those whose path passes shouldLogPath
    MaxChunks           \* bound: reads of a response that return data

ASSUME HandlerAssumption ==
    /\ StreamRequests \subseteq Requests
    /\ LoggedRequests \subseteq Requests
    /\ MaxChunks \in Nat

VARIABLES
    pc,         \* where the handler of each request is
    client,     \* the client: "here", "left", or "noticed" by net/http
    status,     \* the handler's terminalStatus
    readErr,    \* what the last upstream read returned beside its data
    captured,   \* reads the TeeReader has copied
    written,    \* of these, the ones written to the client
    doneSeen,   \* the captured data holds a "[DONE]" event
    errlog,     \* the goroutine enqueueError starts
    calls       \* calls of Enqueue made for the request (history)

streamVars == <<readErr, captured, written, doneSeen>>
vars == <<pc, client, status, streamVars, errlog, calls>>

Places == {"idle", "body", "upstream", "response", "enqueue", "answer",
           "read", "write", "check", "finish", "done"}
Statuses == {"none", "completed", "client_disconnected",
             "upstream_error", "proxy_error"}

ContextDone(r) == client[r] = "noticed"

Init ==
    /\ pc = [r \in Requests |-> "idle"]
    /\ client = [r \in Requests |-> "here"]
    /\ status = [r \in Requests |-> "none"]
    /\ readErr = [r \in Requests |-> "nil"]
    /\ captured = [r \in Requests |-> 0]
    /\ written = [r \in Requests |-> 0]
    /\ doneSeen = [r \in Requests |-> FALSE]
    /\ errlog = [r \in Requests |-> "none"]
    /\ calls = [r \in Requests |-> 0]

-----------------------------------------------------------------------------
(* The client and the hand-over of records.                                *)

\* Only the loop of a stream looks at its client and its context; for other
\* requests a client that leaves is a cause of DoFails and ReadResponseFails.
ClientLeaves(r) ==
    /\ r \in StreamRequests
    /\ pc[r] \notin {"idle", "done"}
    /\ \/ client[r] = "here" /\ client' = [client EXCEPT ![r] = "left"]
       \/ client[r] = "left" /\ client' = [client EXCEPT ![r] = "noticed"]
    /\ UNCHANGED <<pc, status, streamVars, errlog, calls>>

\* Enqueue is called for the paths that are logged.
Log(r) ==
    calls' = [calls EXCEPT ![r] = @ + (IF r \in LoggedRequests THEN 1 ELSE 0)]

\* enqueueError leaves the record to a goroutine of its own; the handler goes
\* on to http.Error and returns.
EnqueueError(r, s) ==
    /\ status' = [status EXCEPT ![r] = s]
    /\ errlog' = [errlog EXCEPT ![r] = "ready"]
    /\ pc' = [pc EXCEPT ![r] = "answer"]
    /\ UNCHANGED <<client, streamVars, calls>>

\* That goroutine, which nobody waits for.
LogErrorRecord(r) ==
    /\ errlog[r] = "ready"
    /\ errlog' = [errlog EXCEPT ![r] = "called"]
    /\ Log(r)
    /\ UNCHANGED <<pc, client, status, streamVars>>

-----------------------------------------------------------------------------
(* ServeHTTP.                                                              *)

Arrive(r) ==
    /\ pc[r] = "idle"
    /\ pc' = [pc EXCEPT ![r] = "body"]
    /\ UNCHANGED <<client, status, streamVars, errlog, calls>>

ReadBody(r) ==
    /\ pc[r] = "body"
    /\ pc' = [pc EXCEPT ![r] = "upstream"]
    /\ UNCHANGED <<client, status, streamVars, errlog, calls>>

ReadBodyFails(r) ==
    /\ pc[r] = "body"
    /\ EnqueueError(r, "proxy_error")

NewRequestFails(r) ==
    /\ pc[r] = "upstream"
    /\ EnqueueError(r, "proxy_error")

\* The upstream is down or too slow, or the client left and with it the context.
DoFails(r) ==
    /\ pc[r] = "upstream"
    /\ EnqueueError(r, "upstream_error")

\* The upstream answers, with a 2xx status or another.
DoReturns(r) ==
    /\ pc[r] = "upstream"
    /\ \E s \in {"completed", "upstream_error"} :
          status' = [status EXCEPT ![r] = s]
    /\ pc' = [pc EXCEPT ![r] = IF r \in StreamRequests THEN "read"
                               ELSE "response"]
    /\ UNCHANGED <<client, streamVars, errlog, calls>>

ReadResponse(r) ==
    /\ pc[r] = "response"
    /\ pc' = [pc EXCEPT ![r] = "enqueue"]
    /\ UNCHANGED <<client, status, streamVars, errlog, calls>>

\* Bug variant: the return after the error is missing.
ReadResponseFailsOn(r) ==
    /\ pc[r] = "response"
    /\ status' = [status EXCEPT ![r] = "upstream_error"]
    /\ errlog' = [errlog EXCEPT ![r] = "ready"]
    /\ pc' = [pc EXCEPT ![r] = "enqueue"]
    /\ UNCHANGED <<client, streamVars, calls>>

ReadResponseFails(r) ==
    /\ pc[r] = "response"
    /\ EnqueueError(r, "upstream_error")

\* The record goes to the log client before the answer goes to the client.
EnqueueRecord(r) ==
    /\ pc[r] = "enqueue"
    /\ Log(r)
    /\ pc' = [pc EXCEPT ![r] = "answer"]
    /\ UNCHANGED <<client, status, streamVars, errlog>>

\* The write of the answer, whose error is ignored.
Answer(r) ==
    /\ pc[r] = "answer"
    /\ pc' = [pc EXCEPT ![r] = "done"]
    /\ UNCHANGED <<client, status, streamVars, errlog, calls>>

-----------------------------------------------------------------------------
(* handleStreamingResponse: read through the tee, write, look at the error *)
(* of the read and then at the context.                                    *)

\* A read returns data, an error or both; the tee copies the data.
StreamRead(r) ==
    /\ pc[r] = "read"
    /\ \E e \in {"nil", "EOF", "error"} :
          readErr' = [readErr EXCEPT ![r] = e]
    /\ \/ /\ captured[r] < MaxChunks
          /\ captured' = [captured EXCEPT ![r] = @ + 1]
          /\ \E d \in BOOLEAN : doneSeen' = [doneSeen EXCEPT ![r] = @ \/ d]
          /\ pc' = [pc EXCEPT ![r] = "write"]
       \/ /\ readErr'[r] # "nil"
          /\ UNCHANGED <<captured, doneSeen>>
          /\ pc' = [pc EXCEPT ![r] = "check"]
    /\ UNCHANGED <<client, status, written, errlog, calls>>

StreamWrite(r) ==
    /\ pc[r] = "write"
    /\ written' = [written EXCEPT ![r] = @ + 1]
    /\ pc' = [pc EXCEPT ![r] = "check"]
    /\ UNCHANGED <<client, status, readErr, captured, doneSeen, errlog, calls>>

\* Bug variant: a failed write ends the loop and keeps the status.
StreamWriteFailsUnmarked(r) ==
    /\ pc[r] = "write"
    /\ client[r] # "here"
    /\ pc' = [pc EXCEPT ![r] = "finish"]
    /\ UNCHANGED <<client, status, streamVars, errlog, calls>>

StreamWriteFails(r) ==
    /\ pc[r] = "write"
    /\ client[r] # "here"
    /\ status' = [status EXCEPT ![r] = "client_disconnected"]
    /\ pc' = [pc EXCEPT ![r] = "finish"]
    /\ UNCHANGED <<client, streamVars, errlog, calls>>

\* The status after a read that returned an error; EOF overrides a status that
\* was not 2xx.
StatusAtReadError(r) ==
    IF readErr[r] = "EOF" THEN "completed"
    ELSE IF status[r] # "completed" THEN status[r]
    ELSE IF ContextDone(r) THEN "client_disconnected" ELSE "upstream_error"

StreamCheck(r) ==
    /\ pc[r] = "check"
    /\ \/ /\ readErr[r] # "nil"
          /\ status' = [status EXCEPT ![r] = StatusAtReadError(r)]
          /\ pc' = [pc EXCEPT ![r] = "finish"]
       \/ /\ readErr[r] = "nil"
          /\ ContextDone(r)
          /\ status' = [status EXCEPT ![r] = "client_disconnected"]
          /\ pc' = [pc EXCEPT ![r] = "finish"]
       \/ /\ readErr[r] = "nil"
          /\ ~ContextDone(r)
          /\ pc' = [pc EXCEPT ![r] = "read"]
          /\ UNCHANGED status
    /\ UNCHANGED <<client, streamVars, errlog, calls>>

\* Bug variant: a "[DONE]" in the capture completes every stream.
StreamFinishDone(r) ==
    /\ pc[r] = "finish"
    /\ status' = [status EXCEPT ![r] = IF doneSeen[r] THEN "completed" ELSE @]
    /\ Log(r)
    /\ pc' = [pc EXCEPT ![r] = "done"]
    /\ UNCHANGED <<client, streamVars, errlog>>

\* A "[DONE]" in the capture completes a stream unless its client is gone.
StreamFinish(r) ==
    /\ pc[r] = "finish"
    /\ status' = [status EXCEPT ![r] =
                    IF @ # "client_disconnected" /\ doneSeen[r]
                    THEN "completed" ELSE @]
    /\ Log(r)
    /\ pc' = [pc EXCEPT ![r] = "done"]
    /\ UNCHANGED <<client, streamVars, errlog>>

-----------------------------------------------------------------------------
\* Steps in which the handler depends on its client, which may stall for ever:
\* the server sets no read or write timeout.
ClientStep(r) ==
    ReadBody(r) \/ ReadBodyFails(r) \/ StreamWrite(r) \/ Answer(r)

\* Steps the handler takes by itself, or that UPSTREAM_TIMEOUT ends.
OwnStep(r) ==
    \/ NewRequestFails(r) \/ DoFails(r) \/ DoReturns(r)
    \/ ReadResponse(r) \/ ReadResponseFails(r) \/ EnqueueRecord(r)
    \/ StreamRead(r) \/ StreamWriteFails(r) \/ StreamCheck(r) \/ StreamFinish(r)

HandlerStep(r) == OwnStep(r) \/ ClientStep(r) \/ LogErrorRecord(r)

Settled ==
    /\ \A r \in Requests : pc[r] \in {"idle", "done"}
    /\ UNCHANGED vars

Next ==
    \/ \E r \in Requests : Arrive(r) \/ ClientLeaves(r) \/ HandlerStep(r)
    \/ Settled

Spec == Init /\ [][Next]_vars

-----------------------------------------------------------------------------
(* Properties.                                                             *)

TypeOK ==
    /\ pc \in [Requests -> Places]
    /\ client \in [Requests -> {"here", "left", "noticed"}]
    /\ status \in [Requests -> Statuses]
    /\ readErr \in [Requests -> {"nil", "EOF", "error"}]
    /\ captured \in [Requests -> 0..MaxChunks]
    /\ written \in [Requests -> 0..MaxChunks]
    /\ doneSeen \in [Requests -> BOOLEAN]
    /\ errlog \in [Requests -> {"none", "ready", "called"}]
    /\ calls \in [Requests -> 0..1]

\* A request on a logged path that the handler is done with has one record,
\* whichever way it ended: given to Enqueue, or left with the goroutine of
\* enqueueError.  No request has two, and a path that is denied has none.
OneRecordPerRequest ==
    \A r \in Requests :
        LET owed == IF errlog[r] = "ready" THEN 1 ELSE 0
        IN  IF r \in LoggedRequests
            THEN /\ calls[r] + owed <= 1
                 /\ pc[r] = "done" => calls[r] + owed = 1
            ELSE calls[r] = 0

\* The status in the record of a stream says how it ended, whatever came first
\* of the client's leaving, the last read and the "[DONE]": completed means the
\* end was seen, upstream_error that a read failed, client_disconnected that
\* the client did leave.
StreamStatusHonest ==
    \A r \in StreamRequests :
        pc[r] = "done" /\ errlog[r] = "none" =>
            CASE status[r] = "completed" -> doneSeen[r] \/ readErr[r] = "EOF"
              [] status[r] = "upstream_error" ->
                    readErr[r] = "error" /\ ~doneSeen[r]
              [] status[r] = "client_disconnected" -> client[r] # "here"
              [] OTHER -> FALSE

\* What a stream's record holds was written to the client: all of it unless the
\* record says client_disconnected, and all but the last read then.
CapturedWasDelivered ==
    \A r \in StreamRequests :
        /\ captured[r] - written[r] \in {0, 1}
        /\ pc[r] = "done" /\ captured[r] # written[r] =>
              status[r] = "client_disconnected"
=============================================================================
