---------------------------- MODULE CaptureLimit ----------------------------
(***************************************************************************)
(* The bodies of a record: wrapped when an upstream's answer is not JSON,  *)
(* cut at CAPTURE_MAX_BYTES (applyCaptureMax), and replaced by null before *)
(* sending when they are no JSON any more (SanitizeRawMessages).           *)
(*                                                                         *)
(* A body is its length and the length of the JSON object it consists of,  *)
(* but for white space after it; zero when it is not JSON.                 *)
(***************************************************************************)
EXTENDS Naturals

NoBody == [len |-> 0, json |-> 0]
NullBody == [len |-> 4, json |-> 4]

\* {"error":"non-JSON response","raw":"..."} around the text.
Wrapped(b) == [len |-> b.len + 38, json |-> b.len + 38]

SanitizeResponseBody(b) ==
    IF b.len = 0 THEN NullBody ELSE IF b.json > 0 THEN b ELSE Wrapped(b)

Cut(b, max) == [len |-> max, json |-> IF b.json <= max THEN b.json ELSE 0]

NotTruncated == [truncated |-> FALSE, original |-> 0, max |-> 0]

\* Bug variant: only the request body's cut is noted.
ApplyCaptureMaxRequestOnly(rec, max) ==
    LET cutReq == rec.reqBody.len > max
        cutResp == rec.respBody.len > max
    IN  [rec EXCEPT
          !.reqBody = IF cutReq THEN Cut(@, max) ELSE @,
          !.respBody = IF cutResp THEN Cut(@, max) ELSE @,
          !.trunc = IF cutReq THEN [truncated |-> TRUE, original |-> max, max |-> max]
                    ELSE @]

\* Bug variant: the mark is set once, after both cuts, from the last one.
ApplyCaptureMaxMarksLast(rec, max) ==
    LET cutReq == rec.reqBody.len > max
        cutResp == rec.respBody.len > max
    IN  [rec EXCEPT
          !.reqBody = IF cutReq THEN Cut(@, max) ELSE @,
          !.respBody = IF cutResp THEN Cut(@, max) ELSE @,
          !.trunc = IF cutResp THEN [truncated |-> TRUE, original |-> max, max |-> max]
                    ELSE @]

\* OriginalBytes is taken from the request body after the cut, and only the
\* request's cut sets it and CaptureMaxBytes.
ApplyCaptureMax(rec, max) ==
    LET cutReq == rec.reqBody.len > max
        cutResp == rec.respBody.len > max
    IN  [rec EXCEPT
          !.reqBody = IF cutReq THEN Cut(@, max) ELSE @,
          !.respBody = IF cutResp THEN Cut(@, max) ELSE @,
          !.trunc = IF cutReq
                    THEN [truncated |-> TRUE, original |-> Cut(rec.reqBody, max).len,
                          max |-> max]
                    ELSE [@ EXCEPT !.truncated = cutResp]]

\* Bug variant: only an empty message is replaced.
SanitizeEmptyMessage(b) == IF b.len = 0 THEN NullBody ELSE b

SanitizeRawMessage(b) == IF b.json = 0 THEN NullBody ELSE b
=============================================================================
