--------------------------- MODULE MCProxyRecord ---------------------------
(* The parameters of the ProxyRecord runs.                                 *)
EXTENDS ProxyRecord, RoutePolicy

CONSTANTS s1, p1, d1

PathOf == [r \in {s1, p1, d1} |->
             CASE r = s1 -> <<"v1", "chat", "completions">>
               [] r = p1 -> <<"responses">>
               [] r = d1 -> <<"api", "v1", "auth", "login">>]
MCLoggedRequests == {r \in Requests : ShouldLogPath(PathOf[r])}

Bare(kind) ==
    [kind |-> kind, completed |-> FALSE, response |-> Nil, chat |-> FALSE, id |-> Nil,
     usage |-> Nil, choices |-> <<>>]
Says(halves, text) ==
    [numeric |-> TRUE, index |-> halves, role |-> Nil, text |-> text, tools |-> Nil,
     finish |-> Nil]
Chunk(deltas) == [Bare("object") EXCEPT !.chat = TRUE, !.id = "c", !.choices = deltas]
Completes(kind, response) ==
    [Bare(kind) EXCEPT !.completed = TRUE, !.response = response]

\* The indices 0, 1, one half, minus one, one out of range, and none.
MCEvents ==
    {Bare("unreadable"), Bare("done"), Bare("null"), Bare("object"),
     Chunk(<<Says(0, <<"a">>), Says(2, <<"b">>)>>), Chunk(<<Says(2, <<"c">>)>>),
     Chunk(<<Says(1, <<"d">>), Says(-2, <<"a">>), Says(2 * (MaxInt + 1), <<"b">>)>>),
     Chunk(<<[Says(0, <<"d">>) EXCEPT !.numeric = FALSE]>>),
     Completes("object", "x"), Completes("object", JsonNull),
     Completes("object", Nil), Completes("text", Nil)}

MCRequestBodies == {[len |-> 0, json |-> 0], [len |-> 20, json |-> 20],
                    [len |-> 60, json |-> 60], [len |-> 60, json |-> 0]}
MCResponseBodies == {[len |-> 0, json |-> 0], [len |-> 20, json |-> 0],
                     [len |-> 60, json |-> 60], [len |-> 60, json |-> 40]}

\* Handlers share nothing, so each request is taken by itself.
OneRequest == Cardinality({r \in Requests : pc[r] # "idle"}) <= 1

\* A stream asked for by a body above the limit is followed up to its second read: that
\* body is cut as a plain request's is, whatever the stream brings.
LargeRequestsShort ==
    \A r \in StreamRequests : reqBody[r].len <= 50 \/ captured[r] <= 1
=============================================================================
