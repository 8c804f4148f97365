--------------------------- MODULE MCProxyProcess ---------------------------
(***************************************************************************)
(* ProxyProcess for TLC: two logged requests, a stream and a plain one.    *)
(***************************************************************************)
EXTENDS ProxyProcess

CONSTANTS stream, plain

MCRequests == {stream, plain}
MCStreamRequests == {stream}
=============================================================================
