---------------------------- MODULE RoutePolicy ----------------------------
(***************************************************************************)
(* internal/proxy/route_policy.go: which paths are logged.  A path is the  *)
(* sequence of its segments; a rule that ends in a slash covers the paths  *)
(* that go on after it.                                                    *)
(***************************************************************************)
EXTENDS Sequences
LOCAL INSTANCE SequencesExt

DenyExact == {<<"admin">>}
DenyPrefixes ==
    {<<"admin">>} \cup
    {<<"api", "v1", s>> : s \in {"admin", "auth", "user", "keys", "payment", "pages"}}
AllowExact == {<<"responses">>, <<"chat", "completions">>, <<"embeddings">>}
AllowPrefixes ==
    {<<"v1">>, <<"v1beta">>, <<"images">>, <<"backend-api", "codex">>, <<"antigravity">>}

Under(path, prefixes) == \E p \in prefixes : IsStrictPrefix(p, path)

ShouldLogPath(path) ==
    /\ path \notin DenyExact
    /\ ~Under(path, DenyPrefixes)
    /\ path \in AllowExact \/ Under(path, AllowPrefixes)
=============================================================================
