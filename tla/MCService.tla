----------------------------- MODULE MCService -----------------------------
(* A small instance of Service for TLC. *)
EXTENDS Service

CONSTANT a

\* The library's codes, and one the library does not know.
Codes == {"tenant_paused"} \cup UNION {DOMAIN block : block \in Blocks}
NoReasonOrA == {<<>>, <<a>>}
Spelling == [s \in {"a"} |-> a]

Opt(kind, t, prefix, val) ==
  [kind |-> kind, transport |-> t, code |-> "tenant_paused",
   prefix |-> prefix, val |-> val]
Set(t, val) == <<Opt("override", t, <<>>, val)>>

\* Statuses that net/http takes as final, as informational and as having no
\* body; that it refuses; gRPC codes that are OK, that no client can read back
\* from the wire, and -1, for which codes.Code has no value; and a rule for one
\* reason only, on both transports.
Lists ==
  {<<>>,
   Set("http", 101), Set("http", 103), Set("http", 204), Set("http", 302),
   Set("http", 1000), Set("grpc", 0), Set("grpc", -1),
   <<Opt("default", "http", <<>>, 99), Opt("default", "grpc", <<>>, 2048)>>,
   <<Opt("prefix", "http", <<"a">>, 404), Opt("prefix", "grpc", <<"a">>, 5)>>}

Failure(c, r, clean) == [code |-> c, reason |-> r, clean |-> clean]

\* Errors that differ in code, in reason alone, and in that one cannot be
\* marshalled.
Together ==
  {{Failure("tenant_paused", <<>>, TRUE), Failure("internal", <<>>, TRUE)},
   {Failure("tenant_paused", <<a>>, TRUE), Failure("tenant_paused", <<>>, TRUE)},
   {Failure("tenant_paused", <<>>, FALSE), Failure("unavailable", <<a>>, TRUE)}}

\* Two hints, and a value that is none.
Retries == {-1, 5, 30}
OneRetry == {0}
=============================================================================
