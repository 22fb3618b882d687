------------------------------ MODULE MCMapper ------------------------------
(* Small instances of Mapper for TLC. *)
EXTENDS Mapper

CONSTANTS a, b, b1, b2

\* Spellings: lower case, a variant Normalize folds into it ("A", " a", ...),
\* "*", and a segment that stays malformed ("1a", "a!", the empty one of "a//b").
Spelling ==
  [s \in {"a", "A", "b", "*", "!"} |->
     CASE s \in {"a", "A"} -> a [] s = "b" -> b [] s = "*" -> Star
       [] s = "!" -> Malformed]

\* A library code, and one the library does not know.
TwoCodes == {"unavailable", "tenant_paused"}

Opt(kind, t, c, prefix, val) ==
  [kind |-> kind, transport |-> t, code |-> c, prefix |-> prefix, val |-> val]

ListsUpTo(S, n) == UNION {[1..m -> S] : m \in 0..n}

\* Rules of one code that tie, shadow and rename each other; rules of the
\* other code and transport; invalid ones; values codes.Code cannot hold.
Rules1 ==
  {Opt("prefix", "http", "unavailable", <<"a">>, 1),
   Opt("prefix", "http", "unavailable", <<"A">>, 2),
   Opt("prefix", "http", "unavailable", <<"A", "b">>, 3),
   Opt("prefix", "http", "unavailable", <<"*", "b">>, 4),
   Opt("prefix", "http", "tenant_paused", <<"a", "!">>, 5),
   Opt("prefix", "http", "tenant_paused", <<"*", "b">>, 6),
   Opt("prefix", "grpc", "tenant_paused", <<"a">>, 70),
   Opt("prefix", "grpc", "unavailable", <<"*", "*">>, 8),
   Opt("prefix", "grpc", "unavailable", <<>>, 9)}
Settings ==
  {Opt("default", "http", "unavailable", <<>>, 10),
   Opt("default", "grpc", "tenant_paused", <<>>, -1),
   Opt("override", "http", "unavailable", <<>>, 11),
   Opt("override", "grpc", "unavailable", <<>>, 64)}
OneNewLists == ListsUpTo(Rules1 \cup Settings, 3)

\* Two calls at once, over one option of each kind.
TwoNewLists ==
  ListsUpTo({Opt("default", "http", "unavailable", <<>>, 10),
             Opt("default", "grpc", "unavailable", <<>>, 12),
             Opt("prefix", "http", "unavailable", <<"a">>, 1),
             Opt("prefix", "http", "tenant_paused", <<"!">>, 5)}, 2)

\* A prefix with one segment more than a reason has.
DeepLists ==
  ListsUpTo({Opt("prefix", "http", "unavailable", <<"a", "b", "a", "*", "a">>, 1),
             Opt("prefix", "http", "unavailable", <<"a", "*">>, 2),
             Opt("prefix", "http", "tenant_paused", <<"a", "!">>, 5)}, 2)

Reasons == {<<>>, <<a>>, <<a, b>>, <<b, b>>, <<a, Malformed>>}
FewReasons == {<<>>, <<a>>}
WithCanceled == TwoCodes \cup {"canceled"}
=============================================================================
