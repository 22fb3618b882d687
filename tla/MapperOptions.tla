---------------------------- MODULE MapperOptions ----------------------------
(***************************************************************************)
(* What mapper.New is given: functional options in the order the caller    *)
(* lists them, and the vocabulary the mapper and its contract share.       *)
(***************************************************************************)
EXTENDS Segments, DefaultTables

CONSTANTS
  Build,        \* the calls of mapper.New a process makes
  Code,         \* error codes (strings), library codes or custom ones
  OptionList,   \* the option lists callers pass
  Reason,       \* reasons the finished mappers are asked about
  RawSegment,   \* segments of prefixes as callers spell them
  Canonical,    \* RawSegment -> what reason.Normalize makes of each
  CodeModulus   \* codes.Code is uint32: 2^32 in the code, smaller in a model

Transport == {"http", "grpc"}
Slot == Transport \X Code
Query == Transport \X Code \X Reason

\* kind, transport and code say which With... option it is; prefix is the raw
\* spelling, <<>> for blank text and for options that have none.
OptionRecord ==
  [kind : {"default", "override", "prefix"}, transport : Transport, code : Code,
   prefix : Seq(RawSegment), val : Int]

ASSUME OptionAssumption ==
  /\ Canonical \in [RawSegment -> Segment \cup {Star, Malformed}]
  /\ \A o \in OptionList : o \in Seq(OptionRecord)
  /\ Reason \subseteq Seq(Segment \cup {Malformed})
  /\ CodeModulus \in Nat /\ CodeModulus >= 34   \* int32 holds the codes gRPC defines
  /\ "" \notin Code

\* reason.Normalize: blanks around the text, capitals, "/" and "-" go; two
\* spellings can become one prefix, and what is malformed stays malformed.
Normalize(raw) == [i \in DOMAIN raw |-> Canonical[raw[i]]]

\* codes.Code(v) for an int v; HTTP statuses stay ints.
Convert(t, v) == IF t = "grpc" THEN v % CodeModulus ELSE v

\* The package-level tables, restricted to the codes under study.
DefaultTable(t) == IF t = "http" THEN DefaultHTTP ELSE DefaultGRPC
Library ==
  [s \in {x \in Slot : x[2] \in DOMAIN DefaultTable(x[1])} |-> DefaultTable(s[1])[s[2]]]

\* http.StatusInternalServerError and codes.Internal.
Fallback == [http |-> 500, grpc |-> 13]
=============================================================================
