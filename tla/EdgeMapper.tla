----------------------------- MODULE EdgeMapper -----------------------------
(* What the gRPC edge, the HTTP edge and the adapter share: the mapper they  *)
(* were given, the errors they ask it about, and what they make of an error. *)
EXTENDS StatusPolicy

CONSTANT EdgeErrors   \* sets of errors of ours that reach an edge together

VARIABLES
  options,    \* the list the mapper was built from
  failures    \* the errors of ours that occur

\* Of a derrors.Error: code and reason, and whether all text in it and in its
\* metadata is valid UTF-8.  Other texts are copied and decide nothing.
ErrorValue == [code : Code, reason : Reason, clean : BOOLEAN]

ASSUME EdgeAssumption ==
  /\ EdgeErrors \subseteq SUBSET ErrorValue
  /\ CodeModulus >= 2000   \* int32 holds every HTTP status

EdgeInit ==
  /\ options \in {o \in OptionList : Buildable(o)}
  /\ failures \in EdgeErrors

edgeVars == <<options, failures>>

\* Mapper.Status.
MapperStatus(e) ==
  [http |-> Status(options, "http", e.code, e.reason),
   grpc |-> Status(options, "grpc", e.code, e.reason)]

\* int32(n): half of the values below CodeModulus (2^32) are positive.
Int32(n) ==
  LET half == CodeModulus \div 2 IN ((n + half) % CodeModulus) - half

\* adapter.ToDescriptor: for logs and buses, in ints.
ToDescriptor(e, st) ==
  [code |-> e.code, reason |-> e.reason, http |-> st.http, grpc |-> st.grpc]

\* adapter.ToView.  Error has no method ErrorDetails, so details stay empty.
ToView(e, st) == [code |-> e.code, reason |-> e.reason, details |-> {}]
=============================================================================
