------------------------------ MODULE GRPCEdge ------------------------------
(***************************************************************************)
(* Unary gRPC calls through a chain of services, each with the interceptor *)
(* of grpcx: a handler returns an error, the interceptor maps it, the gRPC *)
(* server puts a status on the wire, and the caller's handler returns what *)
(* it got, bare, wrapped by fmt.Errorf, or as the cause of an error of its *)
(* own.                                                                    *)
(*                                                                         *)
(* An error is the list of its layers, outermost first, as errors.Unwrap   *)
(* walks it: ours (a *derrors.Error), a gRPC status, a wrapper, or plain.  *)
(* <<>> is the nil error.  google.golang.org/grpc and anypb are external.  *)
(***************************************************************************)
EXTENDS EdgeMapper, Sequences

CONSTANT MaxCalls   \* bound: calls in the chain

ASSUME CallsAssumption == MaxCalls \in Nat \ {0}

VARIABLES
  call,     \* number of the call being served
  phase,    \* "handling", "mapped", "returned" or "answered"
  err,      \* what the handler returned
  status,   \* the interceptor's base status, then what it returns
  answer    \* what the caller got

grpcVars == <<call, phase, err, status, answer>>

Ours(e) == [kind |-> "ours", error |-> e]
Wrapper == [kind |-> "wrapper"]
Plain == [kind |-> "plain"]

\* A status with details, each in a number of nested Any boxes.
StatusError(code, details) == [kind |-> "status", code |-> code, details |-> details]

OK == 0
UnknownCode == 2
InternalCode == 13
NoStatus == StatusError(OK, <<>>)

\* Mutant: the two projections change places.
DescriptorSwapped(e, st) ==
  [code |-> e.code, reason |-> e.reason,
   http |-> Int32(st.grpc), grpc |-> Int32(st.http)]

\* derrors.v1.ErrorDescriptor, with the projections as int32; the metadata of
\* Extras is copied like the texts of the error.
Descriptor(e, st) ==
  [code |-> e.code, reason |-> e.reason,
   http |-> Int32(st.http), grpc |-> Int32(st.grpc)]

\* Errors a handler makes itself.
FreshErrors ==
  {<<Plain>>}
  \cup {<<Ours(e)>> : e \in failures} \cup {<<Wrapper, Ours(e)>> : e \in failures}

\* Errors a handler makes of the failure of its own call.
RelayedErrors ==
  {<<answer>>, <<Wrapper, answer>>}
  \cup {<<Ours(e), answer>> : e \in failures}
  \cup {<<Wrapper, Ours(e), answer>> : e \in failures}

GRPCInit ==
  /\ call = 1
  /\ phase = "handling"
  /\ err = <<>>
  /\ status = NoStatus
  /\ answer = NoStatus

\* Mutant: errors.As, which looks under the outermost layer too.
AssertedAnywhere(chain) ==
  LET ours == {i \in DOMAIN chain : chain[i].kind = "ours"} IN
  IF ours = {} THEN {} ELSE {chain[Min(ours)].error}

\* err.(*derrors.Error): the error of ours that err itself is, if it is one;
\* what it wraps is not looked at.
Asserted(chain) ==
  IF chain # <<>> /\ chain[1].kind = "ours" THEN {chain[1].error} ELSE {}

\* The interceptor after its handler: nothing to do, and "not ours - return
\* as-is"; or the status of the mapper, and the base without details.
Intercept(chain) ==
  /\ err' = chain
  /\ \/ \E e \in Asserted(chain) :
          /\ status' = StatusError(MapperStatus(e).grpc, <<>>)
          /\ phase' = "mapped"
     \/ /\ Asserted(chain) = {}
        /\ status' = NoStatus
        /\ phase' = "returned"
  /\ UNCHANGED <<edgeVars, call, answer>>

HandlerReturns ==
  /\ phase = "handling"
  /\ \E chain \in IF call = 1 THEN FreshErrors \cup {<<>>} ELSE RelayedErrors :
       Intercept(chain)

\* anypb.New boxes the descriptor and fails on invalid UTF-8; WithDetails
\* boxes its argument again and fails for OK.  Then the base goes out bare.
Attach ==
  /\ phase = "mapped"
  /\ phase' = "returned"
  /\ \E e \in Asserted(err) :
       LET d == [boxes |-> 2, desc |-> Descriptor(e, MapperStatus(e))] IN
       status' = IF e.clean /\ status.code # OK
                 THEN [status EXCEPT !.details = <<d>>] ELSE status
  /\ UNCHANGED <<edgeVars, call, err, answer>>

\* status.FromError: the outermost status in the chain, if there is one.  (A
\* plain error is not one of package context, which have codes of their own.)
StatusIn(chain) ==
  LET at == {i \in DOMAIN chain : chain[i].kind = "status"} IN
  IF at = {} THEN StatusError(UnknownCode, <<>>) ELSE chain[Min(at)]

\* What the interceptor returned: its own status, whose Err() is nil for OK,
\* or the handler's error, which the server makes a status of.
Returned ==
  IF err = <<>> \/ Asserted(err) # {} THEN status ELSE StatusIn(err)

\* The wire carries the code as a decimal int32: a client that cannot read it
\* makes up a status of its own.
Answer ==
  /\ phase = "returned"
  /\ phase' = "answered"
  /\ IF Returned.code < CodeModulus \div 2
     THEN answer' = Returned
     ELSE \E c \in {UnknownCode, InternalCode} : answer' = StatusError(c, <<>>)
  /\ UNCHANGED <<edgeVars, call, err, status>>

\* The caller is a service itself, and its call failed.
FailedCallReturns ==
  /\ phase = "answered"
  /\ answer.code # OK
  /\ call < MaxCalls
  /\ call' = call + 1
  /\ phase' = "handling"
  /\ UNCHANGED <<edgeVars, err, status, answer>>

GRPCNext == HandlerReturns \/ Attach \/ Answer \/ FailedCallReturns

\* ExtractDescriptor: Details opens one box of each detail, and the type
\* assertion sees what is in it.
ExtractDescriptor(st) ==
  {d.desc : d \in {st.details[i] : i \in {j \in DOMAIN st.details :
                                            st.details[j].boxes = 1}}}
=============================================================================
