------------------------------ MODULE Service ------------------------------
(***************************************************************************)
(* A service that exposes the same failures over both transports, with one *)
(* mapper: gRPC calls through the interceptor beside an HTTP response      *)
(* written by httpx.Writer, and the adapter for logs.                      *)
(***************************************************************************)
EXTENDS GRPCEdge, HTTPEdge, LibraryCodes

vars == <<edgeVars, grpcVars, httpVars>>

Init == EdgeInit /\ GRPCInit /\ HTTPInit

Next == (GRPCNext /\ UNCHANGED httpVars) \/ (HTTPNext /\ UNCHANGED grpcVars)

Spec == Init /\ [][Next]_vars

-----------------------------------------------------------------------------
(* Properties.                                                             *)

Answered == phase = "answered"

\* The error a handler returned is one of ours, not one that wraps one.
IsOurs(chain) == chain # <<>> /\ chain[1].kind = "ours"
Outermost == err[1].error
HTTPOf(w) == MapperStatus(w.error).http
Writes == {writing[i] : i \in DOMAIN writing}
HandlerWrote == response.body # <<>> /\ response.body[1] = Piece

StatusOK(st) ==
  /\ st.code \in 0..(CodeModulus - 1)
  /\ Len(st.details) <= 1

\* Types; a header map's Retry-After is positive, and nothing has a body
\* before it has a status line.
TypeOK ==
  /\ options \in OptionList /\ failures \in EdgeErrors
  /\ call \in 1..MaxCalls
  /\ phase \in {"handling", "mapped", "returned", "answered"}
  /\ StatusOK(status) /\ StatusOK(answer)
  /\ step \in {"outside", "header", "body", "panicked"}
  /\ writing \in Seq([error : failures, retry : RetrySeconds])
  /\ Len(writing) <= MaxWrites
  /\ header \in {0} \cup {s \in RetrySeconds : s > 0}
  /\ response.status \in {0} \cup 100..999
  /\ ~Committed => response.body = <<>> /\ response.retry = 0

\* A failure goes out as a success only when the mapper was told to make it
\* one: over gRPC, however many services the error has come through and
\* however they wrapped it, only if the error the last handler returned maps
\* to OK; over HTTP, when the handler had not answered before, only if one of
\* the errors written maps to a status below 400 (grpcx.go:90, 126-135;
\* httpx.go:76).
FailuresGoOutAsFailures ==
  /\ Answered /\ err # <<>> /\ answer.code = OK =>
       IsOurs(err) /\ MapperStatus(Outermost).grpc = OK
  /\ response.status \in 1..399 /\ ~HandlerWrote =>
       \E w \in Writes : HTTPOf(w) < 400

\* A descriptor that reaches a caller, from its own call or from one further
\* down, says of an error of ours what the mapper says of it - HTTP status,
\* gRPC code, and the code the status itself has; and an outermost error of
\* ours arrives described, unless its text cannot be marshalled or its status
\* cannot carry details (grpcx.go:96-135).
DescriptorTellsTheStatus ==
  Answered =>
    /\ \A i \in DOMAIN answer.details :
         \E e \in failures :
           LET st == MapperStatus(e) IN
           /\ answer.details[i].desc = [ToDescriptor(e, st) EXCEPT
                                          !.http = Int32(@)]
           /\ answer.code = st.grpc
    /\ /\ IsOurs(err)
       /\ Outermost.clean
       /\ MapperStatus(Outermost).grpc \in 1..(CodeModulus \div 2 - 1)
       => \E i \in DOMAIN answer.details :
            answer.details[i].desc.code = Outermost.code

\* A service that returns anything but an error of ours as it is - the failure
\* of its own call, bare or wrapped, and an error of ours that is wrapped, with
\* that failure as its cause - passes on the answer it got, code and
\* descriptor: its callers see the service below (grpcx.go:90-94).
RelayedAsIs ==
  [][answer' # answer /\ call > 1 => IsOurs(err)]_vars

\* The first Write with a final status decides the response, whatever else is
\* written afterwards: the status line is its error's, and Retry-After the
\* last one set up to then - that of an earlier Write only if it panicked.  A
\* body that goes with a single Write is that error's view, or missing
\* (httpx.go:58-85).  Not so when the handler answered before, or when an
\* informational status left the response open.
FirstFinalDecides ==
  LET final == {i \in DOMAIN writing : Final(HTTPOf(writing[i]))}
      first == Min(final)
      set == {i \in 1..first : writing[i].retry > 0}
  IN Committed /\ ~HandlerWrote /\ (\A w \in Writes : ~Informational(HTTPOf(w))) =>
       /\ final # {}
       /\ response.status = HTTPOf(writing[first])
       /\ response.retry = IF set = {} THEN 0 ELSE writing[Max(set)].retry
       /\ Len(writing) = 1 => response.body \in {<<>>, <<View(Current.error)>>}

\* Both transports project the same status: a gRPC caller that is handed a
\* descriptor reads in it the HTTP status that a client of Writer is answered
\* with for the same code and reason, and the view that client gets is the one
\* the adapter makes.
EdgesAgree ==
  /\ Answered /\ Committed /\ ~HandlerWrote /\ Len(writing) = 1
  /\ Final(HTTPOf(Current))
  => /\ \A i \in DOMAIN answer.details :
          LET d == answer.details[i].desc IN
          <<d.code, d.reason>> = <<Current.error.code, Current.error.reason>> =>
            d.http = response.status
     /\ \A i \in DOMAIN response.body :
          LET v == ToView(Current.error, MapperStatus(Current.error)) IN
          response.body[i].view = [code |-> v.code, reason |-> v.reason]

\* Without options, a library code is answered with a status its own comment
\* offers (code/codes.go), and the default tables know every library code: the
\* fallback is for codes of the application's own.
DefaultsAsOffered ==
  options = <<>> =>
    \A block \in Blocks : \A c \in DOMAIN block \cap Code :
      /\ {<<"http", c>>, <<"grpc", c>>} \subseteq DOMAIN Library
      /\ \A r \in Reason :
           /\ Status(options, "http", c, r) \in block[c]
           /\ c \in DOMAIN AuthGRPC => Status(options, "grpc", c, r) = AuthGRPC[c]

\* The claim of README.md:214, "read ErrorDescriptor back from details": where
\* the interceptor attached a descriptor, ExtractDescriptor finds it.
DescriptorIsReadBack ==
  Answered /\ answer.details # <<>> => ExtractDescriptor(answer) # {}
=============================================================================
