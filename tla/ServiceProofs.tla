---------------------------- MODULE ServiceProofs ----------------------------
(***************************************************************************)
(* The edges keep their promises for every mapper, every set of errors and *)
(* chains of any length.  GRPCInv and HTTPInv are the inductive            *)
(* invariants; the steps of one transport leave the other's alone.         *)
(***************************************************************************)
EXTENDS Service, StatusProofs

Half == CodeModulus \div 2

LEMMA Modulus ==
  /\ CodeModulus \in Nat /\ CodeModulus >= 34
  /\ Half \in Nat /\ Half > 16 /\ 2 * Half <= CodeModulus
<1>1. CodeModulus \in Nat
  BY OptionAssumption, Zenon
<1>2. CodeModulus >= 34
  BY OptionAssumption, Zenon
<1> QED
  BY <1>1, <1>2 DEF Half

LEMMA MinOfOne == ASSUME NEW n \in Nat PROVE Min({n}) = n
BY DEF Min

\* A remainder of a number below the modulus is the number.
LEMMA SmallRemainder ==
  ASSUME NEW m \in Nat \ {0}, NEW n \in 0..(m - 1)
  PROVE  n % m = n
OBVIOUS

LEMMA Int32Same ==
  ASSUME NEW n \in 0..(Half - 1)
  PROVE  Int32(n) = n
<1>1. n + Half \in 0..(CodeModulus - 1) /\ CodeModulus \in Nat \ {0} /\ Half \in Nat
  BY Modulus
<1>2. (n + Half) % CodeModulus = n + Half
  BY <1>1, SmallRemainder
<1> QED
  BY <1>1, <1>2 DEF Int32, Half

-----------------------------------------------------------------------------
(* What both edges ask of the mapper.                                      *)

EdgeInv ==
  /\ options \in OptionList
  /\ failures \in EdgeErrors

LEMMA MapperStatusRange ==
  ASSUME EdgeInv, NEW e
  PROVE  /\ MapperStatus(e).http \in Int
         /\ MapperStatus(e).grpc \in 0..(CodeModulus - 1)
<1>1. Status(options, "http", e.code, e.reason) \in Int
  BY StatusInRange DEF EdgeInv, Transport
<1>2. Status(options, "grpc", e.code, e.reason) \in 0..(CodeModulus - 1)
  BY StatusInRange DEF EdgeInv, Transport
<1> QED
  BY <1>1, <1>2 DEF MapperStatus

LEMMA EdgeInvStep ==
  ASSUME EdgeInv, [Next]_vars
  PROVE  EdgeInv' /\ UNCHANGED edgeVars
<1>1. UNCHANGED edgeVars
  BY DEF Next, vars, GRPCNext, HTTPNext, HandlerReturns, Intercept, Attach,
    Answer, FailedCallReturns, HandlerWrites, CallWrite, WriteHeader, WriteBody, Recover
<1> QED
  BY <1>1 DEF EdgeInv, edgeVars

LEMMA MapperStatusSame ==
  ASSUME UNCHANGED edgeVars
  PROVE  \A e : MapperStatus(e)' = MapperStatus(e)
BY DEF MapperStatus, edgeVars
-----------------------------------------------------------------------------
(* gRPC.                                                                   *)

\* The errors the handler of this call may return.
Chains == IF call = 1 THEN FreshErrors \cup {<<>>} ELSE RelayedErrors

\* The descriptor of an error, boxed as Attach boxes it.
Boxed(e) == [boxes |-> 2, desc |-> Descriptor(e, MapperStatus(e))]

\* What the interceptor returns for an error of ours.
Sent(e) ==
  LET c == MapperStatus(e).grpc
  IN StatusError(c, IF e.clean /\ c # OK THEN <<Boxed(e)>> ELSE <<>>)

\* A status with at most one descriptor, which is that of an error with the
\* same gRPC code.
Told(st) ==
  \E c \in 0..(CodeModulus - 1) :
    \/ st = StatusError(c, <<>>)
    \/ \E e \in failures : st = StatusError(c, <<Boxed(e)>>) /\ c = MapperStatus(e).grpc

\* What a caller knows after a failed call.
AnswerInv ==
  /\ err # <<>> /\ answer.code = OK => IsOurs(err) /\ MapperStatus(Outermost).grpc = OK
  /\ /\ IsOurs(err)
     /\ Outermost.clean
     /\ MapperStatus(Outermost).grpc \in 1..(Half - 1)
     => answer = StatusError(MapperStatus(Outermost).grpc, <<Boxed(Outermost)>>)

GRPCInv ==
  /\ call \in 1..MaxCalls
  /\ phase \in {"handling", "mapped", "returned", "answered"}
  /\ Told(answer) /\ answer.code \in 0..(Half - 1)
  /\ Told(status)
  /\ phase # "answered" /\ call > 1 => answer.code # OK
  /\ phase \in {"mapped", "returned"} => err \in Chains
  /\ phase \in {"mapped", "returned"} /\ IsOurs(err) => Outermost \in failures
  /\ phase = "mapped" =>
       IsOurs(err) /\ status = StatusError(MapperStatus(Outermost).grpc, <<>>)
  /\ phase = "returned" =>
       status = IF IsOurs(err) THEN Sent(Outermost) ELSE NoStatus
  /\ phase = "answered" => AnswerInv

\* The assertion of the interceptor holds of errors of ours and of no other.
LEMMA AssertedIs ==
  ASSUME NEW chain
  PROVE  Asserted(chain) = IF IsOurs(chain) THEN {chain[1].error} ELSE {}
BY DEF Asserted, IsOurs

\* An error of ours that a handler returns is one of those that occur.
LEMMA OursOccur ==
  ASSUME NEW chain \in Chains, IsOurs(chain), Told(answer)
  PROVE  chain[1].error \in failures
<1>1. answer.kind = "status"
  BY DEF Told, StatusError
<1>2. CASE call = 1
  BY <1>2 DEF Chains, FreshErrors, IsOurs, Ours, Wrapper, Plain
<1>3. CASE call # 1
  <2>1. chain \in RelayedErrors
    BY <1>3 DEF Chains
  <2>2. CASE chain \in {<<answer>>, <<Wrapper, answer>>}
    BY <1>1, <2>2 DEF IsOurs, Wrapper
  <2>3. CASE \E e \in failures : chain = <<Ours(e), answer>>
    BY <2>3 DEF IsOurs, Ours
  <2>4. CASE \E e \in failures : chain = <<Wrapper, Ours(e), answer>>
    BY <2>4 DEF IsOurs, Wrapper
  <2> QED
    BY <2>1, <2>2, <2>3, <2>4 DEF RelayedErrors
<1> QED
  BY <1>2, <1>3

\* The server finds in a chain that is not ours the status of the failed call,
\* and Unknown where there is none.
LEMMA StatusFound ==
  ASSUME NEW chain \in Chains, ~IsOurs(chain), chain # <<>>, Told(answer)
  PROVE  StatusIn(chain) = IF call = 1 THEN StatusError(UnknownCode, <<>>) ELSE answer
<1> DEFINE at == {i \in DOMAIN chain : chain[i].kind = "status"}
<1>1. answer.kind = "status"
  BY DEF Told, StatusError
<1>2. CASE call = 1
  <2>1. chain \in FreshErrors
    BY <1>2 DEF Chains
  <2>2. CASE chain = <<Plain>>
    <3>1. at = {}
      BY <2>2 DEF Plain
    <3> QED
      BY <1>2, <3>1 DEF StatusIn
  <2>3. CASE \E e \in failures : chain = <<Wrapper, Ours(e)>>
    <3>1. at = {}
      BY <2>3 DEF Wrapper, Ours
    <3> QED
      BY <1>2, <3>1 DEF StatusIn
  <2>4. CASE \E e \in failures : chain = <<Ours(e)>>
    BY <2>4 DEF IsOurs, Ours
  <2> QED
    BY <2>1, <2>2, <2>3, <2>4 DEF FreshErrors
<1>3. CASE call # 1
  <2>1. chain \in RelayedErrors
    BY <1>3 DEF Chains
  <2>2. CASE chain = <<answer>>
    <3>1. at = {1} /\ chain[1] = answer
      BY <1>1, <2>2
    <3> QED
      BY <1>3, <3>1, MinOfOne DEF StatusIn
  <2>3. CASE chain = <<Wrapper, answer>>
    <3>1. at = {2} /\ chain[2] = answer
      BY <1>1, <2>3 DEF Wrapper
    <3> QED
      BY <1>3, <3>1, MinOfOne DEF StatusIn
  <2>4. CASE \E e \in failures : chain = <<Wrapper, Ours(e), answer>>
    <3>1. at = {3} /\ chain[3] = answer
      BY <1>1, <2>4 DEF Wrapper, Ours
    <3> QED
      BY <1>3, <3>1, MinOfOne DEF StatusIn
  <2>5. CASE \E e \in failures : chain = <<Ours(e), answer>>
    BY <2>5 DEF IsOurs, Ours
  <2> QED
    BY <2>1, <2>2, <2>3, <2>4, <2>5 DEF RelayedErrors
<1> QED
  BY <1>2, <1>3

LEMMA GRPCInitially ==
  ASSUME Init
  PROVE  GRPCInv
<1>1. call = 1 /\ phase = "handling" /\ answer = NoStatus /\ status = NoStatus
  BY DEF Init, GRPCInit
<1>2. 1 \in 1..MaxCalls
  BY CallsAssumption
<1>3. Told(NoStatus) /\ NoStatus.code = 0
  BY Modulus DEF Told, NoStatus, StatusError, OK
<1> QED
  BY <1>1, <1>2, <1>3, Modulus DEF GRPCInv

\* Told and Sent depend on what never changes.
LEMMA ToldSame ==
  ASSUME UNCHANGED edgeVars
  PROVE  /\ \A st : Told(st)' <=> Told(st)
         /\ \A e : Boxed(e)' = Boxed(e) /\ Sent(e)' = Sent(e)
<1>1. failures' = failures /\ options' = options
  BY DEF edgeVars
<1>2. \A e : MapperStatus(e)' = MapperStatus(e)
  BY MapperStatusSame
<1>3. \A e : Boxed(e)' = Boxed(e)
  BY <1>2 DEF Boxed
<1>4. \A e : Sent(e)' = Sent(e)
  BY <1>2, <1>3 DEF Sent
<1>5. \A st : Told(st)' <=> Told(st)
  BY <1>1, <1>2, <1>3 DEF Told
<1> QED
  BY <1>3, <1>4, <1>5

LEMMA HandlerStep ==
  ASSUME EdgeInv, GRPCInv, HandlerReturns
  PROVE  GRPCInv'
<1>1. PICK chain \in Chains : Intercept(chain)
  BY DEF HandlerReturns, Chains
<1>2. /\ phase = "handling" /\ err' = chain /\ call' = call /\ answer' = answer
      /\ UNCHANGED edgeVars
  BY <1>1 DEF HandlerReturns, Intercept
<1>3. /\ call \in 1..MaxCalls /\ answer.code \in 0..(Half - 1)
      /\ Told(answer) /\ (call > 1 => answer.code # OK)
  BY <1>2 DEF GRPCInv
<1>4. chain \in Chains' /\ (IsOurs(chain) => chain[1].error \in failures)
  BY <1>1, <1>2, <1>3, OursOccur
    DEF Chains, FreshErrors, RelayedErrors, edgeVars
<1>5. failures' = failures
  BY <1>2 DEF edgeVars
<1>6. CASE IsOurs(chain)
  <2> DEFINE e == chain[1].error
  <2>1. phase' = "mapped" /\ status' = StatusError(MapperStatus(e).grpc, <<>>)
    BY <1>1, <1>6, AssertedIs DEF Intercept
  <2>2. MapperStatus(e).grpc \in 0..(CodeModulus - 1) /\ MapperStatus(e)' = MapperStatus(e)
    BY <1>2, MapperStatusRange, MapperStatusSame
  <2>3. Told(status')
    BY <2>1, <2>2 DEF Told
  <2>4. Told(status)' /\ Told(answer)'
    BY <1>2, <1>3, <2>3, ToldSame
  <2>5. IsOurs(err)' /\ Outermost' = e
    BY <1>2, <1>6 DEF IsOurs, Outermost
  <2>6. status' = StatusError(MapperStatus(Outermost).grpc, <<>>)'
    BY <2>1, <2>2, <2>5 DEF StatusError
  <2> QED
    BY <1>2, <1>3, <1>4, <1>5, <1>6, <2>1, <2>4, <2>5, <2>6 DEF GRPCInv
<1>7. CASE ~IsOurs(chain)
  <2>1. phase' = "returned" /\ status' = NoStatus
    BY <1>1, <1>7, AssertedIs DEF Intercept
  <2>2. Told(NoStatus)
    BY Modulus DEF Told, NoStatus, OK
  <2>3. Told(status)' /\ Told(answer)'
    BY <1>2, <1>3, <2>1, <2>2, ToldSame
  <2>4. ~IsOurs(err)'
    BY <1>2, <1>7 DEF IsOurs
  <2> QED
    BY <1>2, <1>3, <1>4, <2>1, <2>3, <2>4 DEF GRPCInv, NoStatus
<1> QED
  BY <1>6, <1>7

LEMMA AttachStep ==
  ASSUME EdgeInv, GRPCInv, Attach
  PROVE  GRPCInv'
<1> DEFINE e == Outermost
           c == MapperStatus(e).grpc
<1>1. /\ phase = "mapped" /\ phase' = "returned"
      /\ UNCHANGED <<call, err, answer>> /\ UNCHANGED edgeVars
  BY DEF Attach
<1>2. /\ IsOurs(err) /\ status = StatusError(c, <<>>) /\ e \in failures
      /\ err \in Chains
  BY <1>1 DEF GRPCInv
<1>3. c \in 0..(CodeModulus - 1)
  BY MapperStatusRange
<1>4. status' = Sent(e)
  <2>1. status' = IF e.clean /\ status.code # OK
                  THEN [status EXCEPT !.details = <<Boxed(e)>>] ELSE status
    BY <1>2, AssertedIs DEF Attach, Boxed, Outermost
  <2>2. status.code = c /\ [status EXCEPT !.details = <<Boxed(e)>>] = StatusError(c, <<Boxed(e)>>)
    BY <1>2 DEF StatusError
  <2> QED
    BY <1>2, <2>1, <2>2 DEF Sent
<1>5. Told(status')
  BY <1>2, <1>3, <1>4 DEF Told, Sent
<1>6. Told(status)' /\ Told(answer)'
  BY <1>1, <1>5, ToldSame DEF GRPCInv
<1>7. Outermost' = e /\ IsOurs(err)' /\ (err \in Chains)' /\ failures' = failures
  BY <1>1, <1>2 DEF Outermost, IsOurs, Chains, FreshErrors, RelayedErrors, edgeVars
<1>8. status' = Sent(Outermost)'
  BY <1>1, <1>4, <1>7, MapperStatusSame DEF Sent, Boxed, Outermost
<1> QED
  BY <1>1, <1>2, <1>6, <1>7, <1>8 DEF GRPCInv

LEMMA AnswerStep ==
  ASSUME EdgeInv, GRPCInv, Answer
  PROVE  GRPCInv'
<1>1. /\ phase = "returned" /\ phase' = "answered"
      /\ UNCHANGED <<call, err, status>> /\ UNCHANGED edgeVars
  BY DEF Answer
<1>2. /\ call \in 1..MaxCalls /\ err \in Chains
      /\ IsOurs(err) => Outermost \in failures /\ status = Sent(Outermost)
      /\ ~IsOurs(err) => status = NoStatus
      /\ Told(answer) /\ answer.code \in 0..(Half - 1) /\ (call > 1 => answer.code # OK)
      /\ Told(status)
  BY <1>1 DEF GRPCInv
<1>3. /\ Told(Returned)
      /\ Returned.code = OK /\ err # <<>> => IsOurs(err)
  <2>1. CASE err = <<>>
    BY <1>2, <2>1 DEF Returned
  <2>2. CASE IsOurs(err)
    BY <1>2, <2>2, AssertedIs DEF Returned
  <2>3. CASE err # <<>> /\ ~IsOurs(err)
    <3>1. Returned = IF call = 1 THEN StatusError(UnknownCode, <<>>) ELSE answer
      BY <1>2, <2>3, StatusFound, AssertedIs DEF Returned
    <3>2. CASE call = 1
      BY <3>1, <3>2, Modulus DEF Told, StatusError, UnknownCode, OK
    <3>3. CASE call # 1
      BY <1>2, <3>1, <3>3
    <3> QED
      BY <3>2, <3>3
  <2> QED
    BY <2>1, <2>2, <2>3
<1>4. Returned.code \in 0..(CodeModulus - 1)
  BY <1>3 DEF Told, StatusError
<1>5. CASE Returned.code < Half /\ answer' = Returned
  <2>1. answer.code' \in 0..(Half - 1) /\ Told(answer')
    BY <1>3, <1>4, <1>5, Modulus
  <2>2. ASSUME IsOurs(err)
        PROVE  answer' = Sent(Outermost)
    BY <1>2, <1>5, <2>2, AssertedIs DEF Returned
  <2>3. (err # <<>> /\ answer'.code = OK) =>
           IsOurs(err) /\ MapperStatus(Outermost).grpc = OK
    BY <1>3, <1>5, <2>2 DEF Sent, StatusError
  <2>4. /\ IsOurs(err) /\ Outermost.clean
        /\ MapperStatus(Outermost).grpc \in 1..(Half - 1)
        => answer' = StatusError(MapperStatus(Outermost).grpc, <<Boxed(Outermost)>>)
    BY <2>2, Modulus DEF Sent, OK
  <2>5. AnswerInv'
    BY <1>1, <2>3, <2>4, MapperStatusSame DEF AnswerInv, Boxed, Outermost, IsOurs
  <2> QED
    BY <1>1, <1>2, <2>1, <2>5, ToldSame DEF GRPCInv
<1>6. CASE Returned.code >= Half /\ \E c \in {UnknownCode, InternalCode} : answer' = StatusError(c, <<>>)
  <2>1. answer.code' \in 1..(Half - 1) /\ Told(answer')
    BY <1>6, Modulus DEF Told, StatusError, UnknownCode, InternalCode
  <2>2. ASSUME IsOurs(err)
        PROVE  MapperStatus(Outermost).grpc >= Half
    <3>1. Returned = Sent(Outermost)
      BY <1>2, <2>2, AssertedIs DEF Returned
    <3> QED
      BY <1>6, <3>1 DEF Sent, StatusError
  <2>3. MapperStatus(Outermost).grpc \in 0..(CodeModulus - 1)
    BY MapperStatusRange
  <2>4. /\ answer'.code # OK
        /\ IsOurs(err) => MapperStatus(Outermost).grpc \notin 1..(Half - 1)
    BY <2>1, <2>2, <2>3, Modulus DEF OK
  <2>5. AnswerInv'
    BY <1>1, <2>4, MapperStatusSame DEF AnswerInv, Outermost, IsOurs
  <2> QED
    BY <1>1, <1>2, <2>1, <2>5, ToldSame, Modulus DEF GRPCInv
<1>7. \/ Returned.code < Half /\ answer' = Returned
      \/ /\ Returned.code >= Half
         /\ \E c \in {UnknownCode, InternalCode} : answer' = StatusError(c, <<>>)
  BY <1>4, Modulus DEF Answer, Half
<1> QED
  BY <1>5, <1>6, <1>7

LEMMA FailedCallStep ==
  ASSUME EdgeInv, GRPCInv, FailedCallReturns
  PROVE  GRPCInv'
<1>1. /\ answer.code # OK /\ call < MaxCalls /\ call' = call + 1 /\ phase' = "handling"
      /\ UNCHANGED <<err, status, answer>> /\ UNCHANGED edgeVars
  BY DEF FailedCallReturns
<1>2. call' \in 1..MaxCalls
  BY <1>1, CallsAssumption DEF GRPCInv
<1>3. Told(answer)' /\ Told(status)' /\ answer.code' \in 0..(Half - 1)
  BY <1>1, ToldSame DEF GRPCInv
<1> QED
  BY <1>1, <1>2, <1>3 DEF GRPCInv

LEMMA GRPCStep ==
  ASSUME EdgeInv, GRPCInv, [Next]_vars
  PROVE  GRPCInv'
<1>1. CASE GRPCNext
  BY <1>1, HandlerStep, AttachStep, AnswerStep, FailedCallStep DEF GRPCNext
<1>2. CASE UNCHANGED grpcVars
  <2>1. UNCHANGED edgeVars
    BY EdgeInvStep
  <2>2. UNCHANGED <<call, phase, err, status, answer>>
    BY <1>2 DEF grpcVars
  <2>3. (Told(answer) <=> Told(answer)') /\ (Told(status) <=> Told(status)')
    BY <2>1, <2>2, ToldSame
  <2>4. /\ failures' = failures /\ Chains' = Chains /\ Outermost' = Outermost
        /\ IsOurs(err)' <=> IsOurs(err)
    BY <2>1, <2>2 DEF edgeVars, Chains, FreshErrors, RelayedErrors, Outermost, IsOurs
  <2>5. MapperStatus(Outermost)' = MapperStatus(Outermost) /\ Sent(Outermost)' = Sent(Outermost)
        /\ Boxed(Outermost)' = Boxed(Outermost)
    BY <2>1, <2>2, MapperStatusSame DEF Sent, Boxed, Outermost
  <2>6. AnswerInv' <=> AnswerInv
    BY <2>2, <2>4, <2>5 DEF AnswerInv
  <2> QED
    BY <2>2, <2>3, <2>4, <2>5, <2>6 DEF GRPCInv
<1> QED
  BY <1>1, <1>2 DEF Next, vars
-----------------------------------------------------------------------------
(* HTTP.                                                                   *)

LEMMA MinIs ==
  ASSUME NEW D \in SUBSET Nat, NEW k \in D, \A x \in D : k <= x
  PROVE  Min(D) = k
<1>1. \A x \in D : (\A y \in D : x <= y) => x = k
  <2> TAKE x \in D
  <2> HAVE \A y \in D : x <= y
  <2>1. x <= k /\ k <= x /\ x \in Nat /\ k \in Nat
    OBVIOUS
  <2> QED
    BY <2>1
<1> QED
  BY <1>1 DEF Min

LEMMA MaxIs ==
  ASSUME NEW D \in SUBSET Nat, NEW k \in D, \A x \in D : x <= k
  PROVE  Max(D) = k
<1>1. \A x \in D : (\A y \in D : x >= y) => x = k
  <2> TAKE x \in D
  <2> HAVE \A y \in D : x >= y
  <2>1. x >= k /\ x <= k /\ x \in Nat /\ k \in Nat
    OBVIOUS
  <2> QED
    BY <2>1
<1> QED
  BY <1>1 DEF Max

\* The last positive hint among the first n of the calls w.
LastHint(w, n) ==
  LET set == {i \in 1..n : w[i].retry > 0}
  IN IF set = {} THEN 0 ELSE w[Max(set)].retry

LEMMA HintKept ==
  ASSUME NEW n \in Nat, NEW w, NEW v, \A i \in 1..n : w[i] = v[i]
  PROVE  LastHint(w, n) = LastHint(v, n)
<1> DEFINE D == {i \in 1..n : w[i].retry > 0}
           E == {i \in 1..n : v[i].retry > 0}
<1>1. D = E
  OBVIOUS
<1>2. ASSUME D # {}
      PROVE  w[Max(D)] = v[Max(D)]
  <2>1. D \in SUBSET (1..n)
    OBVIOUS
  <2>2. Max(D) \in D
    <3> HIDE DEF D
    <3> QED
      BY <1>2, <2>1, MaxIsIn
  <2> QED
    BY <2>2
<1> QED
  BY <1>1, <1>2 DEF LastHint

LEMMA HintAppended ==
  ASSUME NEW n \in Nat, NEW w
  PROVE  LastHint(w, n + 1) =
           IF w[n + 1].retry > 0 THEN w[n + 1].retry ELSE LastHint(w, n)
<1> DEFINE D == {i \in 1..n : w[i].retry > 0}
           E == {i \in 1..(n + 1) : w[i].retry > 0}
<1>1. CASE w[n + 1].retry > 0
  <2>1. n + 1 \in E /\ E \in SUBSET Nat /\ \A x \in E : x <= n + 1
    BY <1>1
  <2>2. Max(E) = n + 1
    <3> HIDE DEF E
    <3> QED
      BY <2>1, MaxIs
  <2> QED
    BY <1>1, <2>1, <2>2 DEF LastHint
<1>2. CASE ~(w[n + 1].retry > 0)
  <2>1. D = E
    BY <1>2
  <2> QED
    BY <1>2, <2>1 DEF LastHint
<1> QED
  BY <1>1, <1>2

\* The calls of Write that have come to WriteHeader, or been refused there.
Done == IF step = "header" THEN Len(writing) - 1 ELSE Len(writing)

\* The HTTP status of a Write, as a function of the option list.
StatusOfWrite(o, w) == Status(o, "http", w.error.code, w.error.reason)

LEMMA StatusesOfWrites ==
  /\ \A w : HTTPOf(w) = StatusOfWrite(options, w)
  /\ CurrentStatus = StatusOfWrite(options, Current)
BY DEF HTTPOf, CurrentStatus, MapperStatus, StatusOfWrite

\* How a response that no handler began came by its status line: with the
\* body of a Write whose status is informational, or from the first Write
\* that had a final one.
Decided ==
  \/ /\ response.status = 200
     /\ \E i \in 1..Done : Informational(StatusOfWrite(options, writing[i]))
  \/ \E k \in 1..Done :
       /\ Final(StatusOfWrite(options, writing[k]))
       /\ response.status = StatusOfWrite(options, writing[k])
       /\ \A i \in 1..(k - 1) : ~Final(StatusOfWrite(options, writing[i]))
       /\ response.retry = LastHint(writing, k)
       /\ Len(writing) = 1 => response.body \in {<<>>, <<View(Current.error)>>}
       /\ Len(writing) = 1 /\ step = "body" => response.body = <<>>

Pieces == {Piece} \cup {View(e) : e \in failures}

HTTPTypes ==
  /\ step \in {"outside", "header", "body", "panicked"}
  /\ writing \in Seq([error : failures, retry : RetrySeconds])
  /\ Len(writing) <= MaxWrites
  /\ step # "outside" => Len(writing) > 0
  /\ header \in {0} \cup {s \in RetrySeconds : s > 0}
  /\ response \in [status : {0} \cup 100..999, retry : Int, body : Seq(Pieces)]
  /\ ~Committed => response.body = <<>> /\ response.retry = 0

\* Before the status line is out no Write has had a final status.
Undecided ==
  ~Committed =>
    /\ \A i \in 1..Done : ~Final(StatusOfWrite(options, writing[i]))
    /\ step = "body" => Informational(StatusOfWrite(options, Current))

HTTPInv ==
  /\ HTTPTypes
  /\ header = LastHint(writing, Len(writing))
  /\ Undecided
  /\ Committed /\ ~HandlerWrote => Decided

LEMMA HTTPInitially ==
  ASSUME Init
  PROVE  HTTPInv
<1>1. /\ step = "outside" /\ writing = <<>> /\ header = 0
      /\ response = [status |-> 0, retry |-> 0, body |-> <<>>]
  BY DEF Init, HTTPInit
<1>2. LastHint(<<>>, 0) = 0
  BY DEF LastHint
<1>3. MaxWrites \in Nat
  BY WritesAssumption
<1>4. response \in [status : {0} \cup 100..999, retry : Int, body : Seq(Pieces)]
  BY <1>1
<1> QED
  BY <1>1, <1>2, <1>3, <1>4 DEF HTTPInv, HTTPTypes, Undecided, Committed, Done

LEMMA HandlerWritesStep ==
  ASSUME EdgeInv, HTTPInv, HandlerWrites
  PROVE  HTTPInv'
<1>1. /\ step = "outside" /\ writing = <<>>
      /\ response' = [status |-> 200, retry |-> header, body |-> <<Piece>>]
      /\ UNCHANGED <<step, writing, header, edgeVars>>
  BY DEF HandlerWrites, Commit
<1>2. HandlerWrote' /\ Committed'
  BY <1>1 DEF HandlerWrote, Committed
<1>3. response' \in [status : {0} \cup 100..999, retry : Int, body : Seq(Pieces')]
  <2>1. header \in Int
    BY WritesAssumption DEF HTTPInv, HTTPTypes
  <2>2. <<Piece>> \in Seq(Pieces')
    BY DEF Pieces
  <2> QED
    BY <1>1, <2>1, <2>2
<1>4. failures' = failures
  BY <1>1 DEF edgeVars
<1>5. HTTPTypes'
  BY <1>1, <1>2, <1>3, <1>4 DEF HTTPInv, HTTPTypes
<1> QED
  BY <1>1, <1>2, <1>5 DEF HTTPInv, Undecided

LEMMA CallWriteStep ==
  ASSUME EdgeInv, HTTPInv, NEW e \in failures, NEW retry \in RetrySeconds,
         CallWrite(e, retry)
  PROVE  HTTPInv'
<1> DEFINE n == Len(writing)
           w == Write(e, retry)
<1>1. /\ step = "outside" /\ step' = "header" /\ n < MaxWrites
      /\ writing' = Append(writing, w) /\ header' = IF retry > 0 THEN retry ELSE header
      /\ response' = response /\ UNCHANGED edgeVars
  BY DEF CallWrite
<1>2. /\ writing \in Seq([error : failures, retry : RetrySeconds])
      /\ w \in [error : failures, retry : RetrySeconds] /\ w.retry = retry
  BY DEF HTTPInv, HTTPTypes, Write
<1>3. /\ n \in Nat /\ Len(writing') = n + 1 /\ writing'[n + 1] = w
      /\ \A i \in 1..n : writing'[i] = writing[i]
  BY <1>1, <1>2
<1>4. writing' \in Seq([error : failures, retry : RetrySeconds]) /\ failures' = failures
  BY <1>1, <1>2 DEF edgeVars
<1>5. Len(writing') <= MaxWrites
  BY <1>1, <1>3, WritesAssumption
<1>6. \A k \in 0..n : LastHint(writing', k) = LastHint(writing, k)
  <2> TAKE k \in 0..n
  <2>1. k \in Nat /\ \A i \in 1..k : writing'[i] = writing[i]
    BY <1>3
  <2> QED
    BY <2>1, HintKept
<1>7. header' = LastHint(writing', n + 1)
  <2>1. LastHint(writing', n + 1) = IF retry > 0 THEN retry ELSE LastHint(writing', n)
    BY <1>2, <1>3, HintAppended
  <2>2. LastHint(writing', n) = LastHint(writing, n) /\ header = LastHint(writing, n)
    BY <1>3, <1>6 DEF HTTPInv
  <2> QED
    BY <1>1, <2>1, <2>2
<1>8. header' \in {0} \cup {s \in RetrySeconds : s > 0}
  BY <1>1 DEF HTTPInv, HTTPTypes
<1>9. Done' = n /\ Done = n
  BY <1>1, <1>3 DEF Done
<1>10. /\ options' = options
       /\ \A i \in 1..n : StatusOfWrite(options', writing'[i]) = StatusOfWrite(options, writing[i])
  BY <1>1, <1>3 DEF edgeVars
<1>11. Pieces' = Pieces /\ (Committed' <=> Committed) /\ (HandlerWrote' <=> HandlerWrote)
  BY <1>1, <1>4 DEF Pieces, View, Piece, Committed, HandlerWrote
<1>12. ASSUME Decided
       PROVE  Decided'
  <2>1. CASE /\ response.status = 200
            /\ \E i \in 1..Done : Informational(StatusOfWrite(options, writing[i]))
    BY <1>1, <1>9, <1>10, <2>1 DEF Decided
  <2>2. CASE \E k \in 1..Done :
               /\ Final(StatusOfWrite(options, writing[k]))
               /\ response.status = StatusOfWrite(options, writing[k])
               /\ \A i \in 1..(k - 1) : ~Final(StatusOfWrite(options, writing[i]))
               /\ response.retry = LastHint(writing, k)
    <3>1. PICK k \in 1..Done :
               /\ Final(StatusOfWrite(options, writing[k]))
               /\ response.status = StatusOfWrite(options, writing[k])
               /\ \A i \in 1..(k - 1) : ~Final(StatusOfWrite(options, writing[i]))
               /\ response.retry = LastHint(writing, k)
      BY <2>2
    <3>2. k \in 1..n /\ k \in 0..n /\ \A i \in 1..(k - 1) : i \in 1..n
      BY <1>3, <1>9
    <3>3. /\ Final(StatusOfWrite(options', writing'[k])) /\ response.status' = StatusOfWrite(options', writing'[k])
          /\ \A i \in 1..(k - 1) : ~Final(StatusOfWrite(options', writing'[i]))
      BY <1>1, <1>10, <3>1, <3>2
    <3>4. response.retry' = LastHint(writing', k)
      BY <1>1, <1>6, <3>1, <3>2
    <3>5. Len(writing') # 1 /\ k \in 1..Done'
      BY <1>3, <1>9, <3>2
    <3> QED
      BY <3>3, <3>4, <3>5 DEF Decided
  <2> QED
    BY <1>12, <2>1, <2>2 DEF Decided
<1>13. Undecided'
  <2>1. ~Committed => \A i \in 1..n : ~Final(StatusOfWrite(options, writing[i]))
    BY <1>9 DEF HTTPInv, Undecided
  <2> QED
    BY <1>1, <1>9, <1>10, <1>11, <2>1 DEF Undecided
<1>14. HTTPTypes'
  BY <1>1, <1>3, <1>4, <1>5, <1>8, <1>11 DEF HTTPInv, HTTPTypes
<1> QED
  BY <1>3, <1>7, <1>11, <1>12, <1>13, <1>14 DEF HTTPInv

LEMMA WriteHeaderStep ==
  ASSUME EdgeInv, HTTPInv, WriteHeader
  PROVE  HTTPInv'
<1> DEFINE n == Len(writing)
           st == StatusOfWrite(options, Current)
<1>1. /\ step = "header" /\ step' = IF Committed \/ st \in 100..999 THEN "body" ELSE "panicked"
      /\ response' = IF Committed \/ ~Final(st) THEN response
                     ELSE [status |-> st, retry |-> header, body |-> <<>>]
      /\ UNCHANGED <<writing, header, edgeVars>>
  BY StatusesOfWrites DEF WriteHeader, Commit
<1>2. /\ n \in Nat /\ n > 0 /\ st = StatusOfWrite(options, writing[n])
      /\ Done = n - 1 /\ Done' = n /\ Len(writing') = n
  BY <1>1 DEF HTTPInv, HTTPTypes, Current, Done
<1>3. /\ options' = options /\ failures' = failures /\ writing' = writing
      /\ Pieces' = Pieces /\ Current' = Current
  BY <1>1 DEF edgeVars, Pieces, View, Piece, Current
<1>4. ASSUME response' \in [status : {0} \cup 100..999, retry : Int, body : Seq(Pieces)],
             ~Committed' => response'.body = <<>> /\ response'.retry = 0
      PROVE  HTTPTypes'
  <2>1. step' \in {"outside", "header", "body", "panicked"}
    BY <1>1
  <2>2. /\ writing \in Seq([error : failures, retry : RetrySeconds])
        /\ Len(writing) <= MaxWrites /\ Len(writing) > 0
        /\ header \in {0} \cup {s \in RetrySeconds : s > 0}
    BY <1>2 DEF HTTPInv, HTTPTypes
  <2>5. header' = header /\ writing' = writing /\ failures' = failures
    BY <1>1, <1>3
  <2>3. response' \in [status : {0} \cup 100..999, retry : Int, body : Seq(Pieces')]
    BY <1>3, <1>4
  <2>4. ~Committed' => response'.body = <<>> /\ response'.retry = 0
    BY <1>4
  <2> QED
    BY <2>1, <2>2, <2>3, <2>4, <2>5 DEF HTTPTypes
<1>5. header' = LastHint(writing', Len(writing'))
  BY <1>1 DEF HTTPInv
<1>6. CASE Committed
  <2>1. step' = "body" /\ response' = response /\ Committed' /\ (HandlerWrote' <=> HandlerWrote)
    BY <1>1, <1>6 DEF Committed, HandlerWrote
  <2>2. ASSUME Decided
        PROVE  Decided'
    <3>1. CASE /\ response.status = 200
            /\ \E i \in 1..Done : Informational(StatusOfWrite(options, writing[i]))
      <4>1. PICK i \in 1..Done : Informational(StatusOfWrite(options, writing[i]))
        BY <3>1
      <4>2. i \in 1..Done'
        BY <1>2
      <4>3. Informational(StatusOfWrite(options', writing'[i])) /\ response'.status = 200
        BY <1>3, <2>1, <3>1, <4>1
      <4> QED
        BY <4>2, <4>3 DEF Decided
    <3>2. CASE \E k \in 1..Done :
               /\ Final(StatusOfWrite(options, writing[k]))
               /\ response.status = StatusOfWrite(options, writing[k])
               /\ \A i \in 1..(k - 1) : ~Final(StatusOfWrite(options, writing[i]))
               /\ response.retry = LastHint(writing, k)
      <4>1. PICK k \in 1..Done :
               /\ Final(StatusOfWrite(options, writing[k]))
               /\ response.status = StatusOfWrite(options, writing[k])
               /\ \A i \in 1..(k - 1) : ~Final(StatusOfWrite(options, writing[i]))
               /\ response.retry = LastHint(writing, k)
        BY <3>2
      <4>2. k \in 1..Done' /\ Len(writing') # 1
        BY <1>2
      <4>3. response' = response /\ options' = options /\ writing' = writing
        BY <1>3, <2>1
      <4> QED
        BY ONLY <4>1, <4>2, <4>3 DEF Decided
    <3> QED
      BY <2>2, <3>1, <3>2 DEF Decided
  <2>3. response \in [status : {0} \cup 100..999, retry : Int, body : Seq(Pieces)]
    BY DEF HTTPInv, HTTPTypes
  <2>4. HTTPTypes' /\ Undecided'
    BY <1>4, <2>1, <2>3 DEF Undecided
  <2>5. ~HandlerWrote' => Decided'
    BY <1>6, <2>1, <2>2 DEF HTTPInv
  <2> QED
    BY <1>5, <2>4, <2>5 DEF HTTPInv
<1>7. CASE ~Committed /\ Final(st)
  <2>1. /\ step' = "body" /\ st \in 100..999
        /\ response' = [status |-> st, retry |-> header, body |-> <<>>]
    BY <1>1, <1>7 DEF Final
  <2>2. Committed'
    <3>1. \A k \in 100..999 : k # 0
      OBVIOUS
    <3>2. response'.status = st
      BY <2>1
    <3> HIDE DEF st
    <3>4. st # 0
      BY ONLY <2>1, <3>1
    <3>3. response'.status # 0
      BY ONLY <3>2, <3>4
    <3> QED
      BY ONLY <3>3 DEF Committed
  <2>3. Decided'
    <3>1. n \in 1..Done' /\ 1..(n - 1) = 1..Done
      BY <1>2
    <3>4. \A i \in 1..(n - 1) : ~Final(StatusOfWrite(options, writing[i]))
      BY <1>7, <3>1 DEF HTTPInv, Undecided
    <3>2. header = LastHint(writing, n)
      BY DEF HTTPInv
    <3>3. response'.status = StatusOfWrite(options', writing'[n]) /\ response'.body = <<>>
      BY <1>2, <1>3, <2>1
    <3> QED
      BY <1>2, <1>3, <1>7, <2>1, <3>1, <3>2, <3>3, <3>4 DEF Decided
  <2>4. response' \in [status : {0} \cup 100..999, retry : Int, body : Seq(Pieces)]
    <3>1. header \in Int
      BY WritesAssumption DEF HTTPInv, HTTPTypes
    <3> QED
      BY <2>1, <3>1
  <2>5. HTTPTypes' /\ Undecided'
    BY <1>4, <2>2, <2>4 DEF Undecided
  <2> QED
    BY <1>5, <2>2, <2>3, <2>5 DEF HTTPInv
<1>8. CASE ~Committed /\ ~Final(st)
  <2>1. response' = response /\ ~Committed'
    BY <1>1, <1>8 DEF Committed
  <2>2. step' = "body" => Informational(StatusOfWrite(options', Current'))
    BY <1>1, <1>3, <1>8 DEF Final
  <2>3. \A i \in 1..Done' : ~Final(StatusOfWrite(options', writing'[i]))
    <3>1. \A i \in 1..n : i = n \/ i \in 1..Done
      BY <1>2
    <3>2. \A i \in 1..n : ~Final(StatusOfWrite(options, writing[i]))
      BY <1>2, <1>8, <3>1 DEF HTTPInv, Undecided
    <3> QED
      BY <1>1, <1>2, <1>3, <3>2
  <2>4. HTTPTypes' /\ Undecided'
    BY <1>4, <1>8, <2>1, <2>2, <2>3 DEF HTTPInv, HTTPTypes, Undecided
  <2> QED
    BY <1>5, <2>1, <2>4 DEF HTTPInv
<1> QED
  BY <1>6, <1>7, <1>8

LEMMA ElementOfSequence ==
  ASSUME NEW S, NEW s \in Seq(S), NEW i \in 1..Len(s)
  PROVE  s[i] \in S
OBVIOUS

LEMMA FirstStays ==
  ASSUME NEW S, NEW s \in Seq(S), NEW t \in Seq(S)
  PROVE  /\ s = <<>> => s \o t = t
         /\ s # <<>> => s \o t # <<>> /\ (s \o t)[1] = s[1]
OBVIOUS

LEMMA WriteBodyStep ==
  ASSUME EdgeInv, HTTPInv, WriteBody
  PROVE  HTTPInv'
<1> DEFINE n == Len(writing)
           bytes == IF Current.error.clean THEN <<View(Current.error)>> ELSE <<>>
           open == IF Committed THEN response
                   ELSE [status |-> 200, retry |-> header, body |-> <<>>]
<1>1. /\ step = "body" /\ step' = "outside"
      /\ response' = open \/ response' = [open EXCEPT !.body = @ \o bytes]
      /\ UNCHANGED <<writing, header, edgeVars>>
  BY DEF WriteBody, Commit
<1>2. /\ n \in Nat /\ n > 0 /\ Done = n /\ Done' = n
  BY <1>1 DEF HTTPInv, HTTPTypes, Done
<1>3. /\ options' = options /\ failures' = failures /\ writing' = writing
      /\ Pieces' = Pieces /\ Current' = Current
  BY <1>1 DEF edgeVars, Pieces, View, Piece, Current
<1>4. bytes \in Seq(Pieces) /\ bytes \in {<<>>, <<View(Current.error)>>}
  <2>1. writing \in Seq([error : failures, retry : RetrySeconds])
    BY DEF HTTPInv, HTTPTypes
  <2>2. Current \in [error : failures, retry : RetrySeconds]
    <3>1. Len(writing) \in 1..Len(writing)
      BY <1>2
    <3> QED
      BY <2>1, <3>1, ElementOfSequence DEF Current
  <2>3. View(Current.error) \in Pieces
    BY <2>2 DEF Pieces
  <2> QED
    BY <2>3
<1>5. /\ open \in [status : {0} \cup 100..999, retry : Int, body : Seq(Pieces)]
      /\ response' \in [status : {0} \cup 100..999, retry : Int, body : Seq(Pieces)]
      /\ response'.status = open.status /\ response'.retry = open.retry
      /\ response'.body = open.body \/ response'.body = open.body \o bytes
  <2>1. open \in [status : {0} \cup 100..999, retry : Int, body : Seq(Pieces)]
    <3>1. header \in Int
      BY WritesAssumption DEF HTTPInv, HTTPTypes
    <3>2. response \in [status : {0} \cup 100..999, retry : Int, body : Seq(Pieces)]
      BY DEF HTTPInv, HTTPTypes
    <3>3. [status |-> 200, retry |-> header, body |-> <<>>]
            \in [status : {0} \cup 100..999, retry : Int, body : Seq(Pieces)]
      BY <3>1
    <3> QED
      BY <3>2, <3>3
  <2> HIDE DEF open, bytes
  <2>2. CASE response' = open
    BY <2>1, <2>2
  <2>3. CASE response' = [open EXCEPT !.body = @ \o bytes]
    <3>1. open.body \o bytes \in Seq(Pieces)
      BY <1>4, <2>1
    <3>2. response'.status = open.status /\ response'.retry = open.retry
      BY ONLY <2>1, <2>3
    <3>3. response'.body = open.body \o bytes
      BY ONLY <2>1, <2>3
    <3> DEFINE S == {0} \cup 100..999
    <3>4. open \in [status : S, retry : Int, body : Seq(Pieces)]
      BY <2>1
    <3> HIDE DEF S
    <3>5. response' \in [status : S, retry : Int, body : Seq(Pieces)]
      BY ONLY <2>3, <3>1, <3>4
    <3> QED
      BY <2>1, <3>2, <3>3, <3>5 DEF S
  <2>4. response' = open \/ response' = [open EXCEPT !.body = @ \o bytes]
    BY <1>1
  <2> QED
    BY ONLY <2>2, <2>3, <2>4
<1>7. open.status \in 100..999 /\ open.status # 0
  <2>1. CASE Committed
    <3>1. open.status = response.status
      BY <2>1
    <3> QED
      BY <2>1, <3>1 DEF HTTPInv, HTTPTypes, Committed
  <2>2. CASE ~Committed
    <3>1. open.status = 200
      BY <2>2
    <3> QED
      BY <3>1
  <2> QED
    BY <2>1, <2>2
<1> HIDE DEF open, bytes
<1>8. Committed'
  BY <1>5, <1>7 DEF Committed
<1>9. HTTPTypes'
  <2>1. /\ writing' \in Seq([error : failures', retry : RetrySeconds])
        /\ Len(writing') <= MaxWrites
        /\ header' \in {0} \cup {s \in RetrySeconds : s > 0}
    BY <1>1, <1>2, <1>3 DEF HTTPInv, HTTPTypes
  <2> QED
    BY <1>1, <1>3, <1>5, <1>8, <2>1 DEF HTTPTypes
<1>10. Undecided' /\ header' = LastHint(writing', Len(writing'))
  BY <1>1, <1>8 DEF HTTPInv, Undecided
<1>11. ~HandlerWrote' => Decided'
  <2>1. CASE ~Committed
    <3>1. open.status = 200
      BY <2>1 DEF open
    <3>2. Informational(StatusOfWrite(options, writing[n])) /\ response'.status = 200
      BY <1>1, <1>5, <2>1, <3>1 DEF HTTPInv, Undecided, Current
    <3> QED
      BY <1>2, <1>3, <3>2 DEF Decided
  <2>2. CASE Committed
    <3>1. open = response
      BY <2>2 DEF open
    <3>2. HandlerWrote => HandlerWrote'
      <4>1. ASSUME HandlerWrote
            PROVE  response'.body # <<>> /\ response'.body[1] = response.body[1]
        <5>1. response.body \in Seq(Pieces) /\ response.body # <<>>
          BY <1>5, <3>1, <4>1 DEF HandlerWrote
        <5>2. /\ response.body \o bytes # <<>>
              /\ (response.body \o bytes)[1] = response.body[1]
          BY <1>4, <5>1, FirstStays
        <5> QED
          BY <1>5, <3>1, <5>1, <5>2
      <4> QED
        BY <4>1 DEF HandlerWrote
    <3>3. ASSUME Decided
          PROVE  Decided'
      <4>1. CASE /\ response.status = 200
            /\ \E i \in 1..Done : Informational(StatusOfWrite(options, writing[i]))
        BY <1>2, <1>3, <1>5, <3>1, <4>1 DEF Decided
      <4>2. CASE \E k \in 1..Done :
               /\ Final(StatusOfWrite(options, writing[k]))
               /\ response.status = StatusOfWrite(options, writing[k])
               /\ \A i \in 1..(k - 1) : ~Final(StatusOfWrite(options, writing[i]))
               /\ response.retry = LastHint(writing, k)
               /\ Len(writing) = 1 /\ step = "body" => response.body = <<>>
        <5>1. Len(writing) = 1 => response'.body \in {<<>>, <<View(Current.error)>>}
          <6>1. response.body \in Seq(Pieces)
            BY <1>5, <3>1
          <6>2. response.body = <<>> => response.body \o bytes = bytes
            BY <1>4, <6>1, FirstStays
          <6>3. Len(writing) = 1 => response.body = <<>>
            BY <1>1, <4>2
          <6>4. response'.body = response.body \/ response'.body = response.body \o bytes
            BY <1>5, <3>1
          <6>5. Len(writing) = 1 => response'.body \in {<<>>, bytes}
            BY <6>2, <6>3, <6>4
          <6> QED
            BY <1>4, <6>5
        <5>2. View(Current.error)' = View(Current.error)
          BY <1>3 DEF View
        <5> QED
          BY <1>1, <1>2, <1>3, <1>5, <3>1, <4>2, <5>1, <5>2 DEF Decided
      <4> QED
        BY <3>3, <4>1, <4>2 DEF Decided
    <3> QED
      BY <2>2, <3>2, <3>3 DEF HTTPInv
  <2> QED
    BY <2>1, <2>2
<1> QED
  BY <1>9, <1>10, <1>11 DEF HTTPInv

LEMMA RecoverStep ==
  ASSUME EdgeInv, HTTPInv, Recover
  PROVE  HTTPInv'
<1>1. /\ step = "panicked" /\ step' = "outside"
      /\ UNCHANGED <<writing, header, response, edgeVars>>
  BY DEF Recover
<1>2. /\ options' = options /\ failures' = failures
      /\ Pieces' = Pieces /\ Current' = Current /\ Done' = Done
      /\ (Committed' <=> Committed) /\ (HandlerWrote' <=> HandlerWrote)
  BY <1>1 DEF edgeVars, Pieces, View, Piece, Current, Done, Committed, HandlerWrote
<1>3. HTTPTypes'
  BY <1>1, <1>2 DEF HTTPInv, HTTPTypes
<1>4. Undecided'
  BY <1>1, <1>2 DEF HTTPInv, Undecided
<1>5. Decided => Decided'
  BY <1>1, <1>2 DEF Decided, View
<1> QED
  BY <1>1, <1>2, <1>3, <1>4, <1>5 DEF HTTPInv

LEMMA HTTPStep ==
  ASSUME EdgeInv, HTTPInv, [Next]_vars
  PROVE  HTTPInv'
<1>1. CASE HTTPNext
  BY <1>1, HandlerWritesStep, CallWriteStep, WriteHeaderStep, WriteBodyStep, RecoverStep
    DEF HTTPNext
<1>2. CASE UNCHANGED httpVars
  <2>1. UNCHANGED <<step, writing, header, response, edgeVars>>
    BY <1>2, EdgeInvStep DEF httpVars
  <2>2. options' = options /\ failures' = failures
    BY <2>1 DEF edgeVars
  <2>3. /\ Pieces' = Pieces /\ Current' = Current /\ Done' = Done
        /\ (Committed' <=> Committed) /\ (HandlerWrote' <=> HandlerWrote)
    BY <2>1, <2>2 DEF Pieces, View, Piece, Current, Done, Committed, HandlerWrote
  <2>4. HTTPTypes'
    BY <2>1, <2>2, <2>3 DEF HTTPInv, HTTPTypes
  <2>5. Undecided'
    BY <2>1, <2>2, <2>3 DEF HTTPInv, Undecided
  <2>6. Decided => Decided'
    BY <2>1, <2>2, <2>3 DEF Decided, View
  <2> QED
    BY <2>1, <2>2, <2>3, <2>4, <2>5, <2>6 DEF HTTPInv
<1> QED
  BY <1>1, <1>2 DEF Next, vars
-----------------------------------------------------------------------------
(* The theorems.                                                           *)

LEMMA EdgesInvariant == Spec => [](EdgeInv /\ GRPCInv /\ HTTPInv)
<1>1. Init => EdgeInv
  BY DEF Init, EdgeInit, EdgeInv
<1>2. EdgeInv /\ GRPCInv /\ HTTPInv /\ [Next]_vars => (EdgeInv /\ GRPCInv /\ HTTPInv)'
  BY EdgeInvStep, GRPCStep, HTTPStep
<1> QED
  BY <1>1, <1>2, GRPCInitially, HTTPInitially, PTL DEF Spec

\* Types, at both edges.
THEOREM EdgeTypes == Spec => []TypeOK
<1>1. EdgeInv /\ GRPCInv /\ HTTPInv => TypeOK
  <2> SUFFICES ASSUME EdgeInv, GRPCInv, HTTPInv PROVE TypeOK
    OBVIOUS
  <2>1. \A st : Told(st) => StatusOK(st)
    <3> TAKE st
    <3> HAVE Told(st)
    <3>1. PICK c \in 0..(CodeModulus - 1) :
            \/ st = StatusError(c, <<>>)
            \/ \E e \in failures : st = StatusError(c, <<Boxed(e)>>)
      BY DEF Told
    <3>2. CASE st = StatusError(c, <<>>)
      <4>1. st.code = c /\ st.details = <<>>
        BY <3>2 DEF StatusError
      <4>2. Len(st.details) = 0
        BY <4>1
      <4> QED
        BY <4>1, <4>2 DEF StatusOK
    <3>3. CASE \E e \in failures : st = StatusError(c, <<Boxed(e)>>)
      <4>1. PICK e \in failures : st = StatusError(c, <<Boxed(e)>>)
        BY <3>3
      <4>2. st.code = c /\ st.details = <<Boxed(e)>>
        BY <4>1 DEF StatusError
      <4>3. Len(st.details) = 1
        BY <4>2
      <4> QED
        BY <4>2, <4>3 DEF StatusOK
    <3> QED
      BY <3>1, <3>2, <3>3
  <2>2. options \in OptionList /\ failures \in EdgeErrors
    BY DEF EdgeInv
  <2>3. /\ call \in 1..MaxCalls
        /\ phase \in {"handling", "mapped", "returned", "answered"}
        /\ StatusOK(status) /\ StatusOK(answer)
    BY <2>1 DEF GRPCInv
  <2>4. /\ step \in {"outside", "header", "body", "panicked"}
        /\ writing \in Seq([error : failures, retry : RetrySeconds])
        /\ Len(writing) <= MaxWrites
        /\ header \in {0} \cup {s \in RetrySeconds : s > 0}
        /\ response.status \in {0} \cup 100..999
        /\ ~Committed => response.body = <<>> /\ response.retry = 0
    BY DEF HTTPInv, HTTPTypes
  <2> QED
    BY <2>2, <2>3, <2>4 DEF TypeOK
<1> QED
  BY <1>1, EdgesInvariant, PTL

\* A failure goes out as a success only when the mapper was told to make it
\* one, however long the chain of services (grpcx.go:90, 126-135; httpx.go:76).
THEOREM NoFalseSuccess == Spec => []FailuresGoOutAsFailures
<1>1. GRPCInv /\ HTTPInv => FailuresGoOutAsFailures
  <2> SUFFICES ASSUME GRPCInv, HTTPInv PROVE FailuresGoOutAsFailures
    OBVIOUS
  <2>1. Answered /\ err # <<>> /\ answer.code = OK =>
          IsOurs(err) /\ MapperStatus(Outermost).grpc = OK
    BY DEF GRPCInv, AnswerInv, Answered
  <2>2. ASSUME response.status \in 1..399, ~HandlerWrote
        PROVE  \E w \in Writes : HTTPOf(w) < 400
    <3>1. Committed /\ response.status < 400
      BY <2>2 DEF Committed
    <3>2. Decided
      BY <2>2, <3>1 DEF HTTPInv
    <3>3. Len(writing) \in Nat /\ DOMAIN writing = 1..Len(writing)
      BY DEF HTTPInv, HTTPTypes
    <3>4. \A i \in 1..Done : i \in DOMAIN writing
      BY <3>3 DEF Done
    <3>5. PICK i \in 1..Done : \/ Informational(StatusOfWrite(options, writing[i]))
                               \/ response.status = StatusOfWrite(options, writing[i])
      BY <3>2 DEF Decided
    <3>6. \A c \in 100..199 : c < 400
      OBVIOUS
    <3>7. StatusOfWrite(options, writing[i]) < 400
      BY <3>1, <3>5, <3>6 DEF Informational
    <3> QED
      BY <3>4, <3>7, StatusesOfWrites DEF Writes
  <2> QED
    BY <2>1, <2>2 DEF FailuresGoOutAsFailures
<1> QED
  BY <1>1, EdgesInvariant, PTL

\* A descriptor that reaches a caller says of an error what the mapper says of
\* it, and an outermost error of ours arrives described (grpcx.go:96-135).
THEOREM DescriptorsAreTrue == Spec => []DescriptorTellsTheStatus
<1>1. EdgeInv /\ GRPCInv => DescriptorTellsTheStatus
  <2> SUFFICES ASSUME EdgeInv, GRPCInv, Answered PROVE DescriptorTellsTheStatus
    BY DEF DescriptorTellsTheStatus
  <2>1. ASSUME NEW i \in DOMAIN answer.details
        PROVE  \E e \in failures :
                 /\ answer.details[i].desc =
                      [ToDescriptor(e, MapperStatus(e)) EXCEPT !.http = Int32(@)]
                 /\ answer.code = MapperStatus(e).grpc
    <3>1. Told(answer) /\ answer.code \in 0..(Half - 1)
      BY DEF GRPCInv
    <3>2. PICK c \in 0..(CodeModulus - 1) :
            \/ answer = StatusError(c, <<>>)
            \/ \E e \in failures : answer = StatusError(c, <<Boxed(e)>>) /\ c = MapperStatus(e).grpc
      BY <3>1 DEF Told
    <3>3. answer.details # <<>>
      OBVIOUS
    <3>4. PICK e \in failures : answer = StatusError(c, <<Boxed(e)>>) /\ c = MapperStatus(e).grpc
      BY <3>2, <3>3 DEF StatusError
    <3>5. answer.code = c /\ answer.details = <<Boxed(e)>>
      BY <3>4 DEF StatusError
    <3>6. answer.details[i] = Boxed(e)
      BY <3>5
    <3>7. Int32(c) = c
      BY <3>1, <3>5, Int32Same
    <3>8. Descriptor(e, MapperStatus(e)) =
            [ToDescriptor(e, MapperStatus(e)) EXCEPT !.http = Int32(@)]
      BY <3>4, <3>7 DEF Descriptor, ToDescriptor
    <3> QED
      BY <3>4, <3>5, <3>6, <3>8 DEF Boxed
  <2>2. ASSUME IsOurs(err), Outermost.clean,
               MapperStatus(Outermost).grpc \in 1..(CodeModulus \div 2 - 1)
        PROVE  \E i \in DOMAIN answer.details :
                 answer.details[i].desc.code = Outermost.code
    <3>1. answer = StatusError(MapperStatus(Outermost).grpc, <<Boxed(Outermost)>>)
      BY <2>2 DEF GRPCInv, Answered, AnswerInv, Half
    <3>2. 1 \in DOMAIN answer.details /\ answer.details[1] = Boxed(Outermost)
      BY <3>1 DEF StatusError
    <3>3. Boxed(Outermost).desc.code = Outermost.code
      BY DEF Boxed, Descriptor
    <3> QED
      BY <3>2, <3>3
  <2> QED
    BY <2>1, <2>2 DEF DescriptorTellsTheStatus
<1> QED
  BY <1>1, EdgesInvariant, PTL

\* What is not an error of ours is passed on as it came, down a chain of any
\* length (grpcx.go:90-94).
THEOREM FailuresAreRelayed == Spec => RelayedAsIs
<1>1. EdgeInv /\ GRPCInv /\ [Next]_vars => [answer' # answer /\ call > 1 => IsOurs(err)]_vars
  <2> SUFFICES ASSUME EdgeInv, GRPCInv, Next, answer' # answer, call > 1, ~IsOurs(err)
               PROVE  FALSE
    BY DEF vars, edgeVars, grpcVars, httpVars
  <2>1. Answer
    BY DEF Next, GRPCNext, HandlerReturns, Intercept, Attach, FailedCallReturns, grpcVars
  <2>2. /\ err \in Chains /\ Told(answer) /\ answer.code \in 0..(Half - 1)
        /\ call \in 1..MaxCalls
    BY <2>1 DEF GRPCInv, Answer
  <2>3. call # 1 /\ err # <<>>
    <3>1. call # 1
      BY <2>2
    <3>2. err \in RelayedErrors
      BY <2>2, <3>1 DEF Chains
    <3> QED
      BY <3>1, <3>2 DEF RelayedErrors
  <2>4. Returned = answer
    BY <2>2, <2>3, StatusFound, AssertedIs DEF Returned
  <2>5. answer.code < CodeModulus \div 2
    BY <2>2, Modulus DEF Half
  <2> QED
    BY <2>1, <2>4, <2>5 DEF Answer
<1> QED
  BY <1>1, EdgesInvariant, PTL DEF Spec, RelayedAsIs

\* The first Write with a final status decides the response, however many
\* follow (httpx.go:58-85).
THEOREM FirstFinalWins == Spec => []FirstFinalDecides
<1>1. HTTPInv => FirstFinalDecides
  <2> DEFINE final == {i \in DOMAIN writing : Final(HTTPOf(writing[i]))}
             first == Min(final)
             set == {i \in 1..first : writing[i].retry > 0}
  <2> SUFFICES ASSUME HTTPInv, Committed, ~HandlerWrote,
                      \A w \in Writes : ~Informational(HTTPOf(w))
               PROVE  /\ final # {}
                      /\ response.status = HTTPOf(writing[first])
                      /\ response.retry = IF set = {} THEN 0 ELSE writing[Max(set)].retry
                      /\ Len(writing) = 1 => response.body \in {<<>>, <<View(Current.error)>>}
    BY DEF FirstFinalDecides
  <2>1. /\ Len(writing) \in Nat /\ DOMAIN writing = 1..Len(writing)
        /\ \A i \in 1..Done : i \in DOMAIN writing
    BY DEF HTTPInv, HTTPTypes, Done
  <2>2. \A i : HTTPOf(writing[i]) = StatusOfWrite(options, writing[i])
    BY StatusesOfWrites
  <2>3. \A i \in 1..Done : ~Informational(StatusOfWrite(options, writing[i]))
    BY <2>1, <2>2 DEF Writes
  <2>4. PICK k \in 1..Done :
       /\ Final(StatusOfWrite(options, writing[k]))
       /\ response.status = StatusOfWrite(options, writing[k])
       /\ \A i \in 1..(k - 1) : ~Final(StatusOfWrite(options, writing[i]))
       /\ response.retry = LastHint(writing, k)
       /\ Len(writing) = 1 => response.body \in {<<>>, <<View(Current.error)>>}
    BY <2>3 DEF HTTPInv, Decided
  <2>5. k \in final /\ final \in SUBSET Nat /\ \A i \in final : k <= i
    BY <2>1, <2>2, <2>4
  <2>6. first = k
    <3> HIDE DEF final
    <3> QED
      BY <2>5, MinIs
  <2>7. response.retry = IF set = {} THEN 0 ELSE writing[Max(set)].retry
    BY <2>4, <2>6 DEF LastHint
  <2> QED
    BY <2>2, <2>4, <2>5, <2>6, <2>7
<1> QED
  BY <1>1, EdgesInvariant, PTL

\* Both transports project the same status (grpcx.go:99-124, httpx.go:53-75).
THEOREM TransportsAgree == Spec => []EdgesAgree
<1>1. EdgeInv /\ GRPCInv /\ HTTPInv /\ DescriptorTellsTheStatus => EdgesAgree
  <2> DEFINE e == Current.error
  <2> SUFFICES ASSUME EdgeInv, GRPCInv, HTTPInv, DescriptorTellsTheStatus, Answered,
                      Committed, ~HandlerWrote, Len(writing) = 1, Final(HTTPOf(Current))
               PROVE  /\ \A i \in DOMAIN answer.details :
                           LET d == answer.details[i].desc IN
                           <<d.code, d.reason>> = <<e.code, e.reason>> => d.http = response.status
                      /\ \A i \in DOMAIN response.body :
                           LET v == ToView(e, MapperStatus(e)) IN
                           response.body[i].view = [code |-> v.code, reason |-> v.reason]
    BY DEF EdgesAgree
  <2>1. /\ response.status = HTTPOf(Current)
        /\ response.body \in {<<>>, <<View(e)>>}
    <3>1. Current = writing[1] /\ Done \in 0..1
      BY DEF Current, Done
    <3>2. Final(StatusOfWrite(options, writing[1]))
      BY <3>1, StatusesOfWrites
    <3>3. ~Informational(StatusOfWrite(options, writing[1]))
      BY <3>2 DEF Final
    <3>4. \A i \in 1..Done : i = 1
      BY <3>1
    <3>5. PICK k \in 1..Done :
            /\ response.status = StatusOfWrite(options, writing[k])
            /\ response.body \in {<<>>, <<View(e)>>}
      BY <3>3, <3>4 DEF HTTPInv, Decided
    <3> QED
      BY <3>1, <3>4, <3>5, StatusesOfWrites
  <2>2. ASSUME NEW i \in DOMAIN answer.details,
               answer.details[i].desc.code = e.code, answer.details[i].desc.reason = e.reason
        PROVE  answer.details[i].desc.http = response.status
    <3>1. PICK f \in failures :
            answer.details[i].desc = [ToDescriptor(f, MapperStatus(f)) EXCEPT !.http = Int32(@)]
      BY DEF DescriptorTellsTheStatus
    <3>2. /\ f.code = e.code /\ f.reason = e.reason
          /\ answer.details[i].desc.http = Int32(MapperStatus(f).http)
      BY <2>2, <3>1 DEF ToDescriptor
    <3>3. MapperStatus(f).http = HTTPOf(Current)
      BY <3>2 DEF MapperStatus, HTTPOf
    <3>4. HTTPOf(Current) \in 0..(Half - 1)
      <4>1. \A c \in 100..999 : c \in 0..(Half - 1)
        BY Modulus, EdgeAssumption DEF Half
      <4> QED
        BY <4>1 DEF Final
    <3> QED
      BY <2>1, <3>2, <3>3, <3>4, Int32Same
  <2>3. \A i \in DOMAIN response.body : response.body[i] = View(e)
    BY <2>1
  <2>4. View(e).view = [code |-> ToView(e, MapperStatus(e)).code,
                        reason |-> ToView(e, MapperStatus(e)).reason]
    BY DEF View, ToView
  <2> QED
    BY <2>2, <2>3, <2>4
<1> QED
  BY <1>1, EdgesInvariant, DescriptorsAreTrue, PTL

-----------------------------------------------------------------------------
(* The tables of package mapper beside the comments of package code.       *)

\* A mapper built without options answers from the tables.
LEMMA StatusWithoutOptions ==
  ASSUME NEW t, NEW c, NEW r, <<t, c>> \in DOMAIN Library
  PROVE  Status(<<>>, t, c, r) = Library[<<t, c>>]
<1>1. \A kind : Chosen(<<>>, kind, t, c) = {}
  BY DEF Chosen
<1>2. {i \in Chosen(<<>>, "prefix", t, c) : Matches(Prefix(<<>>, i), r)} = {}
  BY <1>1
<1> QED
  BY <1>1, <1>2 DEF Status

\* Both tables know every code of every const block, the statuses are among
\* those its comment offers, and the gRPC codes those it names.
LEMMA TablesAsOffered ==
  ASSUME NEW block \in Blocks, NEW c \in DOMAIN block
  PROVE  /\ c \in DOMAIN DefaultHTTP /\ c \in DOMAIN DefaultGRPC
         /\ DefaultHTTP[c] \in block[c]
         /\ c \in DOMAIN AuthGRPC => DefaultGRPC[c] = AuthGRPC[c]
<1>1. CASE block = CoreCodes
  BY <1>1 DEF CoreCodes, AuthGRPC, DefaultHTTP, DefaultGRPC
<1>2. CASE block = RuntimeCodes
  BY <1>2 DEF RuntimeCodes, AuthGRPC, DefaultHTTP, DefaultGRPC
<1>3. CASE block = ResourceCodes
  BY <1>3 DEF ResourceCodes, AuthGRPC, DefaultHTTP, DefaultGRPC
<1>4. CASE block = AuthCodes
  BY <1>4 DEF AuthCodes, AuthGRPC, DefaultHTTP, DefaultGRPC
<1>5. CASE block = RateCodes
  BY <1>5 DEF RateCodes, AuthGRPC, DefaultHTTP, DefaultGRPC
<1> QED
  BY <1>1, <1>2, <1>3, <1>4, <1>5 DEF Blocks

\* Without options a library code is answered as its own comment offers, for
\* every reason (code/codes.go, mapper/defaults.go:32-127).
THEOREM LibraryAnswersAsOffered == Spec => []DefaultsAsOffered
<1>1. DefaultsAsOffered
  <2> SUFFICES ASSUME options = <<>>,
                      NEW block \in Blocks, NEW c \in DOMAIN block \cap Code
               PROVE  /\ {<<"http", c>>, <<"grpc", c>>} \subseteq DOMAIN Library
                      /\ \A r \in Reason :
                           /\ Status(options, "http", c, r) \in block[c]
                           /\ c \in DOMAIN AuthGRPC
                                => Status(options, "grpc", c, r) = AuthGRPC[c]
    BY DEF DefaultsAsOffered
  <2>1. /\ c \in DOMAIN DefaultHTTP /\ c \in DOMAIN DefaultGRPC
        /\ DefaultHTTP[c] \in block[c]
        /\ c \in DOMAIN AuthGRPC => DefaultGRPC[c] = AuthGRPC[c]
    BY TablesAsOffered
  <2>2. /\ <<"http", c>> \in DOMAIN Library /\ Library[<<"http", c>>] = DefaultHTTP[c]
        /\ <<"grpc", c>> \in DOMAIN Library /\ Library[<<"grpc", c>>] = DefaultGRPC[c]
    BY <2>1 DEF Library, Slot, Transport, DefaultTable
  <2>3. ASSUME NEW r \in Reason
        PROVE  /\ Status(options, "http", c, r) = DefaultHTTP[c]
               /\ Status(options, "grpc", c, r) = DefaultGRPC[c]
    BY <2>2, StatusWithoutOptions
  <2> QED
    BY <2>1, <2>2, <2>3
<1> QED
  BY <1>1, PTL
=============================================================================
