------------------------------ MODULE HTTPEdge ------------------------------
(***************************************************************************)
(* One HTTP response and the calls of httpx.Writer.Write on it.  The       *)
(* handler may have begun a response of its own, a middleware may call     *)
(* Write again, and WriteHeader may panic, after which a middleware may    *)
(* recover and write.  net/http is external.                               *)
(***************************************************************************)
EXTENDS EdgeMapper, Sequences

CONSTANTS
  MaxWrites,    \* bound: calls of Write on one response
  RetrySeconds  \* values of Meta.RetryAfterSeconds

ASSUME WritesAssumption ==
  /\ MaxWrites \in Nat \ {0}
  /\ RetrySeconds \subseteq Int

VARIABLES
  step,      \* where Write is: "outside", "header", "body", or "panicked"
  writing,   \* the errors and metas Write was called with so far
  header,    \* the header map's Retry-After, 0 for none
  response   \* what is out: status (0 for none), Retry-After, and body

httpVars == <<step, writing, header, response>>

\* In a body: a piece the handler wrote, or the view of an error.
Piece == [from |-> "handler"]
View(e) == [from |-> "view", view |-> [code |-> e.code, reason |-> e.reason]]

Write(e, retry) == [error |-> e, retry |-> retry]

HTTPInit ==
  /\ step = "outside"
  /\ writing = <<>>
  /\ header = 0
  /\ response = [status |-> 0, retry |-> 0, body |-> <<>>]

Committed == response.status # 0

\* The status line and the header map go out together.
Commit(code, body) == [status |-> code, retry |-> header, body |-> body]

\* The handler writes a piece of its own answer before anything fails.
HandlerWrites ==
  /\ step = "outside"
  /\ writing = <<>>
  /\ ~Committed
  /\ response' = Commit(200, <<Piece>>)
  /\ UNCHANGED <<edgeVars, step, writing, header>>

\* Mutant: Retry-After is set whatever the hint says.
CallWriteAnyHint(e, retry) ==
  /\ step = "outside"
  /\ Len(writing) < MaxWrites
  /\ step' = "header"
  /\ writing' = Append(writing, Write(e, retry))
  /\ header' = retry
  /\ UNCHANGED <<edgeVars, response>>

\* Write returns at once for a nil error, so a call of it is not a step.  The
\* header map is set, whether or not it can still go out.
CallWrite(e, retry) ==
  /\ step = "outside"
  /\ Len(writing) < MaxWrites
  /\ step' = "header"
  /\ writing' = Append(writing, Write(e, retry))
  /\ header' = IF retry > 0 THEN retry ELSE header
  /\ UNCHANGED <<edgeVars, response>>

Current == writing[Len(writing)]
CurrentStatus == MapperStatus(Current.error).http

\* 101 is final: the connection is no longer HTTP's.
Informational(code) == code \in 100..199 /\ code # 101
Final(code) == code \in 100..999 /\ ~Informational(code)
BodyAllowed(code) == code \notin {101, 204, 304}

\* Mutant: a status WriteHeader would refuse is left to net/http's default.
WriteHeaderDefault ==
  /\ step = "header"
  /\ step' = "body"
  /\ response' = IF Committed \/ CurrentStatus \notin 200..999
                 THEN response ELSE Commit(CurrentStatus, <<>>)
  /\ UNCHANGED <<edgeVars, writing, header>>

\* Mutant: the status is asked for by the code alone.
WriteHeaderByCode ==
  LET status == Status(options, "http", Current.error.code, <<>>) IN
  /\ step = "header"
  /\ step' = IF Committed \/ status \in 100..999 THEN "body" ELSE "panicked"
  /\ response' = IF Committed \/ ~Final(status) THEN response ELSE Commit(status, <<>>)
  /\ UNCHANGED <<edgeVars, writing, header>>

\* WriteHeader(st.HTTP): superfluous after a status line; otherwise it panics
\* out of 100..999, and leaves the response open after an informational one.
WriteHeader ==
  LET status == CurrentStatus IN
  /\ step = "header"
  /\ step' = IF Committed \/ status \in 100..999 THEN "body" ELSE "panicked"
  /\ response' = IF Committed \/ ~Final(status) THEN response ELSE Commit(status, <<>>)
  /\ UNCHANGED <<edgeVars, writing, header>>

\* Marshal, and Write of its bytes: none if the view has invalid UTF-8.  Both
\* errors are ignored: the write may fail, or have no body to go to.  Bytes
\* that go out before a status line commit 200.
WriteBody ==
  LET bytes == IF Current.error.clean THEN <<View(Current.error)>> ELSE <<>>
      open == IF Committed THEN response ELSE Commit(200, <<>>)
  IN
  /\ step = "body"
  /\ step' = "outside"
  /\ \/ response' = open
     \/ /\ BodyAllowed(open.status)
        /\ response' = [open EXCEPT !.body = @ \o bytes]
  /\ UNCHANGED <<edgeVars, writing, header>>

\* A middleware recovers from the panic.
Recover ==
  /\ step = "panicked"
  /\ step' = "outside"
  /\ UNCHANGED <<edgeVars, writing, header, response>>

HTTPNext ==
  \/ HandlerWrites
  \/ \E e \in failures, retry \in RetrySeconds : CallWrite(e, retry)
  \/ WriteHeader
  \/ WriteBody
  \/ Recover
=============================================================================
