---------------------------- MODULE ErrorContract ----------------------------
(***************************************************************************)
(* What the helpers of derrors.Error promise ("All mutation helpers return *)
(* a shallow copy, so Error instances can be safely shared"): an error is  *)
(* a value.  Whoever holds it, and whatever others derive from it or do to *)
(* their own maps, it never changes; a helper returns the value it was     *)
(* called on with one thing changed.  ErrorValues implements this.         *)
(***************************************************************************)
EXTENDS Integers, Sequences, GoMaps

CONSTANTS
  Goroutine,
  Code, Reason, Message,   \* texts, as atoms; NoReason is the empty reason
  NoReason,
  Key, Val,                \* of the details
  NoCause, Foreign         \* the nil error; an error of another package

VARIABLES
  values,    \* the errors returned so far
  kv,        \* per goroutine: its own map of details
  running,   \* per goroutine: whether it is in a call that makes a new error
  pending    \* per goroutine: the value that call will return

vars == <<values, kv, running, pending>>

Blank == [code |-> NoReason, reason |-> NoReason, message |-> NoReason,
          details |-> EmptyMap, cause |-> NoCause]

Init ==
  /\ values = <<>>
  /\ kv = [g \in Goroutine |-> EmptyMap]
  /\ running = [g \in Goroutine |-> FALSE]
  /\ pending = [g \in Goroutine |-> Blank]

\* The caller makes a map, or stores into it; no error is affected.
NewMap(g) ==
  /\ ~running[g]
  /\ kv' = [kv EXCEPT ![g] = EmptyMap]
  /\ UNCHANGED <<values, running, pending>>

SetMap(g, k, x) ==
  /\ ~running[g]
  /\ kv' = [kv EXCEPT ![g] = Put(@, k, x)]
  /\ UNCHANGED <<values, running, pending>>

\* What one helper may make of value v, given the caller's map m.
Changes(v, m) ==
  {[v EXCEPT !.reason = r] : r \in Reason}
    \cup {[v EXCEPT !.message = t] : t \in Message}
    \cup {[v EXCEPT !.details = Put(@, k, x)] : k \in Key, x \in Val}
    \cup {[v EXCEPT !.details = Merge(@, m)]}
    \cup {[v EXCEPT !.cause = c] :
            c \in (DOMAIN values) \cup {Foreign}}

New == {[code |-> c, reason |-> NoReason, message |-> t, details |-> EmptyMap,
         cause |-> NoCause] : c \in Code, t \in Message}

Call(g) ==
  /\ ~running[g]
  /\ running' = [running EXCEPT ![g] = TRUE]
  /\ \E v \in New \cup UNION {Changes(values[i], kv[g]) : i \in DOMAIN values} :
       pending' = [pending EXCEPT ![g] = v]
  /\ UNCHANGED <<values, kv>>

Return(g) ==
  /\ running[g]
  /\ values' = Append(values, pending[g])
  /\ running' = [running EXCEPT ![g] = FALSE]
  /\ pending' = [pending EXCEPT ![g] = Blank]
  /\ UNCHANGED kv

Next ==
  \E g \in Goroutine :
    \/ NewMap(g)
    \/ \E k \in Key, x \in Val : SetMap(g, k, x)
    \/ Call(g)
    \/ Return(g)

Spec == Init /\ [][Next]_vars
=============================================================================
