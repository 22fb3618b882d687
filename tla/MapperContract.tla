--------------------------- MODULE MapperContract ---------------------------
(***************************************************************************)
(* What mapper.New promises: it returns in one step, either an error or a  *)
(* mapper whose answer to every query is the one the option list alone     *)
(* determines.  Neither another call of New nor the order in which Go      *)
(* ranges over a map has a say.  Mapper implements this.                   *)
(***************************************************************************)
EXTENDS StatusPolicy

VARIABLES
  opts,     \* per call: the options given
  outcome   \* per call: nothing yet, an error, or the mapper's answers

vars == <<opts, outcome>>

NotCalled == [state |-> "none", status |-> <<>>]
Running == [state |-> "running", status |-> <<>>]
Failed == [state |-> "error", status |-> <<>>]

Init ==
  /\ opts = [b \in Build |-> <<>>]
  /\ outcome = [b \in Build |-> NotCalled]

CallNew(b, o) ==
  /\ outcome[b] = NotCalled
  /\ opts' = [opts EXCEPT ![b] = o]
  /\ outcome' = [outcome EXCEPT ![b] = Running]

ReturnNew(b) ==
  /\ outcome[b] = Running
  /\ \/ /\ Buildable(opts[b])
        /\ outcome' = [outcome EXCEPT ![b] =
             [state |-> "mapper",
              status |-> [q \in Query |-> Status(opts[b], q[1], q[2], q[3])]]]
     \/ /\ ~Buildable(opts[b])
        /\ outcome' = [outcome EXCEPT ![b] = Failed]
  /\ UNCHANGED opts

Next == \E b \in Build : ReturnNew(b) \/ \E o \in OptionList : CallNew(b, o)

Spec == Init /\ [][Next]_vars
=============================================================================
