----------------------------- MODULE ErrorValues -----------------------------
(***************************************************************************)
(* derrors.Error (derrors.go, option.go) as pointers: errors and details   *)
(* maps are objects that goroutines share, and a helper that changes the   *)
(* details copies a map entry by entry, in whatever order Go ranges over   *)
(* it, while others read and derive from the same errors.                  *)
(*                                                                         *)
(* E applies its options to the new error by calling the helpers in order: *)
(* an option is the helper it calls (option.go), here a further call of    *)
(* the same goroutine on what the previous one returned.                   *)
(*                                                                         *)
(* Pointers are positions in `errors' and `maps'; 0 is nil.                *)
(***************************************************************************)
EXTENDS Integers, Sequences, FiniteSets, GoMaps

CONSTANTS
  Goroutine, Code, Reason, Message, NoReason, Key, Val,
  NoCause, Foreign,               \* as in ErrorContract
  MaxErrors, MaxMaps              \* bounds: objects allocated

ASSUME ErrorAssumption ==
  /\ NoCause \notin Int
  /\ Foreign \notin Int
  /\ NoCause # Foreign
  /\ MaxErrors \in Nat
  /\ MaxMaps \in Nat

VARIABLES
  errors,   \* every *Error returned so far
  maps,     \* every details map made so far, the callers' own included
  kv,       \* per goroutine: its own map, which it passes to WithDetails
  frame     \* per goroutine: the helper it is in

vars == <<errors, maps, kv, frame>>

Blank == [code |-> NoReason, reason |-> NoReason, message |-> NoReason,
          details |-> 0, cause |-> NoCause]

\* A helper's locals: cp, the map it is making, the keys it has still to copy
\* from the old map, and the entries and keys that go in after that.
NoFrame == [state |-> "idle", cp |-> Blank, made |-> 0, left |-> {},
            over |-> EmptyMap, overLeft |-> {}]

Init ==
  /\ errors = <<>>
  /\ maps = <<>>
  /\ kv = [g \in Goroutine |-> 0]
  /\ frame = [g \in Goroutine |-> NoFrame]

Content(r) == IF r = 0 THEN EmptyMap ELSE maps[r]

Idle(g) == frame[g].state = "idle"

\* Bound: the error the call will return is still within MaxErrors.
Room ==
  Len(errors) + Cardinality({g \in Goroutine : frame[g].state # "idle"}) < MaxErrors

-----------------------------------------------------------------------------
(* The callers' own maps.                                                  *)

NewMap(g) ==
  /\ Idle(g)
  /\ Len(maps) < MaxMaps
  /\ maps' = Append(maps, EmptyMap)
  /\ kv' = [kv EXCEPT ![g] = Len(maps) + 1]
  /\ UNCHANGED <<errors, frame>>

SetMap(g, k, x) ==
  /\ Idle(g)
  /\ kv[g] # 0
  /\ maps' = [maps EXCEPT ![kv[g]] = Put(@, k, x)]
  /\ UNCHANGED <<errors, kv, frame>>

-----------------------------------------------------------------------------
(* The helpers.                                                            *)

\* cp is finished: what is left is to return its address.
Ready(g, cp) ==
  /\ frame' = [frame EXCEPT ![g] =
       [state |-> "return", cp |-> cp, made |-> 0, left |-> {},
        over |-> EmptyMap, overLeft |-> {}]]
  /\ UNCHANGED <<errors, maps, kv>>

\* A helper with nothing to change returns its receiver: no new error.
ReturnReceiver == UNCHANGED vars

E(g, c, msg) ==
  /\ Idle(g)
  /\ Room
  /\ Ready(g, [code |-> c, reason |-> NoReason, message |-> msg, details |-> 0,
               cause |-> NoCause])

WithReason(g, e, r) ==
  /\ Idle(g)
  /\ Room
  /\ Ready(g, [errors[e] EXCEPT !.reason = r])

WithMessage(g, e, msg) ==
  /\ Idle(g)
  /\ Room
  /\ Ready(g, [errors[e] EXCEPT !.message = msg])

\* Mutant: the cause is stored in the receiver itself.
WithCauseInPlace(g, e, c) ==
  /\ Idle(g)
  /\ errors' = [errors EXCEPT ![e].cause = c]
  /\ UNCHANGED <<maps, kv, frame>>

WithCause(g, e, c) ==
  /\ Idle(g)
  /\ \/ c = NoCause /\ ReturnReceiver
     \/ c # NoCause /\ Room /\ Ready(g, [errors[e] EXCEPT !.cause = c])

\* Mutant: new entries are stored in the receiver's map when there is one.
MakeInPlace(g, e, over) ==
  /\ Room
  /\ Len(maps) < MaxMaps
  /\ IF errors[e].details = 0
     THEN /\ maps' = Append(maps, EmptyMap)
          /\ frame' = [frame EXCEPT ![g] =
               [NoFrame EXCEPT !.state = "copy", !.cp = errors[e],
                  !.made = Len(maps) + 1, !.over = over, !.overLeft = DOMAIN over]]
     ELSE /\ frame' = [frame EXCEPT ![g] =
               [NoFrame EXCEPT !.state = "copy", !.cp = errors[e],
                  !.made = errors[e].details, !.over = over, !.overLeft = DOMAIN over]]
          /\ UNCHANGED maps
  /\ UNCHANGED <<errors, kv>>

\* Make the map that gets the receiver's entries and then those of `over'.
Make(g, e, over) ==
  /\ Room
  /\ Len(maps) < MaxMaps
  /\ maps' = Append(maps, EmptyMap)
  /\ frame' = [frame EXCEPT ![g] =
       [state |-> "copy", cp |-> errors[e], made |-> Len(maps) + 1,
        left |-> DOMAIN Content(errors[e].details),
        over |-> over, overLeft |-> DOMAIN over]]
  /\ UNCHANGED <<errors, kv>>

WithDetail(g, e, k, x) ==
  /\ Idle(g)
  /\ Make(g, e, Put(EmptyMap, k, x))

\* Mutant: an empty map is merged like any other.
WithDetailsAlways(g, e) ==
  /\ Idle(g)
  /\ Make(g, e, Content(kv[g]))

\* Mutant: a receiver without details takes the caller's map itself.
WithDetailsKeepsMap(g, e) ==
  /\ Idle(g)
  /\ \/ Content(kv[g]) = EmptyMap /\ ReturnReceiver
     \/ /\ Content(kv[g]) # EmptyMap
        /\ errors[e].details = 0
        /\ Room
        /\ Ready(g, [errors[e] EXCEPT !.details = kv[g]])
     \/ /\ Content(kv[g]) # EmptyMap
        /\ errors[e].details # 0
        /\ Make(g, e, Content(kv[g]))

\* The caller is in this call and so leaves its map alone until it returns.
WithDetails(g, e) ==
  /\ Idle(g)
  /\ \/ Content(kv[g]) = EmptyMap /\ ReturnReceiver
     \/ Content(kv[g]) # EmptyMap /\ Make(g, e, Content(kv[g]))

Store(g, k, x) ==
  maps' = [maps EXCEPT ![frame[g].made] = Put(@, k, x)]

CopyEntry(g, k) ==
  /\ frame[g].state = "copy"
  /\ k \in frame[g].left
  /\ Store(g, k, Content(frame[g].cp.details)[k])
  /\ frame' = [frame EXCEPT ![g].left = @ \ {k}]
  /\ UNCHANGED <<errors, kv>>

\* Mutant: the old entries do not go in first, so they may win.
StoreEntryAnyTime(g, k) ==
  /\ frame[g].state = "copy"
  /\ k \in frame[g].overLeft
  /\ Store(g, k, frame[g].over[k])
  /\ frame' = [frame EXCEPT ![g].overLeft = @ \ {k}]
  /\ UNCHANGED <<errors, kv>>

\* New entries go in after the old ones, and so replace them.
StoreEntry(g, k) ==
  /\ frame[g].state = "copy"
  /\ frame[g].left = {}
  /\ k \in frame[g].overLeft
  /\ Store(g, k, frame[g].over[k])
  /\ frame' = [frame EXCEPT ![g].overLeft = @ \ {k}]
  /\ UNCHANGED <<errors, kv>>

Attach(g) ==
  /\ frame[g].state = "copy"
  /\ frame[g].left \cup frame[g].overLeft = {}
  /\ Ready(g, [frame[g].cp EXCEPT !.details = frame[g].made])

Return(g) ==
  /\ frame[g].state = "return"
  /\ errors' = Append(errors, frame[g].cp)
  /\ frame' = [frame EXCEPT ![g] = NoFrame]
  /\ UNCHANGED <<maps, kv>>

-----------------------------------------------------------------------------
Step(g) ==
  \/ NewMap(g)
  \/ \E k \in Key, x \in Val : SetMap(g, k, x)
  \/ \E c \in Code, msg \in Message : E(g, c, msg)
  \/ \E e \in DOMAIN errors :
       \/ \E r \in Reason : WithReason(g, e, r)
       \/ \E msg \in Message : WithMessage(g, e, msg)
       \/ \E c \in (DOMAIN errors) \cup {NoCause, Foreign} : WithCause(g, e, c)
       \/ \E k \in Key, x \in Val : WithDetail(g, e, k, x)
       \/ WithDetails(g, e)
  \/ \E k \in Key : CopyEntry(g, k)
  \/ \E k \in Key : StoreEntry(g, k)
  \/ Attach(g)
  \/ Return(g)

Next == \E g \in Goroutine : Step(g)

Spec == Init /\ [][Next]_vars

-----------------------------------------------------------------------------
(* Properties.                                                             *)

\* What an error says: its fields, the details map read through.
Value(e) == [code |-> e.code, reason |-> e.reason, message |-> e.message,
             details |-> Content(e.details), cause |-> e.cause]

Cause == {NoCause, Foreign} \cup (1..Len(errors))
Details == UNION {[K -> Val] : K \in SUBSET Key}
ErrorRecord ==
  [code : Code \cup {NoReason}, reason : Reason \cup {NoReason},
   message : Message \cup {NoReason}, details : 0..Len(maps), cause : Cause]
Frame ==
  [state : {"idle", "copy", "return"}, cp : ErrorRecord, made : 0..Len(maps),
   left : SUBSET Key, over : Details, overLeft : SUBSET Key]

Typed ==
  /\ errors \in Seq(ErrorRecord)
  /\ maps \in Seq(Details)
  /\ kv \in [Goroutine -> 0..Len(maps)]
  /\ frame \in [Goroutine -> Frame]

\* An error has no details or at least one: no empty map is left behind.
NoEmptyDetails ==
  /\ \A i \in DOMAIN errors :
       errors[i].details # 0 => Content(errors[i].details) # EmptyMap
  /\ \A g \in Goroutine :
       frame[g].cp.details # 0 => Content(frame[g].cp.details) # EmptyMap

\* Types; in particular a details map is nil or holds an entry, which is what
\* lets WithDetail and WithDetails test its length only (derrors.go:127, 151).
TypeOK == Typed /\ NoEmptyDetails

\* A published error never changes, through any pointer to it or to its map:
\* what the comment on Error promises (derrors.go:35-36, 51-53, 122-123).
Immutable ==
  [][\A i \in DOMAIN errors :
       i \in DOMAIN errors' /\ Value(errors[i])' = Value(errors[i])]_vars

\* The maps that errors, or errors about to be returned, point to, and those
\* that goroutine g may store into.
Shared ==
  {errors[i].details : i \in DOMAIN errors}
    \cup {frame[g].cp.details : g \in Goroutine}
Private(g) == {kv[g], frame[g].made} \ {0}

\* Nothing that is stored into is shared: a map being filled is known to the
\* one helper that fills it, and a caller's own map to no error (WithDetails
\* copies it even when the receiver has no details, derrors.go:150-158).
Sealed ==
  /\ \A g \in Goroutine : Private(g) \cap Shared = {}
  /\ \A g, h \in Goroutine : g # h => Private(g) \cap Private(h) = {}
  /\ \A g \in Goroutine :
       frame[g].state = "copy" => frame[g].made \notin {0, kv[g]}

\* What a helper in frame f has made of the old map so far, the old entries
\* first: so a key of both ends with its new value.
CopiedSoFar(f, old, made) ==
  LET done == DOMAIN f.over \ f.overLeft IN
  /\ f.left \subseteq DOMAIN old
  /\ f.overLeft \subseteq DOMAIN f.over
  /\ DOMAIN f.over # {}
  /\ f.left # {} => done = {}
  /\ made = [k \in (DOMAIN old \ f.left) \cup done |->
               IF k \in done THEN f.over[k] ELSE old[k]]

\* Half-way through a copy the new map holds what has been copied so far, and
\* no old entry is still to come once a new one is in, so that none is lost
\* and no new one overwritten (derrors.go:132-137, 160-167).
Copied ==
  \A g \in Goroutine : frame[g].state = "copy" =>
    CopiedSoFar(frame[g], Content(frame[g].cp.details), maps[frame[g].made])

\* A cause is older than the error that wraps it, so no chain of causes that
\* the helpers build has a cycle and every errors.Is or errors.As that walks
\* one with Unwrap ends (derrors.go:101, 173-180).
Unwrap(i) == errors[i].cause
CausesOlder ==
  \A i \in DOMAIN errors : Unwrap(i) \in Int => Unwrap(i) < i

\* The abstract state: errors and the callers' maps read through, and what
\* each running helper will return.
Values == [i \in DOMAIN errors |-> Value(errors[i])]
Own == [g \in Goroutine |-> Content(kv[g])]
Running == [g \in Goroutine |-> frame[g].state # "idle"]
Merged(f) == [code |-> f.cp.code, reason |-> f.cp.reason, message |-> f.cp.message,
              details |-> Merge(Content(f.cp.details), f.over), cause |-> f.cp.cause]
Pending == [g \in Goroutine |->
  IF frame[g].state = "copy" THEN Merged(frame[g]) ELSE Value(frame[g].cp)]

\* Pointers, shared maps and entry-by-entry copies behave as values that each
\* helper changes in one thing, whatever other goroutines do meanwhile.
Contract == INSTANCE ErrorContract WITH
              values <- Values, kv <- Own, running <- Running, pending <- Pending
ImplementsContract == Contract!Spec
=============================================================================
