------------------------ MODULE ErrorRefinementProofs ------------------------
(***************************************************************************)
(* ErrorValues implements ErrorContract: pointers to shared maps, copied   *)
(* entry by entry, behave as values.  A call's first step is the contract's *)
(* Call, its Return the contract's Return; every step between them maps to *)
(* a stutter, since by Copied the map being filled ends as the merge the   *)
(* call will return and by ContentKept nobody else's value moves.          *)
(***************************************************************************)
EXTENDS ErrorValuesProofs

\* A value: an error read through its pointers.
ValueSet == [code : Code \cup {NoReason}, reason : Reason \cup {NoReason},
             message : Message \cup {NoReason}, details : Details,
             cause : {NoCause, Foreign} \cup Nat]

LEMMA ValueType ==
  ASSUME Base
  PROVE  /\ \A cp \in ErrorRecord : Value(cp) \in ValueSet
         /\ Values \in Seq(ValueSet) /\ Len(Values) = Len(errors)
         /\ DOMAIN Values = DOMAIN errors
<1>1. ASSUME NEW cp \in ErrorRecord
      PROVE  Value(cp) \in ValueSet
  <2>1. cp.details \in 0..Len(maps)
    BY DEF ErrorRecord
  <2>2. Content(cp.details) \in Details
    BY <2>1, ContentType DEF Base
  <2>3. cp.cause \in {NoCause, Foreign} \cup Nat
    BY TypeFacts DEF ErrorRecord, Cause, Base
  <2> QED
    BY <2>2, <2>3 DEF Value, ValueSet, ErrorRecord
<1>2. \A i \in 1..Len(errors) : Value(errors[i]) \in ValueSet
  BY <1>1, TypeFacts DEF Base
<1>3. DOMAIN errors = 1..Len(errors) /\ Len(errors) \in Nat
  BY TypeFacts DEF Base
<1>4. Values \in [1..Len(errors) -> ValueSet]
  BY <1>2, <1>3 DEF Values
<1>5. Values \in Seq(ValueSet)
  BY <1>3, <1>4
<1> QED
  BY <1>1, <1>3, <1>4, <1>5

\* Maps mean the same on both sides.
LEMMA SameMaps ==
  /\ Contract!EmptyMap = EmptyMap
  /\ \A m, k, x : Contract!Put(m, k, x) = Put(m, k, x)
  /\ \A m, n : Contract!Merge(m, n) = Merge(m, n)
BY DEF Contract!EmptyMap, EmptyMap, Contract!Put, Put, Contract!Merge, Merge

LEMMA ContractBlank == Value(Blank) = Contract!Blank
BY SameMaps DEF Value, Blank, Content, Contract!Blank

LEMMA InitContract == Init => Contract!Init
<1> SUFFICES ASSUME Init PROVE Contract!Init
  OBVIOUS
<1>1. Values = <<>>
  BY DEF Init, Values
<1>2. Own = [g \in Goroutine |-> Contract!EmptyMap]
  BY SameMaps DEF Init, Own, Content
<1>3. Running = [g \in Goroutine |-> FALSE]
  BY DEF Init, Running, NoFrame
<1>4. \A g \in Goroutine : frame[g].cp = Blank /\ frame[g].state = "idle"
  BY DEF Init, NoFrame
<1>5. Pending = [g \in Goroutine |-> Contract!Blank]
  BY <1>4, ContractBlank DEF Pending
<1> QED
  BY <1>1, <1>2, <1>3, <1>5 DEF Contract!Init

-----------------------------------------------------------------------------
(* What a step leaves of the abstract state.                               *)

\* Errors and frames read the same as long as they point to the same maps.
LEMMA ValueKept ==
  ASSUME Base, NEW g \in Goroutine, Step(g)
  PROVE  \A cp : cp.details \in Shared => Value(cp)' = Value(cp)
<1>1. \A r \in Shared : Content(r)' = Content(r)
  BY ContentKept
<1> QED
  BY <1>1 DEF Value

\* What goroutine h's helper will return, while its frame stays.
LEMMA PendingKept ==
  ASSUME Base, NEW g \in Goroutine, Step(g), NEW h \in Goroutine,
         frame'[h].cp = frame[h].cp, frame'[h].state = frame[h].state,
         frame'[h].over = frame[h].over
  PROVE  Pending'[h] = Pending[h] /\ Running'[h] = Running[h]
<1>1. Content(frame[h].cp.details)' = Content(frame[h].cp.details)
  <2>1. \A r \in Shared : Content(r)' = Content(r)
    BY ContentKept
  <2>2. frame[h].cp.details \in Shared
    BY InShared
  <2> QED
    BY <2>1, <2>2 DEF Content
<1>2. Value(frame[h].cp)' = Value(frame[h].cp)
  BY <1>1 DEF Value
<1>3. Merged(frame[h])' = Merged(frame[h])
  BY <1>1 DEF Merged, Merge
<1>4. Running'[h] = Running[h]
  BY DEF Running
<1>5. Pending'[h] = Pending[h]
  BY <1>2, <1>3 DEF Pending
<1> QED
  BY <1>4, <1>5

\* A goroutine's own map, unless it is the one to make it or store into it.
LEMMA OwnKept ==
  ASSUME Base, NEW g \in Goroutine, Step(g), NEW h \in Goroutine,
         kv'[h] = kv[h], h # g \/ maps' = maps \/ ~Idle(g)
  PROVE  Own'[h] = Own[h]
<1>1. kv[h] \in 0..Len(maps) /\ DOMAIN maps = 1..Len(maps)
  BY TypeFacts DEF Base
<1>2. CASE kv[h] = 0
  BY <1>2 DEF Own, Content
<1>3. CASE h # g /\ kv[h] # 0
  <2>1. kv[h] \in Private(h) /\ kv[h] \notin Private(g)
    BY <1>3 DEF Base, Sealed, Private
  <2>2. maps'[kv[h]] = maps[kv[h]]
    BY <1>1, <1>3, <2>1, StepEffect DEF MapsKept
  <2> QED
    BY <2>2 DEF Own, Content
<1>4. CASE maps' = maps
  BY <1>4 DEF Own, Content
<1>5. CASE h = g /\ ~Idle(g)
  <2>1. \A cp : Ready(g, cp) => maps' = maps
    BY DEF Ready
  <2>2. maps' = maps \/ (frame[g].state = "copy" /\ \E k, x : Store(g, k, x))
    BY <1>5, <2>1 DEF Step, NewMap, SetMap, E, WithReason, WithMessage, WithCause,
                      WithDetail, WithDetails, CopyEntry, StoreEntry, Attach, Return
  <2>3. frame[g].state = "copy" => frame[g].made # kv[g]
    BY DEF Base, Sealed
  <2>4. \A k, x : Store(g, k, x) =>
           \A r \in DOMAIN maps : r # frame[g].made => maps'[r] = maps[r]
    BY DEF Store
  <2>5. kv[g] \in DOMAIN maps => maps'[kv[g]] = maps[kv[g]]
    BY <2>2, <2>3, <2>4
  <2> QED
    BY <1>1, <1>2, <1>5, <2>5 DEF Own, Content
<1> QED
  BY <1>2, <1>3, <1>4, <1>5

\* Errors returned earlier keep their values.
LEMMA ValuesKept ==
  ASSUME Base, NEW g \in Goroutine, Step(g), errors' = errors
  PROVE  Values' = Values
<1>1. \A i \in DOMAIN errors : Value(errors[i])' = Value(errors[i])
  <2>1. \A r \in Shared : Content(r)' = Content(r)
    BY ContentKept
  <2>2. \A i \in DOMAIN errors : Content(errors[i].details)' = Content(errors[i].details)
    BY <2>1, InShared DEF Content
  <2> QED
    BY <2>2 DEF Value
<1> QED
  BY <1>1 DEF Values

-----------------------------------------------------------------------------
(* A helper's first step is the contract's Call.                           *)

\* The step changes the abstract state at g alone.
LEMMA CallStep ==
  ASSUME Base, NEW g \in Goroutine, Step(g), Idle(g), errors' = errors, kv' = kv,
         maps' = maps \/ maps' = Append(maps, EmptyMap),
         frame'[g].state # "idle", NEW v, Pending'[g] = v,
         v \in Contract!New \/
           \E i \in DOMAIN Values : v \in Contract!Changes(Values[i], Own[g])
  PROVE  Contract!Call(g)
<1>1. \A h \in Goroutine : h # g => frame'[h] = frame[h]
  BY StepEffect
<1>2. Values' = Values
  BY ValuesKept
<1>3. Own' = Own
  <2>1. \A h \in Goroutine : kv[h] \in 0..Len(maps)
    BY TypeFacts DEF Base
  <2>2. \A r \in DOMAIN maps : maps'[r] = maps[r]
    <3>1. maps \in Seq(Details)
      BY DEF Base, Typed
    <3>2. ASSUME maps' = Append(maps, EmptyMap), NEW r \in DOMAIN maps
          PROVE  maps'[r] = maps[r]
      BY <3>1, <3>2
    <3> QED
      BY <3>2
  <2>3. \A h \in Goroutine : Content(kv[h])' = Content(kv[h])
    BY <2>1, <2>2, TypeFacts DEF Content, Base
  <2> QED
    BY <2>3 DEF Own
<1>4. \A h \in Goroutine : h # g => Pending'[h] = Pending[h] /\ Running'[h] = Running[h]
  BY <1>1, PendingKept
<1>5. ~Running[g] /\ Running'[g] = TRUE
  BY DEF Running, Idle
<1>6. Running' = [Running EXCEPT ![g] = TRUE]
  BY <1>4, <1>5 DEF Running
<1>7. Pending' = [Pending EXCEPT ![g] = v]
  BY <1>4 DEF Pending
<1>8. \E w \in Contract!New \cup UNION {Contract!Changes(Values[i], Own[g]) : i \in DOMAIN Values} :
         Pending' = [Pending EXCEPT ![g] = w]
  BY <1>7
<1> QED
  BY <1>2, <1>3, <1>5, <1>6, <1>8 DEF Contract!Call

\* A helper that has its new error at once, by changing a field or none.
LEMMA FieldCall ==
  ASSUME Base, NEW g \in Goroutine, Step(g), Idle(g), NEW cp \in ErrorRecord,
         Ready(g, cp),
         cp.details = 0 \/ cp.details \in Shared,
         Value(cp) \in Contract!New \/
           \E i \in DOMAIN Values : Value(cp) \in Contract!Changes(Values[i], Own[g])
  PROVE  Contract!Call(g)
<1> DEFINE f == [state |-> "return", cp |-> cp, made |-> 0, left |-> {},
                 over |-> EmptyMap, overLeft |-> {}]
           v == Value(cp)
<1>1. /\ frame' = [frame EXCEPT ![g] = f]
      /\ errors' = errors /\ maps' = maps /\ kv' = kv
  BY DEF Ready
<1>2. f.cp = cp /\ f.state = "return"
  OBVIOUS
<1> HIDE DEF f
<1>3. frame'[g] = f
  BY <1>1 DEF Base, Typed
<1>4. Value(frame[g].cp)' = v
  BY <1>1, <1>2, <1>3 DEF Value, Content
<1>5. Pending'[g] = v
  BY <1>2, <1>3, <1>4 DEF Pending
<1>6. frame'[g].state # "idle"
  BY <1>2, <1>3
<1> HIDE DEF v
<1>7. v \in Contract!New \/
        \E i \in DOMAIN Values : v \in Contract!Changes(Values[i], Own[g])
  BY DEF v
<1> QED
  BY <1>1, <1>5, <1>6, <1>7, CallStep

\* A helper that starts a copy promises the merge of what it copies.
LEMMA MakeCall ==
  ASSUME Base, NEW g \in Goroutine, Step(g), Idle(g), NEW e \in DOMAIN errors,
         NEW over \in Details, Make(g, e, over),
         \E i \in DOMAIN Values :
           [code |-> errors[e].code, reason |-> errors[e].reason,
            message |-> errors[e].message,
            details |-> Merge(Content(errors[e].details), over),
            cause |-> errors[e].cause] \in Contract!Changes(Values[i], Own[g])
  PROVE  Contract!Call(g)
<1> DEFINE f == [state |-> "copy", cp |-> errors[e], made |-> Len(maps) + 1,
                 left |-> DOMAIN Content(errors[e].details),
                 over |-> over, overLeft |-> DOMAIN over]
           v == [code |-> errors[e].code, reason |-> errors[e].reason,
                 message |-> errors[e].message,
                 details |-> Merge(Content(errors[e].details), over),
                 cause |-> errors[e].cause]
<1>1. /\ frame' = [frame EXCEPT ![g] = f]
      /\ errors' = errors /\ maps' = Append(maps, EmptyMap) /\ kv' = kv
  BY DEF Make
<1>2. f.cp = errors[e] /\ f.state = "copy" /\ f.over = over
  OBVIOUS
<1>3. \E i \in DOMAIN Values : v \in Contract!Changes(Values[i], Own[g])
  OBVIOUS
<1> HIDE DEF f
<1>4. frame'[g] = f
  BY <1>1 DEF Base, Typed
<1>5. Content(frame[g].cp.details)' = Content(errors[e].details)
  <2>1. \A r \in Shared : Content(r)' = Content(r)
    BY ContentKept
  <2> QED
    BY <1>2, <1>4, <2>1, InShared DEF Content
<1>6. Merged(frame[g])' = v
  BY <1>2, <1>4, <1>5 DEF Merged, Merge
<1> HIDE DEF v
<1>7. Pending'[g] = v
  BY <1>2, <1>4, <1>6 DEF Pending
<1>8. frame'[g].state # "idle"
  BY <1>2, <1>4
<1> QED
  BY <1>1, <1>3, <1>7, <1>8, CallStep

LEMMA NewMapRefines ==
  ASSUME Base, NEW g \in Goroutine, NewMap(g)
  PROVE  Contract!NewMap(g)
<1>1. Step(g)
  BY DEF Step
<1>2. /\ Idle(g) /\ maps' = Append(maps, EmptyMap) /\ kv' = [kv EXCEPT ![g] = Len(maps) + 1]
      /\ errors' = errors /\ frame' = frame
  BY DEF NewMap
<1>3. Values' = Values
  BY <1>1, <1>2, ValuesKept
<1>4. \A h \in Goroutine : Pending'[h] = Pending[h] /\ Running'[h] = Running[h]
  BY <1>1, <1>2, PendingKept
<1>5. Pending' = Pending /\ Running' = Running
  BY <1>4 DEF Pending, Running
<1>6. kv'[g] = Len(maps) + 1 /\ \A h \in Goroutine : h # g => kv'[h] = kv[h]
  BY <1>2 DEF Base, Typed
<1>7. Own'[g] = EmptyMap
  <2>1. maps'[Len(maps) + 1] = EmptyMap /\ Len(maps) + 1 # 0
    BY <1>2, TypeFacts DEF Base, Typed
  <2> QED
    BY <1>6, <2>1 DEF Own, Content
<1>8. \A h \in Goroutine : h # g => Own'[h] = Own[h]
  BY <1>1, <1>6, OwnKept
<1>9. Own' = [Own EXCEPT ![g] = EmptyMap]
  BY <1>7, <1>8 DEF Own
<1>10. ~Running[g]
  BY <1>2 DEF Running, Idle
<1> QED
  BY <1>3, <1>5, <1>9, <1>10, SameMaps DEF Contract!NewMap

LEMMA SetMapRefines ==
  ASSUME Base, NEW g \in Goroutine, NEW k \in Key, NEW x \in Val, SetMap(g, k, x)
  PROVE  Contract!SetMap(g, k, x)
<1>1. Step(g)
  BY DEF Step
<1>2. /\ Idle(g) /\ kv[g] # 0
      /\ maps' = [maps EXCEPT ![kv[g]] = Put(maps[kv[g]], k, x)]
      /\ errors' = errors /\ frame' = frame /\ kv' = kv
  BY DEF SetMap
<1>3. Values' = Values
  BY <1>1, <1>2, ValuesKept
<1>4. \A h \in Goroutine : Pending'[h] = Pending[h] /\ Running'[h] = Running[h]
  BY <1>1, <1>2, PendingKept
<1>5. Pending' = Pending /\ Running' = Running
  BY <1>4 DEF Pending, Running
<1>6. Own'[g] = Put(Own[g], k, x)
  <2>1. kv[g] \in DOMAIN maps
    BY <1>2, TypeFacts DEF Base
  <2>2. maps'[kv[g]] = Put(maps[kv[g]], k, x)
    BY <1>2, <2>1
  <2> QED
    BY <1>2, <2>2 DEF Own, Content
<1>7. \A h \in Goroutine : h # g => Own'[h] = Own[h]
  BY <1>1, <1>2, OwnKept
<1>8. Own' = [Own EXCEPT ![g] = Put(Own[g], k, x)]
  BY <1>6, <1>7 DEF Own
<1>9. ~Running[g]
  BY <1>2 DEF Running, Idle
<1> QED
  BY <1>3, <1>5, <1>8, <1>9, SameMaps DEF Contract!SetMap

\* What each helper returns is what the contract allows.
LEMMA HelperRefines ==
  ASSUME Base, NEW g \in Goroutine, Step(g), NEW e \in DOMAIN errors,
         \/ \E r \in Reason : WithReason(g, e, r)
         \/ \E msg \in Message : WithMessage(g, e, msg)
         \/ \E c \in (DOMAIN errors) \cup {NoCause, Foreign} : WithCause(g, e, c)
         \/ \E k \in Key, x \in Val : WithDetail(g, e, k, x)
         \/ WithDetails(g, e)
  PROVE  Contract!Call(g) \/ UNCHANGED vars
<1> DEFINE Changed(v) == \E i \in DOMAIN Values : v \in Contract!Changes(Values[i], Own[g])
           old == Content(errors[e].details)
<1>1. /\ errors[e] \in ErrorRecord /\ e \in DOMAIN Values
      /\ Values[e] = Value(errors[e]) /\ Values[e] \in ValueSet
      /\ errors[e].details \in Shared /\ DOMAIN Values = DOMAIN errors
      /\ DOMAIN errors = 1..Len(errors)
  BY TypeFacts, ValueType, InShared DEF Base, Values
<1>2. ASSUME NEW cp \in ErrorRecord, Idle(g), Ready(g, cp),
             cp.details = errors[e].details, Changed(Value(cp))
      PROVE  Contract!Call(g)
  BY <1>1, <1>2, FieldCall
<1>3. ASSUME NEW r \in Reason, WithReason(g, e, r)
      PROVE  Contract!Call(g)
  <2> DEFINE cp == [errors[e] EXCEPT !.reason = r]
  <2>1. cp \in ErrorRecord /\ cp.details = errors[e].details
    BY <1>1 DEF ErrorRecord
  <2>2. Value(cp) = [Values[e] EXCEPT !.reason = r]
    BY <1>1 DEF Value, ErrorRecord
  <2>3. Changed(Value(cp))
    BY <1>1, <2>2 DEF Contract!Changes
  <2> HIDE DEF Changed
  <2> QED
    BY <1>2, <1>3, <2>1, <2>3 DEF WithReason
<1>4. ASSUME NEW msg \in Message, WithMessage(g, e, msg)
      PROVE  Contract!Call(g)
  <2> DEFINE cp == [errors[e] EXCEPT !.message = msg]
  <2>1. cp \in ErrorRecord /\ cp.details = errors[e].details
    BY <1>1 DEF ErrorRecord
  <2>2. Value(cp) = [Values[e] EXCEPT !.message = msg]
    BY <1>1 DEF Value, ErrorRecord
  <2>3. Changed(Value(cp))
    BY <1>1, <2>2 DEF Contract!Changes
  <2> HIDE DEF Changed
  <2> QED
    BY <1>2, <1>4, <2>1, <2>3 DEF WithMessage
<1>5. ASSUME NEW c \in (DOMAIN errors) \cup {NoCause, Foreign}, WithCause(g, e, c)
      PROVE  Contract!Call(g) \/ UNCHANGED vars
  <2> DEFINE cp == [errors[e] EXCEPT !.cause = c]
  <2>1. cp \in ErrorRecord /\ cp.details = errors[e].details
    BY <1>1 DEF ErrorRecord, Cause
  <2>2. Value(cp) = [Values[e] EXCEPT !.cause = c]
    BY <1>1 DEF Value, ErrorRecord
  <2>3. ASSUME c # NoCause
        PROVE  Changed(Value(cp))
    <3>1. c \in (DOMAIN Values) \cup {Foreign}
      BY <1>1, <2>3
    <3>2. [Values[e] EXCEPT !.cause = c] \in Contract!Changes(Values[e], Own[g])
      BY <3>1 DEF Contract!Changes
    <3> QED
      BY <1>1, <2>2, <3>2
  <2> HIDE DEF Changed
  <2> QED
    BY <1>2, <1>5, <2>1, <2>3 DEF WithCause, ReturnReceiver
<1>6. ASSUME NEW over \in Details, Idle(g), Make(g, e, over),
             Changed([code |-> errors[e].code, reason |-> errors[e].reason,
                      message |-> errors[e].message, details |-> Merge(old, over),
                      cause |-> errors[e].cause])
      PROVE  Contract!Call(g)
  BY <1>6, MakeCall
<1>7. \A m : [Values[e] EXCEPT !.details = m] =
             [code |-> errors[e].code, reason |-> errors[e].reason,
              message |-> errors[e].message, details |-> m, cause |-> errors[e].cause]
  BY <1>1 DEF Value
<1>8. Values[e].details = old
  BY <1>1 DEF Value
<1> HIDE DEF old
<1>9. ASSUME NEW k \in Key, NEW x \in Val, WithDetail(g, e, k, x)
      PROVE  Contract!Call(g)
  <2> DEFINE over == Put(EmptyMap, k, x)
  <2>1. over \in Details
    BY PutDetails, DetailsFacts
  <2>2. Merge(old, over) = Contract!Put(old, k, x)
    BY SameMaps DEF Merge, Put, EmptyMap
  <2>3. Changed([Values[e] EXCEPT !.details = Contract!Put(@, k, x)])
    BY <1>1 DEF Contract!Changes
  <2>4. Changed([code |-> errors[e].code, reason |-> errors[e].reason,
                 message |-> errors[e].message, details |-> Merge(old, over),
                 cause |-> errors[e].cause])
    BY <1>7, <1>8, <2>2, <2>3
  <2> HIDE DEF Changed
  <2> QED
    BY <1>6, <1>9, <2>1, <2>4 DEF WithDetail
<1>10. ASSUME WithDetails(g, e)
       PROVE  Contract!Call(g) \/ UNCHANGED vars
  <2> DEFINE over == Content(kv[g])
  <2>1. over \in Details /\ Own[g] = over
    BY TypeFacts, ContentType DEF Base, Own
  <2>2. Merge(old, over) = Contract!Merge(old, Own[g])
    BY <2>1, SameMaps
  <2>3. Changed([Values[e] EXCEPT !.details = Contract!Merge(@, Own[g])])
    BY <1>1 DEF Contract!Changes
  <2>4. Changed([code |-> errors[e].code, reason |-> errors[e].reason,
                 message |-> errors[e].message, details |-> Merge(old, over),
                 cause |-> errors[e].cause])
    BY <1>7, <1>8, <2>2, <2>3
  <2> HIDE DEF Changed
  <2> QED
    BY <1>6, <1>10, <2>1, <2>4 DEF WithDetails, ReturnReceiver
<1> QED
  BY <1>3, <1>4, <1>5, <1>9, <1>10

LEMMA ERefines ==
  ASSUME Base, NEW g \in Goroutine, NEW c \in Code, NEW msg \in Message, E(g, c, msg)
  PROVE  Contract!Call(g)
<1> DEFINE cp == [code |-> c, reason |-> NoReason, message |-> msg, details |-> 0,
                  cause |-> NoCause]
<1>1. Step(g)
  BY DEF Step
<1>2. 0 \in 0..Len(maps)
  BY TypeFacts DEF Base
<1>3. cp \in ErrorRecord /\ cp.details = 0
  BY <1>2 DEF ErrorRecord, Cause
<1>4. Idle(g) /\ Ready(g, cp)
  BY DEF E
<1>5. Value(cp) \in Contract!New
  BY SameMaps DEF Value, Content, Contract!New
<1> HIDE DEF cp
<1> QED
  BY <1>1, <1>3, <1>4, <1>5, FieldCall

-----------------------------------------------------------------------------
(* The steps between, and Return.                                          *)

\* A step of a running helper that leaves errors, and what g is to return.
LEMMA SilentStep ==
  ASSUME Base, NEW g \in Goroutine, Step(g), ~Idle(g), errors' = errors, kv' = kv,
         Pending'[g] = Pending[g], frame'[g].state # "idle"
  PROVE  UNCHANGED Contract!vars
<1>1. \A h \in Goroutine : h # g => frame'[h] = frame[h]
  BY StepEffect
<1>2. Values' = Values
  BY ValuesKept
<1>3. \A h \in Goroutine : Own'[h] = Own[h]
  BY OwnKept
<1>4. \A h \in Goroutine : h # g => Pending'[h] = Pending[h] /\ Running'[h] = Running[h]
  BY <1>1, PendingKept
<1>5. Running'[g] = Running[g]
  BY DEF Running, Idle
<1>6. Own' = Own
  BY <1>3 DEF Own
<1>7. Pending' = Pending /\ Running' = Running
  BY <1>4, <1>5 DEF Pending, Running
<1> QED
  BY <1>2, <1>6, <1>7 DEF Contract!vars

LEMMA CopyStutters ==
  ASSUME Base, NEW g \in Goroutine, NEW k \in Key, CopyEntry(g, k) \/ StoreEntry(g, k)
  PROVE  UNCHANGED Contract!vars
<1>1. Step(g)
  BY DEF Step
<1>2. frame[g] \in Frame /\ frame \in [Goroutine -> Frame]
  BY DEF Base, Typed
<1>3. /\ frame'[g].cp = frame[g].cp /\ frame'[g].state = frame[g].state
      /\ frame'[g].over = frame[g].over
  BY <1>2 DEF CopyEntry, StoreEntry, Frame
<1>4. Pending'[g] = Pending[g]
  BY <1>1, <1>3, PendingKept
<1>5. /\ frame[g].state = "copy" /\ errors' = errors /\ kv' = kv
  BY DEF CopyEntry, StoreEntry
<1> QED
  BY <1>1, <1>3, <1>4, <1>5, SilentStep DEF Idle

LEMMA AttachStutters ==
  ASSUME Base, Copied, NEW g \in Goroutine, Attach(g)
  PROVE  UNCHANGED Contract!vars
<1> DEFINE cp == [frame[g].cp EXCEPT !.details = frame[g].made]
           f == [state |-> "return", cp |-> cp, made |-> 0, left |-> {},
                 over |-> EmptyMap, overLeft |-> {}]
<1>1. Step(g)
  BY DEF Step
<1>2. /\ frame' = [frame EXCEPT ![g] = f] /\ frame[g].state = "copy"
      /\ errors' = errors /\ maps' = maps /\ kv' = kv
  BY DEF Attach, Ready
<1>3. f.cp = cp /\ f.state = "return"
  OBVIOUS
<1>4. /\ frame[g].cp \in ErrorRecord /\ frame[g].made \in DOMAIN maps
      /\ maps[frame[g].made] = Merge(Content(frame[g].cp.details), frame[g].over)
      /\ DOMAIN maps = 1..Len(maps)
  BY TypeFacts, CopyNotEmpty DEF Base
<1> HIDE DEF f
<1>5. frame'[g] = f
  BY <1>2 DEF Base, Typed
<1>6. /\ cp.details = frame[g].made /\ cp.code = frame[g].cp.code
      /\ cp.reason = frame[g].cp.reason /\ cp.message = frame[g].cp.message
      /\ cp.cause = frame[g].cp.cause
  BY <1>4 DEF ErrorRecord
<1> HIDE DEF cp
<1>7. Content(cp.details) = Merge(Content(frame[g].cp.details), frame[g].over)
  BY <1>4, <1>6 DEF Content
<1>8. Value(cp) = Merged(frame[g])
  BY <1>6, <1>7 DEF Value, Merged
<1>9. Value(frame[g].cp)' = Value(cp)
  BY <1>2, <1>3, <1>5 DEF Value, Content
<1>10. Pending'[g] = Pending[g]
  BY <1>2, <1>3, <1>5, <1>8, <1>9 DEF Pending
<1> QED
  BY <1>1, <1>2, <1>3, <1>5, <1>10, SilentStep DEF Idle

LEMMA ReturnRefines ==
  ASSUME Base, NEW g \in Goroutine, Return(g)
  PROVE  Contract!Return(g)
<1>1. Step(g)
  BY DEF Step
<1>2. /\ errors' = Append(errors, frame[g].cp) /\ frame[g].state = "return"
      /\ frame' = [frame EXCEPT ![g] = NoFrame] /\ maps' = maps /\ kv' = kv
  BY DEF Return
<1>3. /\ errors \in Seq(ErrorRecord) /\ frame[g].cp \in ErrorRecord
      /\ Len(errors) \in Nat /\ DOMAIN errors = 1..Len(errors)
      /\ frame \in [Goroutine -> Frame]
  BY TypeFacts DEF Base, Typed
<1>4. \A h \in Goroutine : h # g => frame'[h] = frame[h]
  BY <1>1, StepEffect
<1>5. frame'[g] = NoFrame
  BY <1>2, <1>3
<1>6. \A h \in Goroutine : h # g => Pending'[h] = Pending[h] /\ Running'[h] = Running[h]
  BY <1>1, <1>4, PendingKept
<1>7. Own' = Own
  BY <1>2 DEF Own, Content
<1>8. Pending' = [Pending EXCEPT ![g] = Contract!Blank]
  <2>1. NoFrame.cp = Blank /\ NoFrame.state = "idle"
    BY DEF NoFrame
  <2>2. Value(Blank)' = Value(Blank)
    BY DEF Value, Blank, Content
  <2>3. Pending'[g] = Contract!Blank
    BY <1>5, <2>1, <2>2, ContractBlank DEF Pending, Value
  <2> QED
    BY <1>6, <2>3 DEF Pending
<1>9. Running[g] /\ Running' = [Running EXCEPT ![g] = FALSE]
  <2>1. NoFrame.state = "idle"
    BY DEF NoFrame
  <2>2. Running[g] /\ Running'[g] = FALSE
    BY <1>2, <1>5, <2>1 DEF Running
  <2> QED
    BY <1>6, <2>2 DEF Running
<1>10. Values' = Append(Values, Pending[g])
  <2>1. Pending[g] = Value(frame[g].cp)
    BY <1>2 DEF Pending
  <2>2. \A cp : Value(cp)' = Value(cp)
    BY <1>2 DEF Value, Content
  <2>3. /\ DOMAIN errors' = 1..(Len(errors) + 1)
        /\ \A i \in DOMAIN errors : errors'[i] = errors[i]
        /\ errors'[Len(errors) + 1] = frame[g].cp
    BY <1>2, <1>3
  <2>4. /\ DOMAIN Values' = 1..(Len(errors) + 1)
        /\ \A i \in 1..Len(errors) : Values'[i] = Values[i]
        /\ Values'[Len(errors) + 1] = Pending[g]
    BY <1>3, <2>1, <2>2, <2>3 DEF Values, Value
  <2>5. Values \in Seq(ValueSet) /\ Pending[g] \in ValueSet /\ Len(Values) = Len(errors)
    BY <1>3, <2>1, ValueType
  <2>6. Values' = [i \in 1..(Len(errors) + 1) |-> Values'[i]]
    BY <2>4 DEF Values
  <2> QED
    BY <1>3, <2>4, <2>5, <2>6
<1> QED
  BY <1>7, <1>8, <1>9, <1>10 DEF Contract!Return

\* Whatever goroutines do with each other's errors and maps, they see values:
\* ErrorValues implements ErrorContract.
THEOREM ErrorsAreValues == Spec => ImplementsContract
<1>1. IInv /\ [Next]_vars => [Contract!Next]_(Contract!vars)
  <2> SUFFICES ASSUME IInv, [Next]_vars
               PROVE  Contract!Next \/ UNCHANGED Contract!vars
    OBVIOUS
  <2>1. Base /\ Copied
    BY DEF IInv
  <2>2. CASE UNCHANGED vars
    BY <2>2 DEF vars, Contract!vars, Values, Own, Running, Pending, Value, Merged, Content
  <2>3. ASSUME NEW g \in Goroutine, Step(g)
        PROVE  Contract!Next \/ UNCHANGED Contract!vars
    <3> DEFINE Goal == Contract!Next \/ UNCHANGED Contract!vars
    <3> SUFFICES Goal
      OBVIOUS
    <3>1. Contract!Call(g) => Goal
      BY DEF Contract!Next
    <3>2. UNCHANGED vars => Goal
      BY <2>2
    <3>3. CASE NewMap(g)
      BY <2>1, <3>3, NewMapRefines DEF Contract!Next
    <3>4. CASE \E k \in Key, x \in Val : SetMap(g, k, x)
      BY <2>1, <3>4, SetMapRefines DEF Contract!Next
    <3>5. CASE \E c \in Code, msg \in Message : E(g, c, msg)
      BY <2>1, <3>1, <3>5, ERefines
    <3>6. ASSUME NEW e \in DOMAIN errors,
                 \/ \E r \in Reason : WithReason(g, e, r)
                 \/ \E msg \in Message : WithMessage(g, e, msg)
                 \/ \E c \in (DOMAIN errors) \cup {NoCause, Foreign} : WithCause(g, e, c)
                 \/ \E k \in Key, x \in Val : WithDetail(g, e, k, x)
                 \/ WithDetails(g, e)
          PROVE  Goal
      <4> HIDE DEF Goal
      <4>1. Contract!Call(g) \/ UNCHANGED vars
        BY <2>1, <2>3, <3>6, HelperRefines
      <4> QED
        BY <3>1, <3>2, <4>1
    <3>7. CASE \E k \in Key : CopyEntry(g, k)
      BY <2>1, <3>7, CopyStutters
    <3>8. CASE \E k \in Key : StoreEntry(g, k)
      BY <2>1, <3>8, CopyStutters
    <3>9. CASE Attach(g)
      BY <2>1, <3>9, AttachStutters
    <3>10. CASE Return(g)
      BY <2>1, <3>10, ReturnRefines DEF Contract!Next
    <3> HIDE DEF Goal
    <3> QED
      BY <2>3, <3>3, <3>4, <3>5, <3>6, <3>7, <3>8, <3>9, <3>10 DEF Step
  <2> QED
    BY <2>2, <2>3 DEF Next
<1> QED
  BY <1>1, InitContract, Invariance, PTL DEF Spec, ImplementsContract, Contract!Spec
=============================================================================
