-------------------------- MODULE ErrorValuesProofs --------------------------
(***************************************************************************)
(* Theorems about ErrorValues, for any goroutines, texts, keys and values, *)
(* and any number of errors and maps.                                      *)
(*                                                                         *)
(* The argument: every map a goroutine may store into is private to it and *)
(* to no error (Sealed), so a step of one goroutine leaves every other map *)
(* as it is (MapsKept), published errors included.                         *)
(***************************************************************************)
EXTENDS ErrorValues, TLAPS

Base == Typed /\ Sealed

LEMMA InitBase == Init => Base
<1> SUFFICES ASSUME Init PROVE Base
  OBVIOUS
<1>1. Blank \in ErrorRecord
  BY DEF Init, Blank, ErrorRecord, Cause
<1>2. EmptyMap \in Details
  BY DEF EmptyMap, Details
<1>3. NoFrame \in Frame
  BY <1>1, <1>2 DEF Init, NoFrame, Frame
<1>4. Typed
  BY <1>3 DEF Init, Typed
<1>5. Sealed
  BY DEF Init, Sealed, Private, Shared, NoFrame, Blank
<1> QED
  BY <1>4, <1>5 DEF Base

\* A map grows to another map.
LEMMA PutDetails ==
  ASSUME NEW m \in Details, NEW k \in Key, NEW x \in Val
  PROVE  Put(m, k, x) \in Details
<1>1. PICK K \in SUBSET Key : m \in [K -> Val]
  BY DEF Details
<1>2. Put(m, k, x) \in [K \cup {k} -> Val]
  BY <1>1 DEF Put
<1>3. K \cup {k} \in SUBSET Key
  BY <1>1
<1> QED
  BY <1>2, <1>3 DEF Details

LEMMA DetailsFacts ==
  /\ EmptyMap \in Details
  /\ \A m \in Details : /\ DOMAIN m \subseteq Key
                        /\ \A k \in DOMAIN m : m[k] \in Val
                        /\ m = [k \in DOMAIN m |-> m[k]]
<1>1. EmptyMap \in [{} -> Val]
  BY DEF EmptyMap
<1>2. EmptyMap \in Details
  BY <1>1 DEF Details
<1>3. ASSUME NEW m \in Details
      PROVE  /\ DOMAIN m \subseteq Key
             /\ \A k \in DOMAIN m : m[k] \in Val
             /\ m = [k \in DOMAIN m |-> m[k]]
  <2>1. PICK K \in SUBSET Key : m \in [K -> Val]
    BY <1>3 DEF Details
  <2> QED
    BY <2>1
<1> QED
  BY <1>2, <1>3

LEMMA ContentType ==
  ASSUME Typed, NEW r \in 0..Len(maps)
  PROVE  Content(r) \in Details
BY DetailsFacts DEF Typed, Content

\* Records that were well-typed stay so when errors and maps only grow.
LEMMA RecordsGrow ==
  ASSUME Len(errors) \in Nat, Len(errors)' \in Nat, Len(errors) <= Len(errors)',
         Len(maps) \in Nat, Len(maps)' \in Nat, Len(maps) <= Len(maps)'
  PROVE  ErrorRecord \subseteq ErrorRecord' /\ Frame \subseteq Frame'
<1>1. Cause \subseteq Cause' /\ 0..Len(maps) \subseteq 0..Len(maps)'
  BY DEF Cause
<1>2. ErrorRecord \subseteq ErrorRecord'
  BY <1>1 DEF ErrorRecord
<1>3. Frame \subseteq Frame'
  BY <1>1, <1>2 DEF Frame
<1> QED
  BY <1>2, <1>3

LEMMA TypeFacts ==
  ASSUME Typed
  PROVE  /\ \A i \in DOMAIN errors : /\ errors[i] \in ErrorRecord
                                     /\ errors[i].details \in 0..Len(maps)
         /\ \A h \in Goroutine :
              /\ frame[h] \in Frame
              /\ frame[h].cp \in ErrorRecord
              /\ frame[h].cp.details \in 0..Len(maps)
              /\ frame[h].made \in 0..Len(maps)
              /\ kv[h] \in 0..Len(maps)
         /\ Len(errors) \in Nat /\ DOMAIN errors = 1..Len(errors)
         /\ Len(maps) \in Nat /\ DOMAIN maps = 1..Len(maps)
         /\ \A r \in DOMAIN maps : maps[r] \in Details
<1>1. /\ errors \in Seq(ErrorRecord) /\ maps \in Seq(Details)
      /\ kv \in [Goroutine -> 0..Len(maps)]
      /\ frame \in [Goroutine -> Frame]
  BY DEF Typed
<1>2. /\ \A i \in DOMAIN errors : errors[i] \in ErrorRecord
      /\ Len(errors) \in Nat /\ DOMAIN errors = 1..Len(errors)
      /\ Len(maps) \in Nat /\ DOMAIN maps = 1..Len(maps)
      /\ \A r \in DOMAIN maps : maps[r] \in Details
  BY <1>1
<1>3. \A e \in ErrorRecord : e.details \in 0..Len(maps)
  BY DEF ErrorRecord
<1>4. \A f \in Frame : f.cp \in ErrorRecord /\ f.made \in 0..Len(maps)
  BY DEF Frame
<1> QED
  BY <1>1, <1>2, <1>3, <1>4

\* Whoever else stores into a map of its own, what an error to be returned
\* points to is out of reach.
LEMMA ReadyStep ==
  ASSUME Base, NEW g \in Goroutine, NEW cp \in ErrorRecord, Ready(g, cp),
         cp.details # 0 => \A h \in Goroutine :
           cp.details # kv[h] /\ (h # g => cp.details # frame[h].made)
  PROVE  Base'
<1> DEFINE f == [state |-> "return", cp |-> cp, made |-> 0, left |-> {},
                 over |-> EmptyMap, overLeft |-> {}]
<1>1. f.cp = cp /\ f.made = 0 /\ f.state = "return"
  OBVIOUS
<1>2. f \in Frame
  BY DetailsFacts, TypeFacts DEF Base, Frame
<1>3. /\ frame' = [frame EXCEPT ![g] = f]
      /\ errors' = errors /\ maps' = maps /\ kv' = kv
  BY DEF Ready
<1>4. Typed'
  <2>1. ErrorRecord' = ErrorRecord /\ Frame' = Frame
    BY <1>3 DEF ErrorRecord, Frame, Cause
  <2> HIDE DEF f
  <2> QED
    BY <1>2, <1>3, <2>1 DEF Base, Typed
<1>5. /\ frame'[g] = f
      /\ \A h \in Goroutine : h # g => frame'[h] = frame[h]
  BY <1>3 DEF Base, Typed
<1> HIDE DEF f
<1>6. Sealed'
  <2>1. \A h \in Goroutine : Private(h)' \subseteq Private(h)
    BY <1>1, <1>3, <1>5 DEF Private
  <2>2. Shared' \subseteq Shared \cup {cp.details}
    BY <1>1, <1>3, <1>5 DEF Shared
  <2>3. \A h \in Goroutine : cp.details \notin Private(h)'
    BY <1>1, <1>3, <1>5 DEF Private
  <2>4. \A h \in Goroutine :
          frame'[h].state = "copy" => frame'[h].made \notin {0, kv'[h]}
    BY <1>1, <1>3, <1>5 DEF Base, Sealed
  <2> QED
    BY <2>1, <2>2, <2>3, <2>4 DEF Base, Sealed
<1> QED
  BY <1>4, <1>6 DEF Base

\* What an error or a frame points to is shared.
LEMMA InShared ==
  ASSUME Base
  PROVE  /\ \A i \in DOMAIN errors : errors[i].details \in Shared
         /\ \A g \in Goroutine : frame[g].cp.details \in Shared
         /\ \A r \in Shared \ {0}, h \in Goroutine : r # kv[h] /\ r # frame[h].made
BY DEF Base, Sealed, Shared, Private

LEMMA MakeStep ==
  ASSUME Base, NEW g \in Goroutine, NEW e \in DOMAIN errors,
         NEW over \in Details, Make(g, e, over)
  PROVE  Base'
<1> DEFINE m == Len(maps) + 1
           f == [state |-> "copy", cp |-> errors[e], made |-> m,
                 left |-> DOMAIN Content(errors[e].details),
                 over |-> over, overLeft |-> DOMAIN over]
<1>1. /\ frame' = [frame EXCEPT ![g] = f]
      /\ maps' = Append(maps, EmptyMap)
      /\ errors' = errors /\ kv' = kv
  BY DEF Make
<1>2. /\ errors \in Seq(ErrorRecord) /\ maps \in Seq(Details)
      /\ kv \in [Goroutine -> 0..Len(maps)]
      /\ frame \in [Goroutine -> Frame]
  BY DEF Base, Typed
<1>3. maps' \in Seq(Details) /\ Len(maps)' = m /\ Len(maps) \in Nat /\ m \in Nat
  BY <1>1, <1>2, DetailsFacts
<1>4. ErrorRecord \subseteq ErrorRecord' /\ Frame \subseteq Frame'
  BY <1>1, <1>2, <1>3, RecordsGrow
<1>5. errors[e] \in ErrorRecord /\ errors[e].details \in 0..Len(maps)
  BY TypeFacts DEF Base
<1>6. Content(errors[e].details) \in Details
  BY <1>5, ContentType DEF Base
<1>7. f \in Frame'
  <2>1. errors[e] \in ErrorRecord'
    BY <1>4, <1>5
  <2>2. m \in 0..Len(maps')
    BY <1>3
  <2>3. DOMAIN Content(errors[e].details) \in SUBSET Key /\ DOMAIN over \in SUBSET Key
    BY <1>6, DetailsFacts
  <2>4. Frame' = [state : {"idle", "copy", "return"}, cp : ErrorRecord',
                  made : 0..Len(maps'), left : SUBSET Key, over : Details,
                  overLeft : SUBSET Key]
    BY DEF Frame
  <2> HIDE DEF m
  <2> QED
    BY <2>1, <2>2, <2>3, <2>4
<1>8. /\ frame'[g] = f
      /\ \A h \in Goroutine : h # g => frame'[h] = frame[h]
  BY <1>1, <1>2
<1>9. Typed'
  <2>1. errors' \in Seq(ErrorRecord')
    BY <1>1, <1>2, <1>4
  <2>2. kv' \in [Goroutine -> 0..Len(maps')]
    BY <1>1, <1>2, <1>3
  <2>3. frame' \in [Goroutine -> Frame']
    BY <1>1, <1>2, <1>4, <1>7
  <2> QED
    BY <2>1, <2>2, <2>3, <1>3 DEF Typed
<1>10. Sealed'
  <2>1. m \notin Shared /\ m # 0 /\ \A h \in Goroutine : m \notin Private(h)
    <3>1. m \notin 0..Len(maps) /\ m # 0
      BY <1>3
    <3> HIDE DEF m
    <3> QED
      BY <3>1, TypeFacts DEF Shared, Private, Base
  <2>2. Shared' \subseteq Shared
    BY <1>1, <1>8, InShared DEF Shared
  <2>3. /\ Private(g)' \subseteq Private(g) \cup {m}
        /\ \A h \in Goroutine : h # g => Private(h)' = Private(h)
    BY <1>1, <1>8 DEF Private
  <2>4. m # kv[g]
    BY <2>1 DEF Private
  <2>5. \A h \in Goroutine :
          frame'[h].state = "copy" => frame'[h].made \notin {0, kv'[h]}
    BY <1>1, <1>8, <2>1, <2>4 DEF Base, Sealed
  <2> QED
    BY <2>1, <2>2, <2>3, <2>5 DEF Base, Sealed
<1> QED
  BY <1>9, <1>10 DEF Base

\* Copying an entry into the map a helper is filling.
LEMMA StoreStep ==
  ASSUME Base, NEW g \in Goroutine, NEW k \in Key, NEW x \in Val, Store(g, k, x),
         frame[g].state = "copy", NEW f \in Frame,
         f.state = "copy", f.cp = frame[g].cp, f.made = frame[g].made,
         frame' = [frame EXCEPT ![g] = f],
         UNCHANGED <<errors, kv>>
  PROVE  Base'
<1>1. /\ errors \in Seq(ErrorRecord) /\ maps \in Seq(Details)
      /\ kv \in [Goroutine -> 0..Len(maps)]
      /\ frame \in [Goroutine -> Frame]
  BY DEF Base, Typed
<1>2. frame[g].made \in DOMAIN maps
  BY <1>1 DEF Frame, Base, Sealed
<1>3. maps' \in Seq(Details) /\ Len(maps') = Len(maps)
  BY <1>1, <1>2, PutDetails DEF Store
<1>4. Typed'
  BY <1>1, <1>3 DEF Typed, Frame, ErrorRecord, Cause
<1>5. /\ frame'[g] = f
      /\ \A h \in Goroutine : h # g => frame'[h] = frame[h]
  BY <1>1
<1>6. \A h \in Goroutine : Private(h)' = Private(h)
  BY <1>5 DEF Private
<1>7. Shared' = Shared
  BY <1>5 DEF Shared
<1>8. \A h \in Goroutine :
        frame'[h].state = "copy" => frame'[h].made \notin {0, kv'[h]}
  BY <1>5 DEF Base, Sealed
<1>9. Sealed'
  BY <1>6, <1>7, <1>8 DEF Base, Sealed
<1> QED
  BY <1>4, <1>9 DEF Base

LEMMA NewMapStep ==
  ASSUME Base, NEW g \in Goroutine, NewMap(g)
  PROVE  Base'
<1> DEFINE m == Len(maps) + 1
<1>1. /\ maps' = Append(maps, EmptyMap) /\ kv' = [kv EXCEPT ![g] = m]
      /\ errors' = errors /\ frame' = frame
  BY DEF NewMap
<1>2. /\ errors \in Seq(ErrorRecord) /\ maps \in Seq(Details)
      /\ kv \in [Goroutine -> 0..Len(maps)]
      /\ frame \in [Goroutine -> Frame]
  BY DEF Base, Typed
<1>3. maps' \in Seq(Details) /\ Len(maps)' = m /\ Len(maps) \in Nat /\ m \in Nat
  BY <1>1, <1>2, DetailsFacts
<1>4. ErrorRecord \subseteq ErrorRecord' /\ Frame \subseteq Frame'
  BY <1>1, <1>2, <1>3, RecordsGrow
<1>5. Typed'
  <2>1. errors' \in Seq(ErrorRecord')
    BY <1>1, <1>2, <1>4
  <2>2. kv' \in [Goroutine -> 0..Len(maps')]
    BY <1>1, <1>2, <1>3
  <2>3. frame' \in [Goroutine -> Frame']
    BY <1>1, <1>2, <1>4
  <2> QED
    BY <2>1, <2>2, <2>3, <1>3 DEF Typed
<1>6. Sealed'
  <2>1. m \notin 0..Len(maps) /\ m # 0
    BY <1>3
  <2>2. kv'[g] = m /\ \A h \in Goroutine : h # g => kv'[h] = kv[h]
    BY <1>1, <1>2
  <2> HIDE DEF m
  <2>3. m \notin Shared /\ \A h \in Goroutine : m \notin Private(h) /\ m # frame[h].made
    BY <2>1, TypeFacts DEF Shared, Private, Base
  <2>4. Shared' = Shared
    BY <1>1 DEF Shared
  <2>5. /\ Private(g)' \subseteq Private(g) \cup {m}
        /\ \A h \in Goroutine : h # g => Private(h)' = Private(h)
    BY <1>1, <2>2 DEF Private
  <2>6. \A h \in Goroutine :
          frame'[h].state = "copy" => frame'[h].made \notin {0, kv'[h]}
    BY <1>1, <2>2, <2>3 DEF Base, Sealed
  <2> QED
    BY <2>3, <2>4, <2>5, <2>6 DEF Base, Sealed
<1> QED
  BY <1>5, <1>6 DEF Base

\* Sealed is about who points to which map, not about what maps hold.
LEMMA SealedSame ==
  ASSUME Sealed, UNCHANGED <<errors, kv, frame>>
  PROVE  Sealed'
<1>1. Shared' = Shared
  BY DEF Shared
<1>2. \A g \in Goroutine : Private(g)' = Private(g)
  BY DEF Private
<1>3. \A g \in Goroutine :
        frame'[g].state = "copy" => frame'[g].made \notin {0, kv'[g]}
  BY DEF Sealed
<1> QED
  BY <1>1, <1>2, <1>3 DEF Sealed

LEMMA SetMapStep ==
  ASSUME Base, NEW g \in Goroutine, NEW k \in Key, NEW x \in Val, SetMap(g, k, x)
  PROVE  Base'
<1>1. kv[g] \in DOMAIN maps /\ maps \in Seq(Details)
  BY TypeFacts DEF SetMap, Base, Typed
<1>2. maps' \in Seq(Details) /\ Len(maps') = Len(maps)
  BY <1>1, PutDetails DEF SetMap
<1>3. errors' = errors /\ kv' = kv /\ frame' = frame
  BY DEF SetMap
<1>4. Typed'
  <2>1. ErrorRecord' = ErrorRecord /\ Frame' = Frame
    BY <1>2, <1>3 DEF ErrorRecord, Frame, Cause
  <2> QED
    BY <1>2, <1>3, <2>1 DEF Base, Typed
<1>5. Sealed'
  BY <1>3, SealedSame DEF Base
<1> QED
  BY <1>4, <1>5 DEF Base

LEMMA ReturnStep ==
  ASSUME Base, NEW g \in Goroutine, Return(g)
  PROVE  Base'
<1>1. /\ errors' = Append(errors, frame[g].cp)
      /\ frame' = [frame EXCEPT ![g] = NoFrame]
      /\ maps' = maps /\ kv' = kv
  BY DEF Return
<1>2. /\ errors \in Seq(ErrorRecord) /\ maps \in Seq(Details)
      /\ kv \in [Goroutine -> 0..Len(maps)]
      /\ frame \in [Goroutine -> Frame]
      /\ frame[g].cp \in ErrorRecord
      /\ Len(maps) \in Nat /\ Len(errors) \in Nat
  BY TypeFacts DEF Base, Typed
<1>3. errors' \in Seq(ErrorRecord) /\ Len(errors') = Len(errors) + 1
  BY <1>1, <1>2
<1>4. ErrorRecord \subseteq ErrorRecord' /\ Frame \subseteq Frame'
  BY <1>1, <1>2, <1>3, RecordsGrow
<1>5. NoFrame \in Frame
  <2>1. Blank \in ErrorRecord
    BY <1>2 DEF Blank, ErrorRecord, Cause
  <2> QED
    BY <2>1, <1>2, DetailsFacts DEF NoFrame, Frame
<1>6. Typed'
  <2>1. errors' \in Seq(ErrorRecord')
    BY <1>3, <1>4
  <2>2. frame' \in [Goroutine -> Frame']
    BY <1>1, <1>2, <1>4, <1>5
  <2> QED
    BY <2>1, <2>2, <1>1, <1>2 DEF Typed
<1>7. Sealed'
  <2>1. /\ frame'[g] = NoFrame
        /\ \A h \in Goroutine : h # g => frame'[h] = frame[h]
    BY <1>1, <1>2
  <2>2. NoFrame.cp.details = 0 /\ NoFrame.made = 0 /\ NoFrame.state = "idle"
    BY DEF NoFrame, Blank
  <2>3. \A i \in DOMAIN errors' :
          errors'[i].details \in Shared
    BY <1>1, <1>2, <1>3 DEF Shared
  <2>4. Shared' \subseteq Shared \cup {0}
    BY <2>1, <2>2, <2>3 DEF Shared
  <2>5. \A h \in Goroutine : Private(h)' \subseteq Private(h) /\ 0 \notin Private(h)
    BY <1>1, <2>1, <2>2 DEF Private
  <2>6. \A h \in Goroutine :
          frame'[h].state = "copy" => frame'[h].made \notin {0, kv'[h]}
    BY <1>1, <2>1, <2>2 DEF Base, Sealed
  <2> QED
    BY <2>4, <2>5, <2>6 DEF Base, Sealed
<1> QED
  BY <1>6, <1>7 DEF Base

LEMMA StutterBase == Base /\ UNCHANGED vars => Base'
<1> SUFFICES ASSUME Base, UNCHANGED vars PROVE Base'
  OBVIOUS
<1>1. errors' = errors /\ maps' = maps /\ kv' = kv /\ frame' = frame
  BY DEF vars
<1>2. ErrorRecord' = ErrorRecord /\ Frame' = Frame
  BY <1>1 DEF ErrorRecord, Frame, Cause
<1>3. Typed'
  BY <1>1, <1>2 DEF Base, Typed
<1>4. Sealed'
  BY <1>1, SealedSame DEF Base
<1> QED
  BY <1>3, <1>4 DEF Base

LEMMA CopyEntryStep ==
  ASSUME Base, Copied, NEW g \in Goroutine, NEW k \in Key, CopyEntry(g, k)
  PROVE  Base'
<1> DEFINE old == Content(frame[g].cp.details)
           f == [frame[g] EXCEPT !.left = @ \ {k}]
<1>1. frame[g] \in Frame /\ old \in Details
  BY TypeFacts, ContentType DEF Base
<1>2. old[k] \in Val
  BY <1>1, DetailsFacts DEF CopyEntry, Copied, CopiedSoFar
<1>3. f \in Frame /\ f.state = frame[g].state /\ f.cp = frame[g].cp /\ f.made = frame[g].made
  BY <1>1 DEF Frame
<1>4. /\ frame' = [frame EXCEPT ![g] = f] /\ UNCHANGED <<errors, kv>>
      /\ Store(g, k, old[k]) /\ frame[g].state = "copy"
  BY DEF CopyEntry
<1> HIDE DEF f, old
<1> QED
  BY <1>2, <1>3, <1>4, StoreStep

LEMMA StoreEntryStep ==
  ASSUME Base, Copied, NEW g \in Goroutine, NEW k \in Key, StoreEntry(g, k)
  PROVE  Base'
<1> DEFINE over == frame[g].over
           f == [frame[g] EXCEPT !.overLeft = @ \ {k}]
<1>1. frame[g] \in Frame /\ over \in Details
  BY TypeFacts DEF Base, Frame
<1>2. over[k] \in Val
  BY <1>1, DetailsFacts DEF StoreEntry, Copied, CopiedSoFar
<1>3. f \in Frame /\ f.state = frame[g].state /\ f.cp = frame[g].cp /\ f.made = frame[g].made
  BY <1>1 DEF Frame
<1>4. /\ frame' = [frame EXCEPT ![g] = f] /\ UNCHANGED <<errors, kv>>
      /\ Store(g, k, over[k]) /\ frame[g].state = "copy"
  BY DEF StoreEntry
<1> HIDE DEF f, over
<1> QED
  BY <1>2, <1>3, <1>4, StoreStep

LEMMA AttachStep ==
  ASSUME Base, NEW g \in Goroutine, Attach(g)
  PROVE  Base'
<1> DEFINE cp == [frame[g].cp EXCEPT !.details = frame[g].made]
<1>1. frame[g].cp \in ErrorRecord /\ frame[g].made \in 0..Len(maps)
  BY TypeFacts DEF Base
<1>2. cp \in ErrorRecord /\ cp.details = frame[g].made
  BY <1>1 DEF ErrorRecord
<1>3. /\ frame[g].made # 0
      /\ \A h \in Goroutine : frame[g].made # kv[h] /\ (h # g => frame[g].made # frame[h].made)
  BY DEF Attach, Base, Sealed, Private
<1>4. Ready(g, cp)
  BY DEF Attach
<1> HIDE DEF cp
<1> QED
  BY <1>2, <1>3, <1>4, ReadyStep

\* The kinds of step there are, for what is said about errors and frames.
LEMMA StepKinds ==
  ASSUME Base, NEW g \in Goroutine, Step(g)
  PROVE  \/ NewMap(g)
         \/ \E k \in Key, x \in Val : SetMap(g, k, x)
         \/ Idle(g) /\ UNCHANGED vars
         \/ \E cp \in ErrorRecord :
              /\ cp.details = 0 \/ \E e \in DOMAIN errors : cp.details = errors[e].details
              /\ Ready(g, cp)
         \/ \E e \in DOMAIN errors, over \in Details :
              DOMAIN over # {} /\ Make(g, e, over)
         \/ \E k \in Key : CopyEntry(g, k)
         \/ \E k \in Key : StoreEntry(g, k)
         \/ Attach(g)
         \/ Return(g)
<1> DEFINE Field(cp) ==
             /\ cp.details = 0 \/ \E e \in DOMAIN errors : cp.details = errors[e].details
             /\ Ready(g, cp)
           Copies(e, over) == DOMAIN over # {} /\ Make(g, e, over)
           Kinds == \/ NewMap(g)
                    \/ \E k \in Key, x \in Val : SetMap(g, k, x)
                    \/ Idle(g) /\ UNCHANGED vars
                    \/ \E cp \in ErrorRecord : Field(cp)
                    \/ \E e \in DOMAIN errors, over \in Details : Copies(e, over)
                    \/ \E k \in Key : CopyEntry(g, k)
                    \/ \E k \in Key : StoreEntry(g, k)
                    \/ Attach(g)
                    \/ Return(g)
<1> SUFFICES Kinds
  OBVIOUS
<1>2. ASSUME NEW c \in Code, NEW msg \in Message, E(g, c, msg)
      PROVE  Kinds
  <2> DEFINE cp == [code |-> c, reason |-> NoReason, message |-> msg, details |-> 0,
                    cause |-> NoCause]
  <2>1. 0 \in 0..Len(maps)
    BY TypeFacts DEF Base
  <2>2. cp \in ErrorRecord /\ cp.details = 0
    BY <2>1 DEF ErrorRecord, Cause
  <2>3. Ready(g, cp)
    BY <1>2 DEF E
  <2> QED
    BY <2>2, <2>3
<1>3. ASSUME NEW e \in DOMAIN errors, NEW r \in Reason, WithReason(g, e, r)
      PROVE  Kinds
  <2>1. errors[e] \in ErrorRecord
    BY TypeFacts DEF Base
  <2>2. [errors[e] EXCEPT !.reason = r] \in ErrorRecord
    BY <2>1 DEF ErrorRecord
  <2>3. [errors[e] EXCEPT !.reason = r].details = errors[e].details
    BY <2>1 DEF ErrorRecord
  <2> QED
    BY <1>3, <2>2, <2>3 DEF WithReason
<1>4. ASSUME NEW e \in DOMAIN errors, NEW msg \in Message, WithMessage(g, e, msg)
      PROVE  Kinds
  <2>1. errors[e] \in ErrorRecord
    BY TypeFacts DEF Base
  <2>2. [errors[e] EXCEPT !.message = msg] \in ErrorRecord
    BY <2>1 DEF ErrorRecord
  <2>3. [errors[e] EXCEPT !.message = msg].details = errors[e].details
    BY <2>1 DEF ErrorRecord
  <2> QED
    BY <1>4, <2>2, <2>3 DEF WithMessage
<1>5. ASSUME NEW e \in DOMAIN errors, NEW c \in (DOMAIN errors) \cup {NoCause, Foreign},
             WithCause(g, e, c)
      PROVE  Kinds
  <2>1. errors[e] \in ErrorRecord /\ DOMAIN errors = 1..Len(errors)
    BY TypeFacts DEF Base
  <2>2. [errors[e] EXCEPT !.cause = c] \in ErrorRecord
    BY <2>1 DEF ErrorRecord, Cause
  <2>3. [errors[e] EXCEPT !.cause = c].details = errors[e].details
    BY <2>1 DEF ErrorRecord
  <2>4. CASE UNCHANGED vars
    BY <1>5, <2>4 DEF WithCause
  <2> QED
    BY <1>5, <2>2, <2>3, <2>4 DEF WithCause, ReturnReceiver
<1>6. ASSUME NEW e \in DOMAIN errors, NEW k \in Key, NEW x \in Val, WithDetail(g, e, k, x)
      PROVE  Kinds
  <2>1. Put(EmptyMap, k, x) \in Details
    BY PutDetails, DetailsFacts
  <2>2. DOMAIN Put(EmptyMap, k, x) # {}
    BY DEF Put
  <2> QED
    BY <1>6, <2>1, <2>2 DEF WithDetail
<1>7. ASSUME NEW e \in DOMAIN errors, WithDetails(g, e)
      PROVE  Kinds
  <2>1. Content(kv[g]) \in Details
    BY TypeFacts, ContentType DEF Base
  <2>2. Content(kv[g]) # EmptyMap => DOMAIN Content(kv[g]) # {}
    BY <2>1, DetailsFacts DEF EmptyMap
  <2>3. CASE UNCHANGED vars
    BY <1>7, <2>3 DEF WithDetails
  <2> QED
    BY <1>7, <2>1, <2>2, <2>3 DEF WithDetails, ReturnReceiver
<1> HIDE DEF Field, Copies
<1> QED
  BY <1>2, <1>3, <1>4, <1>5, <1>6, <1>7 DEF Step

LEMMA NextBase ==
  ASSUME Base, Copied, NEW g \in Goroutine, Step(g)
  PROVE  Base'
<1>1. CASE \/ NewMap(g)
           \/ \E k \in Key, x \in Val : SetMap(g, k, x)
           \/ UNCHANGED vars
  BY <1>1, NewMapStep, SetMapStep, StutterBase
<1>2. ASSUME NEW cp \in ErrorRecord, Ready(g, cp),
             cp.details = 0 \/ \E e \in DOMAIN errors : cp.details = errors[e].details
      PROVE  Base'
  BY <1>2, InShared, ReadyStep
<1>3. ASSUME NEW e \in DOMAIN errors, NEW over \in Details, Make(g, e, over)
      PROVE  Base'
  BY <1>3, MakeStep
<1>4. CASE \/ \E k \in Key : CopyEntry(g, k) \/ StoreEntry(g, k)
           \/ Attach(g)
           \/ Return(g)
  BY <1>4, CopyEntryStep, StoreEntryStep, AttachStep, ReturnStep
<1> QED
  BY <1>1, <1>2, <1>3, <1>4, StepKinds

-----------------------------------------------------------------------------
\* A step of g leaves the maps that are not private to it as they are.
MapsKept(g) ==
  /\ DOMAIN maps \subseteq DOMAIN maps'
  /\ \A r \in DOMAIN maps : r \notin Private(g) => maps'[r] = maps[r]

LEMMA AppendKeeps ==
  ASSUME Typed, NEW g \in Goroutine, maps' = Append(maps, EmptyMap)
  PROVE  MapsKept(g)
<1>1. /\ Len(maps') = Len(maps) + 1 /\ DOMAIN maps' = 1..Len(maps')
      /\ \A r \in 1..Len(maps) : maps'[r] = maps[r]
  BY DEF Typed
<1> QED
  BY <1>1, TypeFacts DEF MapsKept

\* It keeps the frames of others too.
LEMMA StepEffect ==
  ASSUME Base, NEW g \in Goroutine, Step(g)
  PROVE  /\ MapsKept(g)
         /\ \A h \in Goroutine : h # g => frame'[h] = frame[h]
<1> DEFINE Goal == /\ MapsKept(g)
                   /\ \A h \in Goroutine : h # g => frame'[h] = frame[h]
<1> SUFFICES Goal
  OBVIOUS
<1>1. /\ frame[g].state = "copy" => frame[g].made \in Private(g)
      /\ kv[g] # 0 => kv[g] \in Private(g)
  BY DEF Base, Sealed, Private
<1>2. maps' = maps => MapsKept(g)
  BY DEF MapsKept
<1>3. ASSUME NEW q \in Private(g), NEW m, maps' = [maps EXCEPT ![q] = m]
      PROVE  MapsKept(g)
  BY <1>3 DEF MapsKept
<1>4. ASSUME NEW f, frame' = [frame EXCEPT ![g] = f]
      PROVE  \A h \in Goroutine : h # g => frame'[h] = frame[h]
  BY <1>4 DEF Base, Typed
<1>5. ASSUME NEW cp, Ready(g, cp)
      PROVE  Goal
  BY <1>2, <1>4, <1>5 DEF Ready
<1>6. UNCHANGED vars => Goal
  BY <1>2 DEF vars
<1>7. ASSUME NEW e \in DOMAIN errors, NEW over, Make(g, e, over)
      PROVE  Goal
  BY <1>4, <1>7, AppendKeeps DEF Make, Base
<1>8. CASE NewMap(g)
  BY <1>8, AppendKeeps DEF NewMap, Base
<1>9. CASE \E k \in Key, x \in Val : SetMap(g, k, x)
  BY <1>1, <1>3, <1>9 DEF SetMap
<1>10. CASE \E k \in Key : CopyEntry(g, k) \/ StoreEntry(g, k)
  BY <1>1, <1>3, <1>4, <1>10 DEF CopyEntry, StoreEntry, Store
<1>11. CASE Attach(g)
  BY <1>5, <1>11 DEF Attach
<1>12. CASE Return(g)
  BY <1>2, <1>4, <1>12 DEF Return
<1> HIDE DEF Goal
<1> QED
  BY <1>5, <1>6, <1>7, <1>8, <1>9, <1>10, <1>11, <1>12, StepKinds

\* What an error or a frame points to reads the same after any step.
LEMMA ContentKept ==
  ASSUME Base, NEW g \in Goroutine, Step(g), NEW r \in Shared
  PROVE  Content(r)' = Content(r)
<1>1. r \notin Private(g) /\ r \in 0..Len(maps)
  BY TypeFacts DEF Base, Sealed, Shared
<1>2. r = 0 \/ r \in DOMAIN maps
  BY <1>1, TypeFacts DEF Base
<1>3. r \in DOMAIN maps => maps'[r] = maps[r]
  BY <1>1, StepEffect DEF MapsKept
<1> QED
  BY <1>2, <1>3 DEF Content

-----------------------------------------------------------------------------
(* Copied.                                                                 *)

CopiedBy(g) ==
  frame[g].state = "copy" =>
    CopiedSoFar(frame[g], Content(frame[g].cp.details), maps[frame[g].made])

\* Nobody disturbs the copy of another: neither its source nor its target.
LEMMA OthersCopied ==
  ASSUME Base, Copied, NEW g \in Goroutine, Step(g), NEW h \in Goroutine, h # g
  PROVE  CopiedBy(h)'
<1> SUFFICES ASSUME frame'[h].state = "copy"
             PROVE  CopiedSoFar(frame'[h], Content(frame[h].cp.details)',
                                maps'[frame'[h].made])
  BY DEF CopiedBy
<1>1. frame'[h] = frame[h]
  BY StepEffect
<1>2. Content(frame[h].cp.details)' = Content(frame[h].cp.details)
  <2>1. frame[h].cp.details \in Shared
    BY InShared
  <2>2. \A r \in Shared : Content(r)' = Content(r)
    BY ContentKept
  <2> QED
    BY <1>1, <2>1, <2>2 DEF Content
<1>3. maps'[frame[h].made] = maps[frame[h].made]
  <2>1. frame[h].made \in Private(h)
    BY <1>1 DEF Base, Sealed, Private
  <2>2. frame[h].made \notin Private(g)
    BY <2>1 DEF Base, Sealed
  <2>3. frame[h].made \in DOMAIN maps
    BY <2>1, TypeFacts DEF Base, Private
  <2> QED
    BY <2>2, <2>3, StepEffect DEF MapsKept
<1>4. CopiedSoFar(frame[h], Content(frame[h].cp.details), maps[frame[h].made])
  BY <1>1 DEF Copied
<1> QED
  BY <1>1, <1>2, <1>3, <1>4 DEF Content

\* A copy starts with nothing copied and something to store.
LEMMA MakeCopied ==
  ASSUME Base, NEW g \in Goroutine, NEW e \in DOMAIN errors, NEW over \in Details,
         Make(g, e, over), DOMAIN over # {}
  PROVE  CopiedBy(g)'
<1> DEFINE f == [state |-> "copy", cp |-> errors[e], made |-> Len(maps) + 1,
                 left |-> DOMAIN Content(errors[e].details),
                 over |-> over, overLeft |-> DOMAIN over]
           old == Content(errors[e].details)
<1>1. frame'[g] = f
  BY DEF Make, Base, Typed
<1>2. f.cp = errors[e] /\ f.made = Len(maps) + 1 /\ f.left = DOMAIN old
      /\ f.over = over /\ f.overLeft = DOMAIN over
  OBVIOUS
<1>3. Content(errors[e].details)' = old
  <2>1. errors[e].details \in 0..Len(maps) /\ Len(maps) \in Nat /\ DOMAIN maps = 1..Len(maps)
    BY TypeFacts DEF Base
  <2>2. errors' = errors
    BY DEF Make
  <2>3. \A r \in DOMAIN maps : maps'[r] = maps[r]
    BY DEF Make, Base, Typed
  <2> QED
    BY <2>1, <2>2, <2>3 DEF Content
<1>4. maps'[Len(maps) + 1] = EmptyMap
  BY DEF Make, Base, Typed
<1>5. errors' = errors
  BY DEF Make
<1> HIDE DEF f
<1>6. CopiedSoFar(f, old, EmptyMap)
  BY <1>2 DEF CopiedSoFar, EmptyMap
<1> QED
  BY <1>1, <1>2, <1>3, <1>4, <1>5, <1>6 DEF CopiedBy, Content

\* One more old entry, one more new entry: on functions alone.
LEMMA CopyOld ==
  ASSUME NEW f, NEW old, NEW made, NEW k \in f.left, NEW f2,
         CopiedSoFar(f, old, made),
         f2.left = f.left \ {k}, f2.over = f.over, f2.overLeft = f.overLeft
  PROVE  CopiedSoFar(f2, old, Put(made, k, old[k]))
<1>1. DOMAIN f.over \ f.overLeft = {}
  BY DEF CopiedSoFar
<1>2. made = [j \in DOMAIN old \ f.left |-> old[j]]
  BY <1>1 DEF CopiedSoFar
<1>3. /\ DOMAIN made \cup {k} = DOMAIN old \ f2.left
      /\ DOMAIN made = DOMAIN old \ f.left
      /\ \A j \in DOMAIN made : made[j] = old[j]
  BY <1>2 DEF CopiedSoFar
<1>4. Put(made, k, old[k]) = [j \in DOMAIN old \ f2.left |-> old[j]]
  BY <1>3 DEF Put
<1> QED
  BY <1>1, <1>4 DEF CopiedSoFar

LEMMA StoreNew ==
  ASSUME NEW f, NEW old, NEW made, NEW k \in f.overLeft, NEW f2,
         CopiedSoFar(f, old, made), f.left = {},
         f2.left = f.left, f2.over = f.over, f2.overLeft = f.overLeft \ {k}
  PROVE  CopiedSoFar(f2, old, Put(made, k, f.over[k]))
<1> DEFINE done == DOMAIN f.over \ f.overLeft
           done2 == DOMAIN f2.over \ f2.overLeft
<1>1. /\ k \in DOMAIN f.over
      /\ made = [j \in (DOMAIN old \ f.left) \cup done |->
                   IF j \in done THEN f.over[j] ELSE old[j]]
  BY DEF CopiedSoFar
<1>2. done2 = done \cup {k}
  BY <1>1
<1> HIDE DEF done, done2
<1>3. /\ DOMAIN made = (DOMAIN old \ f.left) \cup done
      /\ \A j \in DOMAIN made : made[j] = IF j \in done THEN f.over[j] ELSE old[j]
  BY <1>1
<1>4. Put(made, k, f.over[k]) =
        [j \in (DOMAIN old \ f2.left) \cup done2 |->
           IF j \in done2 THEN f2.over[j] ELSE old[j]]
  BY <1>2, <1>3 DEF Put
<1> QED
  BY <1>4 DEF CopiedSoFar, done2

LEMMA InitCopied == Init => Copied
BY DEF Init, Copied, NoFrame

LEMMA CopyEntryCopied ==
  ASSUME Base, Copied, NEW g \in Goroutine, NEW k \in Key, CopyEntry(g, k)
  PROVE  CopiedBy(g)'
<1> DEFINE f == frame[g]
           f2 == [frame[g] EXCEPT !.left = @ \ {k}]
           old == Content(frame[g].cp.details)
<1>1. /\ f \in Frame /\ f.state = "copy" /\ k \in f.left /\ f.made \in DOMAIN maps
      /\ f.cp.details \in Shared
  BY TypeFacts, InShared DEF CopyEntry, Base, Sealed
<1>2. /\ f2.left = f.left \ {k} /\ f2.over = f.over /\ f2.overLeft = f.overLeft
      /\ f2.cp = f.cp /\ f2.made = f.made
  BY <1>1 DEF Frame
<1>3. frame'[g] = f2
  BY DEF CopyEntry, Base, Typed
<1>4. maps'[f.made] = Put(maps[f.made], k, old[k])
  BY <1>1 DEF CopyEntry, Store, Base, Typed
<1>5. Step(g)
  BY DEF Step
<1>6. Content(frame[g].cp.details)' = old
  <2>1. \A r \in Shared : Content(r)' = Content(r)
    BY <1>5, ContentKept
  <2> QED
    BY <1>1, <1>2, <1>3, <2>1 DEF Content
<1>7. CopiedSoFar(f, old, maps[f.made])
  BY <1>1 DEF Copied
<1> HIDE DEF f, f2, old
<1>8. CopiedSoFar(f2, old, Put(maps[f.made], k, old[k]))
  BY <1>1, <1>2, <1>7, CopyOld
<1> QED
  BY <1>2, <1>3, <1>4, <1>6, <1>8 DEF CopiedBy

LEMMA StoreEntryCopied ==
  ASSUME Base, Copied, NEW g \in Goroutine, NEW k \in Key, StoreEntry(g, k)
  PROVE  CopiedBy(g)'
<1> DEFINE f == frame[g]
           f2 == [frame[g] EXCEPT !.overLeft = @ \ {k}]
           old == Content(frame[g].cp.details)
<1>1. /\ f \in Frame /\ f.state = "copy" /\ k \in f.overLeft /\ f.left = {}
      /\ f.made \in DOMAIN maps /\ f.cp.details \in Shared
  BY TypeFacts, InShared DEF StoreEntry, Base, Sealed
<1>2. /\ f2.left = f.left /\ f2.over = f.over /\ f2.overLeft = f.overLeft \ {k}
      /\ f2.cp = f.cp /\ f2.made = f.made
  BY <1>1 DEF Frame
<1>3. frame'[g] = f2
  BY DEF StoreEntry, Base, Typed
<1>4. maps'[f.made] = Put(maps[f.made], k, f.over[k])
  BY <1>1 DEF StoreEntry, Store, Base, Typed
<1>5. Step(g)
  BY DEF Step
<1>6. Content(frame[g].cp.details)' = old
  <2>1. \A r \in Shared : Content(r)' = Content(r)
    BY <1>5, ContentKept
  <2> QED
    BY <1>1, <1>2, <1>3, <2>1 DEF Content
<1>7. CopiedSoFar(f, old, maps[f.made])
  BY <1>1 DEF Copied
<1> HIDE DEF f, f2, old
<1>8. CopiedSoFar(f2, old, Put(maps[f.made], k, f.over[k]))
  BY <1>1, <1>2, <1>7, StoreNew
<1> QED
  BY <1>2, <1>3, <1>4, <1>6, <1>8 DEF CopiedBy

LEMMA NextCopied ==
  ASSUME Base, Copied, NEW g \in Goroutine, Step(g)
  PROVE  Copied'
<1>1. \A h \in Goroutine : h # g => CopiedBy(h)'
  BY OthersCopied
<1> SUFFICES CopiedBy(g)'
  BY <1>1 DEF Copied, CopiedBy
<1>2. ASSUME NEW cp, Ready(g, cp)
      PROVE  CopiedBy(g)'
  BY <1>2 DEF Ready, CopiedBy, Base, Typed
<1>3. CASE \/ NewMap(g)
           \/ \E k \in Key, x \in Val : SetMap(g, k, x)
           \/ Idle(g) /\ UNCHANGED vars
  BY <1>3 DEF NewMap, SetMap, Idle, CopiedBy, vars
<1>4. CASE Return(g)
  BY <1>4 DEF Return, NoFrame, CopiedBy, Base, Typed
<1>5. CASE Attach(g)
  BY <1>2, <1>5 DEF Attach
<1>6. ASSUME NEW e \in DOMAIN errors, NEW over \in Details, DOMAIN over # {},
             Make(g, e, over)
      PROVE  CopiedBy(g)'
  BY <1>6, MakeCopied
<1>7. CASE \E k \in Key : CopyEntry(g, k)
  BY <1>7, CopyEntryCopied
<1>8. CASE \E k \in Key : StoreEntry(g, k)
  BY <1>8, StoreEntryCopied
<1> QED
  BY <1>2, <1>3, <1>4, <1>5, <1>6, <1>7, <1>8, StepKinds

-----------------------------------------------------------------------------
(* The inductive invariant, and what follows from it.                      *)

IInv == Base /\ Copied

LEMMA InitIInv == Init => IInv
BY InitBase, InitCopied DEF IInv

LEMMA NextIInv ==
  ASSUME IInv, [Next]_vars
  PROVE  IInv'
<1>1. CASE Next
  BY <1>1, NextBase, NextCopied DEF Next, IInv
<1>2. CASE UNCHANGED vars
  <2>1. Base'
    BY <1>2, StutterBase DEF IInv
  <2>2. Copied'
    BY <1>2 DEF IInv, Copied, Content, vars
  <2> QED
    BY <2>1, <2>2 DEF IInv
<1> QED
  BY <1>1, <1>2

LEMMA Invariance == Spec => []IInv
BY InitIInv, NextIInv, PTL DEF Spec

\* What a goroutine stores into, nobody else can reach: no map that an error
\* points to, or that another goroutine fills, is ever stored into.
THEOREM NothingSharedIsWritten == Spec => []Sealed
<1>1. IInv => Sealed
  BY DEF IInv, Base
<1> QED
  BY <1>1, Invariance, PTL

\* However goroutines interleave, a helper that copies details loses no entry
\* and lets no old value overwrite a new one.
THEOREM CopiesAreExact == Spec => []Copied
<1>1. IInv => Copied
  BY DEF IInv
<1> QED
  BY <1>1, Invariance, PTL

\* An error stays where it was returned.
LEMMA PublishedKept ==
  ASSUME Base, NEW g \in Goroutine, Step(g)
  PROVE  \/ errors' = errors
         \/ errors' = Append(errors, frame[g].cp)
<1>1. \A cp : Ready(g, cp) => errors' = errors
  BY DEF Ready
<1> QED
  BY <1>1, StepKinds DEF NewMap, SetMap, vars, Make, CopyEntry, StoreEntry, Attach, Return

\* No step of any goroutine changes what a published error says.
THEOREM Immutability == Spec => Immutable
<1> DEFINE Kept ==
      \A i \in DOMAIN errors :
        i \in DOMAIN errors' /\ Value(errors[i])' = Value(errors[i])
<1>1. IInv /\ [Next]_vars => [Kept]_vars
  <2> SUFFICES ASSUME IInv, NEW g \in Goroutine, Step(g), NEW i \in DOMAIN errors
               PROVE  i \in DOMAIN errors' /\ Value(errors[i])' = Value(errors[i])
    BY DEF Next
  <2>1. Base
    BY DEF IInv
  <2>2. i \in DOMAIN errors' /\ errors'[i] = errors[i]
    <3>1. errors \in Seq(ErrorRecord) /\ frame[g].cp \in ErrorRecord
      BY <2>1, TypeFacts DEF Base, Typed
    <3> QED
      BY <2>1, <3>1, PublishedKept
  <2>3. Content(errors[i].details)' = Content(errors[i].details)
    <3>1. \A r \in Shared : Content(r)' = Content(r)
      BY <2>1, ContentKept
    <3>2. errors[i].details \in Shared
      BY <2>1, InShared
    <3> QED
      BY <2>2, <3>1, <3>2 DEF Content
  <2> QED
    BY <2>2, <2>3 DEF Value
<1> QED
  BY <1>1, Invariance, PTL DEF Spec, Immutable

\* Chains of causes have no cycle: a walk with Unwrap ends.
THEOREM CausesHaveNoCycle == Spec => []CausesOlder
<1>1. Init => CausesOlder
  BY DEF Init, CausesOlder
<1>2. IInv /\ CausesOlder /\ [Next]_vars => CausesOlder'
  <2> SUFFICES ASSUME IInv, CausesOlder, [Next]_vars
               PROVE  CausesOlder'
    OBVIOUS
  <2>1. CASE errors' = errors
    BY <2>1 DEF CausesOlder, Unwrap
  <2>2. ASSUME NEW g \in Goroutine, errors' = Append(errors, frame[g].cp)
        PROVE  CausesOlder'
    <3>1. /\ errors \in Seq(ErrorRecord) /\ frame[g].cp \in ErrorRecord
          /\ Len(errors) \in Nat
      BY TypeFacts DEF IInv, Base, Typed
    <3>2. /\ Len(errors') = Len(errors) + 1 /\ DOMAIN errors' = 1..Len(errors')
          /\ \A i \in DOMAIN errors : errors'[i] = errors[i]
          /\ errors'[Len(errors) + 1] = frame[g].cp
          /\ DOMAIN errors = 1..Len(errors)
      BY <2>2, <3>1
    <3>3. frame[g].cp.cause \in Int => frame[g].cp.cause <= Len(errors)
      BY <3>1, ErrorAssumption DEF ErrorRecord, Cause
    <3>4. ASSUME NEW i \in DOMAIN errors', errors'[i].cause \in Int
          PROVE  errors'[i].cause < i
      <4>1. CASE i \in DOMAIN errors
        BY <3>2, <3>4, <4>1 DEF CausesOlder, Unwrap
      <4>2. CASE i = Len(errors) + 1
        BY <3>1, <3>2, <3>3, <3>4, <4>2
      <4> QED
        BY <3>1, <3>2, <4>1, <4>2
    <3> QED
      BY <3>4 DEF CausesOlder, Unwrap
  <2> QED
    BY <2>1, <2>2, PublishedKept DEF IInv, Next, vars
<1> QED
  BY <1>1, <1>2, Invariance, PTL DEF Spec

\* What becomes known beyond the helper that made it: nothing but a finished
\* copy.
LEMMA SharedGrows ==
  ASSUME Base, NEW g \in Goroutine, Step(g)
  PROVE  \/ Shared' \subseteq Shared \cup {0}
         \/ Attach(g) /\ Shared' \subseteq Shared \cup {frame[g].made}
<1>1. \A h \in Goroutine : h # g => frame'[h] = frame[h]
  BY StepEffect
<1>2. /\ errors \in Seq(ErrorRecord) /\ frame \in [Goroutine -> Frame]
      /\ frame[g].cp \in ErrorRecord
  BY TypeFacts DEF Base, Typed
<1>3. ASSUME NEW f, errors' = errors, frame' = [frame EXCEPT ![g] = f]
      PROVE  Shared' \subseteq Shared \cup {f.cp.details}
  BY <1>1, <1>2, <1>3 DEF Shared
<1>4. ASSUME NEW cp, Ready(g, cp)
      PROVE  Shared' \subseteq Shared \cup {cp.details}
  <2> DEFINE f == [state |-> "return", cp |-> cp, made |-> 0, left |-> {},
                   over |-> EmptyMap, overLeft |-> {}]
  <2>1. errors' = errors /\ frame' = [frame EXCEPT ![g] = f]
    BY <1>4 DEF Ready
  <2>2. f.cp = cp
    OBVIOUS
  <2> HIDE DEF f
  <2> QED
    BY <1>3, <2>1, <2>2
<1>5. CASE \/ NewMap(g)
           \/ \E k \in Key, x \in Val : SetMap(g, k, x)
           \/ UNCHANGED vars
  BY <1>5 DEF NewMap, SetMap, vars, Shared
<1>6. ASSUME NEW cp \in ErrorRecord, Ready(g, cp),
             cp.details = 0 \/ \E e \in DOMAIN errors : cp.details = errors[e].details
      PROVE  Shared' \subseteq Shared \cup {0}
  BY <1>4, <1>6, InShared
<1>7. ASSUME NEW e \in DOMAIN errors, NEW over \in Details, Make(g, e, over)
      PROVE  Shared' \subseteq Shared \cup {0}
  <2> DEFINE f == [state |-> "copy", cp |-> errors[e], made |-> Len(maps) + 1,
                   left |-> DOMAIN Content(errors[e].details),
                   over |-> over, overLeft |-> DOMAIN over]
  <2>1. errors' = errors /\ frame' = [frame EXCEPT ![g] = f]
    BY <1>7 DEF Make
  <2>2. f.cp = errors[e]
    OBVIOUS
  <2> HIDE DEF f
  <2> QED
    BY <1>3, <2>1, <2>2, InShared
<1>8. ASSUME NEW f, errors' = errors, frame' = [frame EXCEPT ![g] = f],
             f.cp = frame[g].cp
      PROVE  Shared' \subseteq Shared \cup {0}
  BY <1>3, <1>8, InShared
<1>9. CASE \E k \in Key : CopyEntry(g, k)
  <2>1. PICK k \in Key : CopyEntry(g, k)
    BY <1>9
  <2>2. [frame[g] EXCEPT !.left = @ \ {k}].cp = frame[g].cp
    BY <1>2 DEF Frame
  <2> QED
    BY <1>8, <2>1, <2>2 DEF CopyEntry
<1>10. CASE \E k \in Key : StoreEntry(g, k)
  <2>1. PICK k \in Key : StoreEntry(g, k)
    BY <1>10
  <2>2. [frame[g] EXCEPT !.overLeft = @ \ {k}].cp = frame[g].cp
    BY <1>2 DEF Frame
  <2> QED
    BY <1>8, <2>1, <2>2 DEF StoreEntry
<1>11. CASE Attach(g)
  <2>1. [frame[g].cp EXCEPT !.details = frame[g].made].details = frame[g].made
    BY <1>2 DEF ErrorRecord
  <2> QED
    BY <1>4, <1>11, <2>1 DEF Attach
<1>12. CASE Return(g)
  <2>1. frame'[g].cp.details = 0
    BY <1>2, <1>12 DEF Return, NoFrame, Blank
  <2>2. \A i \in DOMAIN errors' : errors'[i].details \in Shared
    BY <1>2, <1>12 DEF Return, Shared
  <2> QED
    BY <1>1, <2>1, <2>2 DEF Shared
<1> QED
  BY <1>5, <1>6, <1>7, <1>9, <1>10, <1>11, <1>12, StepKinds

\* A finished copy holds an entry: there was one to store.
LEMMA CopyNotEmpty ==
  ASSUME Base, Copied, NEW g \in Goroutine, Attach(g)
  PROVE  /\ frame[g].made \in DOMAIN maps
         /\ maps[frame[g].made] = Merge(Content(frame[g].cp.details), frame[g].over)
         /\ maps[frame[g].made] # EmptyMap
<1> DEFINE f == frame[g]
           old == Content(frame[g].cp.details)
<1>1. f.made \in DOMAIN maps
  BY TypeFacts DEF Attach, Base, Sealed
<1>2. CopiedSoFar(f, old, maps[f.made]) /\ f.left = {} /\ f.overLeft = {}
  BY DEF Attach, Copied
<1> HIDE DEF f, old
<1>3. DOMAIN f.over # {}
  BY <1>2 DEF CopiedSoFar
<1>4. maps[f.made] = Merge(old, f.over)
  BY <1>2 DEF CopiedSoFar, Merge
<1>5. DOMAIN maps[f.made] # {}
  BY <1>3, <1>4 DEF Merge
<1>6. DOMAIN EmptyMap = {}
  BY DEF EmptyMap
<1> QED
  BY <1>1, <1>4, <1>5, <1>6 DEF f, old

HasEntry(r) == r # 0 => Content(r) # EmptyMap

\* Types hold, and no error is left with an empty map of details: so testing
\* the length of Details, as WithDetail and WithDetails do, tells nil apart.
THEOREM TypeCorrect == Spec => []TypeOK
<1> DEFINE Entries == \A r \in Shared : HasEntry(r)
<1>1. Init => Entries
  BY DEF Init, Shared, NoFrame, Blank, HasEntry
<1>2. IInv /\ Entries /\ [Next]_vars => Entries'
  <2> SUFFICES ASSUME IInv, Entries, [Next]_vars, NEW r \in Shared'
               PROVE  HasEntry(r)'
    OBVIOUS
  <2>1. CASE UNCHANGED vars
    BY <2>1 DEF vars, Shared, HasEntry, Content
  <2>2. CASE Next
    <3>1. PICK g \in Goroutine : Step(g)
      BY <2>2 DEF Next
    <3>2. Base /\ Copied
      BY DEF IInv
    <3>3. CASE r \in Shared \cup {0}
      BY <3>1, <3>2, <3>3, ContentKept DEF HasEntry
    <3>4. CASE Attach(g) /\ r = frame[g].made
      <4>1. maps' = maps
        BY <3>4 DEF Attach, Ready
      <4> QED
        BY <3>2, <3>4, <4>1, CopyNotEmpty DEF HasEntry, Content
    <3> QED
      BY <3>1, <3>2, <3>3, <3>4, SharedGrows
  <2> QED
    BY <2>1, <2>2
<1>3. IInv /\ Entries => TypeOK
  BY DEF IInv, Base, TypeOK, NoEmptyDetails, Shared, HasEntry
<1> QED
  BY <1>1, <1>2, <1>3, Invariance, PTL DEF Spec
=============================================================================
