------------------------- MODULE TextExchangeProofs -------------------------
(***************************************************************************)
(* Codes and reasons keep their meaning on the way between two processes:  *)
(* the invariants of TextExchange that are about Parse, Validate, Normalize*)
(* and the two halves of encoding.TextMarshaler, for every alphabet and    *)
(* texts of every length.  The argument is about one idea: Normalize is a  *)
(* trim and then a map over characters, both idempotent, and the map does  *)
(* not make a blank of anything else.                                      *)
(***************************************************************************)
EXTENDS TextExchange, FiniteSetTheorems, WellFoundedInduction, TLAPS

\* A set of positions has a first and a last one.
LEMMA LeastOf ==
  ASSUME NEW D, D \subseteq Nat, D # {}
  PROVE  \E k \in D : \A x \in D : k <= x
<1>1. PICK k \in D : \A y \in D : ~ (<<y, k>> \in OpToRel(<, Nat))
  BY NatLessThanWellFounded, WFMin
<1>2. \A y \in D : ~ (y < k)
  BY <1>1 DEF OpToRel
<1> QED
  BY <1>2

LEMMA GreatestOf ==
  ASSUME NEW n \in Nat, NEW D, D \subseteq 0..n, D # {}
  PROVE  \E k \in D : \A x \in D : x <= k
<1> DEFINE E == {y \in Nat : n - y \in D}
<1>1. E \subseteq Nat /\ E # {}
  <2>1. PICK x \in D : TRUE
    OBVIOUS
  <2>2. n - x \in E
    BY <2>1
  <2> QED
    BY <2>2
<1>2. PICK e \in E : \A x \in E : e <= x
  BY <1>1, LeastOf
<1>3. n - e \in D
  BY <1>2
<1>4. ASSUME NEW x \in D PROVE x <= n - e
  <2>1. n - x \in E
    OBVIOUS
  <2>2. x \in Nat /\ e \in Nat /\ n \in Nat
    OBVIOUS
  <2> HIDE DEF E
  <2>3. e <= n - x
    BY <1>2, <2>1
  <2> QED
    BY ONLY <2>2, <2>3
<1> QED
  BY <1>3, <1>4

LEMMA MinIsLeast ==
  ASSUME NEW D, D \subseteq Nat, D # {}
  PROVE  Min(D) \in D /\ \A x \in D : Min(D) <= x
<1>1. \E k \in D : \A x \in D : k <= x
  BY LeastOf
<1> QED
  BY <1>1 DEF Min

LEMMA MaxIsGreatest ==
  ASSUME NEW n \in Nat, NEW D, D \subseteq 0..n, D # {}
  PROVE  Max(D) \in D /\ \A x \in D : x <= Max(D)
<1>1. \E k \in D : \A x \in D : x <= k
  BY GreatestOf
<1>2. \E k \in D : \A x \in D : k >= x
  BY <1>1
<1>3. Max(D) \in D /\ \A x \in D : Max(D) >= x
  BY <1>2 DEF Max
<1> QED
  BY <1>3

-----------------------------------------------------------------------------
(* Trim.                                                                   *)

\* No blank at either end.
Trimmed(s) == s # <<>> => s[1] \notin Blank /\ s[Len(s)] \notin Blank

\* Trim gives a text without blanks at its ends, and leaves such a text alone
\* (strings.TrimSpace).
LEMMA TrimTrims ==
  ASSUME NEW s \in Seq(Char)
  PROVE  Trim(s) \in Seq(Char) /\ Trimmed(Trim(s))
<1> DEFINE kept == {i \in 1..Len(s) : s[i] \notin Blank}
<1>1. CASE kept = {}
  BY <1>1 DEF Trim, Trimmed
<1>2. CASE kept # {}
  <2>1. kept \subseteq Nat /\ kept \subseteq 0..Len(s) /\ Len(s) \in Nat
    OBVIOUS
  <2>2. Min(kept) \in kept /\ \A x \in kept : Min(kept) <= x
    BY <1>2, <2>1, MinIsLeast
  <2>3. Max(kept) \in kept /\ \A x \in kept : x <= Max(kept)
    BY <1>2, <2>1, MaxIsGreatest
  <2> DEFINE a == Min(kept)  b == Max(kept)
  <2>4. a \in 1..Len(s) /\ b \in 1..Len(s) /\ a <= b /\ s[a] \notin Blank /\ s[b] \notin Blank
    BY <2>2, <2>3
  <2>5. Trim(s) = SubSeq(s, a, b)
    BY <1>2 DEF Trim
  <2> HIDE DEF a, b, kept
  <2>6. SubSeq(s, a, b) \in Seq(Char) /\ Len(SubSeq(s, a, b)) = b - a + 1
    BY <2>4
  <2>7. SubSeq(s, a, b)[1] = s[a] /\ SubSeq(s, a, b)[b - a + 1] = s[b]
    BY <2>4
  <2> QED
    BY <2>4, <2>5, <2>6, <2>7 DEF Trimmed
<1> QED
  BY <1>1, <1>2

LEMMA TrimmedIsKept ==
  ASSUME NEW s \in Seq(Char), Trimmed(s)
  PROVE  Trim(s) = s
<1> DEFINE kept == {i \in 1..Len(s) : s[i] \notin Blank}
<1>1. CASE s = <<>>
  BY <1>1 DEF Trim
<1>2. CASE s # <<>>
  <2>1. Len(s) \in Nat /\ Len(s) >= 1 /\ 1 \in kept /\ Len(s) \in kept
    BY <1>2 DEF Trimmed
  <2>2. kept \subseteq Nat /\ kept \subseteq 0..Len(s) /\ kept # {}
    BY <2>1
  <2>3. Min(kept) \in kept /\ \A x \in kept : Min(kept) <= x
    BY <2>2, MinIsLeast
  <2>4. Max(kept) \in kept /\ \A x \in kept : x <= Max(kept)
    BY <2>1, <2>2, MaxIsGreatest
  <2>5. Min(kept) = 1 /\ Max(kept) = Len(s)
    BY <2>1, <2>3, <2>4
  <2>6. Trim(s) = SubSeq(s, 1, Len(s))
    BY <2>2, <2>5 DEF Trim
  <2> QED
    BY <2>1, <2>6
<1> QED
  BY <1>1, <1>2

-----------------------------------------------------------------------------
(* Normalize.                                                              *)

\* What Normalize makes of one character of a code, and of a reason.
CodeChar(c) == IF LowerOf[c] = "-" THEN "_" ELSE LowerOf[c]
ReasonChar(c) ==
  IF LowerOf[c] = "/" THEN "." ELSE IF LowerOf[c] = "-" THEN "_" ELSE LowerOf[c]

\* Normalizing a character twice is normalizing it once, keeps what a valid
\* text is made of, and makes no blank of what is none.
LEMMA CodeCharIsIdempotent ==
  ASSUME NEW c \in Char
  PROVE  /\ CodeChar(c) \in Char
         /\ CodeChar(CodeChar(c)) = CodeChar(c)
         /\ c \in Ident => CodeChar(c) = c
         /\ CodeChar(c) \in Blank => c \in Blank
  BY CharAssumption DEF CodeChar, Ident

LEMMA ReasonCharIsIdempotent ==
  ASSUME NEW c \in Char
  PROVE  /\ ReasonChar(c) \in Char
         /\ ReasonChar(ReasonChar(c)) = ReasonChar(c)
         /\ c \in Ident \cup {"."} => ReasonChar(c) = c
         /\ ReasonChar(c) \in Blank => c \in Blank
  BY CharAssumption DEF ReasonChar, Ident

\* Normalize works on the trimmed text character by character.
LEMMA CodeNormalizeMaps ==
  ASSUME NEW s \in Seq(Char)
  PROVE  CodeNormalize(s) = [i \in 1..Len(Trim(s)) |-> CodeChar(Trim(s)[i])]
<1> DEFINE t == Trim(s)
<1>1. t \in Seq(Char)
  BY TrimTrims
<1> HIDE DEF t
<1>2. Len(Lowered(t)) = Len(t) /\ \A i \in 1..Len(t) : Lowered(t)[i] = LowerOf[t[i]]
  BY <1>1 DEF Lowered
<1>3. ReplaceAll(Lowered(t), "-", "_") = [i \in 1..Len(t) |-> CodeChar(t[i])]
  BY <1>2 DEF ReplaceAll, CodeChar
<1> QED
  BY <1>3 DEF CodeNormalize, t

LEMMA ReasonNormalizeMaps ==
  ASSUME NEW s \in Seq(Char)
  PROVE  ReasonNormalize(s) = [i \in 1..Len(Trim(s)) |-> ReasonChar(Trim(s)[i])]
<1> DEFINE t == Trim(s)
           u == ReplaceAll(Lowered(t), "/", ".")
<1>1. t \in Seq(Char)
  BY TrimTrims
<1> HIDE DEF t
<1>2. Len(Lowered(t)) = Len(t) /\ \A i \in 1..Len(t) : Lowered(t)[i] = LowerOf[t[i]]
  BY <1>1 DEF Lowered
<1>3. /\ Len(u) = Len(t)
      /\ \A i \in 1..Len(t) : u[i] = IF LowerOf[t[i]] = "/" THEN "." ELSE LowerOf[t[i]]
  BY <1>1, <1>2 DEF ReplaceAll
<1> HIDE DEF u
<1>4. ReplaceAll(u, "-", "_") = [i \in 1..Len(t) |-> ReasonChar(t[i])]
  BY <1>3 DEF ReplaceAll, ReasonChar
<1> QED
  BY <1>4 DEF ReasonNormalize, t, u

\* Normalize returns a text that it would return unchanged
\* (code.go:151-156, reason.go:124-133).
THEOREM CodeNormalizeIdempotent ==
  \A s \in Seq(Char) : /\ CodeNormalize(s) \in Seq(Char)
                        /\ Trimmed(CodeNormalize(s))
                        /\ CodeNormalize(CodeNormalize(s)) = CodeNormalize(s)
<1> SUFFICES ASSUME NEW s \in Seq(Char)
             PROVE  /\ CodeNormalize(s) \in Seq(Char)
                    /\ Trimmed(CodeNormalize(s))
                    /\ CodeNormalize(CodeNormalize(s)) = CodeNormalize(s)
  OBVIOUS
<1> DEFINE t == Trim(s)
           n == CodeNormalize(s)
<1>1. t \in Seq(Char) /\ Trimmed(t)
  BY TrimTrims
<1>2. n = [i \in 1..Len(t) |-> CodeChar(t[i])]
  BY CodeNormalizeMaps
<1> HIDE DEF t, n
<1>3. n \in Seq(Char) /\ Len(n) = Len(t) /\ \A i \in 1..Len(t) : n[i] = CodeChar(t[i])
  BY <1>1, <1>2, CodeCharIsIdempotent
<1>4. Trimmed(n)
  <2> SUFFICES ASSUME n # <<>> PROVE n[1] \notin Blank /\ n[Len(n)] \notin Blank
    BY DEF Trimmed
  <2>1. t # <<>> /\ Len(t) \in Nat /\ Len(t) >= 1
    BY <1>1, <1>3
  <2> QED
    BY <1>1, <1>3, <2>1, CodeCharIsIdempotent DEF Trimmed
<1>5. CodeNormalize(n) = [i \in 1..Len(n) |-> CodeChar(n[i])]
  BY <1>3, <1>4, TrimmedIsKept, CodeNormalizeMaps
<1>6. \A i \in 1..Len(n) : CodeChar(n[i]) = n[i]
  BY <1>1, <1>3, CodeCharIsIdempotent
<1>7. CodeNormalize(n) = n
  BY <1>3, <1>5, <1>6
<1> QED
  BY <1>3, <1>4, <1>7 DEF n

THEOREM ReasonNormalizeIdempotent ==
  \A s \in Seq(Char) : /\ ReasonNormalize(s) \in Seq(Char)
                        /\ Trimmed(ReasonNormalize(s))
                        /\ ReasonNormalize(ReasonNormalize(s)) = ReasonNormalize(s)
<1> SUFFICES ASSUME NEW s \in Seq(Char)
             PROVE  /\ ReasonNormalize(s) \in Seq(Char)
                    /\ Trimmed(ReasonNormalize(s))
                    /\ ReasonNormalize(ReasonNormalize(s)) = ReasonNormalize(s)
  OBVIOUS
<1> DEFINE t == Trim(s)
           n == ReasonNormalize(s)
<1>1. t \in Seq(Char) /\ Trimmed(t)
  BY TrimTrims
<1>2. n = [i \in 1..Len(t) |-> ReasonChar(t[i])]
  BY ReasonNormalizeMaps
<1> HIDE DEF t, n
<1>3. n \in Seq(Char) /\ Len(n) = Len(t) /\ \A i \in 1..Len(t) : n[i] = ReasonChar(t[i])
  BY <1>1, <1>2, ReasonCharIsIdempotent
<1>4. Trimmed(n)
  <2> SUFFICES ASSUME n # <<>> PROVE n[1] \notin Blank /\ n[Len(n)] \notin Blank
    BY DEF Trimmed
  <2>1. t # <<>> /\ Len(t) \in Nat /\ Len(t) >= 1
    BY <1>1, <1>3
  <2> QED
    BY <1>1, <1>3, <2>1, ReasonCharIsIdempotent DEF Trimmed
<1>5. ReasonNormalize(n) = [i \in 1..Len(n) |-> ReasonChar(n[i])]
  BY <1>3, <1>4, TrimmedIsKept, ReasonNormalizeMaps
<1>6. \A i \in 1..Len(n) : ReasonChar(n[i]) = n[i]
  BY <1>1, <1>3, ReasonCharIsIdempotent
<1>7. ReasonNormalize(n) = n
  BY <1>3, <1>5, <1>6
<1> QED
  BY <1>3, <1>4, <1>7 DEF n

-----------------------------------------------------------------------------
(* Parse, Validate and the two halves of encoding.TextMarshaler.           *)

\* What the regexps accept is in normal form.
LEMMA ValidCodeIsNormal ==
  ASSUME NEW c \in Seq(Char), CodeValidate(c) = "nil"
  PROVE  Trim(c) = c /\ CodeNormalize(c) = c
<1>1. MatchesCodeRe(c)
  BY DEF CodeValidate
<1>2. \A i \in 1..Len(c) : c[i] \in Ident /\ CodeChar(c[i]) = c[i] /\ c[i] \notin Blank
  <2> TAKE i \in 1..Len(c)
  <2>1. c[i] \in Ident /\ c[i] \in Char
    BY <1>1 DEF MatchesCodeRe
  <2> QED
    BY <2>1, CodeCharIsIdempotent, CharAssumption DEF Ident
<1>3. Trimmed(c)
  BY <1>2 DEF Trimmed
<1>4. Trim(c) = c
  BY <1>3, TrimmedIsKept
<1>5. CodeNormalize(c) = [i \in 1..Len(c) |-> CodeChar(c[i])]
  BY <1>4, CodeNormalizeMaps
<1>6. [i \in 1..Len(c) |-> CodeChar(c[i])] = c
  BY <1>2
<1> QED
  BY <1>4, <1>5, <1>6

LEMMA ValidReasonIsNormal ==
  ASSUME NEW r \in Seq(Char), ReasonValidate(r) = "nil"
  PROVE  Trim(r) = r /\ ReasonNormalize(r) = r
<1>1. r = <<>> \/ MatchesReasonRe(r)
  BY DEF ReasonValidate, CheckReason
<1>2. \A i \in 1..Len(r) : ReasonChar(r[i]) = r[i] /\ r[i] \notin Blank
  <2> TAKE i \in 1..Len(r)
  <2>1. r[i] \in Ident \cup {"."} /\ r[i] \in Char
    BY <1>1 DEF MatchesReasonRe
  <2> QED
    BY <2>1, ReasonCharIsIdempotent, CharAssumption DEF Ident
<1>3. Trimmed(r)
  BY <1>2 DEF Trimmed
<1>4. Trim(r) = r
  BY <1>3, TrimmedIsKept
<1>5. ReasonNormalize(r) = [i \in 1..Len(r) |-> ReasonChar(r[i])]
  BY <1>4, ReasonNormalizeMaps
<1>6. [i \in 1..Len(r) |-> ReasonChar(r[i])] = r
  BY <1>2
<1> QED
  BY <1>4, <1>5, <1>6

\* Parse returns a text, and one that Validate accepts when it reports no
\* error (code.go:121-139, reason.go:140-158).
LEMMA ParseGivesCanonical ==
  ASSUME NEW s \in Seq(Char)
  PROVE  /\ Parse(s).val \in Seq(Char) /\ Parse(s).err \in Errors
         /\ Parse(s).err = "nil" => Canonical(Parse(s).val) /\ Parse(s) = Result("nil", Normalize(s))
         /\ Parse(s).err # "nil" => Parse(s).val = <<>>
<1>1. CodeNormalize(s) \in Seq(Char) /\ ReasonNormalize(s) \in Seq(Char)
  BY CodeNormalizeIdempotent, ReasonNormalizeIdempotent
<1> DEFINE n == Normalize(s)
<1>2. n \in Seq(Char) /\ Validate(n) \in Errors /\ Validate(n) # "panic"
  BY <1>1 DEF Normalize, Validate, CodeValidate, ReasonValidate, CheckReason, Errors
<1>3. Parse(s) = IF Validate(n) = "nil" THEN Result("nil", n) ELSE Result(Validate(n), <<>>)
  <2>1. CASE kind = "code"
    BY <2>1 DEF Parse, CodeParse, Validate, Normalize
  <2>2. CASE kind # "code"
    BY <2>2 DEF Parse, ReasonParse, ReasonValidate, Validate, Normalize
  <2> QED
    BY <2>1, <2>2
<1> HIDE DEF n
<1>4. Parse(s).err = Validate(n) /\ (Validate(n) = "nil" => Parse(s).val = n)
      /\ (Validate(n) # "nil" => Parse(s).val = <<>>)
  BY <1>3 DEF Result
<1>5. Parse(s).val \in Seq(Char) /\ Parse(s).err \in Errors
  <2>1. <<>> \in Seq(Char)
    OBVIOUS
  <2> QED
    BY <1>2, <1>4, <2>1
<1>6. Parse(s).err = "nil" => Canonical(Parse(s).val) /\ Parse(s) = Result("nil", n)
  BY <1>3, <1>4 DEF Canonical
<1> QED
  BY <1>4, <1>5, <1>6 DEF n

\* What Validate accepts parses as it is.
LEMMA CanonicalParsesToItself ==
  ASSUME NEW s \in Seq(Char), Canonical(s)
  PROVE  Trim(s) = s /\ Normalize(s) = s /\ Parse(s) = Result("nil", s)
<1>1. CASE kind = "code"
  <2>1. CodeValidate(s) = "nil"
    BY <1>1 DEF Canonical, Validate
  <2>2. Trim(s) = s /\ CodeNormalize(s) = s
    BY <2>1, ValidCodeIsNormal
  <2> QED
    BY <1>1, <2>1, <2>2 DEF Parse, CodeParse, Normalize
<1>2. CASE kind # "code"
  <2>1. ReasonValidate(s) = "nil"
    BY <1>2 DEF Canonical, Validate
  <2>2. Trim(s) = s /\ ReasonNormalize(s) = s
    BY <2>1, ValidReasonIsNormal
  <2> QED
    BY <1>2, <2>1, <2>2 DEF Parse, ReasonParse, ReasonValidate, Normalize, CheckReason
<1> QED
  BY <1>1, <1>2

\* UnmarshalText either stores what Parse returns of the trimmed text or
\* leaves the receiver alone (code.go:182-191, reason.go:199-210).
LEMMA UnmarshalStoresOrKeeps ==
  ASSUME NEW v \in Seq(Char), NEW t \in Seq(Char)
  PROVE  LET res == UnmarshalText(v, t) IN
         /\ res.val \in Seq(Char) /\ res.err \in Errors
         /\ res.err = "nil" => Canonical(res.val)
         /\ res.err # "nil" => res.val = v
<1>1. Trim(t) \in Seq(Char)
  BY TrimTrims
<1>2. UnmarshalText(v, t) = IF Parse(Trim(t)).err = "nil" THEN Parse(Trim(t))
                            ELSE Result(Parse(Trim(t)).err, v)
  BY DEF UnmarshalText, CodeUnmarshalText, ReasonUnmarshalText, Parse
<1> QED
  BY <1>1, <1>2, ParseGivesCanonical DEF Result

\* What MarshalText lets out is the value, and canonical.
LEMMA MarshalIsGuarded ==
  ASSUME NEW v \in Seq(Char)
  PROVE  LET res == MarshalText(v) IN
         /\ res.val \in Seq(Char) /\ res.err \in Errors
         /\ res.err = "nil" => res.val = v /\ Canonical(v)
  BY DEF MarshalText, CodeMarshalText, ReasonMarshalText, CodeValidate, ReasonValidate, CheckReason,
         Canonical, Validate, Result, Errors

LEMMA MustParseIsParse ==
  ASSUME NEW s \in Seq(Char)
  PROVE  MustParse(s).val \in Seq(Char) /\ MustParse(s).err \in Errors
<1>1. MustParse(s) = Parse(s) \/ MustParse(s) = Result("panic", <<>>)
  BY DEF MustParse, CodeMustParse, ReasonMustParse, Parse
<1>2. Result("panic", <<>>).val \in Seq(Char) /\ Result("panic", <<>>).err \in Errors
  BY DEF Result, Errors
<1> QED
  BY <1>1, <1>2, ParseGivesCanonical

-----------------------------------------------------------------------------
(* The exchange.                                                           *)

\* A step out of "typing" that makes a value, and one that unmarshals.
Make == Convert \/ MakeByParse \/ MakeByMustParse
Receive == UnmarshalSent \/ UnmarshalTyped

\* Every run of the exchange keeps its types, and only canonical text is on
\* the wire, whatever was converted to a Code or a Reason (code.go:172,
\* reason.go:188).
THEOREM TypeCorrect == Spec => []TypeOK
<1>1. Init => TypeOK
  <2> SUFFICES ASSUME Init PROVE TypeOK
    OBVIOUS
  <2>1. <<>> \in Text /\ Prior \in Text
    BY PriorAssumption DEF Text
  <2> QED
    BY <2>1 DEF Init, TypeOK, Errors
<1>2. TypeOK /\ [Next]_vars => TypeOK'
  <2> SUFFICES ASSUME TypeOK, [Next]_vars PROVE TypeOK'
    OBVIOUS
  <2>1. CASE UNCHANGED vars
    BY <2>1 DEF TypeOK, vars, Canonical, Validate
  <2>2. ASSUME NEW c \in Char, Type(c) PROVE TypeOK'
    <3>1. text' \in Text
      BY <2>2 DEF Type, TypeOK, Text
    <3> QED
      BY <2>2, <3>1 DEF Type, TypeOK
  <2>3. CASE Make
    <3>1. value' \in Text /\ err' \in Errors /\ pc' \in {"made", "panicked"}
      BY <2>3, ParseGivesCanonical, MustParseIsParse
         DEF Make, Convert, MakeByParse, MakeByMustParse, TypeOK, Text
    <3>2. UNCHANGED <<kind, text, wire, received>>
      BY <2>3 DEF Make, Convert, MakeByParse, MakeByMustParse
    <3> QED
      BY <3>1, <3>2 DEF TypeOK
  <2>4. CASE Marshal
    <3> DEFINE res == MarshalText(value)
    <3>1. res.val \in Text /\ res.err \in Errors /\ (res.err = "nil" => res.val = value /\ Canonical(value))
      BY MarshalIsGuarded DEF TypeOK, Text
    <3> HIDE DEF res
    <3>2. /\ pc' = IF res.err = "nil" THEN "sent" ELSE "done"
          /\ wire' = res.val /\ err' = res.err
          /\ UNCHANGED <<kind, text, value, received>>
      BY <2>4 DEF Marshal, res
    <3>3. pc' = "sent" => wire' = value' /\ Canonical(wire)'
      BY <3>1, <3>2 DEF Canonical, Validate
    <3> QED
      BY <3>1, <3>2, <3>3 DEF TypeOK
  <2>5. CASE Receive
    <3>1. PICK t \in Seq(Char) : Unmarshal(t)
      BY <2>5 DEF Receive, UnmarshalSent, UnmarshalTyped, TypeOK, Text
    <3> DEFINE res == UnmarshalText(received, t)
    <3>2. res.val \in Text /\ res.err \in Errors
      BY UnmarshalStoresOrKeeps DEF TypeOK, Text
    <3>3. pc' = "done" /\ received' = res.val /\ err' = res.err /\ UNCHANGED <<kind, text, value, wire>>
      BY <3>1 DEF Unmarshal
    <3> HIDE DEF res
    <3> QED
      BY <3>2, <3>3 DEF TypeOK
  <2> QED
    BY <2>1, <2>2, <2>3, <2>4, <2>5 DEF Next, Make, Receive
<1> QED
  BY <1>1, <1>2, PTL DEF Spec

\* What MarshalText lets out comes back as the same value on the other side,
\* whatever the receiver held (code.go:172-191, reason.go:188-210).
LEMMA SentComesBack == TypeOK => RoundTrip
<1> SUFFICES ASSUME TypeOK, pc = "sent", NEW held
             PROVE  UnmarshalText(held, wire) = Result("nil", value)
  BY DEF RoundTrip
<1>1. wire \in Seq(Char) /\ wire = value /\ Canonical(wire)
  BY DEF TypeOK, Text
<1>2. Trim(wire) = wire /\ Parse(wire) = Result("nil", wire)
  BY <1>1, CanonicalParsesToItself
<1>3. UnmarshalText(held, wire) = IF Parse(Trim(wire)).err = "nil" THEN Parse(Trim(wire))
                                  ELSE Result(Parse(Trim(wire)).err, held)
  BY DEF UnmarshalText, CodeUnmarshalText, ReasonUnmarshalText, Parse
<1> QED
  BY <1>1, <1>2, <1>3 DEF Result

\* What MarshalText lets out UnmarshalText takes in as the same value
\* (code.go:172-191, reason.go:188-210).
THEOREM RoundTripCorrect == Spec => []RoundTrip
  BY TypeCorrect, SentComesBack, PTL

\* Parse, Validate and Normalize agree on one format, for every text typed
\* (code.go:121-162, reason.go:140-177).
THEOREM ParseIsCanonicalCorrect == Spec => []ParseIsCanonical
<1>1. TypeOK => ParseIsCanonical
  <2> SUFFICES ASSUME TypeOK PROVE ParseIsCanonical
    OBVIOUS
  <2>1. text \in Seq(Char)
    BY DEF TypeOK, Text
  <2>2. Parse(text).err = "nil" => Canonical(Parse(text).val)
    BY <2>1, ParseGivesCanonical
  <2>3. Canonical(text) => Parse(text) = Result("nil", text)
    BY <2>1, CanonicalParsesToItself
  <2>4. Parse(text) = Result("nil", text) => Canonical(text)
    <3> SUFFICES ASSUME Parse(text) = Result("nil", text) PROVE Canonical(text)
      OBVIOUS
    <3>1. Parse(text).err = "nil" /\ Parse(text).val = text
      BY DEF Result
    <3> QED
      BY <2>2, <3>1
  <2>5. Normalize(Normalize(text)) = Normalize(text)
    BY <2>1, CodeNormalizeIdempotent, ReasonNormalizeIdempotent DEF Normalize
  <2>6. Parse(Normalize(text)) = Parse(text)
    BY <2>5 DEF Parse, CodeParse, ReasonParse, Normalize
  <2> QED
    BY <2>2, <2>3, <2>4, <2>6 DEF ParseIsCanonical
<1> QED
  BY <1>1, TypeCorrect, PTL

\* Unmarshalling a refused text leaves the field alone, and an accepted one
\* leaves a canonical value in it (code.go:182-191, reason.go:202-210).
THEOREM ReceiverStaysCanonicalCorrect == Spec => ReceiverStaysCanonical
<1>1. TypeOK /\ [Next]_vars => [received' # received => err' = "nil" /\ Canonical(received')]_vars
  <2> SUFFICES ASSUME TypeOK, Next, received' # received
               PROVE  err' = "nil" /\ Canonical(received')
    BY DEF vars
  <2>1. Receive
    BY DEF Next, Type, Convert, MakeByParse, MakeByMustParse, Marshal, Receive
  <2>2. PICK t \in Seq(Char) : Unmarshal(t)
    BY <2>1 DEF Receive, UnmarshalSent, UnmarshalTyped, TypeOK, Text
  <2> DEFINE res == UnmarshalText(received, t)
  <2>3. (res.err = "nil" => Canonical(res.val)) /\ (res.err # "nil" => res.val = received)
    BY UnmarshalStoresOrKeeps DEF TypeOK, Text
  <2>4. received' = res.val /\ err' = res.err /\ kind' = kind
    BY <2>2 DEF Unmarshal
  <2> HIDE DEF res
  <2>5. res.err = "nil" /\ Canonical(res.val)
    BY <2>3, <2>4
  <2> QED
    BY <2>4, <2>5 DEF Canonical, Validate
<1> QED
  BY <1>1, TypeCorrect, PTL DEF Spec, ReceiverStaysCanonical

-----------------------------------------------------------------------------
(* Split.  The cuts of a text are its dots and its two ends; Split finds    *)
(* the k-th by counting the cuts below it, and here it is shown that there *)
(* always is exactly one.                                                  *)

Cuts(s) == Dots(s) \cup {0, Len(s) + 1}
Below(s, i) == {j \in Cuts(s) : j < i}

LEMMA CutsAreFinite ==
  ASSUME NEW s \in Seq(Char)
  PROVE  /\ Cuts(s) \subseteq 0..(Len(s) + 1) /\ Len(s) \in Nat
         /\ IsFiniteSet(Cuts(s))
         /\ Cardinality(Cuts(s)) = Cardinality(Dots(s)) + 2 /\ Cardinality(Dots(s)) \in Nat
<1>1. Len(s) \in Nat /\ Dots(s) \subseteq 1..Len(s) /\ IsFiniteSet(1..Len(s))
  BY FS_Interval DEF Dots
<1>2. IsFiniteSet(Dots(s)) /\ Cardinality(Dots(s)) \in Nat
  BY <1>1, FS_Subset, FS_CardinalityType
<1>3. 0 \notin Dots(s) /\ Len(s) + 1 \notin Dots(s) \cup {0}
  BY <1>1
<1> DEFINE low == Dots(s) \cup {0}
<1>4. IsFiniteSet(low) /\ Cardinality(low) = Cardinality(Dots(s)) + 1
  BY <1>2, <1>3, FS_AddElement
<1>5. Cuts(s) = low \cup {Len(s) + 1} /\ Len(s) + 1 \notin low
  BY <1>3 DEF Cuts
<1> HIDE DEF low
<1>6. IsFiniteSet(Cuts(s)) /\ Cardinality(Cuts(s)) = Cardinality(Dots(s)) + 2
  <2>1. IsFiniteSet(Cuts(s)) /\ Cardinality(Cuts(s)) = Cardinality(low) + 1
    BY <1>4, <1>5, FS_AddElement
  <2> QED
    BY <1>2, <1>4, <2>1
<1>7. Cuts(s) \subseteq 0..(Len(s) + 1)
  BY <1>1 DEF Cuts
<1> QED
  BY <1>1, <1>2, <1>6, <1>7

\* The rank of a cut: how many there are below it.
LEMMA RankOfCut ==
  ASSUME NEW s \in Seq(Char), NEW i \in Cuts(s)
  PROVE  /\ Cardinality(Below(s, i)) \in Nat /\ IsFiniteSet(Below(s, i))
         /\ \A j \in Cuts(s) : i < j => Cardinality(Below(s, i)) < Cardinality(Below(s, j))
         /\ \A j \in Cuts(s) : i < j /\ (\A x \in Cuts(s) : ~ (i < x /\ x < j))
              => Cardinality(Below(s, j)) = Cardinality(Below(s, i)) + 1
<1>1. Cuts(s) \subseteq Nat /\ IsFiniteSet(Cuts(s))
  BY CutsAreFinite
<1>2. \A j \in Cuts(s) : IsFiniteSet(Below(s, j)) /\ Cardinality(Below(s, j)) \in Nat
  <2> TAKE j \in Cuts(s)
  <2>1. Below(s, j) \subseteq Cuts(s)
    BY DEF Below
  <2> QED
    BY <1>1, <2>1, FS_Subset, FS_CardinalityType
<1>3. /\ IsFiniteSet(Below(s, i) \cup {i})
      /\ Cardinality(Below(s, i) \cup {i}) = Cardinality(Below(s, i)) + 1
  <2>1. i \notin Below(s, i)
    BY <1>1 DEF Below
  <2> QED
    BY <1>2, <2>1, FS_AddElement
<1>4. ASSUME NEW j \in Cuts(s), i < j
      PROVE  Cardinality(Below(s, i)) < Cardinality(Below(s, j))
  <2>1. Below(s, i) \cup {i} \subseteq Below(s, j)
    BY <1>1, <1>4 DEF Below
  <2>2. Cardinality(Below(s, i) \cup {i}) <= Cardinality(Below(s, j))
    BY <1>2, <2>1, FS_Subset
  <2> QED
    BY <1>2, <1>3, <2>2
<1>5. ASSUME NEW j \in Cuts(s), i < j, \A x \in Cuts(s) : ~ (i < x /\ x < j)
      PROVE  Cardinality(Below(s, j)) = Cardinality(Below(s, i)) + 1
  <2>1. Below(s, j) = Below(s, i) \cup {i}
    BY <1>1, <1>5 DEF Below
  <2> QED
    BY <1>3, <2>1
<1> QED
  BY <1>2, <1>4, <1>5

\* c lists the cuts of s in order, from 0 to Len(s) + 1; so c[k - 1] and c[k]
\* bound the k-th of n segments.
CutAt(c, n, s) ==
  /\ n \in Nat \ {0} /\ Len(s) \in Nat
  /\ c \in [0..n -> 0..(Len(s) + 1)]
  /\ c[0] = 0 /\ c[n] = Len(s) + 1
  /\ \A j, k \in 0..n : j < k => c[j] < c[k]
  /\ \A k \in 1..(n - 1) : c[k] \in Dots(s)
  /\ \A i \in Dots(s) : \E k \in 1..(n - 1) : c[k] = i

\* What lies between two cuts.
SegmentAt(s, c, k) == SubSeq(s, c[k - 1] + 1, c[k] - 1)

\* Some cut has k cuts below it, for every k there is a cut for.
LEMMA EveryRankIsTaken ==
  ASSUME NEW s \in Seq(Char), NEW k \in 0..(Cardinality(Dots(s)) + 1)
  PROVE  \E i \in Cuts(s) : Cardinality(Below(s, i)) = k
<1> DEFINE rank(i) == Cardinality(Below(s, i))
           high == {i \in Cuts(s) : k <= rank(i)}
<1>1. Cuts(s) \subseteq 0..(Len(s) + 1) /\ Cuts(s) \subseteq Nat /\ Len(s) \in Nat
      /\ Cardinality(Cuts(s)) = Cardinality(Dots(s)) + 2 /\ Cardinality(Dots(s)) \in Nat
  BY CutsAreFinite
<1>2. \A i \in Cuts(s) : rank(i) \in Nat
  BY RankOfCut
<1>3. Len(s) + 1 \in high
  <2>1. Len(s) + 1 \in Cuts(s) /\ IsFiniteSet(Cuts(s))
    BY CutsAreFinite DEF Cuts
  <2>2. Below(s, Len(s) + 1) = Cuts(s) \ {Len(s) + 1}
    BY <1>1 DEF Below
  <2>3. rank(Len(s) + 1) = Cardinality(Dots(s)) + 1
    BY <1>1, <2>1, <2>2, FS_RemoveElement
  <2> QED
    BY <1>1, <2>1, <2>3
<1> HIDE DEF rank
<1>4. PICK i \in high : \A x \in high : i <= x
  <2>1. high \subseteq Nat /\ high # {}
    BY <1>1, <1>3
  <2> QED
    BY <2>1, LeastOf
<1>5. CASE rank(i) = k
  BY <1>5 DEF rank
<1>6. CASE rank(i) # k
  <2> DEFINE low == Below(s, i)
  <2>1. k < rank(i) /\ i \in Cuts(s) /\ rank(i) \in Nat
    BY <1>2, <1>4, <1>6
  <2>2. low # {}
    <3>1. Cardinality({}) = 0
      BY FS_EmptySet
    <3>2. rank(i) = Cardinality(low)
      BY DEF rank
    <3> HIDE DEF low
    <3>3. low = {} => rank(i) = 0
      BY <3>1, <3>2, Zenon
    <3> QED
      BY <1>1, <2>1, <3>3
  <2>3. low \subseteq 0..(Len(s) + 1) /\ Len(s) + 1 \in Nat
    BY <1>1 DEF Below
  <2> HIDE DEF low
  <2>4. PICK j \in low : \A x \in low : x <= j
    BY <2>2, <2>3, GreatestOf
  <2>5. j \in Cuts(s) /\ j < i
    BY <2>4 DEF low, Below
  <2>6. \A x \in Cuts(s) : ~ (j < x /\ x < i)
    BY <1>1, <2>1, <2>4, <2>5 DEF low, Below
  <2>7. rank(i) = rank(j) + 1
    BY <2>1, <2>5, <2>6, RankOfCut DEF rank
  <2>8. rank(j) < k
    <3>1. j \notin high
      BY <1>1, <1>4, <2>1, <2>5
    <3> QED
      BY <1>2, <2>5, <3>1
  <2> QED
    BY <1>2, <2>1, <2>5, <2>7, <2>8
<1> QED
  BY <1>5, <1>6

\* strings.Split: one segment more than there are dots, between one cut and
\* the next.
LEMMA SplitAtCuts ==
  ASSUME NEW s \in Seq(Char)
  PROVE  \E c, n : /\ CutAt(c, n, s) /\ n = Cardinality(Dots(s)) + 1
                   /\ Split(s) = [k \in 1..n |-> SegmentAt(s, c, k)]
<1> DEFINE rank(i) == Cardinality(Below(s, i))
           Cut(k) == CHOOSE i \in Cuts(s) : rank(i) = k
           n == Cardinality(Dots(s)) + 1
           c == [k \in 0..n |-> Cut(k)]
<1>1. Cuts(s) \subseteq 0..(Len(s) + 1) /\ Cuts(s) \subseteq Nat /\ Len(s) \in Nat
      /\ Cardinality(Cuts(s)) = Cardinality(Dots(s)) + 2 /\ Cardinality(Dots(s)) \in Nat
  BY CutsAreFinite
<1>2. \A k \in 0..n : Cut(k) \in Cuts(s) /\ rank(Cut(k)) = k
  BY EveryRankIsTaken
<1>3. Split(s) = [k \in 1..n |-> SegmentAt(s, c, k)]
  <2>1. Split(s) = [k \in 1..(Cardinality(Cuts(s)) - 1) |-> SubSeq(s, Cut(k - 1) + 1, Cut(k) - 1)]
    BY DEF Split, Cuts, Below
  <2>2. Cardinality(Cuts(s)) - 1 = n
    BY <1>1
  <2>3. \A k \in 1..n : c[k] = Cut(k) /\ c[k - 1] = Cut(k - 1)
    BY <1>1
  <2> HIDE DEF Cut, c, n
  <2> QED
    BY <2>1, <2>2, <2>3 DEF SegmentAt
<1> HIDE DEF Cut, rank, n
<1>4. n \in Nat \ {0} /\ n = Cardinality(Dots(s)) + 1
  BY <1>1 DEF n
<1>5. \A k \in 0..n : c[k] \in Cuts(s) /\ rank(c[k]) = k
  BY <1>2
<1>6. c \in [0..n -> 0..(Len(s) + 1)]
  BY <1>1, <1>2
<1> HIDE DEF c
<1>7. \A i, j \in Cuts(s) : (i < j => rank(i) < rank(j)) /\ rank(i) \in Nat
  BY RankOfCut DEF rank
<1>8. \A j, k \in 0..n : j < k => c[j] < c[k]
  <2> SUFFICES ASSUME NEW j \in 0..n, NEW k \in 0..n, j < k PROVE c[j] < c[k]
    OBVIOUS
  <2>1. c[j] \in Cuts(s) /\ c[k] \in Cuts(s) /\ rank(c[j]) = j /\ rank(c[k]) = k
    BY <1>5
  <2>2. c[j] \in Nat /\ c[k] \in Nat
    BY <1>1, <2>1
  <2>3. ~ (c[k] < c[j]) /\ c[k] # c[j]
    BY <1>7, <2>1
  <2> QED
    BY <2>2, <2>3
<1>9. \A i \in Cuts(s) : rank(i) \in 0..n /\ c[rank(i)] = i
  <2> SUFFICES ASSUME NEW i \in Cuts(s) PROVE rank(i) \in 0..n /\ c[rank(i)] = i
    OBVIOUS
  <2>1. rank(i) \in 0..n
    <3>1. Below(s, i) \subseteq Cuts(s) \ {i} /\ IsFiniteSet(Cuts(s))
      BY <1>1, CutsAreFinite DEF Below
    <3>2. Cardinality(Cuts(s) \ {i}) = Cardinality(Cuts(s)) - 1 /\ IsFiniteSet(Cuts(s) \ {i})
      BY <3>1, FS_RemoveElement
    <3>3. rank(i) <= Cardinality(Cuts(s) \ {i})
      BY <3>1, <3>2, FS_Subset DEF rank
    <3> QED
      BY <1>1, <1>4, <1>7, <3>2, <3>3
  <2>2. c[rank(i)] \in Cuts(s) /\ rank(c[rank(i)]) = rank(i)
    BY <1>5, <2>1
  <2>3. c[rank(i)] \in Nat /\ i \in Nat
    BY <1>1, <2>2
  <2>4. ~ (c[rank(i)] < i) /\ ~ (i < c[rank(i)])
    BY <1>7, <2>2
  <2> QED
    BY <2>1, <2>3, <2>4
<1>10. c[0] = 0 /\ c[n] = Len(s) + 1
  <2>1. 0 \in Cuts(s) /\ Len(s) + 1 \in Cuts(s)
    BY DEF Cuts
  <2>2. rank(0) = 0
    <3>1. PICK k \in 0..n : c[k] = 0 /\ k = rank(0)
      BY <1>9, <2>1
    <3>2. c[0] \in Nat
      BY <1>1, <1>4, <1>5
    <3> QED
      BY <1>4, <1>8, <3>1, <3>2
  <2>3. rank(Len(s) + 1) = n
    <3>1. PICK k \in 0..n : c[k] = Len(s) + 1 /\ k = rank(Len(s) + 1)
      BY <1>9, <2>1
    <3>2. c[n] \in 0..(Len(s) + 1)
      BY <1>4, <1>6
    <3> QED
      BY <1>1, <1>4, <1>8, <3>1, <3>2
  <2> QED
    BY <1>9, <2>1, <2>2, <2>3
<1>11. \A k \in 1..(n - 1) : c[k] \in Dots(s)
  <2> SUFFICES ASSUME NEW k \in 1..(n - 1) PROVE c[k] \in Dots(s)
    OBVIOUS
  <2>1. k \in 0..n /\ 0 \in 0..n /\ n \in 0..n /\ 0 < k /\ k < n
    BY <1>4
  <2>2. c[0] < c[k] /\ c[k] < c[n] /\ c[k] \in Cuts(s)
    BY <1>5, <1>8, <2>1
  <2> QED
    BY <1>1, <1>10, <2>2 DEF Cuts
<1>12. \A i \in Dots(s) : \E k \in 1..(n - 1) : c[k] = i
  <2> SUFFICES ASSUME NEW i \in Dots(s) PROVE \E k \in 1..(n - 1) : c[k] = i
    OBVIOUS
  <2>1. i \in 1..Len(s) /\ i \in Cuts(s)
    BY DEF Dots, Cuts
  <2>2. rank(i) \in 0..n /\ c[rank(i)] = i
    BY <1>9, <2>1
  <2>3. rank(i) # 0 /\ rank(i) # n
    BY <1>1, <1>10, <2>1, <2>2
  <2>4. rank(i) \in 1..(n - 1)
    BY <1>4, <2>2, <2>3
  <2> QED
    BY <2>2, <2>4
<1>13. CutAt(c, n, s)
  BY <1>1, <1>4, <1>6, <1>8, <1>10, <1>11, <1>12 DEF CutAt
<1> QED
  BY <1>3, <1>4, <1>13

\* Every position is a dot or inside one segment, and no segment has a dot.
LEMMA CutsCover ==
  ASSUME NEW s \in Seq(Char), NEW c, NEW n, CutAt(c, n, s), NEW i \in 1..Len(s)
  PROVE  /\ s[i] # "." => \E k \in 1..n : c[k - 1] < i /\ i < c[k]
         /\ \A k \in 1..n : c[k - 1] < i /\ i < c[k] => s[i] # "."
<1>1. /\ n \in Nat \ {0} /\ c \in [0..n -> 0..(Len(s) + 1)] /\ Len(s) \in Nat
      /\ c[0] = 0 /\ c[n] = Len(s) + 1
      /\ \A j, k \in 0..n : j < k => c[j] < c[k]
  BY DEF CutAt
<1>2. ASSUME s[i] # "." PROVE \E k \in 1..n : c[k - 1] < i /\ i < c[k]
  <2> DEFINE later == {k \in 0..n : i < c[k]}
  <2>1. n \in later /\ later \subseteq Nat
    BY <1>1
  <2>2. PICK k \in later : \A x \in later : k <= x
    BY <2>1, LeastOf
  <2>3. k \in 1..n
    BY <1>1
  <2>4. k - 1 \in 0..n /\ k - 1 \notin later
    BY <1>1, <2>2, <2>3
  <2>5. c[k - 1] <= i
    BY <1>1, <2>4
  <2>6. c[k - 1] # i
    <3> SUFFICES ASSUME c[k - 1] = i PROVE FALSE
      OBVIOUS
    <3>1. k - 1 \in 1..(n - 1)
      BY <1>1, <2>3
    <3>2. c[k - 1] \in Dots(s)
      BY <3>1 DEF CutAt
    <3> QED
      BY <1>2, <3>2 DEF Dots
  <2> QED
    BY <1>1, <2>2, <2>3, <2>4, <2>5, <2>6
<1>3. ASSUME NEW k \in 1..n, c[k - 1] < i, i < c[k], s[i] = "."
      PROVE  FALSE
  <2>1. i \in Dots(s)
    BY <1>3 DEF Dots
  <2>2. PICK j \in 1..(n - 1) : c[j] = i
    BY <2>1 DEF CutAt
  <2>3. ~ (j <= k - 1)
    <3>1. j < k - 1 => c[j] < c[k - 1]
      BY <1>1, <2>2
    <3> QED
      BY <1>1, <1>3, <2>2, <3>1
  <2>4. ~ (k <= j)
    <3>1. k < j => c[k] < c[j]
      BY <1>1, <2>2
    <3> QED
      BY <1>1, <1>3, <2>2, <3>1
  <2> QED
    BY <1>1, <2>2, <2>3, <2>4
<1> QED
  BY <1>2, <1>3

\* Between the cuts a and b there is a letter, and then only what a segment may
\* go on with.
IsLiteral(s, a, b) ==
  /\ a + 1 < b
  /\ s[a + 1] \in Small
  /\ \A i \in (a + 2)..(b - 1) : s[i] \in Ident

\* That is when a segment of Split is a literal of the trie.
LEMMA LiteralSegment ==
  ASSUME NEW s \in Seq(Char), NEW c, NEW n, CutAt(c, n, s), NEW k \in 1..n
  PROVE  /\ c[k - 1] \in 0..Len(s) /\ c[k] \in 1..(Len(s) + 1) /\ c[k - 1] < c[k]
         /\ SegmentAt(s, c, k) \in Seq(Char)
         /\ Len(SegmentAt(s, c, k)) = c[k] - c[k - 1] - 1
         /\ ValidTrieSegment(SegmentAt(s, c, k), FALSE) <=> IsLiteral(s, c[k - 1], c[k])
<1> DEFINE a == c[k - 1]  b == c[k]  seg == SubSeq(s, a + 1, b - 1)
<1>1. a \in 0..Len(s) /\ b \in 1..(Len(s) + 1) /\ a < b /\ Len(s) \in Nat
  <2>1. k - 1 \in 0..n /\ k \in 0..n /\ k - 1 < k
    BY DEF CutAt
  <2>2. a \in 0..(Len(s) + 1) /\ b \in 0..(Len(s) + 1) /\ a < b /\ Len(s) \in Nat
    BY <2>1 DEF CutAt
  <2> QED
    BY <2>2
<1> HIDE DEF a, b
<1>2. seg \in Seq(Char) /\ Len(seg) = b - a - 1 /\ \A i \in 1..(b - a - 1) : seg[i] = s[a + i]
  BY <1>1
<1> HIDE DEF seg
<1>3. ValidTrieSegment(seg, FALSE)
        <=> seg # <<>> /\ seg[1] \in Small /\ \A i \in 2..(b - a - 1) : seg[i] \in Ident
  BY <1>2 DEF ValidTrieSegment
<1>4. seg # <<>> <=> a + 1 < b
  BY <1>1, <1>2
<1>5. a + 1 < b => seg[1] = s[a + 1]
  BY <1>1, <1>2
<1>6. (\A i \in 2..(b - a - 1) : seg[i] \in Ident) <=> \A i \in (a + 2)..(b - 1) : s[i] \in Ident
  <2>1. ASSUME \A i \in 2..(b - a - 1) : seg[i] \in Ident, NEW i \in (a + 2)..(b - 1)
        PROVE  s[i] \in Ident
    <3>1. i - a \in 2..(b - a - 1) /\ i - a \in 1..(b - a - 1) /\ a + (i - a) = i
      BY <1>1
    <3> QED
      BY <1>2, <2>1, <3>1
  <2>2. ASSUME \A i \in (a + 2)..(b - 1) : s[i] \in Ident, NEW i \in 2..(b - a - 1)
        PROVE  seg[i] \in Ident
    <3>1. a + i \in (a + 2)..(b - 1) /\ i \in 1..(b - a - 1)
      BY <1>1
    <3> QED
      BY <1>2, <2>2, <3>1
  <2> QED
    BY <2>1, <2>2
<1>7. ValidTrieSegment(seg, FALSE) <=> IsLiteral(s, a, b)
  BY <1>3, <1>4, <1>5, <1>6 DEF IsLiteral
<1> HIDE DEF IsLiteral
<1> QED
  BY <1>1, <1>2, <1>7 DEF a, b, seg, SegmentAt

-----------------------------------------------------------------------------
(* The two formats of a reason.                                            *)

LEMMA EmptyHasNoBytes == ByteLen(<<>>) = 0
<1> DEFINE f == [i \in DOMAIN <<>> |-> Width[<<>>[i]]]
<1>1. DOMAIN f = {}
  OBVIOUS
<1> HIDE DEF f
<1> DEFINE iter[t \in SUBSET {}] == 
             IF t = {} THEN 0 ELSE LET x == CHOOSE x \in t : TRUE IN f[x] + iter[t \ {x}]
<1>2. ByteLen(<<>>) = iter[{}]
  BY <1>1 DEF ByteLen, SumFunction, SumFunctionOnSet, FoldFunctionOnSet, MapThenFoldSet, f
<1>3. iter = [t \in SUBSET {} |->
                IF t = {} THEN 0 ELSE LET x == CHOOSE x \in t : TRUE IN f[x] + iter[t \ {x}]]
  <2> SUFFICES \E g : g = [t \in SUBSET {} |->
                IF t = {} THEN 0 ELSE LET x == CHOOSE x \in t : TRUE IN f[x] + g[t \ {x}]]
    BY Zenon
  <2> DEFINE g == [t \in SUBSET {} |-> 0]
  <2>1. g = [t \in SUBSET {} |->
                IF t = {} THEN 0 ELSE LET x == CHOOSE x \in t : TRUE IN f[x] + g[t \ {x}]]
    OBVIOUS
  <2> QED
    BY <2>1, Zenon
<1> HIDE DEF iter
<1>4. iter[{}] = 0
  BY <1>3
<1> QED
  BY <1>2, <1>4

\* The regexp of package reason, apart from how many segments it allows, says
\* that every segment between two cuts is a literal.
LEMMA RegexpIsSegments ==
  ASSUME NEW p \in Seq(Char), NEW c, NEW n, CutAt(c, n, p)
  PROVE  (\A k \in 1..n : ValidTrieSegment(SegmentAt(p, c, k), FALSE))
           <=> /\ \A i \in 1..Len(p) : p[i] \in Ident \cup {"."}
               /\ \A i \in Dots(p) \cup {0} : i < Len(p) /\ p[i + 1] \in Small
<1>1. /\ n \in Nat \ {0} /\ c \in [0..n -> 0..(Len(p) + 1)] /\ Len(p) \in Nat
      /\ c[0] = 0 /\ c[n] = Len(p) + 1
      /\ \A j, k \in 0..n : j < k => c[j] < c[k]
      /\ \A k \in 1..(n - 1) : c[k] \in Dots(p)
      /\ \A i \in Dots(p) : \E k \in 1..(n - 1) : c[k] = i
  BY DEF CutAt
<1> DEFINE literal(k) == IsLiteral(p, c[k - 1], c[k])
<1>2. \A k \in 1..n : ValidTrieSegment(SegmentAt(p, c, k), FALSE) <=> literal(k)
  BY LiteralSegment
<1>3. ASSUME \A k \in 1..n : literal(k)
      PROVE  /\ \A i \in 1..Len(p) : p[i] \in Ident \cup {"."}
             /\ \A i \in Dots(p) \cup {0} : i < Len(p) /\ p[i + 1] \in Small
  <2>1. ASSUME NEW i \in 1..Len(p), p[i] # "." PROVE p[i] \in Ident
    <3>1. PICK k \in 1..n : c[k - 1] < i /\ i < c[k]
      BY <2>1, CutsCover
    <3>2. c[k - 1] \in Nat /\ c[k] \in Nat
      BY <1>1, <3>1
    <3>3. i = c[k - 1] + 1 \/ i \in (c[k - 1] + 2)..(c[k] - 1)
      BY <3>1, <3>2
    <3> QED
      BY <1>3, <3>1, <3>3 DEF Ident, IsLiteral
  <2>2. ASSUME NEW i \in Dots(p) \cup {0} PROVE i < Len(p) /\ p[i + 1] \in Small
    <3>1. PICK k \in 1..n : c[k - 1] = i
      <4>1. CASE i = 0
        BY <1>1, <4>1
      <4>2. CASE i \in Dots(p)
        <5>1. PICK j \in 1..(n - 1) : c[j] = i
          BY <1>1, <4>2
        <5>2. j + 1 \in 1..n /\ c[(j + 1) - 1] = i
          BY <1>1, <5>1
        <5> QED
          BY <5>2
      <4> QED
        BY <4>1, <4>2
    <3>2. c[k - 1] + 1 < c[k] /\ p[c[k - 1] + 1] \in Small
      BY <1>3 DEF IsLiteral
    <3>3. c[k - 1] \in 0..(Len(p) + 1) /\ c[k] \in 0..(Len(p) + 1)
      BY <1>1
    <3> QED
      BY <1>1, <3>1, <3>2, <3>3
  <2> QED
    BY <2>1, <2>2
<1>4. ASSUME \A i \in 1..Len(p) : p[i] \in Ident \cup {"."},
             \A i \in Dots(p) \cup {0} : i < Len(p) /\ p[i + 1] \in Small,
             NEW k \in 1..n
      PROVE  literal(k)
  <2>1. c[k - 1] \in 0..Len(p) /\ c[k] \in 1..(Len(p) + 1) /\ c[k - 1] < c[k]
    BY LiteralSegment
  <2>2. c[k - 1] \in Dots(p) \cup {0}
    BY <1>1
  <2>3. c[k - 1] < Len(p) /\ p[c[k - 1] + 1] \in Small
    BY <1>4, <2>2
  <2>4. p[c[k - 1] + 1] # "."
    BY <2>3, CharAssumption
  <2>5. c[k] # c[k - 1] + 1
    <3> SUFFICES ASSUME c[k] = c[k - 1] + 1 PROVE FALSE
      OBVIOUS
    <3>1. k \in 1..(n - 1)
      BY <1>1, <2>1, <2>3
    <3>2. c[k] \in Dots(p)
      BY <1>1, <3>1
    <3> QED
      BY <2>4, <3>2 DEF Dots
  <2>6. ASSUME NEW i \in (c[k - 1] + 2)..(c[k] - 1) PROVE p[i] \in Ident
    <3>1. i \in 1..Len(p) /\ c[k - 1] < i /\ i < c[k]
      BY <1>1, <2>1
    <3>2. p[i] # "."
      BY <3>1, CutsCover
    <3> QED
      BY <1>4, <3>1, <3>2
  <2> QED
    BY <2>1, <2>3, <2>5, <2>6 DEF IsLiteral
<1> QED
  <2> HIDE DEF literal
  <2> QED
    BY <1>2, <1>3, <1>4

\* A text none of whose segments is "*" is a rule iff every segment is a
\* literal (mapper.go:320-352).
LEMMA RuleIsSegments ==
  ASSUME NEW raw \in Seq(Char), NEW c, NEW n,
         CutAt(c, n, ReasonNormalize(raw)),
         Split(ReasonNormalize(raw))
           = [k \in 1..n |-> SegmentAt(ReasonNormalize(raw), c, k)],
         <<"*">> \notin ToSet(Split(ReasonNormalize(raw))),
         ReasonNormalize(raw) # <<>>
  PROVE  NormalizeAndValidatePrefix(raw)
           = IF \A k \in 1..n : ValidTrieSegment(Split(ReasonNormalize(raw))[k], FALSE)
             THEN Result("nil", ReasonNormalize(raw)) ELSE Result("invalid prefix", <<>>)
<1> DEFINE p == ReasonNormalize(raw)  segs == Split(p)
<1>1. n \in Nat \ {0} /\ DOMAIN segs = 1..n
  BY DEF CutAt
<1>2. \A k \in 1..n : segs[k] # <<"*">>
  BY <1>1 DEF ToSet
<1> HIDE DEF segs
<1>3. \A k \in 1..n : ValidPrefixSegment(segs[k]) <=> ValidTrieSegment(segs[k], FALSE)
  BY <1>2 DEF ValidPrefixSegment, ValidTrieSegment
<1>4. \E k \in 1..n : segs[k] # <<"*">>
  <2>1. 1 \in 1..n
    BY <1>1
  <2> QED
    BY <1>2, <2>1, Zenon
<1> QED
  BY <1>1, <1>3, <1>4 DEF NormalizeAndValidatePrefix, segs

\* The regexp of package reason and the segment checks of package mapper are
\* one grammar, for texts of every length (reason.go:62-92, mapper.go:321-366).
THEOREM OneGrammarCorrect == Spec => []OneGrammar
<1>1. TypeOK => OneGrammar
  <2> DEFINE p == ReasonNormalize(text)
             rule == NormalizeAndValidatePrefix(text)
  <2> SUFFICES ASSUME TypeOK,
                      ByteLen(p) \in ReasonMinLength..ReasonMaxLength,
                      Len(Split(p)) <= MaxDots + 1,
                      <<"*">> \notin ToSet(Split(p))
               PROVE  IF rule.err = "nil" THEN ReasonParse(text) = rule
                                          ELSE ReasonParse(text).err # "nil"
    BY DEF OneGrammar
  <2>1. text \in Seq(Char) /\ p \in Seq(Char)
    BY ReasonNormalizeIdempotent DEF TypeOK, Text
  <2>2. PICK c, n : /\ CutAt(c, n, p) /\ n = Cardinality(Dots(p)) + 1
                    /\ Split(p) = [k \in 1..n |-> SegmentAt(p, c, k)]
    BY <2>1, SplitAtCuts
  <2>3. p # <<>>
    BY EmptyHasNoBytes, ReasonAssumption
  <2> DEFINE literals == \A k \in 1..n : ValidTrieSegment(Split(p)[k], FALSE)
  <2>4. rule = IF literals THEN Result("nil", p) ELSE Result("invalid prefix", <<>>)
    BY <2>1, <2>2, <2>3, RuleIsSegments
  <2>5. Cardinality(Dots(p)) <= MaxDots
    <3>1. n \in Nat /\ Len(Split(p)) = n
      BY <2>2 DEF CutAt
    <3>2. Cardinality(Dots(p)) \in Nat
      BY <2>1, CutsAreFinite
    <3> QED
      BY <2>2, <3>1, <3>2 DEF MaxDots
  <2>6. MatchesReasonRe(p) <=> literals
    <3>1. literals <=> \A k \in 1..n : ValidTrieSegment(SegmentAt(p, c, k), FALSE)
      BY <2>2
    <3> QED
      BY <2>1, <2>2, <2>5, <3>1, RegexpIsSegments DEF MatchesReasonRe
  <2>7. ReasonParse(text) = IF MatchesReasonRe(p) THEN Result("nil", p)
                            ELSE Result("invalid format", <<>>)
    BY <2>3 DEF ReasonParse, CheckReason
  <2> HIDE DEF literals, p, rule
  <2>8. CASE literals
    BY <2>4, <2>6, <2>7, <2>8 DEF Result
  <2>9. CASE ~literals
    <3>1. rule = Result("invalid prefix", <<>>) /\ ReasonParse(text) = Result("invalid format", <<>>)
      BY <2>4, <2>6, <2>7, <2>9
    <3>2. Result("invalid prefix", <<>>).err # "nil" /\ Result("invalid format", <<>>).err # "nil"
      BY DEF Result
    <3> QED
      BY <3>1, <3>2
  <2> QED
    BY <2>8, <2>9
<1> QED
  BY <1>1, TypeCorrect, PTL

-----------------------------------------------------------------------------
(* The scan of a lookup.                                                   *)

LEMMA ScanGivesText ==
  ASSUME NEW s \in Seq(Char), NEW off \in Nat
  PROVE  Scan(s, off) \in Seq(Char) /\ Len(Scan(s, off)) \in Nat
<1> DEFINE stops == {i \in (off + 2)..Len(s) : s[i] \notin Ident}
<1>1. \A b \in 0..Len(s) : SubSeq(s, off + 1, b) \in Seq(Char)
  OBVIOUS
<1>2. stops # {} => Min(stops) \in (off + 2)..Len(s)
  <2>1. stops \subseteq Nat
    OBVIOUS
  <2> QED
    BY <2>1, MinIsLeast
<1>3. stops # {} => Min(stops) - 1 \in 0..Len(s)
  BY <1>2
<1>4. <<>> \in Seq(Char) /\ Len(s) \in 0..Len(s)
  OBVIOUS
<1>5. Scan(s, off) = <<>> \/ \E b \in 0..Len(s) : Scan(s, off) = SubSeq(s, off + 1, b)
  <2> HIDE DEF stops
  <2> QED
    BY <1>3, <1>4 DEF Scan, stops
<1>6. Scan(s, off) \in Seq(Char)
  BY <1>1, <1>4, <1>5
<1> QED
  BY <1>6

\* At the start of a segment the byte scan of a lookup reads that segment if
\* it is a literal of the trie, and nothing otherwise (segmenttrie/trie.go).
LEMMA ScanReadsLiteral ==
  ASSUME NEW s \in Seq(Char), NEW c, NEW n, CutAt(c, n, s), NEW k \in 1..n
  PROVE  Scan(s, c[k - 1])
           = IF ValidTrieSegment(SegmentAt(s, c, k), FALSE) THEN SegmentAt(s, c, k) ELSE <<>>
<1> DEFINE a == c[k - 1]
           b == c[k]
           seg == SegmentAt(s, c, k)
           stops == {i \in (a + 2)..Len(s) : s[i] \notin Ident}
           literal == IsLiteral(s, a, b)
<1>1. a \in 0..Len(s) /\ b \in 1..(Len(s) + 1) /\ a < b /\ Len(s) \in Nat
  <2>1. Len(s) \in Nat
    OBVIOUS
  <2> QED
    BY <2>1, LiteralSegment
<1>2. ValidTrieSegment(seg, FALSE) <=> literal
  BY LiteralSegment
<1>3. \A i \in 1..Len(s) : a < i /\ i < b => s[i] # "."
  BY CutsCover
<1>4. b <= Len(s) => s[b] = "."
  <2> SUFFICES ASSUME b <= Len(s) PROVE s[b] = "."
    OBVIOUS
  <2>1. k # n /\ n \in Nat
    BY <1>1 DEF CutAt
  <2>2. b \in Dots(s)
    BY <2>1 DEF CutAt
  <2> QED
    BY <2>2 DEF Dots
<1>5. "." \notin Ident /\ Small \subseteq Ident
  BY CharAssumption DEF Ident
<1> HIDE DEF a, b
<1>8. seg = SubSeq(s, a + 1, b - 1)
  BY DEF SegmentAt, a, b
<1>6. CASE a >= Len(s) \/ s[a + 1] \notin Small
  <2>1. ~ literal
    BY <1>1, <1>6 DEF IsLiteral
  <2> QED
    BY <1>2, <1>6, <2>1 DEF Scan, a
<1>7. CASE ~ (a >= Len(s)) /\ s[a + 1] \in Small
  <2>1. a + 1 < b
    BY <1>1, <1>4, <1>5, <1>7
  <2>2. CASE stops = {}
    <3>1. b = Len(s) + 1
      BY <1>1, <1>4, <1>5, <2>1, <2>2
    <3>2. literal
      BY <1>1, <1>7, <2>1, <2>2, <3>1 DEF IsLiteral
    <3>3. Scan(s, a) = SubSeq(s, a + 1, Len(s))
      BY <1>7, <2>2 DEF Scan
    <3>4. b - 1 = Len(s)
      BY <1>1, <3>1
    <3> QED
      BY <1>2, <1>8, <3>2, <3>3, <3>4 DEF a
  <2>3. CASE stops # {}
    <3>1. stops \subseteq Nat
      BY <1>1
    <3>2. Min(stops) \in stops /\ \A x \in stops : Min(stops) <= x
      BY <2>3, <3>1, MinIsLeast
    <3> DEFINE m == Min(stops)
    <3>3. m \in (a + 2)..Len(s) /\ s[m] \notin Ident /\ m <= b
      <4>1. m \in (a + 2)..Len(s) /\ s[m] \notin Ident
        BY <3>2
      <4>2. b \in stops \/ b = Len(s) + 1
        BY <1>1, <1>4, <1>5, <2>1
      <4> QED
        BY <1>1, <3>2, <4>1, <4>2
    <3>4. Scan(s, a) = IF s[m] = "." THEN SubSeq(s, a + 1, m - 1) ELSE <<>>
      BY <1>7, <2>3 DEF Scan
    <3>5. CASE s[m] = "."
      <4>1. m = b
        BY <1>1, <1>3, <3>3, <3>5
      <4>2. literal
        <5>1. ASSUME NEW i \in (a + 2)..(b - 1), s[i] \notin Ident PROVE FALSE
          <6>1. i \in stops
            BY <1>1, <5>1
          <6> QED
            BY <1>1, <3>2, <4>1, <6>1
        <5> QED
          BY <1>7, <2>1, <5>1 DEF IsLiteral
      <4> HIDE DEF m, literal, seg
      <4>3. Scan(s, a) = seg
        BY <1>8, <3>4, <3>5, <4>1
      <4> QED
        BY <1>2, <4>2, <4>3 DEF a, seg
    <3>6. CASE s[m] # "."
      <4>1. m # b
        BY <1>1, <1>4, <3>3, <3>6
      <4>2. m \in (a + 2)..(b - 1)
        BY <1>1, <3>3, <4>1
      <4>3. ~ literal
        BY <3>3, <4>2 DEF IsLiteral
      <4> HIDE DEF m, literal, seg
      <4>4. Scan(s, a) = <<>>
        BY <3>4, <3>6
      <4> QED
        BY <1>2, <4>3, <4>4 DEF a, seg
    <3> QED
      BY <3>5, <3>6
  <2> QED
    BY <2>2, <2>3
<1> QED
  BY <1>6, <1>7

\* f says where each of the first m segments of a lookup starts.
StartsUpTo(f, m, s) ==
  /\ f \in [1..m -> Nat]
  /\ \A k \in 1..m : f[k] = IF k = 1 THEN 0 ELSE f[k - 1] + Len(Scan(s, f[k - 1])) + 1

\* The recursion of ScanAll has a solution.
LEMMA StartsExist ==
  ASSUME NEW s \in Seq(Char), NEW m \in Nat
  PROVE  \E f : StartsUpTo(f, m, s)
<1> DEFINE without == {x \in Nat : ~ \E f : StartsUpTo(f, x, s)}
<1>1. 0 \notin without
  <2> DEFINE f == [k \in 1..0 |-> 0]
  <2>1. StartsUpTo(f, 0, s)
    BY DEF StartsUpTo
  <2> QED
    BY <2>1
<1>2. ASSUME without # {} PROVE FALSE
  <2>1. PICK x \in without : \A y \in without : x <= y
    BY <1>2, LeastOf
  <2>2. x - 1 \in Nat /\ x - 1 \notin without
    BY <1>1, <2>1
  <2>3. PICK f : StartsUpTo(f, x - 1, s)
    BY <2>2
  <2> DEFINE next == IF x = 1 THEN 0 ELSE f[x - 1] + Len(Scan(s, f[x - 1])) + 1
             g == [k \in 1..x |-> IF k = x THEN next ELSE f[k]]
  <2>4. next \in Nat
    <3>1. CASE x = 1
      BY <3>1
    <3>2. CASE x # 1
      <4>1. x - 1 \in 1..(x - 1)
        BY <2>2, <3>2
      <4>2. f[x - 1] \in Nat
        BY <2>3, <4>1 DEF StartsUpTo
      <4>3. Len(Scan(s, f[x - 1])) \in Nat
        BY <4>2, ScanGivesText
      <4> QED
        BY <3>2, <4>2, <4>3
    <3> QED
      BY <3>1, <3>2
  <2> HIDE DEF next
  <2>5. g \in [1..x -> Nat]
    BY <2>2, <2>3, <2>4 DEF StartsUpTo
  <2>6. ASSUME NEW k \in 1..x
        PROVE  g[k] = IF k = 1 THEN 0 ELSE g[k - 1] + Len(Scan(s, g[k - 1])) + 1
    <3>1. CASE k = x
      <4>1. k # 1 => g[k - 1] = f[k - 1]
        BY <2>2, <3>1
      <4>2. g[k] = next
        BY <3>1
      <4> HIDE DEF g
      <4> QED
        BY <3>1, <4>1, <4>2 DEF next
    <3>2. CASE k # x
      <4>1. k \in 1..(x - 1) /\ g[k] = f[k] /\ (k # 1 => g[k - 1] = f[k - 1])
        BY <2>2, <3>2
      <4> HIDE DEF g
      <4> QED
        BY <2>3, <4>1 DEF StartsUpTo
    <3> QED
      BY <3>1, <3>2
  <2> HIDE DEF g
  <2>7. StartsUpTo(g, x, s)
    BY <2>5, <2>6 DEF StartsUpTo
  <2> QED
    BY <2>1, <2>7
<1> QED
  BY <1>2

LEMMA ScanAllReads ==
  ASSUME NEW s \in Seq(Char)
  PROVE  \E start : /\ StartsUpTo(start, Len(s) + 1, s)
                    /\ LET reads == {k \in 1..Len(s) : \A j \in 1..k : Scan(s, start[j]) # <<>>}
                       IN ScanAll(s) = [k \in 1..Cardinality(reads) |-> Scan(s, start[k])]
<1> DEFINE start[k \in 1..(Len(s) + 1)] ==
             IF k = 1 THEN 0 ELSE start[k - 1] + Len(Scan(s, start[k - 1])) + 1
           reads == {k \in 1..Len(s) : \A j \in 1..k : Scan(s, start[j]) # <<>>}
<1>1. ScanAll(s) = [k \in 1..Cardinality(reads) |-> Scan(s, start[k])]
  BY DEF ScanAll
<1>2. PICK f : StartsUpTo(f, Len(s) + 1, s)
  BY StartsExist
<1>3. f = [k \in 1..(Len(s) + 1) |-> IF k = 1 THEN 0 ELSE f[k - 1] + Len(Scan(s, f[k - 1])) + 1]
  BY <1>2 DEF StartsUpTo
<1>4. start = [k \in 1..(Len(s) + 1) |->
                 IF k = 1 THEN 0 ELSE start[k - 1] + Len(Scan(s, start[k - 1])) + 1]
  BY <1>3, Zenon
<1> HIDE DEF start
<1>5. \A k \in 1..(Len(s) + 1) :
        start[k] = IF k = 1 THEN 0 ELSE start[k - 1] + Len(Scan(s, start[k - 1])) + 1
  BY <1>4
<1>6. ASSUME NEW k \in 1..(Len(s) + 1), start[k] \notin Nat PROVE FALSE
  <2> DEFINE bad == {x \in 1..(Len(s) + 1) : start[x] \notin Nat}
  <2>1. bad \subseteq Nat /\ bad # {} /\ Len(s) \in Nat
    BY <1>6
  <2>2. PICK x \in bad : \A y \in bad : x <= y
    BY <2>1, LeastOf
  <2>3. x # 1
    BY <1>5, <2>2
  <2>4. x - 1 \in 1..(Len(s) + 1) /\ x - 1 \notin bad
    BY <2>1, <2>2, <2>3
  <2>5. start[x - 1] \in Nat /\ Len(Scan(s, start[x - 1])) \in Nat
    BY <2>4, ScanGivesText
  <2> QED
    BY <1>5, <2>2, <2>3, <2>5
<1>7. start \in [1..(Len(s) + 1) -> Nat]
  <2>1. DOMAIN start = 1..(Len(s) + 1) /\ start = [k \in DOMAIN start |-> start[k]]
    BY <1>4
  <2> QED
    BY <1>6, <2>1
<1>8. StartsUpTo(start, Len(s) + 1, s)
  BY <1>5, <1>7 DEF StartsUpTo
<1> HIDE DEF reads
<1> QED
  BY <1>1, <1>8 DEF reads

\* A lookup that meets nothing but branches reads the segments between the
\* cuts up to the first that is no literal.
LEMMA ScanAllStops ==
  ASSUME NEW s \in Seq(Char), NEW c, NEW n, CutAt(c, n, s),
         NEW g \in 0..n,
         \A k \in 1..g : ValidTrieSegment(SegmentAt(s, c, k), FALSE),
         g = n \/ ~ ValidTrieSegment(SegmentAt(s, c, g + 1), FALSE)
  PROVE  ScanAll(s) = [k \in 1..g |-> SegmentAt(s, c, k)]
<1> DEFINE seg(k) == SegmentAt(s, c, k)
           literal(k) == ValidTrieSegment(seg(k), FALSE)
<1>1. /\ n \in Nat \ {0} /\ Len(s) \in Nat
      /\ c \in [0..n -> 0..(Len(s) + 1)] /\ c[0] = 0 /\ c[n] = Len(s) + 1
  BY DEF CutAt
<1>2. \A k \in 1..n : /\ c[k - 1] \in Nat /\ c[k] \in Nat /\ c[k - 1] < c[k]
                      /\ seg(k) \in Seq(Char) /\ Len(seg(k)) = c[k] - c[k - 1] - 1
                      /\ Scan(s, c[k - 1]) = IF literal(k) THEN seg(k) ELSE <<>>
  <2> TAKE k \in 1..n
  <2>1. /\ c[k - 1] \in 0..Len(s) /\ c[k] \in 1..(Len(s) + 1) /\ c[k - 1] < c[k]
        /\ seg(k) \in Seq(Char) /\ Len(seg(k)) = c[k] - c[k - 1] - 1
    BY LiteralSegment
  <2>2. Scan(s, c[k - 1]) = IF literal(k) THEN seg(k) ELSE <<>>
    BY ScanReadsLiteral
  <2> HIDE DEF seg, literal
  <2> QED
    BY <1>1, <2>1, <2>2
<1>3. \A k \in 1..g : literal(k) /\ seg(k) # <<>> /\ k \in 1..n
  <2> TAKE k \in 1..g
  <2>1. k \in 1..n
    BY <1>1
  <2>2. literal(k)
    OBVIOUS
  <2>3. ASSUME NEW x, ValidTrieSegment(x, FALSE) PROVE x # <<>>
    BY <2>3 DEF ValidTrieSegment
  <2> QED
    BY <2>1, <2>2, <2>3
<1>4. g # n => ~ literal(g + 1)
  OBVIOUS
<1>5. PICK start : /\ StartsUpTo(start, Len(s) + 1, s)
                   /\ LET reads == {k \in 1..Len(s) : \A j \in 1..k : Scan(s, start[j]) # <<>>}
                      IN ScanAll(s) = [k \in 1..Cardinality(reads) |-> Scan(s, start[k])]
  BY ScanAllReads
<1> HIDE DEF seg, literal
<1>6. g <= Len(s)
  <2> DEFINE bad == {k \in 1..g : c[k] < k + 1}
  <2>1. ASSUME bad # {} PROVE FALSE
    <3>1. bad \subseteq Nat
      OBVIOUS
    <3>2. PICK x \in bad : \A y \in bad : x <= y
      BY <2>1, <3>1, LeastOf
    <3>3. x \in 1..n /\ Len(seg(x)) = c[x] - c[x - 1] - 1 /\ Len(seg(x)) > 0
          /\ c[x - 1] \in Nat /\ c[x] \in Nat
      BY <1>2, <1>3, <3>2
    <3>4. x # 1
      BY <1>1, <3>2, <3>3
    <3>5. x - 1 \in 1..g /\ x - 1 \notin bad
      BY <3>2, <3>4
    <3> QED
      BY <3>2, <3>3, <3>5
  <2>2. CASE g = 0
    BY <1>1, <2>2
  <2>3. CASE g # 0
    <3>1. g \in 1..g /\ g \in 0..n /\ g \in Nat
      BY <1>1, <2>3
    <3>2. c[g] \in 0..(Len(s) + 1) /\ ~ (c[g] < g + 1)
      BY <1>1, <2>1, <3>1
    <3> QED
      BY <1>1, <3>1, <3>2
  <2> QED
    BY <2>2, <2>3
<1>7. \A k \in 1..(g + 1) : start[k] = c[k - 1]
  <2> DEFINE bad == {k \in 1..(g + 1) : start[k] # c[k - 1]}
  <2> SUFFICES ASSUME bad # {} PROVE FALSE
    OBVIOUS
  <2>1. bad \subseteq Nat
    OBVIOUS
  <2>2. PICK x \in bad : \A y \in bad : x <= y
    BY <2>1, LeastOf
  <2>3. x \in 1..(Len(s) + 1) /\ g \in Nat
    BY <1>1, <1>6
  <2>4. start[x] = IF x = 1 THEN 0 ELSE start[x - 1] + Len(Scan(s, start[x - 1])) + 1
    BY <1>5, <2>3 DEF StartsUpTo
  <2>5. x # 1
    BY <1>1, <2>2, <2>4
  <2>6. x - 1 \in 1..g /\ x - 1 \notin bad
    BY <2>2, <2>3, <2>5
  <2>7. start[x - 1] = c[x - 2]
    BY <2>3, <2>6
  <2>8. Scan(s, c[x - 2]) = seg(x - 1) /\ Len(seg(x - 1)) = c[x - 1] - c[x - 2] - 1
        /\ c[x - 2] \in Nat /\ c[x - 1] \in Nat
    <3>1. (x - 1) - 1 = x - 2
      BY <2>3
    <3> DEFINE y == x - 1
    <3>2. y \in 1..n /\ literal(y) /\ y - 1 = x - 2 /\ y = x - 1
      BY <1>3, <2>6, <3>1
    <3> HIDE DEF y
    <3>3. Scan(s, c[y - 1]) = seg(y) /\ Len(seg(y)) = c[y] - c[y - 1] - 1
          /\ c[y - 1] \in Nat /\ c[y] \in Nat
      BY <1>2, <3>2
    <3>4. Scan(s, c[y - 1]) = seg(y)
      BY <3>2, <3>3
    <3> QED
      BY <3>2, <3>3, <3>4
  <2>9. start[x] = c[x - 1]
    BY <2>4, <2>5, <2>7, <2>8
  <2> QED
    BY <2>2, <2>9
<1>8. \A k \in 1..g : Scan(s, start[k]) = seg(k) /\ Scan(s, start[k]) # <<>>
  <2> TAKE k \in 1..g
  <2>1. k \in 1..(g + 1) /\ k \in 1..n /\ literal(k)
    BY <1>3
  <2> QED
    BY <1>2, <1>3, <1>7, <2>1
<1>9. Scan(s, start[g + 1]) = <<>>
  <2>1. start[g + 1] = c[g]
    <3>1. g + 1 \in 1..(g + 1) /\ (g + 1) - 1 = g
      BY <1>1
    <3> QED
      BY <1>7, <3>1
  <2>2. CASE g = n
    <3>1. start[g + 1] = Len(s) + 1
      BY <1>1, <2>1, <2>2
    <3> QED
      BY <1>1, <3>1 DEF Scan
  <2>3. CASE g # n
    <3>1. g + 1 \in 1..n /\ (g + 1) - 1 = g /\ ~ literal(g + 1)
      BY <1>1, <1>4, <2>3
    <3> QED
      BY <1>2, <2>1, <3>1
  <2> QED
    BY <2>2, <2>3
<1> DEFINE reads == {k \in 1..Len(s) : \A j \in 1..k : Scan(s, start[j]) # <<>>}
<1>10. reads = 1..g
  <2>1. ASSUME NEW k \in 1..g PROVE k \in reads
    <3>1. k \in 1..Len(s) /\ 1..k \subseteq 1..g
      BY <1>1, <1>6
    <3> QED
      BY <1>8, <3>1
  <2>2. ASSUME NEW k \in reads PROVE k \in 1..g
    <3>1. ~ (g < k)
      BY <1>1, <1>9
    <3> QED
      BY <1>1, <3>1
  <2> QED
    BY <2>1, <2>2
<1>11. Cardinality(reads) = g
  <2>1. Cardinality(1..g) = g
    BY <1>1, FS_Interval
  <2> QED
    BY <1>10, <2>1
<1>12. ScanAll(s) = [k \in 1..g |-> seg(k)]
  BY <1>5, <1>8, <1>11
<1> QED
  BY <1>12 DEF seg

LEMMA SplitGivesTexts ==
  ASSUME NEW s \in Seq(Char)
  PROVE  Split(s) \in Seq(Seq(Char)) /\ Len(Split(s)) = Cardinality(Dots(s)) + 1
<1>1. PICK c, n : /\ CutAt(c, n, s) /\ n = Cardinality(Dots(s)) + 1
                  /\ Split(s) = [k \in 1..n |-> SegmentAt(s, c, k)]
  BY SplitAtCuts
<1>2. \A k \in 1..n : SegmentAt(s, c, k) \in Seq(Char)
  BY <1>1, LiteralSegment
<1>3. n \in Nat
  BY <1>1 DEF CutAt
<1> DEFINE segs == [k \in 1..n |-> SegmentAt(s, c, k)]
<1>4. segs \in Seq(Seq(Char)) /\ Len(segs) = n
  BY <1>2, <1>3
<1> QED
  BY <1>1, <1>4

LEMMA ScanAllIsPrefix ==
  ASSUME NEW s \in Seq(Char), NEW g \in 0..Len(Split(s)),
         \A k \in 1..g : ValidTrieSegment(Split(s)[k], FALSE),
         g = Len(Split(s)) \/ ~ ValidTrieSegment(Split(s)[g + 1], FALSE)
  PROVE  ScanAll(s) = SubSeq(Split(s), 1, g)
<1>1. PICK c, n : /\ CutAt(c, n, s) /\ n = Cardinality(Dots(s)) + 1
                  /\ Split(s) = [k \in 1..n |-> SegmentAt(s, c, k)]
  BY SplitAtCuts
<1>2. Split(s) \in Seq(Seq(Char)) /\ Len(Split(s)) = n /\ n \in Nat
  BY <1>1, SplitGivesTexts DEF CutAt
<1>3. \A k \in 1..n : Split(s)[k] = SegmentAt(s, c, k)
  BY <1>1
<1>4. g \in 0..n /\ \A k \in 1..g : k \in 1..n
  BY <1>2
<1>5. \A k \in 1..g : ValidTrieSegment(SegmentAt(s, c, k), FALSE)
  BY <1>3, <1>4
<1>6. g = n \/ ~ ValidTrieSegment(SegmentAt(s, c, g + 1), FALSE)
  <2> SUFFICES ASSUME g # n PROVE ~ ValidTrieSegment(SegmentAt(s, c, g + 1), FALSE)
    OBVIOUS
  <2>1. g + 1 \in 1..n
    BY <1>2, <1>4
  <2>2. Split(s)[g + 1] = SegmentAt(s, c, g + 1)
    BY <1>3, <2>1
  <2>3. ~ ValidTrieSegment(Split(s)[g + 1], FALSE)
    BY <1>2
  <2> QED
    BY <2>2, <2>3, Zenon
<1>7. ScanAll(s) = [k \in 1..g |-> SegmentAt(s, c, k)]
  <2>1. CutAt(c, n, s) /\ g \in 0..n /\ s \in Seq(Char)
    BY <1>1, <1>4
  <2> QED
    BY ONLY <2>1, <1>5, <1>6, ScanAllStops
<1>8. SubSeq(Split(s), 1, g) = [k \in 1..g |-> Split(s)[k]]
  <2>1. /\ SubSeq(Split(s), 1, g) \in Seq(Seq(Char)) /\ Len(SubSeq(Split(s), 1, g)) = g
        /\ \A k \in 1..g : SubSeq(Split(s), 1, g)[k] = Split(s)[k]
    BY <1>2, <1>4
  <2>2. g \in Nat
    BY <1>2
  <2> QED
    BY <2>1, <2>2
<1> QED
  BY <1>3, <1>4, <1>7, <1>8

\* Whatever a Reason holds, a lookup reads the longest beginning of it that is
\* made of well-formed segments, and stops there (segmenttrie/trie.go:127-145).
THEOREM ScanStopsAtMalformedCorrect == Spec => []ScanStopsAtMalformed
<1>1. TypeOK => ScanStopsAtMalformed
  <2> SUFFICES ASSUME TypeOK PROVE ScanStopsAtMalformed
    OBVIOUS
  <2> DEFINE segs == Split(text)
             good == {m \in 0..Len(segs) : \A k \in 1..m : ValidTrieSegment(segs[k], FALSE)}
             g == Max(good)
  <2>1. text \in Seq(Char) /\ Len(segs) \in Nat
    <3>1. text \in Seq(Char)
      BY DEF TypeOK, Text
    <3> QED
      BY <3>1, SplitGivesTexts
  <2> HIDE DEF segs
  <2>2. g \in good /\ \A m \in good : m <= g
    <3>1. 0 \in good /\ good \subseteq 0..Len(segs)
      <4>1. 0 \in 0..Len(segs) /\ \A k \in 1..0 : FALSE
        BY <2>1
      <4> QED
        BY <4>1
    <3> HIDE DEF good
    <3> QED
      BY <2>1, <3>1, MaxIsGreatest
  <2> HIDE DEF g
  <2>3. g = Len(segs) \/ ~ ValidTrieSegment(segs[g + 1], FALSE)
    <3> SUFFICES ASSUME g # Len(segs), ValidTrieSegment(segs[g + 1], FALSE) PROVE FALSE
      OBVIOUS
    <3>1. g + 1 \in 0..Len(segs)
      BY <2>1, <2>2
    <3>2. \A k \in 1..(g + 1) : ValidTrieSegment(segs[k], FALSE)
      <4>1. \A k \in 1..(g + 1) : k \in 1..g \/ k = g + 1
        BY <2>1, <2>2
      <4> QED
        BY <2>2, <4>1
    <3>3. g + 1 \in good
      BY <3>1, <3>2
    <3>4. g \in Nat
      BY <2>1, <2>2
    <3> HIDE DEF good
    <3> QED
      BY <2>2, <3>3, <3>4
  <2>4. g \in 0..Len(segs) /\ \A k \in 1..g : ValidTrieSegment(segs[k], FALSE)
    BY <2>2
  <2>5. ScanAll(text) = SubSeq(segs, 1, g)
    BY <2>1, <2>3, <2>4, ScanAllIsPrefix DEF segs
  <2> QED
    BY <2>5 DEF ScanStopsAtMalformed, segs, g
<1> QED
  BY <1>1, TypeCorrect, PTL

\* What Insert splits and what a lookup scans are the same segments, for every
\* prefix the mapper accepts (mapper.go:321-366, segmenttrie/trie.go:127-145,
\* 241-280).
THEOREM ScanReadsSegmentsCorrect == Spec => []ScanReadsSegments
<1>1. TypeOK => ScanReadsSegments
  <2> DEFINE p == ReasonNormalize(text)
             segs == Split(p)
             rule == NormalizeAndValidatePrefix(text)
             stored == SplitAndValidate(rule.val, TRUE)
  <2> SUFFICES ASSUME TypeOK, rule.err = "nil"
               PROVE  /\ stored.err = "nil"
                      /\ SplitAndValidate(rule.val, FALSE).err = "nil"
                           => ScanAll(rule.val) = stored.val
    BY DEF ScanReadsSegments
  <2>1. p \in Seq(Char)
    BY ReasonNormalizeIdempotent DEF TypeOK, Text
  <2>2. rule.val = p /\ p # <<>> /\ \A k \in DOMAIN segs : ValidPrefixSegment(segs[k])
    BY DEF NormalizeAndValidatePrefix, Result
  <2>3. segs \in Seq(Seq(Char)) /\ Len(segs) \in Nat
    BY <2>1, SplitGivesTexts
  <2> HIDE DEF p, rule
  <2>4. \A k \in DOMAIN segs : ValidTrieSegment(segs[k], TRUE)
    <3> HIDE DEF segs
    <3> QED
      BY <2>2 DEF ValidPrefixSegment, ValidTrieSegment
  <2>5. SplitAndValidate(p, TRUE) = Result("nil", segs)
    BY <2>2, <2>4 DEF SplitAndValidate
  <2>6. ASSUME SplitAndValidate(p, FALSE).err = "nil" PROVE ScanAll(p) = segs
    <3>1. \A k \in DOMAIN segs : ValidTrieSegment(segs[k], FALSE)
      BY <2>2, <2>6 DEF SplitAndValidate, Result
    <3> DEFINE g == Len(segs)
    <3>2. g \in 0..Len(segs) /\ DOMAIN segs = 1..g /\ g = Len(segs)
      BY <2>3
    <3> HIDE DEF g
    <3>3. ScanAll(p) = SubSeq(segs, 1, g)
      BY <2>1, <3>1, <3>2, ScanAllIsPrefix
    <3>4. SubSeq(segs, 1, g) = segs
      <4> HIDE DEF segs
      <4> QED
        BY <2>3, <3>2
    <3> QED
      BY <3>3, <3>4
  <2>7. stored.err = "nil" /\ stored.val = segs
    <3>1. stored = Result("nil", segs)
      BY <2>2, <2>5
    <3> HIDE DEF stored, segs
    <3> QED
      BY <3>1 DEF Result
  <2> HIDE DEF stored, segs
  <2> QED
    BY <2>2, <2>6, <2>7
<1> QED
  BY <1>1, TypeCorrect, PTL
=============================================================================
