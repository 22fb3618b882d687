---------------------------- MODULE StatusProofs ----------------------------
(***************************************************************************)
(* The status policy is well defined, for every list of options, code and  *)
(* reason: among the prefix options that cover a reason exactly one        *)
(* decides over all others, so the CHOOSE in Status has something to       *)
(* choose, and a gRPC status always fits codes.Code.                       *)
(***************************************************************************)
EXTENDS StatusPolicy, FiniteSetTheorems, TLAPS

\* R is a strict total order of S.
OrderOn(R, S) ==
  /\ \A x, y, z \in S : <<x, y>> \in R /\ <<y, z>> \in R => <<x, z>> \in R
  /\ \A x \in S : <<x, x>> \notin R
  /\ \A x, y \in S : x = y \/ <<x, y>> \in R \/ <<y, x>> \in R

\* A finite set with a strict total order has a greatest element.
LEMMA FiniteMaximum ==
  ASSUME NEW S, IsFiniteSet(S), S # {}, NEW R, OrderOn(R, S)
  PROVE  \E m \in S : \A x \in S \ {m} : <<m, x>> \in R
<1> USE DEF OrderOn
<1> DEFINE Above(x) == {y \in S : <<y, x>> \in R}
           Sets == {Above(x) : x \in S}
<1>1. \A x \in S : Above(x) \in FiniteSubsetsOf(S)
  <2> SUFFICES ASSUME NEW x \in S PROVE Above(x) \in FiniteSubsetsOf(S)
    OBVIOUS
  <2>1. Above(x) \in SUBSET S
    OBVIOUS
  <2> HIDE DEF Above
  <2> QED
    BY <2>1, FS_Subset DEF FiniteSubsetsOf
<1>2. Sets \subseteq FiniteSubsetsOf(S) /\ Sets # {}
  <2>1. PICK x \in S : TRUE
    OBVIOUS
  <2>2. Above(x) \in Sets
    OBVIOUS
  <2>3. \A U \in Sets : \E y \in S : U = Above(y)
    OBVIOUS
  <2> HIDE DEF Above, Sets
  <2> QED
    BY <1>1, <2>2, <2>3
<1>3. PICK U \in Sets : \A V \in Sets : <<V, U>> \notin StrictSubsetOrdering(S)
  <2> HIDE DEF Sets
  <2>1. IsWellFoundedOn(StrictSubsetOrdering(S), FiniteSubsetsOf(S))
    BY FS_StrictSubsetOrderingWellFounded
  <2> QED
    BY <1>2, <2>1, WFMin
<1>4. PICK m \in S : U = Above(m)
  OBVIOUS
<1>5. \A x \in S : <<x, m>> \notin R
  <2> SUFFICES ASSUME NEW x \in S, <<x, m>> \in R PROVE FALSE
    OBVIOUS
  <2>1. Above(x) \subseteq Above(m) /\ x \in Above(m) /\ x \notin Above(x)
    OBVIOUS
  <2>2. Above(x) \in SUBSET S /\ Above(m) \in SUBSET S /\ Above(x) \in Sets
    OBVIOUS
  <2>3. <<Above(x), U>> \notin StrictSubsetOrdering(S)
    BY <1>3, <2>2
  <2> HIDE DEF Above
  <2> QED
    BY <1>4, <2>1, <2>2, <2>3 DEF StrictSubsetOrdering
<1> QED
  BY <1>5

\* A finite set of numbers has a least and a greatest one.
LEMMA FiniteLeast ==
  ASSUME NEW D, D \subseteq Nat, IsFiniteSet(D), D # {}
  PROVE  \E k \in D : \A x \in D : k <= x
<1>1. PICK R : \A x, y \in D : <<x, y>> \in R <=> x < y
  <2>1. \A x, y \in D : <<x, y>> \in {e \in D \X D : e[1] < e[2]} <=> x < y
    OBVIOUS
  <2> QED
    BY <2>1
<1>2. OrderOn(R, D)
  <2>1. \A x, y, z \in D : <<x, y>> \in R /\ <<y, z>> \in R => <<x, z>> \in R
    BY <1>1
  <2>2. \A x \in D : <<x, x>> \notin R
    BY <1>1
  <2>3. \A x, y \in D : x = y \/ <<x, y>> \in R \/ <<y, x>> \in R
    <3> TAKE x \in D, y \in D
    <3>1. x = y \/ x < y \/ y < x
      OBVIOUS
    <3> QED
      BY <1>1, <3>1
  <2> QED
    BY <2>1, <2>2, <2>3, Zenon DEF OrderOn
<1>3. PICK k \in D : \A x \in D \ {k} : <<k, x>> \in R
  BY <1>2, FiniteMaximum, Zenon
<1>4. \A x \in D : x = k \/ k < x
  BY <1>1, <1>3
<1>5. \A x \in D : k <= x
  BY <1>4
<1> QED
  BY <1>5

LEMMA FiniteGreatest ==
  ASSUME NEW D, D \subseteq Nat, IsFiniteSet(D), D # {}
  PROVE  \E k \in D : \A x \in D : x <= k
<1>1. PICK R : \A x, y \in D : <<x, y>> \in R <=> y < x
  <2>1. \A x, y \in D : <<x, y>> \in {e \in D \X D : e[2] < e[1]} <=> y < x
    OBVIOUS
  <2> QED
    BY <2>1
<1>2. OrderOn(R, D)
  <2>1. \A x, y, z \in D : <<x, y>> \in R /\ <<y, z>> \in R => <<x, z>> \in R
    BY <1>1
  <2>2. \A x \in D : <<x, x>> \notin R
    BY <1>1
  <2>3. \A x, y \in D : x = y \/ <<x, y>> \in R \/ <<y, x>> \in R
    <3> TAKE x \in D, y \in D
    <3>1. x = y \/ x < y \/ y < x
      OBVIOUS
    <3> QED
      BY <1>1, <3>1
  <2> QED
    BY <2>1, <2>2, <2>3, Zenon DEF OrderOn
<1>3. PICK k \in D : \A x \in D \ {k} : <<k, x>> \in R
  BY <1>2, FiniteMaximum, Zenon
<1>4. \A x \in D : x = k \/ x < k
  BY <1>1, <1>3
<1>5. \A x \in D : x <= k
  BY <1>4
<1> QED
  BY <1>5

\* So has a set of indices of a sequence of length n.
LEMMA LeastAndGreatest ==
  ASSUME NEW n \in Nat, NEW D \in SUBSET (1..n), D # {}
  PROVE  /\ \E k \in D : \A x \in D : k <= x
         /\ \E k \in D : \A x \in D : x <= k
<1>1. IsFiniteSet(1..n)
  BY FS_Interval
<1>2. IsFiniteSet(D)
  BY <1>1, FS_Subset, Zenon
<1>3. D \subseteq Nat
  OBVIOUS
<1> QED
  BY <1>2, <1>3, FiniteLeast, FiniteGreatest, Zenon

-----------------------------------------------------------------------------
(* The order of two prefixes that cover one reason.                        *)

\* Prefixes and reasons, as far as the order looks at them.
Covered(r) == {p \in Seq(Segment \cup {Star, Malformed}) : Matches(p, r)}

LEMMA BeatsIsTransitive ==
  ASSUME NEW r, NEW p \in Covered(r), NEW q \in Covered(r), NEW s \in Covered(r),
         Beats(p, q), Beats(q, s)
  PROVE  Beats(p, s)
<1>1. Len(p) \in Nat /\ Len(q) \in Nat /\ Len(s) \in Nat
  BY DEF Covered
<1>2. CASE Len(p) > Len(q) \/ Len(q) > Len(s)
  BY <1>1, <1>2 DEF Beats
<1>3. CASE Len(p) = Len(q) /\ Len(q) = Len(s)
  <2>1. SpelledOutFirst(p, q) /\ SpelledOutFirst(q, s)
    BY <1>1, <1>3 DEF Beats
  <2>2. PICK i \in 1..Len(p) : /\ p[i] # Star /\ q[i] = Star
                               /\ \A k \in 1..(i - 1) : p[k] = q[k]
    BY <2>1 DEF SpelledOutFirst
  <2>3. PICK j \in 1..Len(q) : /\ q[j] # Star /\ s[j] = Star
                               /\ \A k \in 1..(j - 1) : q[k] = s[k]
    BY <2>1 DEF SpelledOutFirst
  <2>4. CASE i < j
    <3>1. s[i] = Star /\ \A k \in 1..(i - 1) : p[k] = s[k]
      BY <1>1, <2>2, <2>3, <2>4
    <3> QED
      BY <1>1, <1>3, <2>2, <3>1 DEF Beats, SpelledOutFirst
  <2>5. CASE j < i
    <3>1. p[j] # Star /\ \A k \in 1..(j - 1) : p[k] = s[k]
      BY <1>1, <2>2, <2>3, <2>5
    <3> QED
      BY <1>1, <1>3, <2>3, <3>1 DEF Beats, SpelledOutFirst
  <2> QED
    BY <1>1, <2>2, <2>3, <2>4, <2>5
<1> QED
  BY <1>1, <1>2, <1>3 DEF Beats

LEMMA BeatsIsIrreflexive ==
  ASSUME NEW r, NEW p \in Covered(r)
  PROVE  ~Beats(p, p)
BY DEF Beats, SpelledOutFirst, Covered

\* Where two prefixes that cover one reason differ first, one of them has "*".
LEMMA BeatsIsTotal ==
  ASSUME NEW r, NEW p \in Covered(r), NEW q \in Covered(r), p # q
  PROVE  Beats(p, q) \/ Beats(q, p)
<1>1. Len(p) \in Nat /\ Len(q) \in Nat
  BY DEF Covered
<1>2. CASE Len(p) # Len(q)
  BY <1>1, <1>2 DEF Beats
<1>3. CASE Len(p) = Len(q)
  <2> DEFINE D == {i \in 1..Len(p) : p[i] # q[i]}
  <2>1. D # {}
    BY <1>3 DEF Covered
  <2>2. PICK k \in D : \A x \in D : k <= x
    <3>1. D \in SUBSET (1..Len(p))
      OBVIOUS
    <3> HIDE DEF D
    <3> QED
      BY <1>1, <2>1, <3>1, LeastAndGreatest
  <2>3. k \in 1..Len(p) /\ k \in 1..Len(q) /\ p[k] # q[k]
    BY <1>3
  <2>4. \A i \in 1..(k - 1) : p[i] = q[i]
    BY <1>1, <2>2, <2>3
  <2> HIDE DEF D
  <2>5. p[k] \in {Star, r[k]} /\ q[k] \in {Star, r[k]}
    BY <2>3 DEF Covered, Matches
  <2>6. CASE q[k] = Star
    BY <1>1, <1>3, <2>3, <2>4, <2>6 DEF Beats, SpelledOutFirst
  <2>7. CASE p[k] = Star
    BY <1>1, <1>3, <2>3, <2>4, <2>7 DEF Beats, SpelledOutFirst
  <2> QED
    BY <2>3, <2>5, <2>6, <2>7
<1> QED
  BY <1>2, <1>3

-----------------------------------------------------------------------------
(* The options of one list.                                                *)

\* The prefix options of list o that cover reason r.
CoverOf(o, t, c, r) == {i \in Chosen(o, "prefix", t, c) : Matches(Prefix(o, i), r)}

\* What Normalize makes of a prefix is a sequence of segments.
LEMMA PrefixText ==
  ASSUME NEW o \in OptionList, NEW i \in DOMAIN o
  PROVE  /\ o[i] \in OptionRecord
         /\ Prefix(o, i) \in Seq(Segment \cup {Star, Malformed})
<1>1. o \in Seq(OptionRecord) /\ Canonical \in [RawSegment -> Segment \cup {Star, Malformed}]
  BY OptionAssumption
<1>2. o[i] \in OptionRecord
  BY <1>1
<1>3. o[i].prefix \in Seq(RawSegment)
  BY <1>2 DEF OptionRecord
<1> DEFINE raw == o[i].prefix
<1>4. Normalize(raw) \in Seq(Segment \cup {Star, Malformed})
  <2>1. raw \in Seq(RawSegment)
    BY <1>3
  <2> HIDE DEF raw
  <2> QED
    BY <1>1, <2>1 DEF Normalize
<1> QED
  BY <1>2, <1>4 DEF Prefix

LEMMA ChosenIndices ==
  ASSUME NEW o \in OptionList, NEW kind, NEW t, NEW c
  PROVE  /\ Len(o) \in Nat
         /\ Chosen(o, kind, t, c) \in SUBSET (1..Len(o))
         /\ IsFiniteSet(Chosen(o, kind, t, c))
<1>1. o \in Seq(OptionRecord)
  BY OptionAssumption
<1>2. Len(o) \in Nat /\ Chosen(o, kind, t, c) \in SUBSET (1..Len(o))
  BY <1>1 DEF Chosen
<1>3. IsFiniteSet(1..Len(o))
  BY <1>2, FS_Interval
<1> QED
  BY <1>2, <1>3, FS_Subset

\* Deciding is a strict total order of the options that cover a reason.
LEMMA DecidesIsOrder ==
  ASSUME NEW o \in OptionList, NEW t, NEW c, NEW r,
         NEW R, \A i, j \in CoverOf(o, t, c, r) : <<i, j>> \in R <=> Decides(o, i, j)
  PROVE  OrderOn(R, CoverOf(o, t, c, r))
<1> DEFINE S == CoverOf(o, t, c, r)
<1>1. \A i \in S : i \in Nat /\ Prefix(o, i) \in Covered(r)
  <2> TAKE i \in S
  <2>1. i \in DOMAIN o /\ i \in Nat /\ Matches(Prefix(o, i), r)
    BY ChosenIndices DEF CoverOf, Chosen
  <2> QED
    BY <2>1, PrefixText DEF Covered
<1>2. \A i, j \in S : <<i, j>> \in R <=>
        \/ Beats(Prefix(o, i), Prefix(o, j))
        \/ Prefix(o, i) = Prefix(o, j) /\ i > j
  BY DEF Decides
<1> HIDE DEF S
<1>3. ASSUME NEW i \in S, NEW j \in S, NEW k \in S, <<i, j>> \in R, <<j, k>> \in R
      PROVE  <<i, k>> \in R
  <2>1. CASE Beats(Prefix(o, i), Prefix(o, j)) /\ Beats(Prefix(o, j), Prefix(o, k))
    <3>1. Beats(Prefix(o, i), Prefix(o, k))
      BY <1>1, <2>1, BeatsIsTransitive
    <3> QED
      BY <1>2, <3>1
  <2>2. CASE Beats(Prefix(o, i), Prefix(o, j)) /\ Prefix(o, j) = Prefix(o, k)
    BY <1>2, <2>2
  <2>3. CASE Prefix(o, i) = Prefix(o, j) /\ Beats(Prefix(o, j), Prefix(o, k))
    BY <1>2, <2>3
  <2>4. CASE /\ Prefix(o, i) = Prefix(o, j) /\ i > j
             /\ Prefix(o, j) = Prefix(o, k) /\ j > k
    <3>1. i > k
      BY <1>1, <2>4
    <3> QED
      BY <1>2, <2>4, <3>1
  <2> QED
    BY <1>2, <1>3, <2>1, <2>2, <2>3, <2>4
<1>4. ASSUME NEW i \in S
      PROVE  <<i, i>> \notin R
  <2>1. ~Beats(Prefix(o, i), Prefix(o, i)) /\ ~(i > i)
    BY <1>1, BeatsIsIrreflexive
  <2> QED
    BY <1>2, <2>1
<1>5. ASSUME NEW i \in S, NEW j \in S, i # j
      PROVE  <<i, j>> \in R \/ <<j, i>> \in R
  <2>1. CASE Prefix(o, i) = Prefix(o, j)
    <3>1. i > j \/ j > i
      BY <1>1, <1>5
    <3> QED
      BY <1>2, <2>1, <3>1
  <2>2. CASE Prefix(o, i) # Prefix(o, j)
    <3>1. Beats(Prefix(o, i), Prefix(o, j)) \/ Beats(Prefix(o, j), Prefix(o, i))
      BY <1>1, <2>2, BeatsIsTotal
    <3> QED
      BY <1>2, <3>1
  <2> QED
    BY <2>1, <2>2
<1>6. OrderOn(R, S)
  BY <1>3, <1>4, <1>5, Zenon DEF OrderOn
<1> QED
  BY <1>6 DEF S

LEMMA FirstOfAll ==
  ASSUME NEW o, NEW S, IsFiniteSet(S), S # {}, NEW R, OrderOn(R, S),
         \A i, j \in S : <<i, j>> \in R <=> Decides(o, i, j)
  PROVE  \E i \in S : \A j \in S \ {i} : Decides(o, i, j)
<1>1. PICK i \in S : \A j \in S \ {i} : <<i, j>> \in R
  BY FiniteMaximum, Zenon
<1> QED
  BY <1>1

\* Of the options that cover a reason one decides over all others.
LEMMA OneDecides ==
  ASSUME NEW o \in OptionList, NEW t, NEW c, NEW r, CoverOf(o, t, c, r) # {}
  PROVE  \E i \in CoverOf(o, t, c, r) : \A j \in CoverOf(o, t, c, r) \ {i} : Decides(o, i, j)
<1> DEFINE S == CoverOf(o, t, c, r)
<1>1. IsFiniteSet(S)
  <2>1. S \in SUBSET Chosen(o, "prefix", t, c)
    BY DEF CoverOf
  <2>2. IsFiniteSet(Chosen(o, "prefix", t, c))
    BY ChosenIndices
  <2> HIDE DEF S
  <2> QED
    BY <2>1, <2>2, FS_Subset
<1>2. PICK R : \A i, j \in S : <<i, j>> \in R <=> Decides(o, i, j)
  <2> HIDE DEF S
  <2>1. \A i, j \in S : <<i, j>> \in {e \in S \X S : Decides(o, e[1], e[2])} <=> Decides(o, i, j)
    OBVIOUS
  <2> QED
    BY <2>1
<1>3. OrderOn(R, S)
  BY <1>2, DecidesIsOrder
<1>4. S # {}
  OBVIOUS
<1> HIDE DEF S
<1> QED
  BY <1>1, <1>2, <1>3, <1>4, FirstOfAll DEF S
-----------------------------------------------------------------------------
(* The range of the policy.                                                *)

LEMMA MaxIsIn ==
  ASSUME NEW n \in Nat, NEW D \in SUBSET (1..n), D # {}
  PROVE  Max(D) \in D
BY LeastAndGreatest DEF Max

\* codes.Code holds the codes gRPC defines.
LEMMA ModulusIsLarge == CodeModulus \in Nat /\ CodeModulus > 16
<1>1. CodeModulus \in Nat
  BY OptionAssumption, Zenon
<1>2. CodeModulus >= 34
  BY OptionAssumption, Zenon
<1> QED
  BY <1>1, <1>2

LEMMA ConvertInRange ==
  ASSUME NEW t, NEW v \in Int
  PROVE  /\ Convert(t, v) \in Int
         /\ t = "grpc" => Convert(t, v) \in 0..(CodeModulus - 1)
<1>1. CodeModulus \in Nat /\ CodeModulus > 16
  BY ModulusIsLarge
<1>2. v % CodeModulus \in 0..(CodeModulus - 1)
  BY <1>1
<1> QED
  BY <1>1, <1>2 DEF Convert

LEMMA DefaultCodesInRange ==
  /\ \A c \in DOMAIN DefaultHTTP : DefaultHTTP[c] \in Int
  /\ \A c \in DOMAIN DefaultGRPC : DefaultGRPC[c] \in 0..16
BY DEF DefaultHTTP, DefaultGRPC

LEMMA LibraryInRange ==
  ASSUME NEW t \in Transport, NEW c, <<t, c>> \in DOMAIN Library
  PROVE  /\ Library[<<t, c>>] \in Int
         /\ t = "grpc" => Library[<<t, c>>] \in 0..(CodeModulus - 1)
<1>1. c \in DOMAIN DefaultTable(t)
  BY DEF Library
<1>2. Library[<<t, c>>] = DefaultTable(t)[c]
  BY DEF Library
<1>3. CodeModulus \in Nat /\ CodeModulus > 16
  BY ModulusIsLarge
<1> QED
  BY <1>1, <1>2, <1>3, DefaultCodesInRange DEF Transport, DefaultTable

\* Whatever the options say, a status is an int, and a gRPC status one that
\* codes.Code can hold (helpers.go:41-50).
THEOREM StatusInRange ==
  ASSUME NEW o \in OptionList, NEW t \in Transport, NEW c, NEW r
  PROVE  /\ Status(o, t, c, r) \in Int
         /\ t = "grpc" => Status(o, t, c, r) \in 0..(CodeModulus - 1)
<1> DEFINE override == Chosen(o, "override", t, c)
           cover    == {i \in Chosen(o, "prefix", t, c) : Matches(Prefix(o, i), r)}
           default  == Chosen(o, "default", t, c)
           Fits(v) == v \in Int /\ (t = "grpc" => v \in 0..(CodeModulus - 1))
<1>1. \A i \in DOMAIN o : o[i].val \in Int /\ Fits(Convert(t, o[i].val))
  <2> TAKE i \in DOMAIN o
  <2>1. o[i].val \in Int
    BY PrefixText DEF OptionRecord
  <2> QED
    BY <2>1, ConvertInRange
<1>2. \A kind, D : D \subseteq Chosen(o, kind, t, c) => D \subseteq DOMAIN o
  BY DEF Chosen
<1>3. \A kind : Chosen(o, kind, t, c) # {} =>
        Fits(Convert(t, o[Max(Chosen(o, kind, t, c))].val))
  <2> TAKE kind
  <2> HAVE Chosen(o, kind, t, c) # {}
  <2> DEFINE D == Chosen(o, kind, t, c)
  <2>1. D \in SUBSET (1..Len(o)) /\ Len(o) \in Nat
    BY ChosenIndices
  <2>2. D # {}
    OBVIOUS
  <2>3. Max(D) \in D
    <3> HIDE DEF D
    <3> QED
      BY <2>1, <2>2, MaxIsIn
  <2>4. Max(D) \in DOMAIN o
    BY <1>2, <2>3
  <2> QED
    BY <1>1, <2>4
<1>4. CASE override # {}
  <2>1. Status(o, t, c, r) = Convert(t, o[Max(override)].val)
    BY <1>4 DEF Status
  <2> QED
    BY <1>3, <1>4, <2>1
<1>5. CASE override = {} /\ cover # {}
  <2> DEFINE i == CHOOSE i \in cover : \A j \in cover \ {i} : Decides(o, i, j)
  <2>1. Status(o, t, c, r) = Convert(t, o[i].val)
    BY <1>5 DEF Status
  <2>2. i \in cover
    BY <1>5, OneDecides DEF CoverOf
  <2>3. i \in DOMAIN o
    BY <2>2 DEF Chosen
  <2> QED
    BY <1>1, <2>1, <2>3
<1>6. CASE override = {} /\ cover = {} /\ default # {}
  <2>1. Status(o, t, c, r) = Convert(t, o[Max(default)].val)
    BY <1>6 DEF Status
  <2> QED
    BY <1>3, <1>6, <2>1
<1>7. CASE override = {} /\ cover = {} /\ default = {}
  <2>1. Status(o, t, c, r) = IF <<t, c>> \in DOMAIN Library THEN Library[<<t, c>>]
                                                            ELSE Fallback[t]
    BY <1>7 DEF Status
  <2>2. Fits(Fallback[t])
    <3>1. CodeModulus \in Nat /\ CodeModulus > 16
      BY ModulusIsLarge
    <3> QED
      BY <3>1 DEF Fallback, Transport
  <2> QED
    BY <2>1, <2>2, LibraryInRange
<1> QED
  BY <1>4, <1>5, <1>6, <1>7
=============================================================================
