---------------------------- MODULE MapperProofs ----------------------------
(***************************************************************************)
(* Proofs about Mapper for every set of codes, reasons and option lists    *)
(* and any number of overlapping calls of New:                             *)
(*   - types;                                                              *)
(*   - a finished mapper answers what its option list determines;          *)
(*   - Explain names the status the mapper answers with;                   *)
(*   - therefore Mapper implements MapperContract.                         *)
(***************************************************************************)
EXTENDS Mapper, StatusProofs

-----------------------------------------------------------------------------
(* What the builder holds after some of the options.                       *)

\* The options of a kind for slot s among the first n of list o.
Given(o, n, kind, s) == {i \in Chosen(o, kind, s[1], s[2]) : i <= n}

\* Map g was map d before the first n options of a kind were put into it.
LastGiven(g, o, n, kind, d) ==
  /\ DOMAIN g \subseteq Slot
  /\ \A s \in Slot : s \in DOMAIN g <=> s \in DOMAIN d \/ Given(o, n, kind, s) # {}
  /\ \A s \in Slot : \A i \in Given(o, n, kind, s) :
       (\A j \in Given(o, n, kind, s) : j <= i) => g[s] = o[i].val
  /\ \A s \in DOMAIN d : Given(o, n, kind, s) = {} => g[s] = d[s]

RuleOf(o, i) == [prefix |-> o[i].prefix, val |-> o[i].val]
Norm(rule) == Normalize(rule.prefix)
RuleSet == [prefix : Seq(RawSegment), val : Int]

\* List R holds the prefix options of slot s among the first n, and where
\* spellings of one prefix meet, the last option is the last in R.
RulesFrom(R, o, n, s) ==
  /\ R \in Seq(RuleSet)
  /\ \A k \in 1..Len(R) : \E i \in Given(o, n, "prefix", s) : R[k] = RuleOf(o, i)
  /\ \A i \in Given(o, n, "prefix", s) : \E k \in 1..Len(R) : R[k] = RuleOf(o, i)
  /\ \A i \in Given(o, n, "prefix", s), k \in 1..Len(R) :
       /\ \A j \in Given(o, n, "prefix", s) : Prefix(o, j) = Prefix(o, i) => j <= i
       /\ Norm(R[k]) = Prefix(o, i)
       /\ \A l \in 1..Len(R) : Norm(R[l]) = Prefix(o, i) => l <= k
       => R[k].val = o[i].val

\* Trie g holds the first m rules of R.
TrieOf(g, R, m, t) ==
  /\ \A k \in 1..m : ValidPrefix(Norm(R[k]))
  /\ \A p : p \in DOMAIN g <=> \E k \in 1..m : p = Norm(R[k])
  /\ \A k \in 1..m : (\A l \in 1..m : Norm(R[l]) = Norm(R[k]) => l <= k)
                       => g[Norm(R[k])] = Convert(t, R[k].val)

\* Trie g holds the prefix options of list o for slot s.
TrieFor(g, o, s) ==
  LET given == Chosen(o, "prefix", s[1], s[2]) IN
  /\ \A i \in given : ValidPrefix(Prefix(o, i))
  /\ \A p : p \in DOMAIN g <=> \E i \in given : p = Prefix(o, i)
  /\ \A i \in given : (\A j \in given : Prefix(o, j) = Prefix(o, i) => j <= i)
                        => g[Prefix(o, i)] = Convert(s[1], o[i].val)

\* Mapper m is the one that list o determines.
MapperOf(o, m) ==
  /\ Buildable(o)
  /\ m.fallback = Fallback
  /\ \E g : LastGiven(g, o, Len(o), "override", EmptyMap) /\ m.override = Frozen(g)
  /\ \E g : LastGiven(g, o, Len(o), "default", Library) /\ m.default = Frozen(g)
  /\ DOMAIN m.trie \subseteq Slot
  /\ \A s \in DOMAIN m.trie : TrieFor(m.trie[s], o, s)
  /\ \A s \in Slot : Chosen(o, "prefix", s[1], s[2]) # {} => s \in DOMAIN m.trie

LEMMA OptionTypes ==
  ASSUME NEW o \in OptionList
  PROVE  /\ Len(o) \in Nat /\ DOMAIN o = 1..Len(o)
         /\ \A i \in 1..Len(o) :
              /\ o[i] \in OptionRecord
              /\ RuleOf(o, i) \in RuleSet
              /\ Norm(RuleOf(o, i)) = Prefix(o, i)
              /\ <<o[i].transport, o[i].code>> \in Slot
<1>1. o \in Seq(OptionRecord)
  BY OptionAssumption
<1>2. Len(o) \in Nat /\ DOMAIN o = 1..Len(o)
  BY <1>1
<1>3. \A i \in 1..Len(o) : o[i] \in OptionRecord
  BY <1>1
<1>4. \A i \in 1..Len(o) : RuleOf(o, i) \in RuleSet
  BY <1>3 DEF RuleOf, RuleSet, OptionRecord
<1>5. \A i \in 1..Len(o) : Norm(RuleOf(o, i)) = Prefix(o, i)
  BY DEF Norm, RuleOf, Prefix
<1>6. \A i \in 1..Len(o) : <<o[i].transport, o[i].code>> \in Slot
  BY <1>3 DEF OptionRecord, Slot
<1> QED
  BY <1>2, <1>3, <1>4, <1>5, <1>6

\* The slot of an option.
SlotOf(o, i) == <<o[i].transport, o[i].code>>

\* One more option is one more index, at its own slot and kind.
LEMMA GivenGrows ==
  ASSUME NEW o \in OptionList, NEW n \in 0..(Len(o) - 1), NEW kind, NEW s \in Slot
  PROVE  /\ Given(o, n, kind, s) \subseteq 1..n
         /\ Given(o, n + 1, kind, s) =
              IF o[n + 1].kind = kind /\ SlotOf(o, n + 1) = s
              THEN Given(o, n, kind, s) \cup {n + 1} ELSE Given(o, n, kind, s)
<1>1. Len(o) \in Nat /\ DOMAIN o = 1..Len(o)
  BY OptionTypes
<1>2. PICK t \in Transport, c \in Code : s = <<t, c>>
  BY DEF Slot
<1>3. \A m, i : i \in Given(o, m, kind, s) <=>
        i \in 1..Len(o) /\ i <= m /\ o[i].kind = kind /\ SlotOf(o, i) = s
  BY <1>1, <1>2 DEF Given, Chosen, SlotOf
<1>4. Given(o, n, kind, s) \subseteq 1..n
  BY <1>1, <1>3
<1>5. \A i : i \in 1..Len(o) /\ i <= n + 1 <=> (i \in 1..Len(o) /\ i <= n) \/ i = n + 1
  BY <1>1
<1>6. \A i : i \in Given(o, n + 1, kind, s) <=>
        \/ i \in Given(o, n, kind, s)
        \/ i = n + 1 /\ o[n + 1].kind = kind /\ SlotOf(o, n + 1) = s
  BY <1>3, <1>5
<1> QED
  BY <1>4, <1>6

\* All options are among the first Len(o), and none among the first 0.
LEMMA GivenEnds ==
  ASSUME NEW o \in OptionList, NEW kind, NEW s \in Slot
  PROVE  /\ Given(o, Len(o), kind, s) = Chosen(o, kind, s[1], s[2])
         /\ Given(o, 0, kind, s) = {}
<1>1. Chosen(o, kind, s[1], s[2]) \in SUBSET (1..Len(o)) /\ Len(o) \in Nat
  BY ChosenIndices
<1> QED
  BY <1>1 DEF Given

\* Among the indices of a set, one is the last.
LEMMA MaxIsLast ==
  ASSUME NEW n \in Nat, NEW D \in SUBSET (1..n), D # {}
  PROVE  Max(D) \in D /\ \A x \in D : x <= Max(D)
BY LeastAndGreatest DEF Max

-----------------------------------------------------------------------------
(* What one option, and one rule, adds.                                    *)

LEMMA LastGivenStarts ==
  ASSUME NEW o \in OptionList, NEW kind, NEW d, DOMAIN d \subseteq Slot
  PROVE  LastGiven(d, o, 0, kind, d)
<1>1. \A s \in Slot : Given(o, 0, kind, s) = {}
  BY GivenEnds
<1> QED
  BY <1>1 DEF LastGiven

LEMMA LastGivenKept ==
  ASSUME NEW o \in OptionList, NEW n \in 0..(Len(o) - 1), NEW kind, NEW g, NEW d,
         DOMAIN d \subseteq Slot, LastGiven(g, o, n, kind, d), o[n + 1].kind # kind
  PROVE  LastGiven(g, o, n + 1, kind, d)
<1>1. \A s \in Slot : Given(o, n + 1, kind, s) = Given(o, n, kind, s)
  BY GivenGrows
<1> QED
  BY <1>1 DEF LastGiven

LEMMA LastGivenGrows ==
  ASSUME NEW o \in OptionList, NEW n \in 0..(Len(o) - 1), NEW kind, NEW g, NEW d,
         DOMAIN d \subseteq Slot, LastGiven(g, o, n, kind, d), o[n + 1].kind = kind
  PROVE  LastGiven(Put(g, SlotOf(o, n + 1), o[n + 1].val), o, n + 1, kind, d)
<1> DEFINE at == SlotOf(o, n + 1)
           h == Put(g, at, o[n + 1].val)
<1>0. Len(o) \in Nat /\ n \in Nat /\ n + 1 \in 1..Len(o)
  BY OptionTypes
<1>1. at \in Slot
  BY <1>0, OptionTypes DEF SlotOf
<1>2. DOMAIN h = DOMAIN g \cup {at} /\ h[at] = o[n + 1].val
      /\ \A s \in DOMAIN g \ {at} : h[s] = g[s]
  BY DEF Put
<1>3. \A s \in Slot : /\ Given(o, n, kind, s) \subseteq 1..n
                      /\ s # at => Given(o, n + 1, kind, s) = Given(o, n, kind, s)
  BY GivenGrows
<1>4. Given(o, n + 1, kind, at) = Given(o, n, kind, at) \cup {n + 1}
  BY <1>1, GivenGrows
<1> HIDE DEF at, h
<1>5. DOMAIN h \subseteq Slot
  BY <1>1, <1>2 DEF LastGiven
<1>6. \A s \in Slot : s \in DOMAIN h <=> s \in DOMAIN d \/ Given(o, n + 1, kind, s) # {}
  BY <1>1, <1>2, <1>3, <1>4 DEF LastGiven
<1>7. ASSUME NEW s \in Slot, NEW i \in Given(o, n + 1, kind, s),
             \A j \in Given(o, n + 1, kind, s) : j <= i
      PROVE  h[s] = o[i].val
  <2>1. CASE s = at
    <3>1. n + 1 <= i /\ i \in 1..n \cup {n + 1}
      BY <1>1, <1>3, <1>4, <1>7, <2>1
    <3>2. i = n + 1
      BY <3>1, <1>0
    <3> QED
      BY <1>2, <2>1, <3>2
  <2>2. CASE s # at
    <3>1. s \in DOMAIN g /\ g[s] = o[i].val
      BY <1>3, <1>7, <2>2 DEF LastGiven
    <3> QED
      BY <1>2, <2>2, <3>1
  <2> QED
    BY <2>1, <2>2
<1>8. ASSUME NEW s \in DOMAIN d, Given(o, n + 1, kind, s) = {} PROVE h[s] = d[s]
  <2>1. s \in Slot /\ s # at
    BY <1>4, <1>8
  <2>2. s \in DOMAIN g /\ g[s] = d[s]
    BY <1>3, <1>8, <2>1 DEF LastGiven
  <2> QED
    BY <1>2, <2>1, <2>2
<1> QED
  BY <1>5, <1>6, <1>7, <1>8 DEF LastGiven, h, at

LEMMA RulesStart ==
  ASSUME NEW o \in OptionList, NEW s \in Slot
  PROVE  RulesFrom(<<>>, o, 0, s)
BY GivenEnds DEF RulesFrom

LEMMA RulesKept ==
  ASSUME NEW o \in OptionList, NEW n \in 0..(Len(o) - 1), NEW R, NEW s \in Slot,
         RulesFrom(R, o, n, s), ~(o[n + 1].kind = "prefix" /\ SlotOf(o, n + 1) = s)
  PROVE  RulesFrom(R, o, n + 1, s)
<1>1. Given(o, n + 1, "prefix", s) = Given(o, n, "prefix", s)
  BY GivenGrows
<1> QED
  BY <1>1 DEF RulesFrom

LEMMA RulesGrow ==
  ASSUME NEW o \in OptionList, NEW n \in 0..(Len(o) - 1), NEW R, NEW s \in Slot,
         RulesFrom(R, o, n, s), o[n + 1].kind = "prefix", SlotOf(o, n + 1) = s
  PROVE  RulesFrom(Append(R, RuleOf(o, n + 1)), o, n + 1, s)
<1> DEFINE S == Append(R, RuleOf(o, n + 1))
           old == Given(o, n, "prefix", s)
           new == Given(o, n + 1, "prefix", s)
<1>0. Len(o) \in Nat /\ n \in Nat /\ n + 1 \in 1..Len(o) /\ RuleOf(o, n + 1) \in RuleSet
      /\ Norm(RuleOf(o, n + 1)) = Prefix(o, n + 1)
  <2>1. Len(o) \in Nat /\ n \in Nat /\ n + 1 \in 1..Len(o)
    BY OptionTypes
  <2> DEFINE i == n + 1
  <2>2. i \in 1..Len(o)
    BY <2>1
  <2> HIDE DEF i
  <2>3. RuleOf(o, i) \in RuleSet /\ Norm(RuleOf(o, i)) = Prefix(o, i)
    BY <2>2, OptionTypes
  <2> QED
    BY <2>1, <2>3 DEF i
<1>1. old \subseteq 1..n /\ new = old \cup {n + 1}
  BY GivenGrows
<1>2. R \in Seq(RuleSet) /\ Len(R) \in Nat
  BY DEF RulesFrom
<1>3. /\ S \in Seq(RuleSet) /\ Len(S) = Len(R) + 1
      /\ \A k \in 1..Len(R) : S[k] = R[k]
      /\ S[Len(R) + 1] = RuleOf(o, n + 1)
  BY <1>0, <1>2
<1>4. \A k : k \in 1..Len(S) <=> k \in 1..Len(R) \/ k = Len(R) + 1
  BY <1>2, <1>3
<1>5. \A k \in 1..Len(R) : \E i \in old : R[k] = RuleOf(o, i)
  BY DEF RulesFrom
<1>6. \A i \in old : \E k \in 1..Len(R) : R[k] = RuleOf(o, i)
  BY DEF RulesFrom
<1>7. ASSUME NEW i \in new, NEW k \in 1..Len(S),
             \A j \in new : Prefix(o, j) = Prefix(o, i) => j <= i,
             Norm(S[k]) = Prefix(o, i),
             \A l \in 1..Len(S) : Norm(S[l]) = Prefix(o, i) => l <= k
      PROVE  S[k].val = o[i].val
  <2>1. CASE i = n + 1
    <3>1. Norm(S[Len(R) + 1]) = Prefix(o, i)
      BY <1>0, <1>3, <2>1
    <3>2. Len(R) + 1 <= k
      BY <1>4, <1>7, <3>1
    <3>3. k = Len(R) + 1
      BY <1>2, <1>4, <1>7, <3>2
    <3> QED
      BY <1>3, <2>1, <3>3 DEF RuleOf
  <2>2. CASE i # n + 1
    <3>1. i \in old /\ i \in 1..n
      BY <1>1, <2>2
    <3>2. Prefix(o, n + 1) # Prefix(o, i)
      BY <1>0, <1>1, <1>7, <3>1
    <3>3. k # Len(R) + 1
      BY <1>0, <1>3, <1>7, <3>2
    <3>4. k \in 1..Len(R) /\ S[k] = R[k]
      BY <1>3, <1>4, <1>7, <3>3
    <3>5. \A j \in old : Prefix(o, j) = Prefix(o, i) => j <= i
      BY <1>1, <1>7
    <3>6. \A l \in 1..Len(R) : Norm(R[l]) = Prefix(o, i) => l <= k
      BY <1>3, <1>4, <1>7
    <3>7. R[k].val = o[i].val
      BY <1>7, <3>1, <3>4, <3>5, <3>6 DEF RulesFrom
    <3> QED
      BY <3>4, <3>7
  <2> QED
    BY <2>1, <2>2
<1> HIDE DEF S, old, new
<1>8. \A k \in 1..Len(S) : \E i \in new : S[k] = RuleOf(o, i)
  BY <1>1, <1>3, <1>4, <1>5
<1>9. \A i \in new : \E k \in 1..Len(S) : S[k] = RuleOf(o, i)
  BY <1>1, <1>3, <1>4, <1>6
<1> QED
  BY <1>3, <1>7, <1>8, <1>9 DEF RulesFrom, S, new

LEMMA TrieStarts ==
  ASSUME NEW R, NEW t
  PROVE  TrieOf(EmptyMap, R, 0, t)
BY DEF TrieOf, EmptyMap

LEMMA TrieGrows ==
  ASSUME NEW R \in Seq(RuleSet), NEW m \in 0..(Len(R) - 1), NEW t, NEW g,
         TrieOf(g, R, m, t), ValidPrefix(Norm(R[m + 1]))
  PROVE  TrieOf(Put(g, Norm(R[m + 1]), Convert(t, R[m + 1].val)), R, m + 1, t)
<1> DEFINE at == Norm(R[m + 1])
           h == Put(g, at, Convert(t, R[m + 1].val))
<1>1. Len(R) \in Nat /\ m \in Nat /\ \A k : k \in 1..(m + 1) <=> k \in 1..m \/ k = m + 1
  OBVIOUS
<1>2. DOMAIN h = DOMAIN g \cup {at} /\ h[at] = Convert(t, R[m + 1].val)
      /\ \A p \in DOMAIN g \ {at} : h[p] = g[p]
  BY DEF Put
<1> HIDE DEF h
<1>3. \A k \in 1..(m + 1) : ValidPrefix(Norm(R[k]))
  BY <1>1 DEF TrieOf
<1>4. \A p : p \in DOMAIN g <=> \E k \in 1..m : p = Norm(R[k])
  BY DEF TrieOf
<1>5. \A p : p \in DOMAIN h <=> \E k \in 1..(m + 1) : p = Norm(R[k])
  BY <1>1, <1>2, <1>4
<1>6. ASSUME NEW k \in 1..(m + 1), \A l \in 1..(m + 1) : Norm(R[l]) = Norm(R[k]) => l <= k
      PROVE  h[Norm(R[k])] = Convert(t, R[k].val)
  <2>1. CASE k = m + 1
    BY <1>2, <2>1
  <2>2. CASE k # m + 1
    <3>1. k \in 1..m /\ m + 1 > k
      BY <1>1, <2>2
    <3>2. Norm(R[k]) # at
      BY <1>1, <1>6, <3>1
    <3>3. \A l \in 1..m : Norm(R[l]) = Norm(R[k]) => l <= k
      BY <1>1, <1>6
    <3>4. g[Norm(R[k])] = Convert(t, R[k].val)
      BY <3>1, <3>3 DEF TrieOf
    <3>5. Norm(R[k]) \in DOMAIN g
      BY <1>4, <3>1
    <3> QED
      BY <1>2, <3>2, <3>4, <3>5
  <2> QED
    BY <2>1, <2>2
<1> QED
  BY <1>3, <1>5, <1>6 DEF TrieOf, h

\* With all the options applied and all the rules of a slot inserted, its trie
\* is the one the option list determines: the last rule for a prefix is the
\* last option for it.
LEMMA TrieComplete ==
  ASSUME NEW o \in OptionList, NEW s \in Slot, NEW R, NEW g,
         RulesFrom(R, o, Len(o), s), TrieOf(g, R, Len(R), s[1])
  PROVE  TrieFor(g, o, s)
<1> DEFINE given == Chosen(o, "prefix", s[1], s[2])
<1>1. Given(o, Len(o), "prefix", s) = given /\ given \subseteq 1..Len(o)
  BY GivenEnds, ChosenIndices
<1>2. R \in Seq(RuleSet) /\ Len(R) \in Nat
  BY DEF RulesFrom
<1>3. \A i \in 1..Len(o) : Norm(RuleOf(o, i)) = Prefix(o, i)
  BY OptionTypes
<1> HIDE DEF given
<1>4. \A k \in 1..Len(R) : \E i \in given : Norm(R[k]) = Prefix(o, i)
  BY <1>1, <1>3 DEF RulesFrom
<1>5. \A i \in given : \E k \in 1..Len(R) : Norm(R[k]) = Prefix(o, i)
  BY <1>1, <1>3 DEF RulesFrom
<1>6. \A i \in given : ValidPrefix(Prefix(o, i))
  BY <1>5 DEF TrieOf
<1>7. \A p : p \in DOMAIN g <=> \E i \in given : p = Prefix(o, i)
  BY <1>4, <1>5 DEF TrieOf
<1>8. ASSUME NEW i \in given, \A j \in given : Prefix(o, j) = Prefix(o, i) => j <= i
      PROVE  g[Prefix(o, i)] = Convert(s[1], o[i].val)
  <2> DEFINE same == {k \in 1..Len(R) : Norm(R[k]) = Prefix(o, i)}
  <2>1. same \in SUBSET (1..Len(R)) /\ same # {}
    BY <1>5
  <2>2. PICK k \in same : \A l \in same : l <= k
    <3> HIDE DEF same
    <3> QED
      BY <1>2, <2>1, LeastAndGreatest
  <2>3. k \in 1..Len(R) /\ Norm(R[k]) = Prefix(o, i)
        /\ \A l \in 1..Len(R) : Norm(R[l]) = Prefix(o, i) => l <= k
    BY <2>2
  <2> HIDE DEF same
  <2>4. R[k].val = o[i].val
    BY <1>1, <1>8, <2>3 DEF RulesFrom
  <2>5. g[Norm(R[k])] = Convert(s[1], R[k].val)
    BY <2>3 DEF TrieOf
  <2> QED
    BY <2>3, <2>4, <2>5
<1> QED
  BY <1>6, <1>7, <1>8 DEF TrieFor, given

-----------------------------------------------------------------------------
(* The mapper that an option list determines answers by the policy.        *)

\* A map of the builder, frozen, at the last option for a slot.
LEMMA FrozenAtLast ==
  ASSUME NEW o \in OptionList, NEW kind, NEW t \in Transport, NEW c \in Code, NEW g, NEW d,
         LastGiven(g, o, Len(o), kind, d), Chosen(o, kind, t, c) # {}
  PROVE  /\ <<t, c>> \in DOMAIN Frozen(g)
         /\ Frozen(g)[<<t, c>>] = Convert(t, o[Max(Chosen(o, kind, t, c))].val)
<1> DEFINE s == <<t, c>>
           chosen == Chosen(o, kind, t, c)
<1>1. s \in Slot /\ s[1] = t /\ s[2] = c
  BY DEF Slot
<1>2. Given(o, Len(o), kind, s) = chosen
  BY <1>1, GivenEnds
<1>3. chosen \in SUBSET (1..Len(o)) /\ Len(o) \in Nat
  BY ChosenIndices
<1>4. Max(chosen) \in chosen /\ \A x \in chosen : x <= Max(chosen)
  <2>1. chosen # {}
    OBVIOUS
  <2> HIDE DEF chosen
  <2> QED
    BY <1>3, <2>1, MaxIsLast
<1>5. s \in DOMAIN g /\ g[s] = o[Max(chosen)].val
  BY <1>1, <1>2, <1>4 DEF LastGiven
<1> QED
  BY <1>1, <1>5 DEF Frozen

\* Without an option for a slot, a frozen map holds there what it began with.
LEMMA FrozenAsBefore ==
  ASSUME NEW o \in OptionList, NEW kind, NEW t \in Transport, NEW c \in Code, NEW g, NEW d,
         LastGiven(g, o, Len(o), kind, d), Chosen(o, kind, t, c) = {}
  PROVE  /\ <<t, c>> \in DOMAIN Frozen(g) <=> <<t, c>> \in DOMAIN d
         /\ <<t, c>> \in DOMAIN d => Frozen(g)[<<t, c>>] = Convert(t, d[<<t, c>>])
<1> DEFINE s == <<t, c>>
<1>1. s \in Slot /\ s[1] = t /\ s[2] = c
  BY DEF Slot
<1>2. Given(o, Len(o), kind, s) = {}
  BY <1>1, GivenEnds
<1>3. s \in DOMAIN g <=> s \in DOMAIN d
  BY <1>1, <1>2 DEF LastGiven
<1>4. s \in DOMAIN d => g[s] = d[s]
  BY <1>2 DEF LastGiven
<1> QED
  BY <1>1, <1>3, <1>4 DEF Frozen

\* In a trie built from the prefix options of a slot, Match finds the prefix
\* of the option that decides, and nothing when no option covers the reason.
LEMMA TrieDecides ==
  ASSUME NEW o \in OptionList, NEW t \in Transport, NEW c \in Code, NEW r, NEW g,
         TrieFor(g, o, <<t, c>>), NEW i \in CoverOf(o, t, c, r),
         \A j \in CoverOf(o, t, c, r) \ {i} : Decides(o, i, j)
  PROVE  /\ {p \in DOMAIN g : IsBest(p, DOMAIN g, r)} = {Prefix(o, i)}
         /\ g[Prefix(o, i)] = Convert(t, o[i].val)
<1> DEFINE given == Chosen(o, "prefix", t, c)
           cover == CoverOf(o, t, c, r)
           best == Prefix(o, i)
<1>1. /\ \A p : p \in DOMAIN g <=> \E j \in given : p = Prefix(o, j)
      /\ \A k \in given : (\A j \in given : Prefix(o, j) = Prefix(o, k) => j <= k)
                            => g[Prefix(o, k)] = Convert(t, o[k].val)
  BY DEF TrieFor
<1>2. \A j : j \in cover <=> j \in given /\ Matches(Prefix(o, j), r)
  BY DEF CoverOf
<1>3. given \subseteq 1..Len(o) /\ Len(o) \in Nat /\ DOMAIN o = 1..Len(o)
  BY ChosenIndices, OptionTypes
<1>4. \A j \in given : Prefix(o, j) \in Seq(Segment \cup {Star, Malformed})
  BY <1>3, PrefixText
<1>5. \A j \in cover : Prefix(o, j) \in Covered(r)
  BY <1>2, <1>4 DEF Covered
<1>6. \A p \in Covered(r) : ~Beats(best, best) /\ (Beats(best, p) => ~Beats(p, best))
  <2>1. best \in Covered(r)
    BY <1>5
  <2> HIDE DEF best
  <2> TAKE p \in Covered(r)
  <2>2. ~Beats(best, best)
    BY <2>1, BeatsIsIrreflexive
  <2>3. Beats(best, p) /\ Beats(p, best) => Beats(best, best)
    BY <2>1, BeatsIsTransitive
  <2> QED
    BY <2>2, <2>3
<1>7. \A j \in cover \ {i} : \/ Beats(best, Prefix(o, j))
                             \/ best = Prefix(o, j) /\ i > j
  BY DEF Decides
<1>8. i \in cover /\ i \in given /\ Matches(best, r) /\ best \in Covered(r)
  BY <1>2, <1>5
<1> HIDE DEF given, cover, best
<1>9. best \in DOMAIN g
  BY <1>1, <1>8 DEF best
<1>10. \A q \in DOMAIN g \ {best} : Matches(q, r) => q \in Covered(r) /\ Beats(best, q)
  <2> TAKE q \in DOMAIN g \ {best}
  <2> HAVE Matches(q, r)
  <2>1. PICK j \in given : q = Prefix(o, j)
    BY <1>1
  <2>2. j \in cover /\ j # i
    BY <1>2, <2>1 DEF best
  <2> QED
    BY <1>5, <1>7, <2>1, <2>2
<1>11. IsBest(best, DOMAIN g, r)
  BY <1>8, <1>9, <1>10 DEF IsBest
<1>12. \A p \in DOMAIN g : IsBest(p, DOMAIN g, r) => p = best
  BY <1>6, <1>8, <1>9, <1>10 DEF IsBest
<1>13. g[best] = Convert(t, o[i].val)
  <2>1. \A j \in given : Prefix(o, j) = Prefix(o, i) => j <= i
    <3> TAKE j \in given
    <3> HAVE Prefix(o, j) = Prefix(o, i)
    <3>1. j \in cover
      BY <1>2, <1>8 DEF best
    <3>2. j # i => i > j
      BY <1>6, <1>7, <1>8, <3>1 DEF best
    <3> QED
      BY <1>3, <1>8, <3>2
  <2> QED
    BY <1>1, <1>8, <2>1 DEF best
<1> QED
  BY <1>9, <1>11, <1>12, <1>13 DEF best

LEMMA TrieSilent ==
  ASSUME NEW o \in OptionList, NEW t \in Transport, NEW c \in Code, NEW r, NEW g,
         TrieFor(g, o, <<t, c>>), CoverOf(o, t, c, r) = {}
  PROVE  {p \in DOMAIN g : IsBest(p, DOMAIN g, r)} = {}
<1>1. \A p : p \in DOMAIN g <=> \E j \in Chosen(o, "prefix", t, c) : p = Prefix(o, j)
  BY DEF TrieFor
<1>2. \A p \in DOMAIN g : ~Matches(p, r)
  BY <1>1 DEF CoverOf
<1> QED
  BY <1>2 DEF IsBest

\* A gRPC code that fits is not changed by the conversion.
LEMMA ConvertKeeps ==
  ASSUME NEW t, NEW v \in Int, t = "grpc" => v \in 0..(CodeModulus - 1)
  PROVE  Convert(t, v) = v
<1>1. CodeModulus \in Nat /\ CodeModulus > 16
  BY ModulusIsLarge
<1>2. \A w \in 0..(CodeModulus - 1) : w % CodeModulus = w
  BY <1>1
<1> QED
  BY <1>2 DEF Convert

\* A finished mapper answers as the policy says.
LEMMA MapperAnswers ==
  ASSUME NEW o \in OptionList, NEW m, MapperOf(o, m),
         NEW t \in Transport, NEW c \in Code, NEW r
  PROVE  StatusOf(m, t, c, r) = Status(o, t, c, r)
<1> DEFINE s == <<t, c>>
           override == Chosen(o, "override", t, c)
           cover    == {i \in Chosen(o, "prefix", t, c) : Matches(Prefix(o, i), r)}
           default  == Chosen(o, "default", t, c)
<1>1. s \in Slot /\ s[1] = t /\ s[2] = c
  BY DEF Slot
<1>2. PICK v : LastGiven(v, o, Len(o), "override", EmptyMap) /\ m.override = Frozen(v)
  BY DEF MapperOf
<1>3. PICK d : LastGiven(d, o, Len(o), "default", Library) /\ m.default = Frozen(d)
  BY DEF MapperOf
<1>4. s \in DOMAIN m.override <=> override # {}
  BY <1>2, FrozenAtLast, FrozenAsBefore DEF EmptyMap
<1>5. /\ s \in DOMAIN m.trie => TrieFor(m.trie[s], o, <<t, c>>)
      /\ s \notin DOMAIN m.trie => cover = {}
  BY <1>1 DEF MapperOf
<1>6. cover = {} => Covering(m, s, r) = {}
  BY <1>5, TrieSilent DEF Covering, CoverOf
<1>7. CASE override # {}
  <2>1. Status(o, t, c, r) = Convert(t, o[Max(override)].val)
    BY <1>7 DEF Status
  <2>2. StatusOf(m, t, c, r) = m.override[s]
    BY <1>4, <1>7 DEF StatusOf
  <2> QED
    BY <1>2, <1>7, <2>1, <2>2, FrozenAtLast
<1>8. CASE override = {} /\ cover # {}
  <2> DEFINE i == CHOOSE i \in cover : \A j \in cover \ {i} : Decides(o, i, j)
  <2>1. Status(o, t, c, r) = Convert(t, o[i].val)
    BY <1>8 DEF Status
  <2>2. i \in cover /\ \A j \in cover \ {i} : Decides(o, i, j)
    BY <1>8, OneDecides DEF CoverOf
  <2>3. s \in DOMAIN m.trie /\ TrieFor(m.trie[s], o, <<t, c>>)
    BY <1>5, <1>8
  <2> HIDE DEF i
  <2>4. /\ Covering(m, s, r) = {Prefix(o, i)}
        /\ m.trie[s][Prefix(o, i)] = Convert(t, o[i].val)
    <3> DEFINE g == m.trie[s]
    <3>1. TrieFor(g, o, <<t, c>>)
      BY <2>3
    <3>2. i \in CoverOf(o, t, c, r) /\ \A j \in CoverOf(o, t, c, r) \ {i} : Decides(o, i, j)
      BY <2>2 DEF CoverOf
    <3>3. Covering(m, s, r) = {p \in DOMAIN g : IsBest(p, DOMAIN g, r)}
      BY <2>3 DEF Covering
    <3> HIDE DEF g, cover
    <3>4. /\ {p \in DOMAIN g : IsBest(p, DOMAIN g, r)} = {Prefix(o, i)}
          /\ g[Prefix(o, i)] = Convert(t, o[i].val)
      BY <3>1, <3>2, TrieDecides
    <3> QED
      BY <3>3, <3>4 DEF g
  <2>5. Deciding(m, s, r) = Prefix(o, i)
    BY <2>4 DEF Deciding
  <2>6. StatusOf(m, t, c, r) = m.trie[s][Deciding(m, s, r)]
    BY <1>4, <1>8, <2>4 DEF StatusOf
  <2> QED
    BY <2>1, <2>4, <2>5, <2>6
<1>9. CASE override = {} /\ cover = {} /\ default # {}
  <2>1. Status(o, t, c, r) = Convert(t, o[Max(default)].val)
    BY <1>9 DEF Status
  <2>2. s \in DOMAIN m.default /\ m.default[s] = Convert(t, o[Max(default)].val)
    BY <1>3, <1>9, FrozenAtLast
  <2>3. StatusOf(m, t, c, r) = m.default[s]
    BY <1>4, <1>6, <1>9, <2>2 DEF StatusOf
  <2> QED
    BY <2>1, <2>2, <2>3
<1>10. CASE override = {} /\ cover = {} /\ default = {}
  <2>1. Status(o, t, c, r) = IF s \in DOMAIN Library THEN Library[s] ELSE Fallback[t]
    BY <1>10 DEF Status
  <2>2. StatusOf(m, t, c, r) = IF s \in DOMAIN m.default THEN m.default[s] ELSE HardFallback(t)
    BY <1>4, <1>6, <1>10 DEF StatusOf
  <2>3. /\ s \in DOMAIN m.default <=> s \in DOMAIN Library
        /\ s \in DOMAIN Library => m.default[s] = Convert(t, Library[s])
    BY <1>3, <1>10, FrozenAsBefore
  <2>4. s \in DOMAIN Library => Convert(t, Library[s]) = Library[s]
    <3> HAVE s \in DOMAIN Library
    <3>1. Library[s] \in Int /\ (t = "grpc" => Library[s] \in 0..(CodeModulus - 1))
      BY LibraryInRange
    <3> QED
      BY <3>1, ConvertKeeps
  <2>5. HardFallback(t) = Fallback[t]
    BY DEF HardFallback, Fallback, Transport
  <2> QED
    BY <2>1, <2>2, <2>3, <2>4, <2>5
<1> QED
  BY <1>7, <1>8, <1>9, <1>10

-----------------------------------------------------------------------------
(* The state of a call of New.                                             *)

Phase == {"idle", "apply", "range", "insert", "returned"}

IsFrame(f) ==
  DOMAIN f = {"default", "override", "prefixes", "applied", "transport", "left",
              "cur", "trie", "inserted", "tries", "fallback"}

\* The frame of a call that is not running.
Blank(f) ==
  /\ IsFrame(f)
  /\ f.applied = 0 /\ f.transport = "http" /\ f.left = {} /\ f.cur = ""
  /\ f.prefixes = EmptyMap /\ f.inserted = 0

\* In every phase the builder holds what the options applied so far gave it.
Builder(o, f) ==
  /\ IsFrame(f)
  /\ f.applied \in 0..Len(o)
  /\ f.fallback = Fallback
  /\ LastGiven(f.default, o, f.applied, "default", Library)
  /\ LastGiven(f.override, o, f.applied, "override", EmptyMap)
  /\ DOMAIN f.prefixes \subseteq Slot
  /\ \A s \in Slot : RulesFrom(Rules(f, s), o, f.applied, s)

Applying(o, f) ==
  /\ Builder(o, f)
  /\ f.transport = "http" /\ f.left = {} /\ f.cur = "" /\ f.inserted = 0
  /\ f.tries = EmptyMap

\* While tries are built: those there are are right, and no code with rules is
\* forgotten.
Compiling(o, f) ==
  /\ Builder(o, f)
  /\ f.applied = Len(o)
  /\ f.transport \in Transport
  /\ f.left \subseteq Code
  /\ DOMAIN f.tries \subseteq Slot
  /\ \A s \in DOMAIN f.tries : TrieFor(f.tries[s], o, s)
  /\ \A c \in Code : Rules(f, <<f.transport, c>>) # <<>> =>
       c \in f.left \/ c = f.cur \/ <<f.transport, c>> \in DOMAIN f.tries
  /\ f.transport = "grpc" =>
       \A c \in Code : Rules(f, <<"http", c>>) # <<>> => <<"http", c>> \in DOMAIN f.tries

Ranging(o, f) == Compiling(o, f) /\ f.cur = "" /\ f.inserted = 0

Inserting(o, f) ==
  LET rules == Rules(f, <<f.transport, f.cur>>) IN
  /\ Compiling(o, f)
  /\ f.cur \in Code
  /\ f.inserted \in 0..Len(rules)
  /\ TrieOf(f.trie, rules, f.inserted, f.transport)

\* What a call returns is what its option list determines.
Outcome(o, res) ==
  \/ res.err = "nil" /\ MapperOf(o, res.mapper)
  \/ res.err = "invalid prefix" /\ res.mapper = NoMapper /\ ~Buildable(o)

CallInv(o, k, f, res) ==
  /\ k # "idle" => o \in OptionList
  /\ k # "returned" => res = NotReturned
  /\ \/ k = "idle" /\ o = <<>> /\ Blank(f)
     \/ k = "apply" /\ Applying(o, f)
     \/ k = "range" /\ Ranging(o, f)
     \/ k = "insert" /\ Inserting(o, f)
     \/ k = "returned" /\ Blank(f) /\ Outcome(o, res)

IInv ==
  /\ tables = Library
  /\ opts \in [Build -> OptionList \cup {<<>>}]
  /\ pc \in [Build -> Phase]
  /\ DOMAIN frame = Build
  /\ result = [b \in Build |-> result[b]]
  /\ \A b \in Build : CallInv(opts[b], pc[b], frame[b], result[b])

\* A step of call b that leaves it as CallInv says leaves the others alone.
LEMMA CallStep ==
  ASSUME IInv, NEW b \in Build, NEW o \in OptionList, NEW k \in Phase, NEW f, NEW res,
         CallInv(o, k, f, res), UNCHANGED tables,
         opts' = [opts EXCEPT ![b] = o], pc' = [pc EXCEPT ![b] = k],
         frame' = [frame EXCEPT ![b] = f], result' = [result EXCEPT ![b] = res]
  PROVE  IInv'
<1>1. /\ opts' \in [Build -> OptionList \cup {<<>>}] /\ pc' \in [Build -> Phase]
      /\ DOMAIN frame' = Build
  BY DEF IInv
<1>6. result' = [x \in Build |-> result'[x]] /\ DOMAIN result = Build
  BY DEF IInv
<1>2. opts'[b] = o /\ pc'[b] = k /\ frame'[b] = f /\ result'[b] = res
  BY DEF IInv
<1>3. \A x \in Build \ {b} : /\ opts'[x] = opts[x] /\ pc'[x] = pc[x]
                             /\ frame'[x] = frame[x] /\ result'[x] = result[x]
  BY DEF IInv
<1>4. \A x \in Build : CallInv(opts'[x], pc'[x], frame'[x], result'[x])
  <2> TAKE x \in Build
  <2>1. CASE x = b
    BY ONLY <2>1, <1>2, CallInv(o, k, f, res)
  <2>2. CASE x # b
    <3>1. CallInv(opts[x], pc[x], frame[x], result[x])
      BY DEF IInv
    <3> QED
      BY ONLY <1>3, <2>2, <3>1, x \in Build
  <2> QED
    BY <2>1, <2>2
<1>5. tables' = Library
  BY DEF IInv
<1> QED
  BY ONLY <1>1, <1>4, <1>5, <1>6 DEF IInv

\* What a call does not assign stays as it is.
LEMMA Unassigned ==
  ASSUME IInv, NEW b \in Build
  PROVE  /\ opts = [opts EXCEPT ![b] = opts[b]] /\ pc = [pc EXCEPT ![b] = pc[b]]
BY DEF IInv

-----------------------------------------------------------------------------
(* What each phase does to the frame.                                      *)

LEMMA RulesAreRules ==
  ASSUME NEW o, NEW f, Builder(o, f)
  PROVE  /\ \A s \in Slot : Rules(f, s) \in Seq(RuleSet) /\ Len(Rules(f, s)) \in Nat
         /\ \A s \in Slot : Rules(f, s) # <<>> => Len(Rules(f, s)) > 0
         /\ \A t : Rules(f, <<t, "">>) = <<>>
<1>1. \A s \in Slot : Rules(f, s) \in Seq(RuleSet)
  BY DEF Builder, RulesFrom
<1>4. \A R \in Seq(RuleSet) : Len(R) \in Nat /\ (R # <<>> => Len(R) > 0)
  OBVIOUS
<1>2. "" \notin Code
  BY OptionAssumption, Zenon
<1>3. \A t : <<t, "">> \notin Slot
  BY <1>2 DEF Slot
<1> QED
  <2>1. DOMAIN f.prefixes \subseteq Slot
    BY DEF Builder
  <2>2. \A t : Rules(f, <<t, "">>) = <<>>
    BY <1>3, <2>1 DEF Rules
  <2> QED
    BY ONLY <1>1, <1>4, <2>2

\* The builder is what its own fields say, whatever the locals of New.
SameBuilder(f, g) ==
  /\ IsFrame(g)
  /\ g.applied = f.applied /\ g.default = f.default /\ g.override = f.override
  /\ g.prefixes = f.prefixes /\ g.fallback = f.fallback

LEMMA BuilderKept ==
  ASSUME NEW o, NEW f, NEW g, Builder(o, f), SameBuilder(f, g)
  PROVE  Builder(o, g) /\ \A s : Rules(g, s) = Rules(f, s)
<1>1. \A s : Rules(g, s) = Rules(f, s)
  BY DEF Rules, SameBuilder
<1> QED
  BY <1>1 DEF Builder, SameBuilder

LEMMA NewFrameApplies ==
  ASSUME tables = Library, NEW o \in OptionList
  PROVE  Applying(o, NewFrame)
<1> DEFINE f == NewFrame
<1>1. /\ IsFrame(f) /\ f.applied = 0 /\ f.fallback = Fallback
      /\ f.default = Library /\ f.override = EmptyMap /\ f.prefixes = EmptyMap
      /\ f.transport = "http" /\ f.left = {} /\ f.cur = "" /\ f.inserted = 0
      /\ f.tries = EmptyMap
  BY DEF IsFrame, NewFrame
<1> HIDE DEF f
<1>2. LastGiven(Library, o, 0, "default", Library)
  BY LastGivenStarts DEF Library
<1>3. LastGiven(EmptyMap, o, 0, "override", EmptyMap)
  BY LastGivenStarts DEF EmptyMap
<1>4. \A s \in Slot : Rules(f, s) = <<>>
  BY <1>1 DEF Rules, EmptyMap
<1>5. \A s \in Slot : RulesFrom(Rules(f, s), o, 0, s)
  BY <1>4, RulesStart
<1>6. 0 \in 0..Len(o) /\ DOMAIN EmptyMap \subseteq Slot
  BY OptionTypes DEF EmptyMap
<1>7. Builder(o, f)
  BY <1>1, <1>2, <1>3, <1>5, <1>6 DEF Builder
<1> QED
  BY <1>1, <1>7 DEF Applying, f

\* One option, applied.
LEMMA OptionApplies ==
  ASSUME NEW o \in OptionList, NEW f, Applying(o, f), f.applied < Len(o), NEW g,
         g = [Applied(f, o[f.applied + 1]) EXCEPT !.applied = f.applied + 1]
  PROVE  Applying(o, g)
<1> DEFINE n == f.applied
           i == n + 1
           s == SlotOf(o, i)
<1>1. n \in 0..(Len(o) - 1) /\ i \in 1..Len(o) /\ i \in 0..Len(o)
  <2>1. n \in 0..Len(o) /\ n < Len(o)
    BY DEF Applying, Builder
  <2>2. Len(o) \in Nat
    BY OptionTypes
  <2> QED
    BY ONLY <2>1, <2>2
<1>2. o[i].kind \in {"default", "override", "prefix"} /\ s \in Slot
  BY <1>1, OptionTypes DEF SlotOf, OptionRecord
<1>3. /\ IsFrame(f) /\ f.fallback = Fallback /\ DOMAIN f.prefixes \subseteq Slot
      /\ f.transport = "http" /\ f.left = {} /\ f.cur = "" /\ f.inserted = 0
      /\ f.tries = EmptyMap
      /\ LastGiven(f.default, o, n, "default", Library)
      /\ LastGiven(f.override, o, n, "override", EmptyMap)
      /\ \A x \in Slot : RulesFrom(Rules(f, x), o, n, x)
  BY DEF Applying, Builder
<1>4. DOMAIN Library \subseteq Slot /\ DOMAIN EmptyMap \subseteq Slot
  BY DEF Library, EmptyMap
<1>5. /\ o[i].kind # "default" => LastGiven(f.default, o, i, "default", Library)
      /\ o[i].kind # "override" => LastGiven(f.override, o, i, "override", EmptyMap)
      /\ o[i].kind = "default" =>
           LastGiven(Put(f.default, s, o[i].val), o, i, "default", Library)
      /\ o[i].kind = "override" =>
           LastGiven(Put(f.override, s, o[i].val), o, i, "override", EmptyMap)
  BY <1>1, <1>3, <1>4, LastGivenKept, LastGivenGrows
<1>6. \A x \in Slot : ~(o[i].kind = "prefix" /\ s = x) => RulesFrom(Rules(f, x), o, i, x)
  BY <1>1, <1>3, RulesKept
<1>7. o[i].kind = "prefix" => RulesFrom(Append(Rules(f, s), RuleOf(o, i)), o, i, s)
  BY <1>1, <1>2, <1>3, RulesGrow
<1>8. ASSUME IsFrame(g), g.applied = i, g.fallback = f.fallback, g.transport = f.transport,
             g.left = f.left, g.cur = f.cur, g.inserted = f.inserted, g.tries = f.tries,
             LastGiven(g.default, o, i, "default", Library),
             LastGiven(g.override, o, i, "override", EmptyMap),
             DOMAIN g.prefixes \subseteq Slot,
             \A x \in Slot : RulesFrom(Rules(g, x), o, i, x)
      PROVE  Applying(o, g)
  BY <1>1, <1>3, <1>8 DEF Applying, Builder
<1> DEFINE h == Applied(f, o[i])
<1>9. g = [h EXCEPT !.applied = i]
  OBVIOUS
<1>10. CASE o[i].kind = "default"
  <2>1. h = [f EXCEPT !.default = Put(f.default, s, o[i].val)]
    BY <1>10 DEF Applied, SlotOf
  <2> HIDE DEF h, s, i, n
  <2>2. /\ IsFrame(g) /\ g.applied = i /\ g.default = Put(f.default, s, o[i].val)
        /\ g.override = f.override /\ g.prefixes = f.prefixes
        /\ g.fallback = f.fallback /\ g.transport = f.transport
        /\ g.left = f.left /\ g.cur = f.cur /\ g.inserted = f.inserted /\ g.tries = f.tries
    BY <1>3, <1>9, <2>1 DEF IsFrame
  <2>3. \A x \in Slot : RulesFrom(Rules(g, x), o, i, x)
    BY <1>6, <1>10, <2>2 DEF Rules
  <2> QED
    BY <1>3, <1>5, <1>8, <1>10, <2>2, <2>3
<1>11. CASE o[i].kind = "override"
  <2>1. h = [f EXCEPT !.override = Put(f.override, s, o[i].val)]
    BY <1>11 DEF Applied, SlotOf
  <2> HIDE DEF h, s, i, n
  <2>2. /\ IsFrame(g) /\ g.applied = i /\ g.override = Put(f.override, s, o[i].val)
        /\ g.default = f.default /\ g.prefixes = f.prefixes
        /\ g.fallback = f.fallback /\ g.transport = f.transport
        /\ g.left = f.left /\ g.cur = f.cur /\ g.inserted = f.inserted /\ g.tries = f.tries
    BY <1>3, <1>9, <2>1 DEF IsFrame
  <2>3. \A x \in Slot : RulesFrom(Rules(g, x), o, i, x)
    BY <1>6, <1>11, <2>2 DEF Rules
  <2> QED
    BY <1>3, <1>5, <1>8, <1>11, <2>2, <2>3
<1>12. CASE o[i].kind = "prefix"
  <2> DEFINE R == Append(Rules(f, s), RuleOf(o, i))
  <2>1. h = [f EXCEPT !.prefixes = Put(f.prefixes, s, R)]
    BY <1>12 DEF Applied, SlotOf, RuleOf
  <2> HIDE DEF h, s, i, n, R
  <2>2. /\ IsFrame(g) /\ g.applied = i /\ g.prefixes = Put(f.prefixes, s, R)
        /\ g.default = f.default /\ g.override = f.override
        /\ g.fallback = f.fallback /\ g.transport = f.transport
        /\ g.left = f.left /\ g.cur = f.cur /\ g.inserted = f.inserted /\ g.tries = f.tries
    BY <1>3, <1>9, <2>1 DEF IsFrame
  <2>3. DOMAIN g.prefixes = DOMAIN f.prefixes \cup {s} /\ g.prefixes[s] = R
        /\ \A x \in DOMAIN f.prefixes \ {s} : g.prefixes[x] = f.prefixes[x]
    BY <2>2 DEF Put
  <2>4. Rules(g, s) = R /\ \A x \in Slot \ {s} : Rules(g, x) = Rules(f, x)
    BY <2>3 DEF Rules
  <2>5. RulesFrom(R, o, i, s)
    BY <1>7, <1>12 DEF R
  <2>6. \A x \in Slot : RulesFrom(Rules(g, x), o, i, x)
    BY <1>6, <2>4, <2>5
  <2> QED
    BY <1>2, <1>3, <1>5, <1>8, <1>12, <2>2, <2>3, <2>6
<1> QED
  BY <1>2, <1>10, <1>11, <1>12

\* The tries of a transport begin: all its codes with rules are left.
LEMMA HTTPTriesBegin ==
  ASSUME NEW o \in OptionList, NEW f, Applying(o, f), f.applied = Len(o), NEW g,
         g = [f EXCEPT !.transport = "http", !.left = CodesWithRules(f, "http")]
  PROVE  Ranging(o, g)
<1>0. Builder(o, f)
  BY DEF Applying
<1>1. /\ IsFrame(g) /\ g.transport = "http" /\ g.left = CodesWithRules(f, "http")
      /\ g.applied = f.applied /\ g.default = f.default /\ g.override = f.override
      /\ g.prefixes = f.prefixes /\ g.fallback = f.fallback
      /\ g.cur = "" /\ g.inserted = 0 /\ g.tries = EmptyMap
  BY DEF Applying, Builder, IsFrame
<1>2. Builder(o, g) /\ \A s : Rules(g, s) = Rules(f, s)
  <2>1. SameBuilder(f, g)
    BY <1>1 DEF SameBuilder
  <2> QED
    BY ONLY <1>0, <2>1, BuilderKept
<1>3. \A c \in Code : Rules(f, <<"http", c>>) # <<>> => Len(Rules(f, <<"http", c>>)) > 0
  BY <1>0, RulesAreRules DEF Slot, Transport
<1>4. \A c \in Code : Rules(f, <<"http", c>>) # <<>> => c \in g.left
  BY <1>1, <1>3 DEF CodesWithRules
<1>5. g.left \subseteq Code
  BY <1>1 DEF CodesWithRules
<1> QED
  BY <1>1, <1>2, <1>4, <1>5 DEF Ranging, Compiling, Transport, EmptyMap

LEMMA GRPCTriesBegin ==
  ASSUME NEW o \in OptionList, NEW f, Ranging(o, f), f.transport = "http", f.left = {}, NEW g,
         g = [f EXCEPT !.transport = "grpc", !.left = CodesWithRules(f, "grpc")]
  PROVE  Ranging(o, g)
<1>0. Builder(o, f)
  BY DEF Ranging, Compiling
<1>1. /\ IsFrame(g) /\ g.transport = "grpc" /\ g.left = CodesWithRules(f, "grpc")
      /\ g.applied = f.applied /\ g.default = f.default /\ g.override = f.override
      /\ g.prefixes = f.prefixes /\ g.fallback = f.fallback
      /\ g.cur = "" /\ g.inserted = 0 /\ g.tries = f.tries
  BY DEF Ranging, Compiling, Builder, IsFrame
<1>2. Builder(o, g) /\ \A s : Rules(g, s) = Rules(f, s)
  <2>1. SameBuilder(f, g)
    BY <1>1 DEF SameBuilder
  <2> QED
    BY ONLY <1>0, <2>1, BuilderKept
<1>3. \A c \in Code : Rules(f, <<"grpc", c>>) # <<>> => Len(Rules(f, <<"grpc", c>>)) > 0
  BY <1>0, RulesAreRules DEF Slot, Transport
<1>4. \A c \in Code : Rules(f, <<"grpc", c>>) # <<>> => c \in g.left
  BY <1>1, <1>3 DEF CodesWithRules
<1>5. g.left \subseteq Code
  BY <1>1 DEF CodesWithRules
<1>6. "" \notin Code
  BY OptionAssumption, Zenon
<1>7. \A c \in Code : Rules(f, <<"http", c>>) # <<>> => <<"http", c>> \in DOMAIN f.tries
  BY <1>6 DEF Ranging, Compiling
<1> QED
  BY <1>1, <1>2, <1>4, <1>5, <1>7 DEF Ranging, Compiling, Transport

LEMMA CodeVisited ==
  ASSUME NEW o \in OptionList, NEW f, Ranging(o, f), NEW c \in f.left, NEW g,
         g = [f EXCEPT !.left = f.left \ {c}, !.cur = c, !.trie = EmptyMap, !.inserted = 0]
  PROVE  Inserting(o, g)
<1>0. Builder(o, f)
  BY DEF Ranging, Compiling
<1>1. /\ IsFrame(g) /\ g.transport = f.transport /\ g.left = f.left \ {c}
      /\ g.applied = f.applied /\ g.default = f.default /\ g.override = f.override
      /\ g.prefixes = f.prefixes /\ g.fallback = f.fallback
      /\ g.cur = c /\ g.inserted = 0 /\ g.trie = EmptyMap /\ g.tries = f.tries
  BY DEF Ranging, Compiling, Builder, IsFrame
<1>2. Builder(o, g) /\ \A s : Rules(g, s) = Rules(f, s)
  <2>1. SameBuilder(f, g)
    BY <1>1 DEF SameBuilder
  <2> QED
    BY ONLY <1>0, <2>1, BuilderKept
<1>3. c \in Code /\ "" \notin Code
  BY OptionAssumption, Zenon DEF Ranging, Compiling
<1>4. \A x \in Code : Rules(f, <<f.transport, x>>) # <<>> =>
        x \in g.left \/ x = g.cur \/ <<f.transport, x>> \in DOMAIN g.tries
  BY <1>1, <1>3 DEF Ranging, Compiling
<1>5. Compiling(o, g)
  BY <1>1, <1>2, <1>4 DEF Ranging, Compiling
<1>6. Len(Rules(g, <<g.transport, g.cur>>)) \in Nat
  <2>1. f.transport \in Transport
    BY DEF Ranging, Compiling
  <2>2. <<g.transport, g.cur>> \in Slot
    BY ONLY <1>1, <1>3, <2>1 DEF Slot
  <2>3. Builder(o, g)
    BY <1>2
  <2>4. \A s \in Slot : Len(Rules(g, s)) \in Nat
    BY ONLY <2>3, RulesAreRules
  <2> QED
    BY ONLY <2>2, <2>4
<1>7. TrieOf(g.trie, Rules(g, <<g.transport, g.cur>>), 0, g.transport)
  BY <1>1, TrieStarts
<1>8. 0 \in 0..Len(Rules(g, <<g.transport, g.cur>>))
  BY <1>6
<1> QED
  BY <1>1, <1>3, <1>5, <1>7, <1>8 DEF Inserting

LEMMA RuleInserted ==
  ASSUME NEW o \in OptionList, NEW f, Inserting(o, f), NEW R,
         R = Rules(f, <<f.transport, f.cur>>), f.inserted < Len(R),
         ValidPrefix(Norm(R[f.inserted + 1])), NEW g,
         g = [f EXCEPT !.trie = Put(f.trie, Norm(R[f.inserted + 1]),
                                    Convert(f.transport, R[f.inserted + 1].val)),
                       !.inserted = f.inserted + 1]
  PROVE  Inserting(o, g)
<1> DEFINE m == f.inserted
           trie == Put(f.trie, Norm(R[m + 1]), Convert(f.transport, R[m + 1].val))
<1>0. Builder(o, f)
  BY DEF Inserting, Compiling
<1>1. g = [f EXCEPT !.trie = trie, !.inserted = m + 1]
  OBVIOUS
<1>2. m \in 0..(Len(R) - 1) /\ m + 1 \in 0..Len(R) /\ R \in Seq(RuleSet)
  <2>1. R \in Seq(RuleSet) /\ Len(R) \in Nat
    BY RulesAreRules DEF Inserting, Compiling, Slot
  <2> QED
    BY <2>1 DEF Inserting
<1>3. TrieOf(trie, R, m + 1, f.transport)
  BY <1>2, TrieGrows DEF Inserting
<1> HIDE DEF m, trie
<1>4. /\ IsFrame(g) /\ g.transport = f.transport /\ g.left = f.left
      /\ g.applied = f.applied /\ g.default = f.default /\ g.override = f.override
      /\ g.prefixes = f.prefixes /\ g.fallback = f.fallback
      /\ g.cur = f.cur /\ g.inserted = m + 1 /\ g.trie = trie /\ g.tries = f.tries
  BY <1>1 DEF Inserting, Compiling, Builder, IsFrame
<1>5. Builder(o, g) /\ \A s : Rules(g, s) = Rules(f, s)
  <2>1. SameBuilder(f, g)
    BY <1>4 DEF SameBuilder
  <2> QED
    BY ONLY <1>0, <2>1, BuilderKept
<1>6. Compiling(o, g)
  BY <1>4, <1>5 DEF Inserting, Compiling
<1> QED
  BY <1>2, <1>3, <1>4, <1>5, <1>6 DEF Inserting

LEMMA TrieStored ==
  ASSUME NEW o \in OptionList, NEW f, Inserting(o, f),
         f.inserted = Len(Rules(f, <<f.transport, f.cur>>)), NEW g,
         g = [f EXCEPT !.tries = Put(f.tries, <<f.transport, f.cur>>, f.trie),
                       !.cur = "", !.trie = EmptyMap, !.inserted = 0]
  PROVE  Ranging(o, g)
<1> DEFINE s == <<f.transport, f.cur>>
           tries == Put(f.tries, s, f.trie)
<1>0. Builder(o, f)
  BY DEF Inserting, Compiling
<1>1. /\ IsFrame(g) /\ g.transport = f.transport /\ g.left = f.left
      /\ g.applied = f.applied /\ g.default = f.default /\ g.override = f.override
      /\ g.prefixes = f.prefixes /\ g.fallback = f.fallback
      /\ g.cur = "" /\ g.inserted = 0 /\ g.tries = tries
  BY DEF Inserting, Compiling, Builder, IsFrame
<1>2. Builder(o, g) /\ \A x : Rules(g, x) = Rules(f, x)
  <2>1. SameBuilder(f, g)
    BY <1>1 DEF SameBuilder
  <2> QED
    BY ONLY <1>0, <2>1, BuilderKept
<1>3. DOMAIN tries = DOMAIN f.tries \cup {s} /\ tries[s] = f.trie
      /\ \A x \in DOMAIN f.tries \ {s} : tries[x] = f.tries[x]
  BY DEF Put
<1> HIDE DEF tries
<1>4. s \in Slot /\ s[1] = f.transport
  BY DEF Inserting, Compiling, Slot
<1>5. TrieFor(f.trie, o, s)
  <2>1. RulesFrom(Rules(f, s), o, Len(o), s)
    BY <1>4 DEF Inserting, Compiling, Builder
  <2>2. TrieOf(f.trie, Rules(f, s), Len(Rules(f, s)), s[1])
    BY <1>4 DEF Inserting
  <2> QED
    BY <1>4, <2>1, <2>2, TrieComplete
<1>6. DOMAIN tries \subseteq Slot /\ \A x \in DOMAIN tries : TrieFor(tries[x], o, x)
  BY <1>3, <1>4, <1>5 DEF Inserting, Compiling
<1>7. \A c \in Code : Rules(f, <<f.transport, c>>) # <<>> =>
        c \in f.left \/ <<f.transport, c>> \in DOMAIN tries
  BY <1>3 DEF Inserting, Compiling
<1>8. f.transport = "grpc" =>
        \A c \in Code : Rules(f, <<"http", c>>) # <<>> => <<"http", c>> \in DOMAIN tries
  BY <1>3 DEF Inserting, Compiling
<1> QED
  BY <1>1, <1>2, <1>6, <1>7, <1>8 DEF Inserting, Ranging, Compiling

-----------------------------------------------------------------------------
(* Every step keeps the invariant.                                         *)

LEMMA PhaseOf ==
  ASSUME IInv, NEW b \in Build
  PROVE  /\ pc[b] # "idle" => opts[b] \in OptionList
         /\ pc[b] # "returned" => result[b] = NotReturned
         /\ pc[b] = "apply" => Applying(opts[b], frame[b])
         /\ pc[b] = "range" => Ranging(opts[b], frame[b])
         /\ pc[b] = "insert" => Inserting(opts[b], frame[b])
         /\ pc[b] = "returned" => Outcome(opts[b], result[b])
BY DEF IInv, CallInv

LEMMA NoFrameIsBlank == Blank(NoFrame)
<1>1. IsFrame(NewFrame)
  BY DEF NewFrame, IsFrame
<1>2. /\ NewFrame.applied = 0 /\ NewFrame.transport = "http" /\ NewFrame.left = {}
      /\ NewFrame.cur = "" /\ NewFrame.prefixes = EmptyMap /\ NewFrame.inserted = 0
  BY DEF NewFrame
<1> HIDE DEF NewFrame
<1> QED
  BY <1>1, <1>2 DEF NoFrame, Blank, IsFrame

LEMMA CallNewStep ==
  ASSUME IInv, NEW b \in Build, NEW o \in OptionList, CallNew(b, o)
  PROVE  IInv'
<1>1. Applying(o, NewFrame)
  BY NewFrameApplies DEF IInv
<1>2. pc[b] = "idle" /\ result[b] = NotReturned
  BY PhaseOf DEF CallNew
<1>3. CallInv(o, "apply", NewFrame, result[b])
  BY <1>1, <1>2 DEF CallInv
<1>4. /\ opts' = [opts EXCEPT ![b] = o] /\ pc' = [pc EXCEPT ![b] = "apply"]
      /\ frame' = [frame EXCEPT ![b] = NewFrame]
      /\ UNCHANGED tables /\ result' = [result EXCEPT ![b] = result[b]]
  BY DEF CallNew, IInv
<1>5. "apply" \in Phase
  BY DEF Phase
<1> HIDE DEF NewFrame
<1> QED
  BY ONLY IInv, <1>3, <1>4, <1>5, CallStep

\* A step of New that is not its return.
LEMMA LocalStep ==
  ASSUME IInv, NEW b \in Build, opts[b] \in OptionList, NEW k \in Phase, NEW f,
         CallInv(opts[b], k, f, result[b]), UNCHANGED <<tables, opts, result>>,
         pc' = [pc EXCEPT ![b] = k], frame' = [frame EXCEPT ![b] = f]
  PROVE  IInv'
<1>1. opts' = [opts EXCEPT ![b] = opts[b]] /\ result' = [result EXCEPT ![b] = result[b]]
  BY DEF IInv
<1> DEFINE o == opts[b]
           res == result[b]
<1>2. /\ o \in OptionList /\ CallInv(o, k, f, res) /\ UNCHANGED tables
      /\ opts' = [opts EXCEPT ![b] = o] /\ result' = [result EXCEPT ![b] = res]
      /\ pc' = [pc EXCEPT ![b] = k] /\ frame' = [frame EXCEPT ![b] = f]
  BY <1>1
<1> HIDE DEF o, res
<1> QED
  BY ONLY IInv, <1>2, CallStep

LEMMA ApplyOptionStep ==
  ASSUME IInv, NEW b \in Build, ApplyOption(b)
  PROVE  IInv'
<1> DEFINE f == frame[b]
           o == opts[b]
           g == [Applied(f, o[f.applied + 1]) EXCEPT !.applied = f.applied + 1]
<1>1. o \in OptionList /\ result[b] = NotReturned /\ Applying(o, f)
  BY PhaseOf DEF ApplyOption
<1>2. f.applied < Len(o)
  <2>1. f.applied \in 0..Len(o) /\ f.applied + 1 <= Len(o)
    BY <1>1 DEF ApplyOption, Applying, Builder
  <2>2. Len(o) \in Nat
    BY <1>1, OptionTypes
  <2> QED
    BY ONLY <2>1, <2>2
<1>3. Applying(o, g)
  BY <1>1, <1>2, OptionApplies
<1>4. /\ pc' = [pc EXCEPT ![b] = "apply"] /\ frame' = [frame EXCEPT ![b] = g]
      /\ UNCHANGED <<tables, opts, result>>
  BY Unassigned DEF ApplyOption
<1>5. CallInv(o, "apply", g, result[b])
  BY <1>1, <1>3 DEF CallInv
<1> HIDE DEF g
<1> QED
  BY <1>1, <1>4, <1>5, LocalStep DEF Phase

LEMMA BuildHTTPTriesStep ==
  ASSUME IInv, NEW b \in Build, BuildHTTPTries(b)
  PROVE  IInv'
<1> DEFINE f == frame[b]
           o == opts[b]
           g == [f EXCEPT !.transport = "http", !.left = CodesWithRules(f, "http")]
<1>1. o \in OptionList /\ result[b] = NotReturned /\ Applying(o, f) /\ f.applied = Len(o)
  BY PhaseOf DEF BuildHTTPTries
<1>2. Ranging(o, g)
  BY <1>1, HTTPTriesBegin
<1>3. /\ pc' = [pc EXCEPT ![b] = "range"] /\ frame' = [frame EXCEPT ![b] = g]
      /\ UNCHANGED <<tables, opts, result>>
  BY DEF BuildHTTPTries, StartRange
<1>4. CallInv(o, "range", g, result[b])
  BY <1>1, <1>2 DEF CallInv
<1> HIDE DEF g
<1> QED
  BY <1>1, <1>3, <1>4, LocalStep DEF Phase

LEMMA BuildGRPCTriesStep ==
  ASSUME IInv, NEW b \in Build, BuildGRPCTries(b)
  PROVE  IInv'
<1> DEFINE f == frame[b]
           o == opts[b]
           g == [f EXCEPT !.transport = "grpc", !.left = CodesWithRules(f, "grpc")]
<1>1. /\ o \in OptionList /\ result[b] = NotReturned /\ Ranging(o, f)
      /\ f.transport = "http" /\ f.left = {}
  BY PhaseOf DEF BuildGRPCTries
<1>2. Ranging(o, g)
  BY <1>1, GRPCTriesBegin
<1>3. /\ pc' = [pc EXCEPT ![b] = "range"] /\ frame' = [frame EXCEPT ![b] = g]
      /\ UNCHANGED <<tables, opts, result>>
  BY DEF BuildGRPCTries, StartRange
<1>4. CallInv(o, "range", g, result[b])
  BY <1>1, <1>2 DEF CallInv
<1> HIDE DEF g
<1> QED
  BY <1>1, <1>3, <1>4, LocalStep DEF Phase

LEMMA VisitCodeStep ==
  ASSUME IInv, NEW b \in Build, NEW c \in Code, VisitCode(b, c)
  PROVE  IInv'
<1> DEFINE f == frame[b]
           o == opts[b]
           g == [f EXCEPT !.left = f.left \ {c}, !.cur = c, !.trie = EmptyMap, !.inserted = 0]
<1>1. o \in OptionList /\ result[b] = NotReturned /\ Ranging(o, f) /\ c \in f.left
  BY PhaseOf DEF VisitCode
<1>2. Inserting(o, g)
  BY <1>1, CodeVisited
<1>3. /\ pc' = [pc EXCEPT ![b] = "insert"] /\ frame' = [frame EXCEPT ![b] = g]
      /\ UNCHANGED <<tables, opts, result>>
  BY DEF VisitCode
<1>4. CallInv(o, "insert", g, result[b])
  BY <1>1, <1>2 DEF CallInv
<1> HIDE DEF g
<1> QED
  BY <1>1, <1>3, <1>4, LocalStep DEF Phase

LEMMA StoreTrieStep ==
  ASSUME IInv, NEW b \in Build, StoreTrie(b)
  PROVE  IInv'
<1> DEFINE f == frame[b]
           o == opts[b]
           g == [f EXCEPT !.tries = Put(f.tries, <<f.transport, f.cur>>, f.trie),
                          !.cur = "", !.trie = EmptyMap, !.inserted = 0]
<1>1. /\ o \in OptionList /\ result[b] = NotReturned /\ Inserting(o, f)
      /\ f.inserted = Len(Rules(f, <<f.transport, f.cur>>))
  BY PhaseOf DEF StoreTrie, CurrentRules
<1>2. Ranging(o, g)
  BY <1>1, TrieStored
<1>3. /\ pc' = [pc EXCEPT ![b] = "range"] /\ frame' = [frame EXCEPT ![b] = g]
      /\ UNCHANGED <<tables, opts, result>>
  BY DEF StoreTrie
<1>4. CallInv(o, "range", g, result[b])
  BY <1>1, <1>2 DEF CallInv
<1> HIDE DEF g
<1> QED
  BY <1>1, <1>3, <1>4, LocalStep DEF Phase

\* A return of New.
LEMMA ReturnStep ==
  ASSUME IInv, NEW b \in Build, opts[b] \in OptionList, NEW err, NEW m, Return(b, err, m),
         Outcome(opts[b], [err |-> err, mapper |-> m])
  PROVE  IInv'
<1> DEFINE res == [err |-> err, mapper |-> m]
<1>1. CallInv(opts[b], "returned", NoFrame, res)
  BY NoFrameIsBlank DEF CallInv
<1>2. /\ opts' = [opts EXCEPT ![b] = opts[b]] /\ pc' = [pc EXCEPT ![b] = "returned"]
      /\ frame' = [frame EXCEPT ![b] = NoFrame] /\ result' = [result EXCEPT ![b] = res]
      /\ UNCHANGED tables
  BY Unassigned DEF Return
<1> HIDE DEF res
<1> QED
  BY <1>1, <1>2, CallStep DEF Phase

\* The rule at hand is the one an option gave; its prefix decides whether New
\* goes on.
LEMMA RuleAtHand ==
  ASSUME NEW o \in OptionList, NEW f, Inserting(o, f), NEW R,
         R = Rules(f, <<f.transport, f.cur>>), f.inserted < Len(R)
  PROVE  \E i \in DOMAIN o :
           o[i].kind = "prefix" /\ Prefix(o, i) = Norm(R[f.inserted + 1])
           /\ Prefix(o, i) \in Seq(Segment \cup {Star, Malformed})
<1> DEFINE s == <<f.transport, f.cur>>
           k == f.inserted + 1
<1>1. s \in Slot
  BY DEF Inserting, Compiling, Slot
<1>2. R \in Seq(RuleSet) /\ Len(R) \in Nat
  BY <1>1, RulesAreRules DEF Inserting, Compiling
<1>3. k \in 1..Len(R)
  BY <1>2 DEF Inserting
<1>4. PICK i \in Given(o, Len(o), "prefix", s) : R[k] = RuleOf(o, i)
  BY <1>1, <1>3 DEF Inserting, Compiling, Builder, RulesFrom
<1>5. i \in DOMAIN o /\ o[i].kind = "prefix"
  BY <1>4 DEF Given, Chosen
<1>6. Norm(RuleOf(o, i)) = Prefix(o, i)
  BY <1>5, OptionTypes
<1>7. Prefix(o, i) \in Seq(Segment \cup {Star, Malformed})
  BY <1>5, PrefixText
<1> QED
  BY <1>4, <1>5, <1>6, <1>7

LEMMA InsertRuleStep ==
  ASSUME IInv, NEW b \in Build, InsertRule(b)
  PROVE  IInv'
<1> DEFINE f == frame[b]
           o == opts[b]
           R == Rules(f, <<f.transport, f.cur>>)
           rule == R[f.inserted + 1]
           g == [f EXCEPT !.trie = Put(f.trie, Norm(rule), Convert(f.transport, rule.val)),
                          !.inserted = f.inserted + 1]
<1>1. /\ o \in OptionList /\ result[b] = NotReturned /\ Inserting(o, f)
      /\ f.inserted < Len(R)
  <2>1. o \in OptionList /\ result[b] = NotReturned /\ Inserting(o, f)
    BY PhaseOf DEF InsertRule
  <2> QED
    BY <2>1 DEF InsertRule, CurrentRules
<1>2. CASE ValidPrefix(Norm(rule))
  <2>1. Inserting(o, g)
    BY <1>1, <1>2, RuleInserted
  <2>2. /\ pc' = [pc EXCEPT ![b] = "insert"] /\ frame' = [frame EXCEPT ![b] = g]
        /\ UNCHANGED <<tables, opts, result>>
    BY <1>2, Unassigned DEF InsertRule, AcceptsPrefix, CurrentRules, Norm
  <2>3. CallInv(o, "insert", g, result[b])
    BY <1>1, <2>1 DEF CallInv
  <2> HIDE DEF g
  <2> QED
    BY <1>1, <2>2, <2>3, LocalStep DEF Phase
<1>3. CASE ~ValidPrefix(Norm(rule))
  <2>1. Return(b, "invalid prefix", NoMapper)
    BY <1>3 DEF InsertRule, AcceptsPrefix, CurrentRules, Norm
  <2>2. ~Buildable(o)
    BY <1>1, <1>3, RuleAtHand DEF Buildable
  <2>3. Outcome(o, [err |-> "invalid prefix", mapper |-> NoMapper])
    BY <2>2 DEF Outcome
  <2> QED
    BY <1>1, <2>1, <2>3, ReturnStep
<1> QED
  BY <1>2, <1>3

\* When every trie is stored, what is frozen is what the options determine.
LEMMA FrozenMapper ==
  ASSUME NEW o \in OptionList, NEW f, Ranging(o, f), f.transport = "grpc", f.left = {},
         NEW m, m = [override |-> Frozen(f.override), trie |-> f.tries,
                     default |-> Frozen(f.default), fallback |-> f.fallback]
  PROVE  MapperOf(o, m)
<1>1. /\ LastGiven(f.override, o, Len(o), "override", EmptyMap)
      /\ LastGiven(f.default, o, Len(o), "default", Library)
      /\ f.fallback = Fallback
      /\ \A s \in Slot : RulesFrom(Rules(f, s), o, Len(o), s)
  BY DEF Ranging, Compiling, Builder
<1>2. /\ m.override = Frozen(f.override) /\ m.default = Frozen(f.default)
      /\ m.trie = f.tries /\ m.fallback = f.fallback
  OBVIOUS
<1>3. /\ DOMAIN f.tries \subseteq Slot
      /\ \A s \in DOMAIN f.tries : TrieFor(f.tries[s], o, s)
  BY DEF Ranging, Compiling
<1>4. "" \notin Code
  BY OptionAssumption, Zenon
<1>5. \A s \in Slot : Rules(f, s) # <<>> => s \in DOMAIN f.tries
  <2>1. \A c \in Code : Rules(f, <<"grpc", c>>) # <<>> => <<"grpc", c>> \in DOMAIN f.tries
    BY <1>4 DEF Ranging, Compiling
  <2>2. \A c \in Code : Rules(f, <<"http", c>>) # <<>> => <<"http", c>> \in DOMAIN f.tries
    BY DEF Ranging, Compiling
  <2> QED
    BY <2>1, <2>2 DEF Slot, Transport
<1>6. \A s \in Slot : Chosen(o, "prefix", s[1], s[2]) # {} => s \in DOMAIN f.tries
  <2> TAKE s \in Slot
  <2> HAVE Chosen(o, "prefix", s[1], s[2]) # {}
  <2>1. Given(o, Len(o), "prefix", s) # {}
    BY GivenEnds
  <2>2. \E k \in 1..Len(Rules(f, s)) : TRUE
    BY <1>1, <2>1 DEF RulesFrom
  <2>3. Rules(f, s) # <<>>
    BY <2>2
  <2> QED
    BY <1>5, <2>3
<1>7. Buildable(o)
  <2> SUFFICES ASSUME NEW i \in DOMAIN o, o[i].kind = "prefix"
               PROVE  ValidPrefix(Prefix(o, i))
    BY DEF Buildable
  <2> DEFINE s == SlotOf(o, i)
  <2>1. s \in Slot /\ s[1] = o[i].transport /\ s[2] = o[i].code
    BY OptionTypes DEF SlotOf
  <2>2. i \in Chosen(o, "prefix", s[1], s[2])
    BY <2>1 DEF Chosen
  <2> HIDE DEF s
  <2>3. TrieFor(f.tries[s], o, s)
    BY <1>3, <1>6, <2>1, <2>2
  <2> QED
    BY <2>2, <2>3 DEF TrieFor
<1> QED
  BY <1>1, <1>2, <1>3, <1>6, <1>7 DEF MapperOf

LEMMA FreezeStep ==
  ASSUME IInv, NEW b \in Build, Freeze(b)
  PROVE  IInv'
<1> DEFINE f == frame[b]
           o == opts[b]
           m == [override |-> Frozen(f.override), trie |-> f.tries,
                 default |-> Frozen(f.default), fallback |-> f.fallback]
<1>1. o \in OptionList /\ Ranging(o, f) /\ f.transport = "grpc" /\ f.left = {}
  BY PhaseOf DEF Freeze
<1>2. MapperOf(o, m)
  BY <1>1, FrozenMapper
<1>3. Return(b, "nil", m)
  BY DEF Freeze
<1> HIDE DEF m
<1>4. Outcome(o, [err |-> "nil", mapper |-> m])
  BY <1>2 DEF Outcome
<1> QED
  BY <1>1, <1>3, <1>4, ReturnStep

LEMMA IInvInitially == Init => IInv
<1> SUFFICES ASSUME Init PROVE IInv
  OBVIOUS
<1>1. \A b \in Build : CallInv(<<>>, "idle", NoFrame, NotReturned)
  BY NoFrameIsBlank DEF CallInv
<1> QED
  BY <1>1 DEF Init, IInv, Phase

LEMMA IInvNext == IInv /\ [Next]_vars => IInv'
<1> SUFFICES ASSUME IInv, [Next]_vars PROVE IInv'
  OBVIOUS
<1>1. CASE UNCHANGED vars
  BY <1>1 DEF vars, IInv
<1>2. ASSUME NEW b \in Build, NEW o \in OptionList, CallNew(b, o) PROVE IInv'
  BY <1>2, CallNewStep
<1>3. ASSUME NEW b \in Build, NEW c \in Code, VisitCode(b, c) PROVE IInv'
  BY <1>3, VisitCodeStep
<1>4. ASSUME NEW b \in Build,
             \/ ApplyOption(b) \/ BuildHTTPTries(b) \/ InsertRule(b)
             \/ StoreTrie(b) \/ BuildGRPCTries(b) \/ Freeze(b)
      PROVE  IInv'
  BY <1>4, ApplyOptionStep, BuildHTTPTriesStep, InsertRuleStep, StoreTrieStep,
     BuildGRPCTriesStep, FreezeStep
<1> QED
  BY <1>1, <1>2, <1>3, <1>4 DEF Next

LEMMA Invariant == Spec => []IInv
BY IInvInitially, IInvNext, PTL DEF Spec
-----------------------------------------------------------------------------
(* The theorems.                                                           *)

LEMMA BlankTypes ==
  ASSUME NEW o, Len(o) \in Nat, NEW f, Blank(f)
  PROVE  /\ f.applied \in 0..Len(o)
         /\ f.transport \in Transport
         /\ f.left \subseteq Code
         /\ f.cur \in Code \cup {""}
         /\ f.inserted \in 0..Len(Rules(f, <<f.transport, f.cur>>))
<1>1. \A s : Rules(f, s) = <<>>
  BY DEF Blank, Rules, EmptyMap
<1>2. Len(Rules(f, <<f.transport, f.cur>>)) = 0
  BY <1>1
<1>3. 0 \in 0..0 /\ 0 \in 0..Len(o)
  OBVIOUS
<1> QED
  BY <1>2, <1>3 DEF Blank, Transport

LEMMA NoMapperFits == MapperOK(NoMapper)
<1> DEFINE m == NoMapper
<1>1. m.override = EmptyMap /\ m.trie = EmptyMap /\ m.default = EmptyMap
  BY DEF NoMapper
<1> HIDE DEF m
<1>2. DOMAIN m.override = {} /\ DOMAIN m.trie = {} /\ DOMAIN m.default = {}
  BY <1>1 DEF EmptyMap
<1>3. \A c, r : StatusOf(m, "grpc", c, r) = 13
  BY <1>2 DEF StatusOf, Covering, HardFallback
<1>4. 13 \in 0..(CodeModulus - 1)
  BY ModulusIsLarge
<1> QED
  BY <1>2, <1>3, <1>4 DEF MapperOK, m

LEMMA NotReturnedTypes == NotReturned.err = "none" /\ MapperOK(NotReturned.mapper)
BY NoMapperFits DEF NotReturned

\* What a trie holds comes from the options.
LEMMA TrieValues ==
  ASSUME NEW o \in OptionList, NEW s \in Slot, NEW g, TrieFor(g, o, s), NEW p \in DOMAIN g
  PROVE  ValidPrefix(p) /\ g[p] \in Int
<1> DEFINE given == Chosen(o, "prefix", s[1], s[2])
           same == {i \in given : Prefix(o, i) = p}
<1>1. given \in SUBSET (1..Len(o)) /\ Len(o) \in Nat /\ DOMAIN o = 1..Len(o)
  BY ChosenIndices, OptionTypes
<1>2. same # {} /\ same \in SUBSET (1..Len(o))
  BY <1>1 DEF TrieFor
<1>3. PICK i \in same : \A j \in same : j <= i
  <2> HIDE DEF same
  <2> QED
    BY <1>1, <1>2, LeastAndGreatest
<1>4. i \in given /\ Prefix(o, i) = p /\ \A j \in given : Prefix(o, j) = Prefix(o, i) => j <= i
  BY <1>3
<1> HIDE DEF same
<1>5. ValidPrefix(p) /\ g[p] = Convert(s[1], o[i].val)
  BY <1>4 DEF TrieFor
<1>6. o[i].val \in Int /\ CodeModulus \in Nat /\ CodeModulus > 16
  <2>1. i \in 1..Len(o)
    BY <1>1, <1>4
  <2>2. o[i] \in OptionRecord
    BY <2>1, OptionTypes
  <2> QED
    BY <2>2, ModulusIsLarge DEF OptionRecord
<1>7. Convert(s[1], o[i].val) \in Int
  BY <1>6 DEF Convert
<1> QED
  BY <1>5, <1>7

LEMMA OutcomeFits ==
  ASSUME NEW o \in OptionList, NEW res, Outcome(o, res)
  PROVE  MapperOK(res.mapper)
<1> DEFINE m == res.mapper
<1>1. CASE m = NoMapper
  BY <1>1, NoMapperFits
<1>2. CASE MapperOf(o, m)
  <2> HIDE DEF m
  <2>1. DOMAIN m.override \cup DOMAIN m.default \cup DOMAIN m.trie \subseteq Slot
    BY <1>2 DEF MapperOf, LastGiven, Frozen
  <2>2. ASSUME NEW s \in DOMAIN m.trie, NEW p \in DOMAIN m.trie[s]
        PROVE  ValidPrefix(p) /\ m.trie[s][p] \in Int
    <3> DEFINE g == m.trie[s]
    <3>1. TrieFor(g, o, s) /\ s \in Slot
      BY <1>2 DEF MapperOf
    <3>2. p \in DOMAIN g
      OBVIOUS
    <3> HIDE DEF g
    <3>3. ValidPrefix(p) /\ g[p] \in Int
      BY <3>1, <3>2, TrieValues
    <3> QED
      BY <3>3 DEF g
  <2>3. ASSUME NEW q \in Query, q[1] = "grpc"
        PROVE  StatusOf(m, q[1], q[2], q[3]) \in 0..(CodeModulus - 1)
    <3>1. q[1] \in Transport /\ q[2] \in Code /\ q[3] \in Reason
      BY DEF Query
    <3>2. StatusOf(m, q[1], q[2], q[3]) = Status(o, q[1], q[2], q[3])
      BY <1>2, <3>1, MapperAnswers
    <3> QED
      BY <2>3, <3>1, <3>2, StatusInRange
  <2> QED
    BY <2>1, <2>2, <2>3 DEF MapperOK, m
<1> QED
  BY <1>1, <1>2 DEF Outcome

\* The types of the frame and the result of a call.
LEMMA CallTypes ==
  ASSUME NEW o, NEW k, NEW f, NEW res, CallInv(o, k, f, res)
  PROVE  /\ f.applied \in 0..Len(o)
         /\ f.transport \in Transport
         /\ f.left \subseteq Code
         /\ f.cur \in Code \cup {""}
         /\ f.inserted \in 0..Len(Rules(f, <<f.transport, f.cur>>))
         /\ res.err \in {"none", "nil", "invalid prefix"}
         /\ MapperOK(res.mapper)
<1>1. CASE k = "idle"
  <2>1. o = <<>> /\ Blank(f) /\ res = NotReturned
    BY <1>1 DEF CallInv
  <2>2. Len(o) \in Nat
    BY <2>1
  <2> QED
    BY <2>1, <2>2, BlankTypes, NotReturnedTypes
<1>2. CASE k # "idle"
  <2>1. o \in OptionList /\ Len(o) \in Nat
    BY <1>2, OptionTypes DEF CallInv
  <2>2. CASE k = "returned"
    <3>1. Blank(f) /\ Outcome(o, res)
      BY <2>2 DEF CallInv
    <3> QED
      BY <2>1, <3>1, BlankTypes, OutcomeFits DEF Outcome
  <2>3. CASE k # "returned"
    <3>1. res = NotReturned /\ (Applying(o, f) \/ Ranging(o, f) \/ Inserting(o, f))
      BY <1>2, <2>3 DEF CallInv
    <3>2. Builder(o, f)
      BY <3>1 DEF Ranging, Inserting, Applying, Compiling
    <3>3. ASSUME f.cur = "", f.inserted = 0
          PROVE  f.inserted \in 0..Len(Rules(f, <<f.transport, f.cur>>))
      <4>1. Rules(f, <<f.transport, f.cur>>) = <<>>
        BY <3>2, <3>3, RulesAreRules
      <4>2. Len(Rules(f, <<f.transport, f.cur>>)) = 0
        BY <4>1
      <4>3. 0 \in 0..0
        OBVIOUS
      <4> QED
        BY ONLY <3>3, <4>2, <4>3
    <3>4. f.inserted \in 0..Len(Rules(f, <<f.transport, f.cur>>)) /\ f.cur \in Code \cup {""}
      BY <3>1, <3>3 DEF Applying, Ranging, Inserting
    <3>5. f.transport \in Transport /\ f.left \subseteq Code
      BY <3>1 DEF Applying, Ranging, Inserting, Compiling, Transport
    <3>6. f.applied \in 0..Len(o)
      BY <3>2 DEF Builder
    <3> QED
      BY <3>1, <3>4, <3>5, <3>6, NotReturnedTypes
  <2> QED
    BY <2>2, <2>3
<1> QED
  BY <1>1, <1>2

\* Types, with every gRPC status a finished mapper answers in the range of
\* codes.Code (mapper.go:53-66).
THEOREM Types == Spec => []TypeOK
<1>1. IInv => TypeOK
  <2> SUFFICES ASSUME IInv PROVE TypeOK
    OBVIOUS
  <2>1. ASSUME NEW b \in Build
        PROVE  /\ frame[b].applied \in 0..Len(opts[b])
               /\ frame[b].transport \in Transport
               /\ frame[b].left \subseteq Code
               /\ frame[b].cur \in Code \cup {""}
               /\ frame[b].inserted \in 0..Len(CurrentRules(b))
               /\ result[b].err \in {"none", "nil", "invalid prefix"}
               /\ MapperOK(result[b].mapper)
    <3>1. CallInv(opts[b], pc[b], frame[b], result[b])
      BY DEF IInv
    <3> QED
      BY <3>1, CallTypes DEF CurrentRules
  <2>2. /\ DOMAIN tables \subseteq Slot
        /\ opts \in [Build -> OptionList \cup {<<>>}]
        /\ pc \in [Build -> {"idle", "apply", "range", "insert", "returned"}]
    BY DEF IInv, Library, Phase
  <2> QED
    BY <2>1, <2>2 DEF TypeOK
<1> QED
  BY <1>1, Invariant, PTL

\* A call that returned a mapper returned the one its options determine.
LEMMA ReturnedMapper ==
  ASSUME IInv, NEW b \in Build, Returned(b)
  PROVE  opts[b] \in OptionList /\ MapperOf(opts[b], result[b].mapper)
<1>1. pc[b] = "returned"
  BY PhaseOf DEF Returned, NotReturned
<1> QED
  BY <1>1, PhaseOf DEF Returned, Outcome

LEMMA ExplanationHolds ==
  ASSUME NEW o \in OptionList, NEW m, MapperOf(o, m),
         NEW t \in Transport, NEW c \in Code, NEW r
  PROVE  LET e == ExplainOf(m, t, c, r) IN
         /\ e.val = StatusOf(m, t, c, r)
         /\ e.source = "prefix" =>
              \E i \in DOMAIN o :
                /\ o[i].kind = "prefix"
                /\ <<o[i].transport, o[i].code>> = <<t, c>>
                /\ Normalize(o[i].prefix) = e.pattern
                /\ Matches(e.pattern, r)
<1> DEFINE s == <<t, c>>
           e == ExplainOf(m, t, c, r)
           p == Deciding(m, s, r)
<1>1. s \in Slot /\ s[1] = t /\ s[2] = c
  BY DEF Slot
<1>2. CASE s \in DOMAIN m.override
  <2>1. e.val = m.override[s] /\ e.source = "override"
    BY <1>2 DEF ExplainOf
  <2> QED
    BY <1>2, <2>1 DEF StatusOf
<1>3. CASE s \notin DOMAIN m.override /\ Covering(m, s, r) # {}
  <2>1. e.val = m.trie[s][p] /\ e.pattern = p
    BY <1>3 DEF ExplainOf
  <2>2. e.val = StatusOf(m, t, c, r)
    BY <1>3, <2>1 DEF StatusOf
  <2>3. p \in Covering(m, s, r)
    BY <1>3 DEF Deciding
  <2>4. s \in DOMAIN m.trie /\ p \in DOMAIN m.trie[s] /\ Matches(p, r)
    BY <2>3 DEF Covering, IsBest
  <2>5. PICK i \in Chosen(o, "prefix", t, c) : p = Prefix(o, i)
    BY <1>1, <2>4 DEF MapperOf, TrieFor
  <2>6. i \in DOMAIN o /\ o[i].kind = "prefix" /\ <<o[i].transport, o[i].code>> = <<t, c>>
    BY DEF Chosen
  <2>7. Normalize(o[i].prefix) = e.pattern /\ Matches(e.pattern, r)
    BY <2>1, <2>4, <2>5 DEF Prefix
  <2> QED
    BY <2>2, <2>6, <2>7
<1>4. CASE s \notin DOMAIN m.override /\ Covering(m, s, r) = {} /\ s \in DOMAIN m.default
  <2>1. e.val = m.default[s] /\ e.source = "default"
    BY <1>4 DEF ExplainOf
  <2> QED
    BY <1>4, <2>1 DEF StatusOf
<1>5. CASE s \notin DOMAIN m.override /\ Covering(m, s, r) = {} /\ s \notin DOMAIN m.default
  <2>1. e.val = m.fallback[t] /\ e.source = "fallback"
    BY <1>5 DEF ExplainOf
  <2>2. m.fallback[t] = HardFallback(t)
    BY DEF MapperOf, Fallback, HardFallback, Transport
  <2> QED
    BY <1>5, <2>1, <2>2 DEF StatusOf
<1> QED
  BY <1>2, <1>3, <1>4, <1>5

\* Explain names the status the mapper answers with, and the pattern it shows
\* is a rule the caller gave that covers the reason (mapper.go:170-220,
\* 247-317).
THEOREM ExplainIsStatus == Spec => []ExplainAgrees
<1>1. IInv => ExplainAgrees
  <2> SUFFICES ASSUME IInv, NEW b \in Build, Returned(b), NEW q \in Query
               PROVE  LET e == ExplainOf(result[b].mapper, q[1], q[2], q[3]) IN
                      /\ e.val = StatusOf(result[b].mapper, q[1], q[2], q[3])
                      /\ e.source = "prefix" =>
                           \E i \in DOMAIN opts[b] :
                             /\ opts[b][i].kind = "prefix"
                             /\ <<opts[b][i].transport, opts[b][i].code>> = <<q[1], q[2]>>
                             /\ Normalize(opts[b][i].prefix) = e.pattern
                             /\ Matches(e.pattern, q[3])
    BY DEF ExplainAgrees
  <2>1. opts[b] \in OptionList /\ MapperOf(opts[b], result[b].mapper)
    BY ReturnedMapper
  <2>2. q[1] \in Transport /\ q[2] \in Code
    BY DEF Query
  <2> QED
    BY <2>1, <2>2, ExplanationHolds
<1> QED
  BY <1>1, Invariant, PTL
-----------------------------------------------------------------------------
(* Mapper implements MapperContract.                                       *)

\* The vocabulary of the contract is the mapper's.
LEMMA SamePolicy ==
  /\ \A o, t, c, r : Contract!Status(o, t, c, r) = Status(o, t, c, r)
  /\ \A o : Contract!Buildable(o) <=> Buildable(o)
  /\ Contract!Query = Query
<1>1. \A o, kind, t, c : Contract!Chosen(o, kind, t, c) = Chosen(o, kind, t, c)
  BY DEF Contract!Chosen, Chosen
<1>2. \A o, i : Contract!Prefix(o, i) = Prefix(o, i)
  BY DEF Contract!Prefix, Contract!Normalize, Prefix, Normalize
<1>3. \A p, r : Contract!Matches(p, r) = Matches(p, r)
  BY DEF Contract!Matches, Matches
<1>4. \A o, i, j : Contract!Decides(o, i, j) = Decides(o, i, j)
  BY <1>2 DEF Contract!Decides, Decides, Contract!Beats, Beats,
     Contract!SpelledOutFirst, SpelledOutFirst
<1>5. \A p : Contract!ValidPrefix(p) = ValidPrefix(p)
  BY DEF Contract!ValidPrefix, ValidPrefix, Contract!ValidSegment, ValidSegment
<1>6. \A S : Contract!Max(S) = Max(S)
  BY DEF Contract!Max, Max
<1>7. Contract!Query = Query /\ Contract!Fallback = Fallback
  BY DEF Contract!Query, Query, Contract!Transport, Transport, Contract!Fallback, Fallback
<1>8. Contract!Library = Library
  BY DEF Contract!Library, Library, Contract!Slot, Slot, Contract!Transport, Transport,
     Contract!DefaultTable, DefaultTable, Contract!DefaultHTTP, DefaultHTTP, Contract!DefaultGRPC, DefaultGRPC
<1>9. \A t, v : Contract!Convert(t, v) = Convert(t, v)
  BY DEF Contract!Convert, Convert
<1>10. \A o : Contract!Buildable(o) <=> Buildable(o)
  BY <1>2, <1>5 DEF Contract!Buildable, Buildable
<1>11. \A o, t, c, r : Contract!Status(o, t, c, r) = Status(o, t, c, r)
  <2> TAKE o, t, c, r
  <2>1. {i \in Contract!Chosen(o, "prefix", t, c) : Contract!Matches(Contract!Prefix(o, i), r)}
          = {i \in Chosen(o, "prefix", t, c) : Matches(Prefix(o, i), r)}
    BY <1>1, <1>2, <1>3
  <2> DEFINE cover == {i \in Chosen(o, "prefix", t, c) : Matches(Prefix(o, i), r)}
  <2>2. (CHOOSE i \in cover : \A j \in cover \ {i} : Contract!Decides(o, i, j))
          = (CHOOSE i \in cover : \A j \in cover \ {i} : Decides(o, i, j))
    <3> HIDE DEF cover
    <3> QED
      BY <1>4
  <2> QED
    BY <1>1, <1>6, <1>7, <1>8, <1>9, <2>1, <2>2 DEF Contract!Status, Status
<1> QED
  BY <1>7, <1>10, <1>11

Outcomes == [b \in Build |-> OutcomeOf(b)]

LEMMA ContractInit == Init => Contract!Init
<1> SUFFICES ASSUME Init PROVE Contract!Init
  OBVIOUS
<1>1. \A b \in Build : OutcomeOf(b) = [state |-> "none", status |-> <<>>]
  BY DEF Init, OutcomeOf
<1> QED
  BY <1>1 DEF Init, Contract!Init, Contract!NotCalled

\* A step of one call changes no other call's outcome.
LEMMA OneOutcome ==
  ASSUME IInv, NEW b \in Build, NEW k, NEW res, DOMAIN result = Build,
         pc' = [pc EXCEPT ![b] = k],
         result' = [result EXCEPT ![b] = res]
  PROVE  Outcomes' = [Outcomes EXCEPT ![b] = OutcomeOf(b)']
<1>1. \A x \in Build \ {b} : pc'[x] = pc[x] /\ result'[x] = result[x]
  BY DEF IInv
<1>2. \A x \in Build \ {b} : OutcomeOf(x)' = OutcomeOf(x)
  BY <1>1 DEF OutcomeOf, Returned
<1> QED
  BY <1>2 DEF Outcomes
\* A step that keeps the phase of the call away from its ends is invisible.
LEMMA HiddenStep ==
  ASSUME IInv, NEW b \in Build, pc[b] \in {"apply", "range", "insert"},
         NEW k \in {"apply", "range", "insert"}, pc' = [pc EXCEPT ![b] = k],
         UNCHANGED <<opts, result>>
  PROVE  UNCHANGED <<opts, Outcomes>>
<1>1. \A x \in Build : OutcomeOf(x)' = OutcomeOf(x)
  <2> TAKE x \in Build
  <2>1. CASE x = b
    <3>1. pc'[b] = k
      BY DEF IInv
    <3> QED
      BY <2>1, <3>1 DEF OutcomeOf
  <2>2. CASE x # b
    <3>1. pc'[x] = pc[x]
      BY <2>2 DEF IInv
    <3> QED
      BY <3>1 DEF OutcomeOf, Returned
  <2> QED
    BY <2>1, <2>2
<1> QED
  BY <1>1 DEF Outcomes

LEMMA ContractCall ==
  ASSUME IInv, NEW b \in Build, NEW o \in OptionList, CallNew(b, o)
  PROVE  Contract!CallNew(b, o)
<1>1. pc[b] = "idle" /\ pc' = [pc EXCEPT ![b] = "apply"]
      /\ opts' = [opts EXCEPT ![b] = o] /\ UNCHANGED result
  BY DEF CallNew
<1>2. Outcomes[b] = Contract!NotCalled
  BY <1>1 DEF Outcomes, OutcomeOf, Contract!NotCalled
<1>3. result' = [result EXCEPT ![b] = result[b]] /\ DOMAIN result = Build
  BY <1>1 DEF IInv
<1>4. Outcomes' = [Outcomes EXCEPT ![b] = OutcomeOf(b)']
  BY <1>1, <1>3, OneOutcome
<1>5. OutcomeOf(b)' = Contract!Running
  <2>1. pc'[b] = "apply"
    BY <1>1 DEF IInv
  <2> QED
    BY <2>1 DEF OutcomeOf, Contract!Running
<1> QED
  BY <1>1, <1>2, <1>4, <1>5 DEF Contract!CallNew, Outcomes

LEMMA ContractReturn ==
  ASSUME IInv, NEW b \in Build, pc[b] \in {"range", "insert"}, NEW err, NEW m,
         Return(b, err, m), Outcome(opts[b], [err |-> err, mapper |-> m])
  PROVE  Contract!ReturnNew(b)
<1> DEFINE o == opts[b]
           res == [err |-> err, mapper |-> m]
<1>1. o \in OptionList
  BY PhaseOf
<1>2. /\ pc' = [pc EXCEPT ![b] = "returned"] /\ result' = [result EXCEPT ![b] = res]
      /\ UNCHANGED opts
  BY DEF Return
<1>3. DOMAIN result = Build /\ pc'[b] = "returned" /\ result'[b] = res
  BY <1>2 DEF IInv
<1>4. Outcomes[b] = Contract!Running
  BY DEF Outcomes, OutcomeOf, Contract!Running
<1>5. Outcomes' = [Outcomes EXCEPT ![b] = OutcomeOf(b)']
  <2> HIDE DEF res
  <2> QED
    BY <1>2, <1>3, OneOutcome
<1>6. CASE err = "nil" /\ MapperOf(o, m)
  <2>1. OutcomeOf(b)' = [state |-> "mapper",
                         status |-> [q \in Query |-> StatusOf(m, q[1], q[2], q[3])]]
    BY <1>3, <1>6 DEF OutcomeOf, Returned
  <2>2. \A q \in Query : StatusOf(m, q[1], q[2], q[3]) = Status(o, q[1], q[2], q[3])
    <3> TAKE q \in Query
    <3>1. q[1] \in Transport /\ q[2] \in Code
      BY DEF Query
    <3> QED
      BY <1>1, <1>6, <3>1, MapperAnswers
  <2>3. OutcomeOf(b)' =
          [state |-> "mapper",
           status |-> [q \in Contract!Query |-> Contract!Status(o, q[1], q[2], q[3])]]
    BY <2>1, <2>2, SamePolicy
  <2>4. Contract!Buildable(o)
    BY <1>6, SamePolicy DEF MapperOf
  <2> QED
    BY <1>2, <1>4, <1>5, <2>3, <2>4 DEF Contract!ReturnNew, Outcomes
<1>7. CASE err = "invalid prefix" /\ ~Buildable(o)
  <2>1. OutcomeOf(b)' = Contract!Failed
    <3>2. result'[b].err = err
      BY <1>3
    <3>1. result'[b].err # "nil"
      BY ONLY <1>7, <3>2
    <3> QED
      BY <1>3, <3>1 DEF OutcomeOf, Returned, Contract!Failed
  <2>2. ~Contract!Buildable(o)
    BY <1>7, SamePolicy
  <2> QED
    BY <1>2, <1>4, <1>5, <2>1, <2>2 DEF Contract!ReturnNew, Outcomes
<1> QED
  BY <1>6, <1>7 DEF Outcome

LEMMA ContractInsert ==
  ASSUME IInv, NEW b \in Build, InsertRule(b)
  PROVE  UNCHANGED <<opts, Outcomes>> \/ Contract!ReturnNew(b)
<1> DEFINE f == frame[b]
           o == opts[b]
           R == Rules(f, <<f.transport, f.cur>>)
           rule == R[f.inserted + 1]
<1>1. pc[b] = "insert" /\ o \in OptionList /\ Inserting(o, f) /\ f.inserted < Len(R)
  <2>1. pc[b] = "insert" /\ o \in OptionList /\ Inserting(o, f)
    BY PhaseOf DEF InsertRule
  <2> QED
    BY <2>1 DEF InsertRule, CurrentRules
<1>2. CASE ValidPrefix(Norm(rule))
  <2>1. UNCHANGED <<opts, pc, result>>
    BY <1>2 DEF InsertRule, AcceptsPrefix, CurrentRules, Norm
  <2>2. pc' = [pc EXCEPT ![b] = "insert"]
    BY <1>1, <2>1, Unassigned
  <2> QED
    BY <1>1, <2>1, <2>2, HiddenStep
<1>3. CASE ~ValidPrefix(Norm(rule))
  <2>1. Return(b, "invalid prefix", NoMapper)
    BY <1>3 DEF InsertRule, AcceptsPrefix, CurrentRules, Norm
  <2>2. ~Buildable(o)
    BY <1>1, <1>3, RuleAtHand DEF Buildable
  <2>3. Outcome(o, [err |-> "invalid prefix", mapper |-> NoMapper])
    BY <2>2 DEF Outcome
  <2> QED
    BY <1>1, <2>1, <2>3, ContractReturn
<1> QED
  BY <1>2, <1>3

LEMMA ContractFreeze ==
  ASSUME IInv, NEW b \in Build, Freeze(b)
  PROVE  Contract!ReturnNew(b)
<1> DEFINE f == frame[b]
           o == opts[b]
           m == [override |-> Frozen(f.override), trie |-> f.tries,
                 default |-> Frozen(f.default), fallback |-> f.fallback]
<1>1. /\ pc[b] = "range" /\ o \in OptionList /\ Ranging(o, f)
      /\ f.transport = "grpc" /\ f.left = {}
  BY PhaseOf DEF Freeze
<1>2. MapperOf(o, m)
  BY <1>1, FrozenMapper
<1>3. Return(b, "nil", m)
  BY DEF Freeze
<1> HIDE DEF m
<1>4. Outcome(o, [err |-> "nil", mapper |-> m])
  BY <1>2 DEF Outcome
<1> QED
  BY <1>1, <1>3, <1>4, ContractReturn

LEMMA ContractHidden ==
  ASSUME IInv, NEW b \in Build,
         \/ ApplyOption(b) \/ BuildHTTPTries(b) \/ \E c \in Code : VisitCode(b, c)
         \/ StoreTrie(b) \/ BuildGRPCTries(b)
  PROVE  UNCHANGED <<opts, Outcomes>>
<1>1. CASE ApplyOption(b)
  BY <1>1, HiddenStep, Unassigned DEF ApplyOption
<1>2. CASE BuildHTTPTries(b)
  BY <1>2, HiddenStep DEF BuildHTTPTries, StartRange
<1>3. CASE \E c \in Code : VisitCode(b, c)
  BY <1>3, HiddenStep DEF VisitCode
<1>4. CASE StoreTrie(b)
  BY <1>4, HiddenStep DEF StoreTrie
<1>5. CASE BuildGRPCTries(b)
  BY <1>5, HiddenStep DEF BuildGRPCTries, StartRange
<1> QED
  BY <1>1, <1>2, <1>3, <1>4, <1>5

\* The mapper that New returns answers every query as its option list alone
\* determines, or the list has an invalid prefix and New returns an error,
\* whatever the order of the map iterations and the other calls of New
\* (mapper.go:40-146).
THEOREM MapperImplements == Spec => ImplementsContract
<1>1. Init => Contract!Init
  BY ContractInit
<1>2. IInv /\ [Next]_vars => [Contract!Next]_(Contract!vars)
  <2> SUFFICES ASSUME IInv, [Next]_vars
               PROVE  Contract!Next \/ UNCHANGED Contract!vars
    OBVIOUS
  <2>1. Contract!vars = <<opts, Outcomes>> /\ Contract!vars' = <<opts', Outcomes'>>
    BY DEF Contract!vars, Outcomes
  <2>2. CASE UNCHANGED vars
    <3>1. \A x \in Build : OutcomeOf(x)' = OutcomeOf(x)
      BY <2>2 DEF vars, OutcomeOf, Returned
    <3> QED
      BY <2>1, <2>2, <3>1 DEF vars, Outcomes
  <2>3. ASSUME NEW b \in Build, NEW o \in OptionList, CallNew(b, o)
        PROVE  Contract!Next
    BY <2>3, ContractCall DEF Contract!Next
  <2>4. ASSUME NEW b \in Build, InsertRule(b) \/ Freeze(b)
        PROVE  Contract!Next \/ UNCHANGED <<opts, Outcomes>>
    BY <2>4, ContractInsert, ContractFreeze DEF Contract!Next
  <2>5. ASSUME NEW b \in Build,
               \/ ApplyOption(b) \/ BuildHTTPTries(b) \/ \E c \in Code : VisitCode(b, c)
               \/ StoreTrie(b) \/ BuildGRPCTries(b)
        PROVE  UNCHANGED <<opts, Outcomes>>
    BY <2>5, ContractHidden
  <2> QED
    BY <2>1, <2>2, <2>3, <2>4, <2>5 DEF Next
<1> QED
  BY <1>1, <1>2, Invariant, PTL DEF Spec, ImplementsContract, Contract!Spec
=============================================================================
