--------------------------- MODULE SegmentsProofs ---------------------------
(* Facts about prefixes, reasons and their order, for every Segment set. *)
EXTENDS Segments, SequencesExt, SequenceTheorems, TLAPS

\* Paths and rule prefixes, and the reasons callers may pass.
Path == Seq(Segment \cup {Star})
Text == Seq(Segment \cup {Malformed})

\* The parent of a node, and the segment that leads from it to the node.
LEMMA FrontLast ==
  ASSUME NEW p \in Path, p # <<>>
  PROVE  /\ Front(p) \in Path
         /\ Len(Front(p)) = Len(p) - 1
         /\ Len(p) \in Nat \ {0}
         /\ \A i \in 1..(Len(p) - 1) : Front(p)[i] = p[i]
         /\ Last(p) = p[Len(p)]
         /\ Last(p) \in Segment \cup {Star}
<1>1. Len(p) \in Nat \ {0}
  BY DEF Path
<1>2. /\ Front(p) \in Path
      /\ Len(Front(p)) = Len(p) - 1
      /\ \A i \in 1..(Len(p) - 1) : Front(p)[i] = p[i]
  <2> DEFINE n == Len(p) - 1
  <2>1. n \in Nat /\ n + 1 = Len(p)
    BY <1>1
  <2>2. \A i \in 1..n : p[i] \in Segment \cup {Star}
    BY <1>1 DEF Path
  <2> HIDE DEF n
  <2>3. /\ SubSeq(p, 1, n) \in Seq(Segment \cup {Star})
        /\ Len(SubSeq(p, 1, n)) = IF 1 <= n THEN n - 1 + 1 ELSE 0
        /\ \A i \in 1..(n - 1 + 1) : SubSeq(p, 1, n)[i] = p[1 + i - 1]
    BY <2>1, <2>2, SubSeqProperties
  <2>4. Len(SubSeq(p, 1, n)) = n
    BY <2>1, <2>3
  <2>5. \A i \in 1..n : SubSeq(p, 1, n)[i] = p[i]
    BY <2>1, <2>3
  <2> QED
    BY <2>3, <2>4, <2>5 DEF Path, Front, n
<1>3. Last(p) = p[Len(p)] /\ Last(p) \in Segment \cup {Star}
  BY <1>1 DEF Path, Last
<1> QED
  BY <1>1, <1>2, <1>3

\* The child of a node.
LEMMA ChildPath ==
  ASSUME NEW p \in Path, NEW s \in Segment \cup {Star}
  PROVE  /\ Append(p, s) \in Path
         /\ Len(Append(p, s)) = Len(p) + 1
         /\ \A i \in 1..Len(p) : Append(p, s)[i] = p[i]
         /\ Append(p, s)[Len(p) + 1] = s
         /\ Append(p, s) # <<>>
BY DEF Path

\* A path a rule runs through is one of the nodes its insertion creates.
LEMMA BelowPrefix ==
  ASSUME NEW q \in Path, NEW p \in Path, Below(q, p)
  PROVE  p \in Prefixes(q)
<1>1. p = SubSeq(q, 1, Len(p))
  BY DEF Path, Below
<1>2. Len(p) \in 0..Len(q)
  BY DEF Path, Below
<1> QED
  BY <1>1, <1>2 DEF Prefixes

LEMMA PrefixBelow ==
  ASSUME NEW q \in Path, NEW p \in Prefixes(q)
  PROVE  p \in Path /\ Below(q, p)
<1>1. PICK l \in 0..Len(q) : p = SubSeq(q, 1, l)
  BY DEF Prefixes
<1> QED
  BY <1>1 DEF Path, Below

\* Two paths of one length that agree segment by segment are the same.
LEMMA SameLengthBelow ==
  ASSUME NEW q \in Path, NEW p \in Path, Below(q, p), Len(q) = Len(p)
  PROVE  q = p
BY DEF Path, Below

\* dfs stops at a node when the reason ends or goes on malformed.
NextOf(p, r) == r[Len(p) + 1]
HasNextOf(p, r) == Len(p) < Len(r) /\ NextOf(p, r) \in Segment

\* Nothing below a node covers a reason that ends there, but the node itself.
LEMMA NothingBelow ==
  ASSUME NEW p \in Path, NEW q \in Path, NEW r \in Text,
         Matches(q, r), Below(q, p), ~HasNextOf(p, r)
  PROVE  q = p
<1>1. /\ Len(p) \in Nat /\ Len(q) \in Nat /\ Len(r) \in Nat
      /\ Len(p) <= Len(q) /\ Len(q) <= Len(r)
  BY DEF Path, Text, Below, Matches
<1>2. CASE Len(p) < Len(q)
  <2>1. Len(p) + 1 \in 1..Len(q)
    BY <1>1, <1>2
  <2>2. r[Len(p) + 1] \in Segment
    BY <2>1 DEF Matches
  <2> QED
    BY <1>1, <1>2, <2>2 DEF HasNextOf, NextOf
<1>3. CASE Len(p) = Len(q)
  BY <1>3, SameLengthBelow
<1> QED
  BY <1>1, <1>2, <1>3

\* What covers a reason below a node is the node itself or lies below one of
\* the two children dfs tries.
LEMMA SplitBelow ==
  ASSUME NEW p \in Path, NEW q \in Path, NEW r \in Text,
         Matches(q, r), Below(q, p), HasNextOf(p, r)
  PROVE  \/ q = p
         \/ Below(q, Append(p, NextOf(p, r)))
         \/ Below(q, Append(p, Star))
<1>1. /\ Len(p) \in Nat /\ Len(q) \in Nat
      /\ Len(p) <= Len(q)
  BY DEF Path, Below
<1>2. CASE Len(p) < Len(q)
  <2>1. Len(p) + 1 \in 1..Len(q)
    BY <1>1, <1>2
  <2>2. q[Len(p) + 1] \in {Star, NextOf(p, r)}
    BY <2>1 DEF Matches, NextOf
  <2>3. \A s \in Segment \cup {Star} :
          q[Len(p) + 1] = s => Below(q, Append(p, s))
    BY <1>1, <1>2, ChildPath DEF Below
  <2> QED
    BY <2>2, <2>3 DEF HasNextOf
<1>3. CASE Len(p) = Len(q)
  BY <1>3, SameLengthBelow
<1> QED
  BY <1>1, <1>2, <1>3

\* What lies below a child lies below the node, and is longer than it.
LEMMA BelowChild ==
  ASSUME NEW p \in Path, NEW q \in Path, NEW s \in Segment \cup {Star},
         Below(q, Append(p, s))
  PROVE  Below(q, p) /\ Len(q) > Len(p) /\ q[Len(p) + 1] = s
<1>1. Len(p) \in Nat /\ Len(q) \in Nat
  BY DEF Path
<1> QED
  BY <1>1, ChildPath DEF Below

LEMMA BelowSelf ==
  ASSUME NEW p \in Path
  PROVE  Below(p, p)
BY DEF Path, Below

LEMMA NothingBeforeRoot ==
  ASSUME NEW q
  PROVE  ~SpelledOutFirst(<<>>, q)
BY DEF SpelledOutFirst

LEMMA NotBeforeItself ==
  ASSUME NEW p \in Path
  PROVE  ~SpelledOutFirst(p, p)
BY DEF SpelledOutFirst, Path

\* Descending from a node keeps everything that was beside its path ...
LEMMA BesideChild ==
  ASSUME NEW p \in Path, NEW q \in Path, NEW s \in Segment \cup {Star},
         SpelledOutFirst(p, q)
  PROVE  SpelledOutFirst(Append(p, s), q)
<1>1. Len(p) \in Nat
  BY DEF Path
<1> QED
  BY <1>1, ChildPath DEF SpelledOutFirst

\* ... and, into a literal, adds the "*" branch of the node ...
LEMMA BesideLiteral ==
  ASSUME NEW p \in Path, NEW q \in Path, NEW s \in Segment,
         Below(q, Append(p, Star))
  PROVE  SpelledOutFirst(Append(p, s), q)
<1>1. Len(p) \in Nat /\ Len(q) \in Nat /\ s # Star
  BY SegmentAssumption DEF Path
<1>2. Len(q) > Len(p) /\ q[Len(p) + 1] = Star /\ \A i \in 1..Len(p) : q[i] = p[i]
  BY BelowChild DEF Below
<1>3. /\ Len(Append(p, s)) = Len(p) + 1
      /\ Append(p, s)[Len(p) + 1] = s
      /\ \A i \in 1..Len(p) : Append(p, s)[i] = p[i]
  BY ChildPath
<1> QED
  BY <1>1, <1>2, <1>3 DEF SpelledOutFirst

\* ... and nothing else.
LEMMA BesideChildInv ==
  ASSUME NEW p \in Path, NEW q \in Path, NEW s \in Segment \cup {Star},
         SpelledOutFirst(Append(p, s), q)
  PROVE  \/ SpelledOutFirst(p, q)
         \/ s # Star /\ Below(q, Append(p, Star))
<1>1. Len(p) \in Nat /\ Len(q) \in Nat
  BY DEF Path
<1>2. /\ Len(Append(p, s)) = Len(p) + 1
      /\ Append(p, s)[Len(p) + 1] = s
      /\ \A i \in 1..Len(p) : Append(p, s)[i] = p[i]
      /\ Len(Append(p, Star)) = Len(p) + 1
      /\ Append(p, Star)[Len(p) + 1] = Star
      /\ \A i \in 1..Len(p) : Append(p, Star)[i] = p[i]
  BY ChildPath
<1>3. PICK i \in 1..(Len(p) + 1) :
        /\ i <= Len(q)
        /\ Append(p, s)[i] # Star
        /\ q[i] = Star
        /\ \A j \in 1..(i - 1) : Append(p, s)[j] = q[j]
  BY <1>2 DEF SpelledOutFirst
<1>4. CASE i <= Len(p)
  <2>1. i \in 1..Len(p) /\ \A j \in 1..(i - 1) : j \in 1..Len(p)
    BY <1>1, <1>4
  <2> QED
    BY <2>1, <1>2, <1>3 DEF SpelledOutFirst
<1>5. CASE i = Len(p) + 1
  BY <1>1, <1>2, <1>3, <1>5 DEF Below
<1> QED
  BY <1>1, <1>4, <1>5

\* A node is the child of its parent.
LEMMA ParentChild ==
  ASSUME NEW p \in Path, p # <<>>
  PROVE  p = Append(Front(p), Last(p))
<1>1. /\ Front(p) \in Path /\ Len(Front(p)) = Len(p) - 1
      /\ Len(p) \in Nat \ {0}
      /\ \A i \in 1..(Len(p) - 1) : Front(p)[i] = p[i]
      /\ Last(p) = p[Len(p)]
      /\ Last(p) \in Segment \cup {Star}
  BY FrontLast
<1>2. /\ Append(Front(p), Last(p)) \in Path
      /\ Len(Append(Front(p), Last(p))) = Len(p)
      /\ \A i \in 1..(Len(p) - 1) : Append(Front(p), Last(p))[i] = p[i]
      /\ Append(Front(p), Last(p))[Len(p)] = p[Len(p)]
  BY <1>1, ChildPath
<1>3. Below(p, Append(Front(p), Last(p)))
  BY <1>1, <1>2 DEF Below
<1> QED
  BY <1>2, <1>3, SameLengthBelow
=============================================================================
