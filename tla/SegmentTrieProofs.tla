-------------------------- MODULE SegmentTrieProofs --------------------------
(***************************************************************************)
(* Proofs about SegmentTrie for every set of segments, prefixes, values,   *)
(* reasons and callers and every MaxRules:                                 *)
(*   - the trie is well-formed (TypeOK, TrieShape);                        *)
(*   - the search finds the deciding rule (SearchSound, SearchComplete,    *)
(*     SearchOrder);                                                       *)
(*   - the two lookups agree (LookupsAgree);                               *)
(*   - a search ends, in at most four steps per node (SearchMovesOn);      *)
(*   - therefore the trie implements LongestPrefixMatch.                   *)
(***************************************************************************)
EXTENDS SegmentTrie, SegmentsProofs, FiniteSetTheorems

\* An accepted prefix is a path: it has no malformed segment.
LEMMA AcceptedPath ==
  ASSUME NEW p \in Prefix, ValidPrefix(p)
  PROVE  p \in Path /\ p # <<>>
<1>1. p \in Seq(Segment \cup {Star, Malformed})
  BY InputAssumption
<1>2. \A i \in 1..Len(p) : p[i] \in Segment \cup {Star}
  BY DEF ValidPrefix, ValidSegment
<1> QED
  BY <1>1, <1>2 DEF Path, ValidPrefix

LEMMA RulePaths ==
  ASSUME TypeOK
  PROVE  DOMAIN rule \subseteq Path
BY AcceptedPath DEF TypeOK

LEMMA SearchTypes ==
  ASSUME TypeOK, NEW c \in Caller
  PROVE  at[c] \in Path /\ reason[c] \in Text /\ at[c] \in nodes
<1>1. at[c] \in nodes /\ reason[c] \in Reason \cup {<<>>}
  BY DEF TypeOK
<1>2. <<>> \in Text
  BY DEF Text
<1>3. Reason \subseteq Text
  BY InputAssumption DEF Text
<1> QED
  BY <1>1, <1>2, <1>3 DEF TypeOK, Path

\* A node's parent is a node: nodes are the prefixes of rules.
LEMMA ParentIsNode ==
  ASSUME TypeOK, TrieShape, NEW n \in nodes, n # <<>>
  PROVE  Front(n) \in nodes
<1>1. PICK p \in DOMAIN rule : Below(p, n)
  BY DEF TrieShape
<1>2. n \in Path /\ p \in Path
  BY RulePaths DEF TypeOK, Path
<1>3. Below(p, Front(n))
  BY <1>1, <1>2, FrontLast DEF Below
<1>4. Front(n) \in Path
  BY <1>2, FrontLast
<1>5. Front(n) \in Prefixes(p)
  BY <1>2, <1>3, <1>4, BelowPrefix
<1> QED
  BY <1>5 DEF TrieShape

LEMMA InsertTrie ==
  ASSUME TypeOK, TrieShape, NEW p \in Prefix, NEW v \in Value, Insert(p, v)
  PROVE  TypeOK' /\ TrieShape'
<1> USE DEF Insert, Accepts, PathTo
<1>1. p \in Path /\ p # <<>> /\ ValidPrefix(p)
  BY AcceptedPath
<1>2. \A n \in Prefixes(p) : n \in Path /\ Below(p, n)
  BY <1>1, PrefixBelow
<1>3. DOMAIN rule' = DOMAIN rule \cup {p}
  BY DEF Labelled
<1>4. \A q \in DOMAIN rule' : rule'[q] \in [val : Value, pattern : {q}]
  <2>1. SUFFICES ASSUME NEW q \in DOMAIN rule'
                 PROVE  rule'[q] \in [val : Value, pattern : {q}]
    OBVIOUS
  <2>2. CASE q = p
    BY <2>2, <1>3 DEF Labelled, TypeOK
  <2>3. CASE q # p
    BY <2>3, <1>3 DEF Labelled, TypeOK
  <2> QED
    BY <2>2, <2>3
<1>5. nodes' \subseteq Path
  BY <1>2 DEF TypeOK, Path
<1>6. TypeOK'
  <2>1. nodes' \subseteq Seq(Segment \cup {Star})
    BY <1>5 DEF Path
  <2>2. DOMAIN rule' \subseteq {q \in Prefix : ValidPrefix(q)}
    BY <1>1, <1>3 DEF TypeOK
  <2>3. latest' \in [prefix : Prefix \cup {<<>>}, val : Value \cup {Zero},
                     err : {"none", "nil", "ErrInvalidPrefix"}]
    OBVIOUS
  <2>4. at' \in [Caller -> nodes']
    BY DEF TypeOK
  <2>5. best' \in [Caller -> [depth : Nat \cup {-1}, val : Value \cup {Zero},
                              pattern : DOMAIN rule' \cup {<<>>}]]
    BY <1>3 DEF TypeOK
  <2>6. answer' \in [Caller -> [ok : BOOLEAN, val : Value \cup {Zero},
                                pattern : DOMAIN rule' \cup {<<>>}]]
    BY <1>3 DEF TypeOK
  <2> QED
    BY <1>4, <2>1, <2>2, <2>3, <2>4, <2>5, <2>6 DEF TypeOK
<1>7. TrieShape'
  <2>1. <<>> \in nodes'
    BY DEF TrieShape
  <2>2. \A n \in nodes' : n = <<>> \/ \E q \in DOMAIN rule' : Below(q, n)
    BY <1>2, <1>3 DEF TrieShape
  <2>3. \A q \in DOMAIN rule' : Prefixes(q) \subseteq nodes'
    BY <1>3 DEF TrieShape
  <2> QED
    BY <2>1, <2>2, <2>3 DEF TrieShape
<1> QED
  BY <1>6, <1>7

-----------------------------------------------------------------------------
(* The two copies of the search take the same steps; what follows is about *)
(* these.                                                                  *)

Deeper(c) == Len(at[c]) > best[c].depth
ResumeAfter(p) == IF Last(p) = Star THEN "ret" ELSE "wild"
Result(o, b) ==
  IF b.depth < 0 THEN NoMatch
  ELSE [ok |-> TRUE, val |-> b.val,
        pattern |-> IF o = "Match" THEN <<>> ELSE b.pattern]

Enter(c) ==
  /\ stage[c] = "enter"
  /\ best' = IF at[c] \in DOMAIN rule /\ Deeper(c)
             THEN [best EXCEPT ![c] = [depth |-> Len(at[c]),
                                       val |-> rule[at[c]].val,
                                       pattern |-> at[c]]]
             ELSE best
  /\ stage' = [stage EXCEPT ![c] = IF HasNextSegment(c) THEN "exact" ELSE "ret"]
  /\ UNCHANGED <<nodes, rule, latest, published, op, reason, at, answer>>
ExactBranch(c) == stage[c] = "exact" /\ Branch(c, NextSegment(c), "wild")
WildcardBranch(c) == stage[c] = "wild" /\ Branch(c, Star, "ret")
Return(c) == ReturnUp(c, ResumeAfter(at[c]))
Finish(c) == ReturnOut(c, Result(op[c], best[c]))

LEMMA SameSteps ==
  ASSUME TypeOK, NEW c \in Caller
  PROVE  Search(c) <=> \/ Enter(c) \/ ExactBranch(c) \/ WildcardBranch(c)
                       \/ Return(c) \/ Finish(c)
<1>1. op[c] \in {"Match", "MatchWithPattern"}
  BY DEF TypeOK, Op
<1>2. \A n \in DOMAIN rule : rule[n].pattern = n
  BY DEF TypeOK
<1>3. CASE op[c] = "Match"
  <2>1. MatchEnter(c) <=> Enter(c)
    BY DEF MatchEnter, Enter, MatchHasNext, HasNextSegment, MatchDeeper, Deeper
  <2>2. (MatchExact(c) <=> ExactBranch(c)) /\ (MatchWildcard(c) <=> WildcardBranch(c))
    BY DEF MatchExact, ExactBranch, MatchWildcard, WildcardBranch
  <2>3. MatchReturn(c) <=> Return(c)
    BY DEF MatchReturn, Return, MatchResume, ResumeAfter
  <2>4. MatchFinish(c) <=> Finish(c)
    <3>1. MatchResult(best[c]) = Result(op[c], best[c])
      BY <1>3 DEF MatchResult, Result
    <3> QED
      BY <3>1 DEF MatchFinish, Finish
  <2>5. Search(c) <=> MatchSearch(c)
    BY <1>3 DEF Search, PatternSearch
  <2> QED
    BY <1>3, <2>1, <2>2, <2>3, <2>4, <2>5 DEF MatchSearch
<1>4. CASE op[c] = "MatchWithPattern"
  <2>1. PatternEnter(c) <=> Enter(c)
    <3>1. at[c] \in DOMAIN rule => rule[at[c]].pattern = at[c]
      BY <1>2
    <3> QED
      BY <3>1 DEF PatternEnter, Enter, PatternHasNext, HasNextSegment, PatternDeeper, Deeper
  <2>2. (PatternExact(c) <=> ExactBranch(c)) /\ (PatternWildcard(c) <=> WildcardBranch(c))
    BY DEF PatternExact, ExactBranch, PatternWildcard, WildcardBranch
  <2>3. PatternReturn(c) <=> Return(c)
    BY DEF PatternReturn, Return, PatternResume, ResumeAfter
  <2>4. PatternFinish(c) <=> Finish(c)
    <3>1. PatternResult(best[c]) = Result(op[c], best[c])
      BY <1>4 DEF PatternResult, Result
    <3> QED
      BY <3>1 DEF PatternFinish, Finish
  <2>5. Search(c) <=> PatternSearch(c)
    BY <1>4 DEF Search, MatchSearch
  <2> QED
    BY <1>4, <2>1, <2>2, <2>3, <2>4, <2>5 DEF PatternSearch
<1> QED
  BY <1>1, <1>3, <1>4

\* A step of a search keeps the trie as it is ...
LEMMA SearchKeepsTrie ==
  ASSUME NEW c \in Caller, Search(c)
  PROVE  UNCHANGED <<nodes, rule, latest, published, op, reason>>
<1>1. CASE MatchSearch(c)
  BY <1>1 DEF MatchSearch, MatchEnter, MatchExact, MatchWildcard, Branch,
              MatchReturn, ReturnUp, MatchFinish, ReturnOut
<1>2. CASE PatternSearch(c)
  BY <1>2 DEF PatternSearch, PatternEnter, PatternExact, PatternWildcard, Branch,
              PatternReturn, ReturnUp, PatternFinish, ReturnOut
<1> QED
  BY <1>1, <1>2 DEF Search

\* ... and leaves the other callers alone.
LEMMA OthersKept ==
  ASSUME TypeOK, NEW c \in Caller, Search(c), NEW d \in Caller, d # c
  PROVE  /\ stage'[d] = stage[d] /\ at'[d] = at[d]
         /\ best'[d] = best[d] /\ answer'[d] = answer[d]
<1>1. CASE Enter(c)
  BY <1>1 DEF Enter, TypeOK
<1>2. CASE ExactBranch(c) \/ WildcardBranch(c)
  BY <1>2 DEF ExactBranch, WildcardBranch, Branch, TypeOK
<1>3. CASE Return(c)
  BY <1>3 DEF Return, ReturnUp, TypeOK
<1>4. CASE Finish(c)
  BY <1>4 DEF Finish, ReturnOut, TypeOK
<1> QED
  BY <1>1, <1>2, <1>3, <1>4, SameSteps

LEMMA EnterTypes ==
  ASSUME TypeOK, NEW c \in Caller, Enter(c)
  PROVE  TypeOK'
<1> USE DEF Enter
<1>1. stage' \in [Caller -> Stage]
  BY DEF TypeOK, Stage
<1>2. best' \in [Caller -> [depth : Nat \cup {-1}, val : Value \cup {Zero},
                            pattern : DOMAIN rule \cup {<<>>}]]
  <2>1. CASE at[c] \in DOMAIN rule /\ Deeper(c)
    <3>1. Len(at[c]) \in Nat
      BY SearchTypes DEF Path
    <3>2. rule[at[c]].val \in Value
      BY <2>1 DEF TypeOK
    <3> QED
      BY <2>1, <3>1, <3>2 DEF TypeOK
  <2>2. CASE ~(at[c] \in DOMAIN rule /\ Deeper(c))
    BY <2>2 DEF TypeOK
  <2> QED
    BY <2>1, <2>2
<1> QED
  BY <1>1, <1>2 DEF TypeOK

LEMMA MoveTypes ==
  ASSUME TypeOK, TrieShape, NEW c \in Caller,
         ExactBranch(c) \/ WildcardBranch(c) \/ Return(c)
  PROVE  TypeOK'
<1>1. stage' \in [Caller -> Stage]
  <2>1. ASSUME NEW s \in Stage, stage' = [stage EXCEPT ![c] = s]
        PROVE  stage' \in [Caller -> Stage]
    BY <2>1 DEF TypeOK
  <2>2. CASE ExactBranch(c)
    BY <2>1, <2>2 DEF Stage, ExactBranch, Branch
  <2>3. CASE WildcardBranch(c)
    BY <2>1, <2>3 DEF Stage, WildcardBranch, Branch
  <2>4. CASE Return(c)
    BY <2>1, <2>4 DEF Stage, Return, ReturnUp, ResumeAfter
  <2> QED
    BY <2>2, <2>3, <2>4
<1>2. at' \in [Caller -> nodes]
  <2>1. ASSUME NEW s, NEW other, Branch(c, s, other)
        PROVE  at' \in [Caller -> nodes]
    <3>1. at' = at \/ \E n \in nodes : at' = [at EXCEPT ![c] = n]
      BY <2>1 DEF Branch
    <3> QED
      BY <3>1 DEF TypeOK
  <2>2. CASE Return(c)
    <3>1. Front(at[c]) \in nodes /\ at' = [at EXCEPT ![c] = Front(at[c])]
      BY <2>2, ParentIsNode, SearchTypes DEF Return, ReturnUp
    <3> QED
      BY <3>1 DEF TypeOK
  <2> QED
    BY <2>1, <2>2 DEF ExactBranch, WildcardBranch
<1>3. UNCHANGED <<nodes, rule, latest, published, op, reason, best, answer>>
  BY DEF ExactBranch, WildcardBranch, Branch, Return, ReturnUp
<1> QED
  BY <1>1, <1>2, <1>3 DEF TypeOK

LEMMA FinishTypes ==
  ASSUME TypeOK, NEW c \in Caller, Finish(c)
  PROVE  TypeOK'
<1> USE DEF Finish, ReturnOut
<1>1. stage' \in [Caller -> Stage]
  BY DEF TypeOK, Stage
<1>2. best' \in [Caller -> [depth : Nat \cup {-1}, val : Value \cup {Zero},
                            pattern : DOMAIN rule \cup {<<>>}]]
  BY DEF TypeOK, NoBest
<1>3. Result(op[c], best[c]) \in [ok : BOOLEAN, val : Value \cup {Zero},
                                 pattern : DOMAIN rule \cup {<<>>}]
  BY DEF TypeOK, Result, NoMatch
<1>4. answer' \in [Caller -> [ok : BOOLEAN, val : Value \cup {Zero},
                              pattern : DOMAIN rule \cup {<<>>}]]
  BY <1>3 DEF TypeOK
<1> QED
  BY <1>1, <1>2, <1>4 DEF TypeOK

LEMMA CallTypes ==
  ASSUME TypeOK, TrieShape, NEW c \in Caller, NEW o \in Op, NEW r \in Reason,
         Call(c, o, r)
  PROVE  TypeOK'
<1> USE DEF Call, trieVars
<1>1. stage' \in [Caller -> Stage] /\ op' \in [Caller -> Op]
  BY DEF TypeOK, Stage
<1>2. reason' \in [Caller -> Reason \cup {<<>>}] /\ at' \in [Caller -> nodes]
  BY DEF TypeOK, TrieShape
<1>3. best' \in [Caller -> [depth : Nat \cup {-1}, val : Value \cup {Zero},
                            pattern : DOMAIN rule \cup {<<>>}]]
  BY DEF TypeOK, NoBest
<1>4. answer' \in [Caller -> [ok : BOOLEAN, val : Value \cup {Zero},
                              pattern : DOMAIN rule \cup {<<>>}]]
  BY DEF TypeOK, NoMatch
<1> QED
  BY <1>1, <1>2, <1>3, <1>4 DEF TypeOK

LEMMA InitTypes == Init => TypeOK /\ TrieShape
<1> SUFFICES ASSUME Init PROVE TypeOK /\ TrieShape
  OBVIOUS
<1>1. DOMAIN rule = {} /\ nodes = {<<>>}
  BY DEF Init
<1>2. <<>> \in Seq(Segment \cup {Star})
  OBVIOUS
<1>3. TypeOK
  BY <1>1, <1>2 DEF Init, TypeOK, Stage, Op, NoBest, NoMatch, NoInsert
<1>4. TrieShape
  BY <1>1 DEF TrieShape
<1> QED
  BY <1>3, <1>4

\* Type correctness and the shape of the trie are inductive together: a
\* search that returns lands on a node because nodes are prefixes of rules.
LEMMA NextTypes == TypeOK /\ TrieShape /\ [Next]_vars => (TypeOK /\ TrieShape)'
<1> SUFFICES ASSUME TypeOK, TrieShape, [Next]_vars
             PROVE  TypeOK' /\ TrieShape'
  OBVIOUS
<1>1. ASSUME NEW p \in Prefix, NEW v \in Value, Insert(p, v)
      PROVE  TypeOK' /\ TrieShape'
  BY <1>1, InsertTrie
<1>2. ASSUME NEW p \in Prefix, NEW v \in Value, InsertInvalid(p, v)
      PROVE  TypeOK' /\ TrieShape'
  BY <1>2 DEF InsertInvalid, TypeOK, TrieShape
<1>3. CASE Publish
  BY <1>3 DEF Publish, TypeOK, TrieShape, NoInsert
<1>4. ASSUME NEW c \in Caller, NEW o \in Op, NEW r \in Reason, Call(c, o, r)
      PROVE  TypeOK' /\ TrieShape'
  <2>1. TrieShape'
    BY <1>4 DEF Call, trieVars, TrieShape
  <2> QED
    BY <1>4, <2>1, CallTypes
<1>5. ASSUME NEW c \in Caller, Search(c)
      PROVE  TypeOK' /\ TrieShape'
  <2>1. TrieShape'
    BY <1>5, SearchKeepsTrie DEF TrieShape
  <2> QED
    BY <1>5, <2>1, EnterTypes, MoveTypes, FinishTypes, SameSteps
<1>6. CASE UNCHANGED vars
  BY <1>6 DEF vars, TypeOK, TrieShape
<1> QED
  BY <1>1, <1>2, <1>3, <1>4, <1>5, <1>6 DEF Next

\* The trie is well-formed in every reachable state: only accepted prefixes
\* carry values, every node leads to a rule and every rule hangs from the root.
THEOREM WellFormed == Spec => [](TypeOK /\ TrieShape)
BY InitTypes, NextTypes, PTL DEF Spec

\* Type correctness alone, as the runs check it.
COROLLARY TrieTypes == Spec => []TypeOK
BY WellFormed, PTL

-----------------------------------------------------------------------------
(* The search, one caller at a time.                                       *)

\* No search runs before the trie is complete, and SearchSound for c.
SoundFor(c) == Searching(c) =>
  /\ published
  /\ Matches(at[c], reason[c])
  /\ stage[c] \in {"exact", "wild"} => HasNextSegment(c)
  /\ best[c] # NoBest =>
       /\ best[c].pattern \in DOMAIN rule
       /\ Matches(best[c].pattern, reason[c])
       /\ best[c].depth = Len(best[c].pattern)
       /\ best[c].val = rule[best[c].pattern].val

\* The best rule so far is q or wins against it.
Weighed(c, q) ==
  /\ best[c] # NoBest
  /\ best[c].pattern = q \/ Beats(best[c].pattern, q)

CompleteFor(c) == Searching(c) =>
  \A q \in DOMAIN rule : Matches(q, reason[c]) => Pending(c, q) \/ Weighed(c, q)

OrderFor(c) == Searching(c) /\ best[c] # NoBest =>
  \A q \in DOMAIN rule :
    Matches(q, reason[c]) /\ Pending(c, q) /\ Len(q) = best[c].depth
      => SpelledOutFirst(best[c].pattern, q)

SearchFor(c) == SoundFor(c) /\ CompleteFor(c) /\ OrderFor(c)

LEMMA SearchForAll ==
  (\A c \in Caller : SearchFor(c)) => SearchSound /\ SearchComplete /\ SearchOrder
BY DEF SearchSound, SearchComplete, SearchOrder, SearchFor, SoundFor,
       CompleteFor, OrderFor, Weighed

\* A step that leaves a caller's search and the rules alone keeps its facts.
LEMMA Frame ==
  ASSUME NEW d \in Caller, SearchFor(d), UNCHANGED <<rule, published>>,
         stage'[d] = stage[d], reason'[d] = reason[d], at'[d] = at[d],
         best'[d] = best[d]
  PROVE  SearchFor(d)'
<1>1. Searching(d)' = Searching(d) /\ HasNextSegment(d)' = HasNextSegment(d)
  BY DEF Searching, HasNextSegment, NextSegment
<1>2. SoundFor(d)'
  BY <1>1 DEF SearchFor, SoundFor, NoBest
<1>3. \A q : Pending(d, q)' = Pending(d, q) /\ Weighed(d, q)' = Weighed(d, q)
  BY DEF Pending, NextSegment, Weighed, NoBest
<1>4. CompleteFor(d)' /\ OrderFor(d)'
  BY <1>1, <1>3 DEF SearchFor, CompleteFor, OrderFor, NoBest
<1> QED
  BY <1>2, <1>4 DEF SearchFor

\* What is ahead of the search after a step was ahead of it before.
LEMMA PendingShrinks ==
  ASSUME TypeOK, NEW c \in Caller, NEW q \in Path, Search(c), ~Finish(c),
         SoundFor(c), Pending(c, q)'
  PROVE  Pending(c, q)
<1> DEFINE p == at[c]
           s == NextSegment(c)
<1>1. p \in Path /\ reason' = reason
  BY SearchTypes, SearchKeepsTrie
<1>2. CASE Enter(c)
  <2>1. stage[c] = "enter" /\ at' = at /\ stage'[c] \in {"exact", "ret"}
    BY <1>2 DEF Enter, TypeOK
  <2>2. stage'[c] = "exact" => NextSegment(c) \in Segment
    BY <1>2, <2>1 DEF Enter, TypeOK, HasNextSegment, NextSegment
  <2>3. \A t \in Segment \cup {Star} : Below(q, Append(p, t)) => Below(q, p)
    BY <1>1, BelowChild
  <2>4. CASE SpelledOutFirst(p, q)
    BY <2>4 DEF Pending
  <2>5. CASE ~SpelledOutFirst(p, q)
    <3>1. /\ stage'[c] = "exact"
          /\ Below(q, Append(p, s)) \/ Below(q, Append(p, Star))
      BY <1>1, <2>1, <2>5 DEF Pending, NextSegment
    <3> QED
      BY <2>1, <2>2, <2>3, <3>1 DEF Pending
  <2> QED
    BY <2>4, <2>5
<1>3. CASE ExactBranch(c)
  <2>1. stage[c] = "exact" /\ s \in Segment
    BY <1>3 DEF ExactBranch, SoundFor, Searching, HasNextSegment, NextSegment
  <2>2. CASE Append(p, s) \in nodes
    <3>1. stage'[c] = "enter" /\ at'[c] = Append(p, s)
      BY <1>3, <2>2 DEF ExactBranch, Branch, TypeOK
    <3>2. Below(q, Append(p, s)) \/ SpelledOutFirst(Append(p, s), q)
      BY <3>1 DEF Pending
    <3> QED
      BY <1>1, <2>1, <3>2, BesideChildInv DEF Pending
  <2>3. CASE Append(p, s) \notin nodes
    <3>1. stage'[c] = "wild" /\ at'[c] = p
      BY <1>3, <2>3 DEF ExactBranch, Branch, TypeOK
    <3> QED
      BY <2>1, <3>1 DEF Pending
  <2> QED
    BY <2>2, <2>3
<1>4. CASE WildcardBranch(c)
  <2>1. stage[c] = "wild"
    BY <1>4 DEF WildcardBranch
  <2>2. CASE Append(p, Star) \in nodes
    <3>1. stage'[c] = "enter" /\ at'[c] = Append(p, Star)
      BY <1>4, <2>2 DEF WildcardBranch, Branch, TypeOK
    <3>2. Below(q, Append(p, Star)) \/ SpelledOutFirst(Append(p, Star), q)
      BY <3>1 DEF Pending
    <3> QED
      BY <1>1, <2>1, <3>2, BesideChildInv DEF Pending
  <2>3. CASE Append(p, Star) \notin nodes
    <3>1. stage'[c] = "ret" /\ at'[c] = p
      BY <1>4, <2>3 DEF WildcardBranch, Branch, TypeOK
    <3> QED
      BY <2>1, <3>1 DEF Pending
  <2> QED
    BY <2>2, <2>3
<1>5. CASE Return(c)
  <2>1. /\ p # <<>>
        /\ at'[c] = Front(p)
        /\ stage'[c] = ResumeAfter(p)
    BY <1>5 DEF Return, ReturnUp, TypeOK
  <2>2. /\ Front(p) \in Path /\ Last(p) \in Segment \cup {Star}
        /\ p = Append(Front(p), Last(p))
    BY <1>1, <2>1, FrontLast, ParentChild
  <2>3. CASE SpelledOutFirst(Front(p), q)
    BY <2>2, <2>3, BesideChild DEF Pending
  <2>4. CASE ~SpelledOutFirst(Front(p), q)
    <3>1. Last(p) # Star /\ Below(q, Append(Front(p), Star))
      BY <2>1, <2>4 DEF Pending, ResumeAfter
    <3>2. SpelledOutFirst(Append(Front(p), Last(p)), q)
      BY <2>2, <3>1, BesideLiteral
    <3> QED
      BY <2>2, <3>2 DEF Pending
  <2> QED
    BY <2>3, <2>4
<1> QED
  BY <1>2, <1>3, <1>4, <1>5, SameSteps

\* A rule below a child is cut off only if the child does not exist.
LEMMA RuleBelowNode ==
  ASSUME TypeOK, TrieShape, NEW q \in DOMAIN rule, NEW n \in Path, Below(q, n)
  PROVE  n \in nodes
<1>1. n \in Prefixes(q)
  BY RulePaths, BelowPrefix
<1> QED
  BY <1>1 DEF TrieShape

\* A covering rule ahead of the search stays ahead of it or is weighed now.
LEMMA PendingKept ==
  ASSUME TypeOK, TrieShape, NEW c \in Caller, NEW q \in DOMAIN rule,
         Search(c), ~Finish(c), SoundFor(c),
         Matches(q, reason[c]), Pending(c, q)
  PROVE  \/ Pending(c, q)'
         \/ Enter(c) /\ q = at[c]
<1> DEFINE p == at[c]
           r == reason[c]
           s == NextSegment(c)
<1>1. p \in Path /\ r \in Text /\ q \in Path /\ reason' = reason
  BY SearchTypes, RulePaths, SearchKeepsTrie
<1>2. CASE Enter(c)
  <2>1. /\ stage[c] = "enter" /\ at' = at
        /\ stage'[c] = IF HasNextSegment(c) THEN "exact" ELSE "ret"
    BY <1>2 DEF Enter, TypeOK
  <2>2. HasNextSegment(c) = HasNextOf(p, r) /\ s = NextOf(p, r)
    BY DEF HasNextSegment, HasNextOf, NextSegment, NextOf
  <2>3. CASE SpelledOutFirst(p, q)
    BY <2>1, <2>3 DEF Pending
  <2>4. CASE ~SpelledOutFirst(p, q)
    <3>1. Below(q, p)
      BY <2>1, <2>4 DEF Pending
    <3>2. CASE HasNextSegment(c)
      <4>1. q = p \/ Below(q, Append(p, s)) \/ Below(q, Append(p, Star))
        BY <1>1, <2>2, <3>1, <3>2, SplitBelow
      <4>2. stage'[c] = "exact" /\ at'[c] = p /\ NextSegment(c)' = s
        BY <1>1, <2>1, <3>2 DEF NextSegment
      <4> QED
        BY <1>2, <4>1, <4>2 DEF Pending
    <3>3. CASE ~HasNextSegment(c)
      BY <1>1, <1>2, <2>2, <3>1, <3>3, NothingBelow
    <3> QED
      BY <3>2, <3>3
  <2> QED
    BY <2>3, <2>4
<1>3. CASE ExactBranch(c)
  <2>1. stage[c] = "exact" /\ s \in Segment
    BY <1>3 DEF ExactBranch, SoundFor, Searching, HasNextSegment, NextSegment
  <2>2. \/ Below(q, Append(p, s)) \/ Below(q, Append(p, Star))
        \/ SpelledOutFirst(p, q)
    BY <2>1 DEF Pending
  <2>3. CASE Append(p, s) \in nodes
    <3>1. stage'[c] = "enter" /\ at'[c] = Append(p, s)
      BY <1>3, <2>3 DEF ExactBranch, Branch, TypeOK
    <3>2. Below(q, Append(p, s)) \/ SpelledOutFirst(Append(p, s), q)
      BY <1>1, <2>1, <2>2, BesideLiteral, BesideChild
    <3> QED
      BY <3>1, <3>2 DEF Pending
  <2>4. CASE Append(p, s) \notin nodes
    <3>1. stage'[c] = "wild" /\ at'[c] = p
      BY <1>3, <2>4 DEF ExactBranch, Branch, TypeOK
    <3>2. ~Below(q, Append(p, s))
      BY <1>1, <2>1, <2>4, ChildPath, RuleBelowNode
    <3> QED
      BY <2>2, <3>1, <3>2 DEF Pending
  <2> QED
    BY <2>3, <2>4
<1>4. CASE WildcardBranch(c)
  <2>1. Below(q, Append(p, Star)) \/ SpelledOutFirst(p, q)
    BY <1>4 DEF WildcardBranch, Pending
  <2>2. CASE Append(p, Star) \in nodes
    <3>1. stage'[c] = "enter" /\ at'[c] = Append(p, Star)
      BY <1>4, <2>2 DEF WildcardBranch, Branch, TypeOK
    <3>2. Below(q, Append(p, Star)) \/ SpelledOutFirst(Append(p, Star), q)
      BY <1>1, <2>1, BesideChild
    <3> QED
      BY <3>1, <3>2 DEF Pending
  <2>3. CASE Append(p, Star) \notin nodes
    <3>1. at'[c] = p
      BY <1>4, <2>3 DEF WildcardBranch, Branch, TypeOK
    <3>2. ~Below(q, Append(p, Star))
      BY <1>1, <2>3, ChildPath, RuleBelowNode
    <3> QED
      BY <2>1, <3>1, <3>2 DEF Pending
  <2> QED
    BY <2>2, <2>3
<1>5. CASE Return(c)
  <2>1. /\ p # <<>>
        /\ at'[c] = Front(p)
        /\ stage'[c] = ResumeAfter(p)
    BY <1>5 DEF Return, ReturnUp, TypeOK
  <2>2. /\ Front(p) \in Path /\ Last(p) \in Segment \cup {Star}
        /\ p = Append(Front(p), Last(p))
    BY <1>1, <2>1, FrontLast, ParentChild
  <2>3. SpelledOutFirst(p, q)
    BY <1>5 DEF Return, ReturnUp, Pending
  <2>4. \/ SpelledOutFirst(Front(p), q)
        \/ Last(p) # Star /\ Below(q, Append(Front(p), Star))
    BY <1>1, <2>2, <2>3, BesideChildInv
  <2> QED
    BY <2>1, <2>4 DEF Pending, ResumeAfter
<1> QED
  BY <1>2, <1>3, <1>4, <1>5, SameSteps

\* A search that begins has everything ahead of it.
LEMMA CallSearch ==
  ASSUME TypeOK, NEW c \in Caller, NEW o \in Op, NEW r \in Reason,
         Call(c, o, r)
  PROVE  SearchFor(c)'
<1>1. /\ stage'[c] = "enter" /\ at'[c] = <<>> /\ best'[c] = NoBest
      /\ reason'[c] = r /\ published' /\ UNCHANGED rule
  BY DEF Call, trieVars, TypeOK
<1>2. r \in Text
  BY InputAssumption DEF Text
<1>3. SoundFor(c)'
  BY <1>1, <1>2 DEF SoundFor, Matches, Text, NoBest
<1>4. \A q \in DOMAIN rule : Below(q, <<>>)
  BY RulePaths DEF Below, Path
<1>5. CompleteFor(c)'
  BY <1>1, <1>4 DEF CompleteFor, Pending
<1>6. OrderFor(c)'
  BY <1>1 DEF OrderFor, NoBest
<1> QED
  BY <1>3, <1>5, <1>6 DEF SearchFor

\* The moves between nodes leave the best rule alone.
LEMMA MoveSearch ==
  ASSUME TypeOK, TrieShape, NEW c \in Caller, SearchFor(c),
         ExactBranch(c) \/ WildcardBranch(c) \/ Return(c)
  PROVE  SearchFor(c)'
<1>1. Search(c) /\ ~Finish(c) /\ ~Enter(c)
  BY SameSteps DEF ExactBranch, WildcardBranch, Return, ReturnUp, Enter, Finish, ReturnOut
<1>2. UNCHANGED <<rule, published, reason, best>>
  BY DEF ExactBranch, WildcardBranch, Branch, Return, ReturnUp
<1>3. Searching(c) /\ SoundFor(c) /\ CompleteFor(c) /\ OrderFor(c)
  BY DEF ExactBranch, WildcardBranch, Return, ReturnUp, Searching, SearchFor
<1>4. at[c] \in Path /\ reason[c] \in Text /\ Matches(at[c], reason[c])
  BY <1>3, SearchTypes DEF SoundFor
<1>5. Matches(at'[c], reason[c]) /\ (stage'[c] \in {"exact", "wild"} => HasNextSegment(c)')
  <2> DEFINE p == at[c]
  <2>1. CASE ExactBranch(c)
    <3>1. NextSegment(c) \in Segment /\ HasNextSegment(c)
      BY <2>1, <1>3 DEF ExactBranch, SoundFor, HasNextSegment, NextSegment
    <3>2. Matches(Append(p, NextSegment(c)), reason[c])
      BY <1>4, <3>1, ChildPath DEF Matches, HasNextSegment, NextSegment, Path, Text
    <3>3. \/ at'[c] = Append(p, NextSegment(c)) /\ stage'[c] = "enter"
          \/ at'[c] = p /\ stage'[c] = "wild"
      BY <2>1 DEF ExactBranch, Branch, TypeOK
    <3> QED
      BY <1>2, <1>4, <3>1, <3>2, <3>3 DEF HasNextSegment, NextSegment
  <2>2. CASE WildcardBranch(c)
    <3>1. HasNextSegment(c)
      BY <2>2, <1>3 DEF WildcardBranch, SoundFor
    <3>2. Matches(Append(p, Star), reason[c])
      BY <1>4, <3>1, ChildPath DEF Matches, HasNextSegment, NextSegment, Path, Text
    <3>3. \/ at'[c] = Append(p, Star) /\ stage'[c] = "enter"
          \/ at'[c] = p /\ stage'[c] = "ret"
      BY <2>2 DEF WildcardBranch, Branch, TypeOK
    <3> QED
      BY <1>4, <3>2, <3>3
  <2>3. CASE Return(c)
    <3>1. p # <<>> /\ at'[c] = Front(p)
      BY <2>3 DEF Return, ReturnUp, TypeOK
    <3>2. /\ Front(p) \in Path /\ Len(Front(p)) = Len(p) - 1
          /\ Len(p) \in Nat \ {0}
          /\ \A i \in 1..(Len(p) - 1) : Front(p)[i] = p[i]
      BY <1>4, <3>1, FrontLast
    <3>3. Matches(Front(p), reason[c])
      BY <1>4, <3>2 DEF Matches, Text
    <3>4. Len(Front(p)) < Len(reason[c]) /\ reason[c][Len(Front(p)) + 1] \in Segment
      BY <1>4, <3>2 DEF Matches, Text
    <3> QED
      BY <1>2, <3>1, <3>3, <3>4 DEF HasNextSegment, NextSegment
  <2> QED
    BY <2>1, <2>2, <2>3
<1>6. SoundFor(c)'
  BY <1>2, <1>3, <1>5 DEF SoundFor, NoBest
<1>7. \A q : Weighed(c, q)' = Weighed(c, q)
  BY <1>2 DEF Weighed, NoBest
<1>8. CompleteFor(c)'
  BY <1>1, <1>2, <1>3, <1>7, PendingKept DEF CompleteFor
<1>9. OrderFor(c)'
  <2>1. DOMAIN rule \subseteq Path
    BY RulePaths
  <2> QED
    BY <1>1, <1>2, <1>3, <2>1, PendingShrinks DEF OrderFor, NoBest
<1> QED
  BY <1>6, <1>8, <1>9 DEF SearchFor

\* The step that may replace the best rule: replacing only by a strictly
\* deeper one is enough because of the order of the search.
LEMMA EnterSearch ==
  ASSUME TypeOK, TrieShape, NEW c \in Caller, SearchFor(c), Enter(c)
  PROVE  SearchFor(c)'
<1> DEFINE p == at[c]
           r == reason[c]
           b == best[c]
<1>1. Search(c) /\ ~Finish(c)
  BY SameSteps DEF Enter, Finish, ReturnOut
<1>2. Searching(c) /\ SoundFor(c) /\ CompleteFor(c) /\ OrderFor(c)
  BY DEF Enter, Searching, SearchFor
<1>3. p \in Path /\ r \in Text /\ Len(p) \in Nat /\ DOMAIN rule \subseteq Path
  BY SearchTypes, RulePaths DEF Path
<1>4. /\ UNCHANGED <<rule, published, reason, at>>
      /\ stage'[c] = IF HasNextSegment(c) THEN "exact" ELSE "ret"
      /\ HasNextSegment(c)' = HasNextSegment(c)
  BY DEF Enter, TypeOK, HasNextSegment, NextSegment
<1>5. b # NoBest => b.pattern \in DOMAIN rule /\ b.depth = Len(b.pattern)
                    /\ b.depth \in Nat
  BY <1>2, <1>3 DEF SoundFor, Path
<1>6. b.depth \in Int /\ NoBest.depth = -1
  BY DEF TypeOK, NoBest
<1>7. CASE p \in DOMAIN rule /\ Deeper(c)
  <2>1. best'[c] = [depth |-> Len(p), val |-> rule[p].val, pattern |-> p]
    BY <1>7 DEF Enter, TypeOK
  <2>2. best'[c] # NoBest /\ best'[c].pattern = p /\ best'[c].depth = Len(p)
        /\ best'[c].val = rule[p].val
    BY <1>3, <2>1 DEF NoBest
  <2>3. SoundFor(c)'
    BY <1>2, <1>4, <1>7, <2>2 DEF SoundFor
  <2>4. CompleteFor(c)'
    <3>1. SUFFICES ASSUME NEW q \in DOMAIN rule, Matches(q, r)
                   PROVE  Pending(c, q)' \/ q = p \/ Beats(p, q)
      BY <1>4, <2>2 DEF CompleteFor, Weighed, NoBest
    <3>2. CASE Pending(c, q)
      BY <1>1, <1>2, <3>1, <3>2, PendingKept
    <3>3. CASE Weighed(c, q)
      <4>1. Len(b.pattern) \in Nat /\ Len(q) \in Nat /\ Len(q) <= Len(b.pattern)
        BY <1>3, <1>5, <3>3 DEF Weighed, Beats, Path
      <4>2. Len(p) > Len(b.pattern)
        BY <1>5, <1>7, <3>3 DEF Weighed, Deeper
      <4> QED
        BY <1>3, <4>1, <4>2 DEF Beats
    <3> QED
      BY <1>2, <3>1, <3>2, <3>3 DEF CompleteFor
  <2>5. OrderFor(c)'
    <3>1. SUFFICES ASSUME NEW q \in DOMAIN rule, Pending(c, q)', Len(q) = Len(p)
                   PROVE  SpelledOutFirst(p, q)
      BY <1>4, <2>2 DEF OrderFor, NoBest
    <3>2. \A s \in Segment \cup {Star} : ~Below(q, Append(p, s))
      <4>1. q \in Path
        BY <1>3
      <4> QED
        BY <1>3, <3>1, <4>1, BelowChild
    <3>3. HasNextSegment(c) => NextSegment(c) \in Segment
      BY DEF HasNextSegment, NextSegment
    <3> QED
      BY <1>4, <3>1, <3>2, <3>3 DEF Pending, NextSegment
  <2> QED
    BY <2>3, <2>4, <2>5 DEF SearchFor
<1>8. CASE ~(p \in DOMAIN rule /\ Deeper(c))
  <2>1. best' = best
    BY <1>8 DEF Enter
  <2>2. SoundFor(c)'
    BY <1>2, <1>4, <2>1 DEF SoundFor, NoBest
  <2>3. CompleteFor(c)'
    <3>1. SUFFICES ASSUME NEW q \in DOMAIN rule, Matches(q, r)
                   PROVE  Pending(c, q)' \/ Weighed(c, q)
      BY <1>4, <2>1 DEF CompleteFor, Weighed, NoBest
    <3>2. CASE Pending(c, q) /\ q = p
      <4>1. b.depth >= Len(p)
        BY <1>3, <1>6, <1>8, <3>2 DEF Deeper
      <4>2. b # NoBest
        BY <1>3, <1>6, <4>1
      <4>3. CASE b.depth > Len(p)
        BY <1>5, <3>2, <4>2, <4>3 DEF Weighed, Beats
      <4>4. CASE b.depth = Len(p)
        BY <1>2, <1>5, <3>1, <3>2, <4>2, <4>4 DEF OrderFor, Weighed, Beats
      <4> QED
        BY <1>3, <1>6, <4>1, <4>3, <4>4
    <3>3. CASE Pending(c, q) /\ q # p
      BY <1>1, <1>2, <3>1, <3>3, PendingKept
    <3>4. CASE Weighed(c, q)
      BY <3>4
    <3> QED
      BY <1>2, <3>1, <3>2, <3>3, <3>4 DEF CompleteFor
  <2>4. OrderFor(c)'
    BY <1>1, <1>2, <1>3, <1>4, <2>1, PendingShrinks DEF OrderFor, NoBest
  <2> QED
    BY <2>2, <2>3, <2>4 DEF SearchFor
<1> QED
  BY <1>7, <1>8

-----------------------------------------------------------------------------
(* The inductive invariant.                                                *)

Inv == TypeOK /\ TrieShape /\ \A c \in Caller : SearchFor(c)

LEMMA InvInit == Init => Inv
<1> SUFFICES ASSUME Init PROVE Inv
  OBVIOUS
<1>1. \A c \in Caller : ~Searching(c)
  BY DEF Init, Searching
<1>2. \A c \in Caller : SearchFor(c)
  BY <1>1 DEF SearchFor, SoundFor, CompleteFor, OrderFor
<1> QED
  BY <1>2, InitTypes DEF Inv

LEMMA InvNext == Inv /\ [Next]_vars => Inv'
<1> SUFFICES ASSUME Inv, [Next]_vars
             PROVE  \A d \in Caller : SearchFor(d)'
  BY NextTypes DEF Inv
<1> TAKE d \in Caller
<1>1. TypeOK /\ TrieShape /\ SearchFor(d)
  BY DEF Inv
\* While the trie is being built no search runs.
<1>2. ASSUME ~published, stage'[d] = stage[d]
      PROVE  SearchFor(d)'
  <2>1. ~Searching(d) /\ ~Searching(d)'
    BY <1>1, <1>2 DEF SearchFor, SoundFor, Searching
  <2> QED
    BY <2>1 DEF SearchFor, SoundFor, CompleteFor, OrderFor
<1>3. ASSUME NEW p \in Prefix, NEW v \in Value, Insert(p, v) \/ InsertInvalid(p, v)
      PROVE  SearchFor(d)'
  BY <1>2, <1>3 DEF Insert, InsertInvalid
<1>4. CASE Publish
  BY <1>2, <1>4 DEF Publish
<1>5. ASSUME NEW c \in Caller, NEW o \in Op, NEW r \in Reason, Call(c, o, r)
      PROVE  SearchFor(d)'
  <2>1. CASE c = d
    BY <1>1, <1>5, <2>1, CallSearch
  <2>2. CASE c # d
    BY <1>1, <1>5, <2>2, Frame DEF Call, trieVars, TypeOK
  <2> QED
    BY <2>1, <2>2
<1>6. ASSUME NEW c \in Caller, Search(c)
      PROVE  SearchFor(d)'
  <2>1. CASE c # d
    <3>1. UNCHANGED <<rule, published, reason>>
      BY <1>6, SearchKeepsTrie
    <3>2. stage'[d] = stage[d] /\ at'[d] = at[d] /\ best'[d] = best[d]
      BY <1>1, <1>6, <2>1, OthersKept
    <3> QED
      BY <1>1, <3>1, <3>2, Frame
  <2>2. CASE c = d /\ Finish(c)
    <3>1. ~Searching(d)'
      BY <1>1, <2>2 DEF Finish, ReturnOut, Searching, TypeOK
    <3> QED
      BY <3>1 DEF SearchFor, SoundFor, CompleteFor, OrderFor
  <2>3. CASE c = d /\ ~Finish(c)
    BY <1>1, <1>6, <2>3, EnterSearch, MoveSearch, SameSteps
  <2> QED
    BY <2>1, <2>2, <2>3
<1>7. CASE UNCHANGED vars
  BY <1>1, <1>7, Frame DEF vars
<1> QED
  BY <1>3, <1>4, <1>5, <1>6, <1>7 DEF Next

\* In every reachable state every search is sound, has lost no rule, and
\* leaves only rules that lose ties ahead of it.
THEOREM SearchCorrect == Spec => [](SearchSound /\ SearchComplete /\ SearchOrder)
<1>1. Spec => []Inv
  BY InvInit, InvNext, PTL DEF Spec
<1>2. Inv => SearchSound /\ SearchComplete /\ SearchOrder
  BY SearchForAll DEF Inv
<1> QED
  BY <1>1, <1>2, PTL

\* No search runs in an unfinished trie, and whatever it stands on or carries
\* covers the reason.
COROLLARY SearchesAreSound == Spec => []SearchSound
BY SearchCorrect, PTL

\* The order of the branches is what breaks ties of length.
COROLLARY TiesAreOrdered == Spec => []SearchOrder
BY SearchCorrect, PTL

-----------------------------------------------------------------------------
(* The trie implements the rule dictionary.                                *)

\* The vocabulary of the abstract specification is the concrete one.
LEMMA SameVocabulary ==
  /\ \A p : LPM!ValidPrefix(p) = ValidPrefix(p)
  /\ \A P, p, r : LPM!IsBest(p, P, r) = IsBest(p, P, r)
  /\ \A p, r : LPM!Matches(p, r) = Matches(p, r)
  /\ LPM!Op = Op /\ LPM!NoMatch = NoMatch /\ LPM!NoInsert = NoInsert
BY DEF LPM!ValidPrefix, ValidPrefix, LPM!ValidSegment, ValidSegment,
       LPM!IsBest, IsBest, LPM!Matches, Matches, LPM!Beats, Beats,
       LPM!SpelledOutFirst, SpelledOutFirst, LPM!Op, Op,
       LPM!NoMatch, NoMatch, LPM!NoInsert, NoInsert

\* What the dictionary holds.
Rules == [p \in DOMAIN rule |-> rule[p].val]
Phases == [c \in Caller |-> Phase(stage[c])]

LEMMA RefineInit == Init => LPM!Init
<1> SUFFICES ASSUME Init PROVE LPM!Init
  OBVIOUS
<1>1. Rules = [p \in {} |-> Zero]
  BY DEF Init, Rules
<1>2. Phases = [c \in Caller |-> "idle"]
  BY DEF Init, Phases, Phase
<1> QED
  BY <1>1, <1>2, SameVocabulary DEF Init, LPM!Init, Rules, Phases

LEMMA RefineInsert ==
  ASSUME TypeOK, NEW p \in Prefix, NEW v \in Value, Insert(p, v)
  PROVE  LPM!InsertAccepted(p, v)
<1>1. Rules' = [q \in DOMAIN Rules \cup {p} |-> IF q = p THEN v ELSE Rules[q]]
  BY DEF Rules, Insert, Labelled
<1>2. UNCHANGED Phases
  BY DEF Insert, Phases
<1> QED
  BY <1>1, <1>2, SameVocabulary
  DEF Insert, Accepts, LPM!InsertAccepted, Rules, Phases

\* Steps of a search inside a lookup are invisible to the dictionary.
LEMMA RefineMove ==
  ASSUME TypeOK, NEW c \in Caller,
         Enter(c) \/ ExactBranch(c) \/ WildcardBranch(c) \/ Return(c)
  PROVE  UNCHANGED LPM!vars
<1>1. UNCHANGED <<rule, latest, published, op, reason, answer>>
  BY DEF Enter, ExactBranch, WildcardBranch, Branch, Return, ReturnUp
<1>2. PICK s \in {"enter", "exact", "wild", "ret"} :
        stage' = [stage EXCEPT ![c] = s]
  BY DEF Enter, ExactBranch, WildcardBranch, Branch, Return, ReturnUp, ResumeAfter
<1>3. stage[c] \in {"enter", "exact", "wild", "ret"}
  BY DEF Enter, ExactBranch, WildcardBranch, Return, ReturnUp
<1>4. \A d \in Caller : Phase(stage'[d]) = Phase(stage[d])
  BY <1>2, <1>3 DEF Phase, TypeOK
<1>5. UNCHANGED Phases
  BY <1>4 DEF Phases
<1>6. UNCHANGED Rules
  BY <1>1 DEF Rules
<1> QED
  BY <1>1, <1>5, <1>6 DEF LPM!vars, Rules, Phases

\* The end of a search answers with the rule that decides the reason: nothing
\* is ahead of the root any more, so every covering rule has been weighed.
LEMMA RefineFinish ==
  ASSUME TypeOK, NEW c \in Caller, SearchFor(c), Finish(c)
  PROVE  LPM!Answer(c)
<1> DEFINE b == best[c]
           r == reason[c]
<1>1. Phases[c] = "asked" /\ Phases' = [Phases EXCEPT ![c] = "answered"]
  BY DEF Finish, ReturnOut, Phases, Phase, TypeOK
<1>2. Searching(c) /\ SoundFor(c) /\ CompleteFor(c)
  BY DEF Finish, ReturnOut, Searching, SearchFor
<1>3. \A q \in DOMAIN rule : Matches(q, r) => Weighed(c, q)
  BY <1>2, NothingBeforeRoot DEF CompleteFor, Finish, ReturnOut, Pending
<1>4. \/ \E p \in DOMAIN Rules :
            /\ IsBest(p, DOMAIN Rules, r)
            /\ answer' = [answer EXCEPT ![c] = LPM!Hit(op[c], Rules[p], p)]
      \/ /\ \A p \in DOMAIN Rules : ~Matches(p, r)
         /\ answer' = [answer EXCEPT ![c] = NoMatch]
  <2>1. CASE b = NoBest
    <3>1. \A q \in DOMAIN rule : ~Matches(q, r)
      BY <1>3, <2>1 DEF Weighed
    <3>2. Result(op[c], b) = NoMatch
      BY <2>1 DEF Result, NoBest
    <3> QED
      BY <3>1, <3>2 DEF Finish, ReturnOut, Rules
  <2>2. CASE b # NoBest
    <3>1. /\ b.pattern \in DOMAIN rule /\ Matches(b.pattern, r)
          /\ b.depth = Len(b.pattern) /\ b.val = rule[b.pattern].val
      BY <1>2, <2>2 DEF SoundFor
    <3>2. IsBest(b.pattern, DOMAIN rule, r)
      BY <1>3, <3>1 DEF IsBest, Weighed
    <3>3. b.depth \in Nat
      BY <3>1, RulePaths DEF Path
    <3>4. Result(op[c], b) = LPM!Hit(op[c], Rules[b.pattern], b.pattern)
      <4>1. ~(b.depth < 0) /\ Rules[b.pattern] = b.val
        BY <3>1, <3>3 DEF Rules
      <4> HIDE DEF b
      <4> QED
        BY <4>1 DEF Result, LPM!Hit
    <3> QED
      BY <3>1, <3>2, <3>4 DEF Finish, ReturnOut, Rules
  <2> QED
    BY <2>1, <2>2
<1>5. UNCHANGED <<Rules, latest, published, op, reason>>
  BY DEF Finish, ReturnOut, Rules
<1> QED
  BY <1>1, <1>4, <1>5, SameVocabulary DEF LPM!Answer, Rules, Phases

LEMMA RefineNext == Inv /\ [Next]_vars => [LPM!Next]_LPM!vars
<1> SUFFICES ASSUME Inv, [Next]_vars
             PROVE  LPM!Next \/ UNCHANGED LPM!vars
  OBVIOUS
<1>1. TypeOK
  BY DEF Inv
<1>2. ASSUME NEW p \in Prefix, NEW v \in Value, Insert(p, v)
      PROVE  LPM!Next
  BY <1>1, <1>2, RefineInsert DEF LPM!Next
<1>3. ASSUME NEW p \in Prefix, NEW v \in Value, InsertInvalid(p, v)
      PROVE  LPM!Next
  <2>1. LPM!InsertRejected(p, v)
    BY <1>3, SameVocabulary DEF InsertInvalid, Accepts, LPM!InsertRejected
  <2> QED
    BY <2>1 DEF LPM!Next
<1>4. CASE Publish
  <2>1. LPM!Publish
    BY <1>4, SameVocabulary DEF Publish, LPM!Publish
  <2> QED
    BY <2>1 DEF LPM!Next
<1>5. ASSUME NEW c \in Caller, NEW o \in Op, NEW r \in Reason, Call(c, o, r)
      PROVE  LPM!Next
  <2>1. Phases[c] # "asked"
    BY <1>5 DEF Call, Phases, Phase
  <2>2. Phases' = [Phases EXCEPT ![c] = "asked"]
    BY <1>1, <1>5 DEF Call, Phases, Phase, TypeOK
  <2>3. UNCHANGED Rules
    BY <1>5 DEF Call, trieVars, Rules
  <2>4. LPM!Ask(c, o, r)
    BY <1>5, <2>1, <2>2, <2>3, SameVocabulary
    DEF Call, trieVars, LPM!Ask, Rules, Phases
  <2> QED
    BY <2>4, SameVocabulary DEF LPM!Next
<1>6. ASSUME NEW c \in Caller, Search(c)
      PROVE  LPM!Next \/ UNCHANGED LPM!vars
  <2>1. CASE Finish(c)
    <3>1. SearchFor(c)
      BY DEF Inv
    <3> QED
      BY <1>1, <2>1, <3>1, RefineFinish DEF LPM!Next
  <2>2. CASE ~Finish(c)
    BY <1>1, <1>6, <2>2, RefineMove, SameSteps
  <2> QED
    BY <2>1, <2>2
<1>7. CASE UNCHANGED vars
  BY <1>7 DEF vars, LPM!vars
<1> QED
  BY <1>2, <1>3, <1>4, <1>5, <1>6, <1>7 DEF Next

\* Whatever the rules, the reasons and the interleaving of lookups, Match and
\* MatchWithPattern answer as the one-step rule dictionary does.
THEOREM TrieImplementsLPM == Spec => ImplementsLPM
<1>1. Spec => []Inv
  BY InvInit, InvNext, PTL DEF Spec
<1> QED
  BY <1>1, RefineInit, RefineNext, PTL DEF Spec, ImplementsLPM, LPM!Spec

-----------------------------------------------------------------------------
(* Two lookups of one reason agree: each answers with the one rule that    *)
(* decides it, and the rules no longer change.                             *)

\* Of two different rules at most one beats the other.
LEMMA BeatsOneWay ==
  ASSUME NEW p \in Path, NEW q \in Path, Beats(p, q), Beats(q, p)
  PROVE  FALSE
<1>2. Len(p) \in Nat /\ Len(q) \in Nat
  BY DEF Path
<1>3. SpelledOutFirst(p, q) /\ SpelledOutFirst(q, p)
  BY <1>2 DEF Beats
<1>4. PICK i \in 1..Len(p) : p[i] # Star /\ q[i] = Star /\ \A k \in 1..(i - 1) : p[k] = q[k]
  BY <1>3 DEF SpelledOutFirst
<1>5. PICK j \in 1..Len(q) : q[j] # Star /\ p[j] = Star /\ \A k \in 1..(j - 1) : q[k] = p[k]
  BY <1>3 DEF SpelledOutFirst
<1>6. i # j
  BY <1>4, <1>5
<1>7. i < j => i \in 1..(j - 1)
  BY <1>2
<1>8. j < i => j \in 1..(i - 1)
  BY <1>2
<1> QED
  BY <1>2, <1>4, <1>5, <1>6, <1>7, <1>8

\* So one rule decides a reason.
LEMMA OneBest ==
  ASSUME NEW P \in SUBSET Path, NEW r, NEW p, NEW q, IsBest(p, P, r), IsBest(q, P, r)
  PROVE  p = q
BY BeatsOneWay DEF IsBest

\* The best rule of a search is not ahead of it any more, so a search at the
\* same place for the same reason has weighed it against its own.
LEMMA SamePlaceSameRule ==
  ASSUME TypeOK, NEW c \in Caller, NEW d \in Caller, SearchFor(c), SearchFor(d),
         reason[c] = reason[d], Searching(c), Searching(d),
         at[c] = at[d], stage[c] = stage[d], best[c] # NoBest
  PROVE  Weighed(d, best[c].pattern)
<1> DEFINE p == best[c].pattern
<1>1. /\ p \in DOMAIN rule /\ p \in Path /\ Matches(p, reason[c])
      /\ Len(p) = best[c].depth
  BY RulePaths DEF SearchFor, SoundFor
<1>2. ~Pending(c, p)
  BY <1>1, NotBeforeItself DEF SearchFor, OrderFor
<1>3. ~Pending(d, p)
  BY <1>2 DEF Pending, NextSegment
<1> QED
  BY <1>1, <1>3 DEF SearchFor, CompleteFor

\* Two searches at the same place for the same reason carry the same rule.
LEMMA SamePlaceSameBest ==
  ASSUME TypeOK, NEW c \in Caller, NEW d \in Caller, SearchFor(c), SearchFor(d),
         reason[c] = reason[d], Searching(c), Searching(d),
         at[c] = at[d], stage[c] = stage[d]
  PROVE  best[c] = best[d]
<1>1. best[c] # NoBest => best[d] # NoBest
  BY SamePlaceSameRule DEF Weighed
<1>2. best[d] # NoBest => best[c] # NoBest
  BY SamePlaceSameRule DEF Weighed
<1>3. CASE best[c] # NoBest /\ best[d] # NoBest
  <2> DEFINE p == best[c].pattern
             q == best[d].pattern
  <2>1. p \in Path /\ q \in Path
    BY <1>3, RulePaths DEF SearchFor, SoundFor
  <2>2. q = p \/ Beats(q, p)
    BY <1>3, SamePlaceSameRule DEF Weighed
  <2>3. p = q \/ Beats(p, q)
    BY <1>3, SamePlaceSameRule DEF Weighed
  <2>4. p = q
    BY <2>1, <2>2, <2>3, BeatsOneWay
  <2>5. best[c].depth = best[d].depth /\ best[c].val = best[d].val
    BY <1>3, <2>4 DEF SearchFor, SoundFor
  <2>6. \A x, y \in [depth : Nat \cup {-1}, val : Value \cup {Zero},
                    pattern : DOMAIN rule \cup {<<>>}] :
          x.depth = y.depth /\ x.val = y.val /\ x.pattern = y.pattern => x = y
    OBVIOUS
  <2>7. best \in [Caller -> [depth : Nat \cup {-1}, val : Value \cup {Zero},
                            pattern : DOMAIN rule \cup {<<>>}]]
    BY DEF TypeOK
  <2> QED
    BY <2>4, <2>5, <2>6, <2>7
<1> QED
  BY <1>1, <1>2, <1>3

\* What caller c was answered is what the rules say of its reason.
AnswerFor(c) == stage[c] = "done" =>
  /\ published
  /\ \/ /\ answer[c].ok
        /\ \E p \in DOMAIN rule :
             IsBest(p, DOMAIN rule, reason[c]) /\ answer[c].val = rule[p].val
     \/ /\ ~answer[c].ok
        /\ answer[c].val = Zero
        /\ \A p \in DOMAIN rule : ~Matches(p, reason[c])

AnswersInv == Inv /\ \A c \in Caller : AnswerFor(c)

\* The step that ends a lookup answers it.
LEMMA FinishAnswers ==
  ASSUME TypeOK, NEW c \in Caller, SearchFor(c), Finish(c)
  PROVE  AnswerFor(c)'
<1>1. published /\ UNCHANGED <<rule, published, reason>>
  BY DEF Finish, ReturnOut, SearchFor, SoundFor, Searching
<1>2. LPM!Answer(c)
  BY RefineFinish
<1>3. answer \in [Caller -> [ok : BOOLEAN, val : Value \cup {Zero},
                            pattern : DOMAIN rule \cup {<<>>}]]
  BY DEF TypeOK
<1>4. CASE \E p \in DOMAIN Rules :
             /\ IsBest(p, DOMAIN Rules, reason[c])
             /\ answer' = [answer EXCEPT ![c] = LPM!Hit(op[c], Rules[p], p)]
  <2>1. PICK p \in DOMAIN rule :
             /\ IsBest(p, DOMAIN rule, reason[c])
             /\ answer'[c] = LPM!Hit(op[c], Rules[p], p)
    BY <1>3, <1>4 DEF Rules
  <2>2. answer'[c].ok = TRUE /\ answer'[c].val = rule[p].val
    BY <2>1 DEF LPM!Hit, Rules
  <2> QED
    BY <1>1, <2>1, <2>2 DEF AnswerFor
<1>5. CASE /\ \A p \in DOMAIN Rules : ~Matches(p, reason[c])
           /\ answer' = [answer EXCEPT ![c] = NoMatch]
  <2>1. answer'[c].ok = FALSE /\ answer'[c].val = Zero
    BY <1>3, <1>5 DEF NoMatch
  <2> QED
    BY <1>1, <1>5, <2>1 DEF AnswerFor, Rules
<1> QED
  BY <1>2, <1>4, <1>5, SameVocabulary DEF LPM!Answer, Rules

LEMMA AnswersInit == Init => AnswersInv
BY InvInit DEF AnswersInv, AnswerFor, Init

LEMMA AnswersNext == AnswersInv /\ [Next]_vars => AnswersInv'
<1> SUFFICES ASSUME AnswersInv, [Next]_vars, NEW d \in Caller
             PROVE  AnswerFor(d)'
  BY InvNext DEF AnswersInv
<1>1. TypeOK /\ SearchFor(d) /\ AnswerFor(d)
  BY DEF AnswersInv, Inv
<1>2. ASSUME UNCHANGED <<rule, published>>, stage'[d] = stage[d],
             reason'[d] = reason[d], answer'[d] = answer[d]
      PROVE  AnswerFor(d)'
  BY <1>1, <1>2 DEF AnswerFor
<1>3. ASSUME ~published, stage'[d] = stage[d]
      PROVE  AnswerFor(d)'
  BY <1>1, <1>3 DEF AnswerFor
<1>4. ASSUME NEW p \in Prefix, NEW v \in Value, Insert(p, v) \/ InsertInvalid(p, v)
      PROVE  AnswerFor(d)'
  BY <1>3, <1>4 DEF Insert, InsertInvalid
<1>5. CASE Publish
  BY <1>3, <1>5 DEF Publish
<1>6. ASSUME NEW c \in Caller, NEW o \in Op, NEW r \in Reason, Call(c, o, r)
      PROVE  AnswerFor(d)'
  <2>1. CASE c = d
    BY <1>1, <1>6, <2>1 DEF Call, AnswerFor, TypeOK
  <2>2. CASE c # d
    BY <1>1, <1>2, <1>6, <2>2 DEF Call, trieVars, TypeOK
  <2> QED
    BY <2>1, <2>2
<1>7. ASSUME NEW c \in Caller, Search(c)
      PROVE  AnswerFor(d)'
  <2>1. CASE c # d
    <3>1. /\ UNCHANGED <<rule, published, reason>>
          /\ stage'[d] = stage[d] /\ answer'[d] = answer[d]
      BY <1>1, <1>7, <2>1, OthersKept, SearchKeepsTrie
    <3> QED
      BY <1>2, <3>1
  <2>2. CASE c = d /\ Finish(c)
    BY <1>1, <2>2, FinishAnswers
  <2>3. CASE c = d /\ ~Finish(c)
    <3>1. stage'[d] # "done"
      BY <1>1, <1>7, <2>3, SameSteps DEF Enter, ExactBranch, WildcardBranch, Branch,
                              Return, ReturnUp, ResumeAfter, TypeOK
    <3> QED
      BY <3>1 DEF AnswerFor
  <2> QED
    BY <2>1, <2>2, <2>3
<1>8. CASE UNCHANGED vars
  BY <1>2, <1>8 DEF vars
<1> QED
  BY <1>4, <1>5, <1>6, <1>7, <1>8 DEF Next

LEMMA AnswersGiveAgreement == AnswersInv => LookupsAgree
<1> SUFFICES ASSUME AnswersInv, NEW c \in Caller, NEW d \in Caller,
                    stage[c] = "done", stage[d] = "done", reason[c] = reason[d]
             PROVE  answer[c].ok = answer[d].ok /\ answer[c].val = answer[d].val
  BY SamePlaceSameBest DEF LookupsAgree, AnswersInv, Inv
<1>1. AnswerFor(c) /\ AnswerFor(d) /\ TypeOK
  BY DEF AnswersInv, Inv
<1>2. answer[c].ok \in BOOLEAN /\ answer[d].ok \in BOOLEAN
  BY <1>1 DEF TypeOK
<1>3. CASE answer[c].ok /\ answer[d].ok
  <2>1. PICK p \in DOMAIN rule :
          IsBest(p, DOMAIN rule, reason[c]) /\ answer[c].val = rule[p].val
    BY <1>1, <1>3 DEF AnswerFor
  <2>2. PICK q \in DOMAIN rule :
          IsBest(q, DOMAIN rule, reason[c]) /\ answer[d].val = rule[q].val
    BY <1>1, <1>3 DEF AnswerFor
  <2>3. p = q
    BY <1>1, <2>1, <2>2, OneBest, RulePaths
  <2> QED
    BY <1>2, <1>3, <2>1, <2>2, <2>3
<1>4. CASE ~answer[c].ok /\ ~answer[d].ok
  BY <1>1, <1>2, <1>4 DEF AnswerFor
<1>5. ASSUME NEW x \in {c, d}, NEW y \in {c, d}, answer[x].ok, ~answer[y].ok
      PROVE  FALSE
  <2>1. \E p \in DOMAIN rule : IsBest(p, DOMAIN rule, reason[c])
    BY <1>1, <1>5 DEF AnswerFor
  <2> QED
    BY <1>1, <1>5, <2>1 DEF AnswerFor, IsBest
<1> QED
  BY <1>2, <1>3, <1>4, <1>5

\* Match and MatchWithPattern agree on a reason, at every place their searches
\* come to as well as at the end, whatever runs in between: Explain and Status
\* cannot disagree about the rule (trie.go:118-171, 187-231).
THEOREM TheTwoSearchesAgree == Spec => []LookupsAgree
BY AnswersInit, AnswersNext, AnswersGiveAgreement, PTL DEF Spec

-----------------------------------------------------------------------------
(* Every search ends: each step uses up a place of the trie, and the trie  *)
(* has four for each of its nodes.                                         *)

\* The three ways a search moves: on in the call it is in, down into a branch,
\* and up to the call for the parent node.
MovesOn(c) == at'[c] = at[c] /\ stage'[c] \in After(stage[c])
MovesDown(c, s) ==
  /\ stage[c] \in {"exact", "wild"} /\ stage'[c] = "enter"
  /\ at'[c] = Append(at[c], s)
  /\ AfterBranch(s) = After(stage[c])
  /\ Pending(c, Append(at[c], s))
MovesUp(c) ==
  /\ stage[c] = "ret" /\ at[c] # <<>>
  /\ at'[c] = Front(at[c])
  /\ stage'[c] = ResumeAfter(at[c])

LEMMA EveryMove ==
  ASSUME TypeOK, NEW c \in Caller, SoundFor(c), Search(c), ~Finish(c)
  PROVE  MovesOn(c) \/ (\E s \in Segment \cup {Star} : MovesDown(c, s)) \/ MovesUp(c)
<1> DEFINE p == at[c]
<1>1. p \in Path
  BY SearchTypes
<1>2. CASE Enter(c)
  <2>1. stage[c] = "enter" /\ at' = at /\ stage'[c] \in {"exact", "ret"}
    BY <1>2 DEF Enter, TypeOK
  <2> QED
    BY <2>1 DEF MovesOn, After
<1>3. ASSUME NEW s \in Segment \cup {Star}, NEW other \in {"wild", "ret"},
             Branch(c, s, other), stage[c] \in {"exact", "wild"},
             AfterBranch(s) = After(stage[c]), other \in After(stage[c]),
             Append(p, s) \in Path => Pending(c, Append(p, s))
      PROVE  MovesOn(c) \/ MovesDown(c, s)
  <2>1. CASE Append(p, s) \in nodes
    <3>1. stage'[c] = "enter" /\ at'[c] = Append(p, s)
      BY <1>3, <2>1 DEF Branch, TypeOK
    <3> QED
      BY <1>1, <1>3, <3>1, ChildPath DEF MovesDown
  <2>2. CASE Append(p, s) \notin nodes
    <3>1. stage'[c] = other /\ at'[c] = p
      BY <1>3, <2>2 DEF Branch, TypeOK
    <3> QED
      BY <1>3, <3>1 DEF MovesOn
  <2> QED
    BY <2>1, <2>2
<1>4. CASE ExactBranch(c)
  <2>1. stage[c] = "exact" /\ NextSegment(c) \in Segment
    BY <1>4 DEF ExactBranch, SoundFor, Searching, HasNextSegment, NextSegment
  <2>2. AfterBranch(NextSegment(c)) = After(stage[c]) /\ "wild" \in After(stage[c])
    BY <2>1, SegmentAssumption DEF After, AfterBranch
  <2>3. Append(p, NextSegment(c)) \in Path => Pending(c, Append(p, NextSegment(c)))
    BY <2>1, BelowSelf DEF Pending
  <2>4. Branch(c, NextSegment(c), "wild")
    BY <1>4 DEF ExactBranch
  <2> QED
    BY <1>3, <2>1, <2>2, <2>3, <2>4
<1>5. CASE WildcardBranch(c)
  <2>1. stage[c] = "wild" /\ Branch(c, Star, "ret")
    BY <1>5 DEF WildcardBranch
  <2>2. AfterBranch(Star) = After(stage[c]) /\ "ret" \in After(stage[c])
    BY <2>1 DEF After, AfterBranch
  <2>3. Append(p, Star) \in Path => Pending(c, Append(p, Star))
    BY <2>1, BelowSelf DEF Pending
  <2> QED
    BY <1>3, <2>1, <2>2, <2>3
<1>6. CASE Return(c)
  BY <1>6 DEF Return, ReturnUp, MovesUp, TypeOK
<1> QED
  BY <1>2, <1>4, <1>5, <1>6, SameSteps

\* The node a search is at is none it has still to enter.
LEMMA NotPendingItself ==
  ASSUME TypeOK, NEW c \in Caller, SoundFor(c), stage[c] \in {"exact", "wild", "ret"}
  PROVE  ~Pending(c, at[c])
<1> DEFINE p == at[c]
<1>1. p \in Path
  BY SearchTypes
<1>2. ~SpelledOutFirst(p, p)
  BY <1>1, NotBeforeItself
<1>3. \A s \in Segment \cup {Star} : ~Below(p, Append(p, s))
  <2>1. ASSUME NEW s \in Segment \cup {Star}, Below(p, Append(p, s)) PROVE FALSE
    <3>1. Len(p) > Len(p)
      BY <1>1, <2>1, BelowChild
    <3> QED
      BY <1>1, <3>1 DEF Path
  <2> QED
    BY <2>1
<1>4. stage[c] = "exact" => NextSegment(c) \in Segment
  BY DEF SoundFor, Searching, HasNextSegment, NextSegment
<1> QED
  BY <1>2, <1>3, <1>4 DEF Pending

\* What is ahead of a search, without the set around it.
IsAhead(c, n, s) ==
  \/ n = at[c] /\ s \in After(stage[c])
  \/ n # at[c] /\ Below(at[c], n) /\ s \in AfterBranch(at[c][Len(n) + 1])
  \/ n # at[c] /\ Pending(c, n)

LEMMA AheadIs ==
  ASSUME NEW c \in Caller
  PROVE  /\ Ahead(c) \subseteq nodes \X Place
         /\ \A n \in nodes, s \in Place : <<n, s>> \in Ahead(c) <=> IsAhead(c, n, s)
         /\ Ahead(c)' \subseteq nodes' \X Place
         /\ \A n \in nodes', s \in Place : <<n, s>> \in Ahead(c)' <=> IsAhead(c, n, s)'
BY DEF Ahead, IsAhead

\* A path above a child is the child, its parent, or above that.
LEMMA AboveChild ==
  ASSUME NEW p \in Path, NEW n \in Path, NEW s \in Segment \cup {Star},
         Below(Append(p, s), n), n # Append(p, s)
  PROVE  Below(p, n) /\ Append(p, s)[Len(n) + 1] = (IF n = p THEN s ELSE p[Len(n) + 1])
<1>1. /\ Append(p, s) \in Path /\ Len(Append(p, s)) = Len(p) + 1
      /\ \A i \in 1..Len(p) : Append(p, s)[i] = p[i]
      /\ Append(p, s)[Len(p) + 1] = s
  BY ChildPath
<1>2. Len(p) \in Nat /\ Len(n) \in Nat
  BY DEF Path
<1>3. Len(n) <= Len(p) + 1
  BY <1>1 DEF Below
<1>4. Len(n) # Len(p) + 1
  BY <1>1, SameLengthBelow
<1>5. Len(n) <= Len(p)
  BY <1>2, <1>3, <1>4
<1>6. Below(p, n)
  BY <1>1, <1>2, <1>5 DEF Below
<1>7. CASE n = p
  BY <1>1, <1>6, <1>7
<1>8. CASE n # p
  <2>1. Len(n) # Len(p)
    BY <1>6, <1>8, SameLengthBelow
  <2>2. Len(n) + 1 \in 1..Len(p)
    BY <1>2, <1>5, <2>1
  <2> QED
    BY <1>1, <1>6, <1>8, <2>2
<1> QED
  BY <1>7, <1>8

\* A step comes to a place that was ahead ...
LEMMA ComesToWhatIsAhead ==
  ASSUME TypeOK, NEW c \in Caller, SoundFor(c), Search(c), ~Finish(c)
  PROVE  IsAhead(c, at'[c], stage'[c])
<1> DEFINE p == at[c]
<1>1. p \in Path
  BY SearchTypes
<1>2. CASE MovesOn(c)
  BY <1>2 DEF MovesOn, IsAhead
<1>3. ASSUME NEW s \in Segment \cup {Star}, MovesDown(c, s)
      PROVE  IsAhead(c, at'[c], stage'[c])
  <2>1. Append(p, s) # p
    <3>1. Len(Append(p, s)) = Len(p) + 1 /\ Len(p) \in Nat
      BY <1>1, ChildPath DEF Path
    <3> QED
      BY <3>1
  <2> QED
    BY <1>3, <2>1 DEF MovesDown, IsAhead
<1>4. CASE MovesUp(c)
  <2>1. p # <<>> /\ at'[c] = Front(p) /\ stage'[c] = ResumeAfter(p)
    BY <1>4 DEF MovesUp
  <2>2. /\ Front(p) \in Path /\ Len(Front(p)) = Len(p) - 1 /\ Len(p) \in Nat \ {0}
        /\ \A i \in 1..(Len(p) - 1) : Front(p)[i] = p[i]
        /\ Last(p) = p[Len(p)]
    BY <1>1, <2>1, FrontLast
  <2>3. Below(p, Front(p)) /\ Front(p) # p /\ p[Len(Front(p)) + 1] = Last(p)
    BY <2>2 DEF Below
  <2>4. ResumeAfter(p) \in AfterBranch(Last(p))
    BY DEF ResumeAfter, AfterBranch
  <2> QED
    BY <2>1, <2>3, <2>4 DEF IsAhead
<1> QED
  BY <1>2, <1>3, <1>4, EveryMove

\* ... and what is ahead after it was ahead before.
LEMMA AheadShrinks ==
  ASSUME TypeOK, NEW c \in Caller, SoundFor(c), Search(c), ~Finish(c),
         NEW n \in nodes, NEW s \in Place, IsAhead(c, n, s)'
  PROVE  IsAhead(c, n, s)
<1> DEFINE p == at[c]
<1>1. p \in Path /\ n \in Path /\ stage[c] \in Stage
  BY SearchTypes DEF TypeOK, Path
<1>2. CASE n # at'[c] /\ Pending(c, n)'
  <2>1. Pending(c, n)
    BY <1>1, <1>2, PendingShrinks
  <2>2. n # p
    <3> SUFFICES ASSUME n = p PROVE FALSE
      OBVIOUS
    <3>1. ~MovesOn(c)
      BY <1>2 DEF MovesOn
    <3>2. stage[c] \in {"exact", "wild", "ret"}
      BY <3>1, EveryMove DEF MovesDown, MovesUp
    <3> QED
      BY <2>1, <3>2, NotPendingItself
  <2> QED
    BY <2>1, <2>2 DEF IsAhead
<1>3. CASE ~(n # at'[c] /\ Pending(c, n)')
  <2>1. \/ n = at'[c] /\ s \in After(stage'[c])
        \/ /\ n # at'[c] /\ Below(at'[c], n)
           /\ s \in AfterBranch(at'[c][Len(n) + 1])
    BY <1>3 DEF IsAhead
  <2>2. CASE MovesOn(c)
    <3>1. at'[c] = p /\ After(stage'[c]) \subseteq After(stage[c])
      BY <2>2 DEF MovesOn, After
    <3> QED
      BY <2>1, <3>1 DEF IsAhead
  <2>3. ASSUME NEW sg \in Segment \cup {Star}, MovesDown(c, sg)
        PROVE  IsAhead(c, n, s)
    <3>1. at'[c] = Append(p, sg) /\ AfterBranch(sg) = After(stage[c])
      BY <2>3 DEF MovesDown
    <3>2. CASE n = Append(p, sg)
      <4>1. Len(n) = Len(p) + 1 /\ Len(p) \in Nat
        BY <1>1, <3>2, ChildPath DEF Path
      <4>2. n # p
        BY <4>1
      <4> QED
        BY <2>3, <3>2, <4>2 DEF MovesDown, IsAhead
    <3>3. CASE n # Append(p, sg)
      <4>1. Below(Append(p, sg), n) /\ s \in AfterBranch(Append(p, sg)[Len(n) + 1])
        BY <2>1, <3>1, <3>3
      <4>2. Below(p, n) /\ Append(p, sg)[Len(n) + 1] = (IF n = p THEN sg ELSE p[Len(n) + 1])
        BY <1>1, <3>3, <4>1, AboveChild
      <4> QED
        BY <3>1, <4>1, <4>2 DEF IsAhead
    <3> QED
      BY <3>2, <3>3
  <2>4. CASE MovesUp(c)
    <3>1. p # <<>> /\ at'[c] = Front(p) /\ stage'[c] = ResumeAfter(p)
      BY <2>4 DEF MovesUp
    <3>2. /\ Front(p) \in Path /\ Len(Front(p)) = Len(p) - 1 /\ Len(p) \in Nat \ {0}
          /\ \A i \in 1..(Len(p) - 1) : Front(p)[i] = p[i]
          /\ Last(p) = p[Len(p)]
      BY <1>1, <3>1, FrontLast
    <3>3. Len(n) \in Nat
      BY <1>1 DEF Path
    <3>4. CASE n = Front(p)
      <4>1. Below(p, n) /\ n # p /\ p[Len(n) + 1] = Last(p)
        BY <3>2, <3>4 DEF Below
      <4>2. After(ResumeAfter(p)) \subseteq AfterBranch(Last(p))
        BY DEF After, ResumeAfter, AfterBranch
      <4> QED
        BY <2>1, <3>1, <3>4, <4>1, <4>2 DEF IsAhead
    <3>5. CASE n # Front(p)
      <4>1. Below(Front(p), n) /\ s \in AfterBranch(Front(p)[Len(n) + 1])
        BY <2>1, <3>1, <3>5
      <4>2. Len(n) # Len(p) - 1
        BY <1>1, <3>2, <3>5, <4>1, SameLengthBelow
      <4>3. Len(n) <= Len(p) - 1
        BY <3>2, <4>1 DEF Below
      <4>4. Len(n) + 1 \in 1..(Len(p) - 1)
        BY <3>2, <3>3, <4>2, <4>3
      <4>5. p[Len(n) + 1] = Front(p)[Len(n) + 1] /\ n # p
        BY <3>2, <3>3, <4>3, <4>4
      <4>6. Below(p, n)
        <5>1. \A i \in 1..Len(n) : Front(p)[i] = n[i] /\ i \in 1..(Len(p) - 1)
          BY <3>2, <3>3, <4>1, <4>3 DEF Below
        <5>2. Len(n) <= Len(p)
          BY <3>2, <3>3, <4>3
        <5> QED
          BY <3>2, <5>1, <5>2 DEF Below
      <4> QED
        BY <4>1, <4>5, <4>6 DEF IsAhead
    <3> QED
      BY <3>4, <3>5
  <2> QED
    BY <2>2, <2>3, <2>4, EveryMove
<1> QED
  BY <1>2, <1>3

\* A place a search has come to is no longer ahead of it.
LEMMA HereIsNotAhead ==
  ASSUME TypeOK', NEW c \in Caller
  PROVE  ~IsAhead(c, at[c], stage[c])'
<1>1. stage'[c] \notin After(stage'[c])
  BY DEF After
<1> QED
  BY <1>1 DEF IsAhead

LEMMA StepMovesOn ==
  ASSUME TypeOK, TypeOK', NEW c \in Caller, SoundFor(c), Search(c), stage'[c] # "done"
  PROVE  /\ <<at'[c], stage'[c]>> \in Ahead(c)
         /\ Ahead(c)' \subseteq Ahead(c) \ {<<at'[c], stage'[c]>>}
<1>1. ~Finish(c)
  BY DEF Finish, ReturnOut, TypeOK
<1>2. nodes' = nodes /\ at'[c] \in nodes
  BY SearchKeepsTrie DEF TypeOK
<1>3. stage'[c] \in Place
  <2>1. \A t : After(t) \subseteq Place
    BY DEF After, Place
  <2>2. \A q \in Path : ResumeAfter(q) \in Place
    BY DEF ResumeAfter, Place
  <2>3. "enter" \in Place /\ at[c] \in Path
    BY SearchTypes DEF Place
  <2> QED
    BY <1>1, <2>1, <2>2, <2>3, EveryMove DEF MovesOn, MovesDown, MovesUp
<1>4. <<at'[c], stage'[c]>> \in Ahead(c)
  BY <1>1, <1>2, <1>3, ComesToWhatIsAhead, AheadIs
<1>5. ASSUME NEW x \in Ahead(c)'
      PROVE  x \in Ahead(c) /\ x # <<at'[c], stage'[c]>>
  <2>1. PICK n \in nodes, s \in Place : x = <<n, s>>
    BY <1>2, <1>5, AheadIs
  <2>2. IsAhead(c, n, s)'
    BY <1>2, <1>5, <2>1, AheadIs
  <2>3. IsAhead(c, n, s)
    BY <1>1, <2>2, AheadShrinks
  <2>4. ~(n = at'[c] /\ s = stage'[c])
    BY <2>2, HereIsNotAhead
  <2> QED
    BY <2>1, <2>3, <2>4, AheadIs
<1> QED
  BY <1>4, <1>5

\* No search goes back to where it has been, over any trie and whatever other
\* callers do (trie.go:118-164, 187-225).
THEOREM SearchesMoveOn == Spec => SearchMovesOn
<1>1. Spec => []Inv
  BY InvInit, InvNext, PTL DEF Spec
<1>2. Inv /\ Inv' /\ [Next]_vars =>
        [\A c \in Caller : Search(c) =>
           \/ stage'[c] = "done"
           \/ /\ <<at'[c], stage'[c]>> \in Ahead(c)
              /\ Ahead(c)' \subseteq Ahead(c) \ {<<at'[c], stage'[c]>>}]_vars
  BY StepMovesOn DEF Inv, SearchFor
<1> QED
  BY <1>1, <1>2, PTL DEF Spec, SearchMovesOn

\* A trie has finitely many nodes: an insert adds those on one path.
LEMMA PathIsFinite ==
  ASSUME NEW p \in Path
  PROVE  IsFiniteSet(Prefixes(p))
<1> DEFINE f == [l \in 0..Len(p) |-> SubSeq(p, 1, l)]
<1>1. IsFiniteSet(0..Len(p))
  BY FS_Interval DEF Path
<1>2. f \in Surjection(0..Len(p), Prefixes(p))
  <2>1. f \in [0..Len(p) -> Prefixes(p)]
    BY DEF Prefixes
  <2>2. \A q \in Prefixes(p) : \E l \in 0..Len(p) : f[l] = q
    BY DEF Prefixes
  <2> HIDE DEF f
  <2> QED
    BY <2>1, <2>2 DEF Surjection
<1> HIDE DEF f
<1> QED
  BY <1>1, <1>2, FS_Surjection

LEMMA NodesFinite == Spec => []IsFiniteSet(nodes)
<1>1. Init => IsFiniteSet(nodes)
  <2>1. \A x : IsFiniteSet({x})
    BY FS_Singleton
  <2>2. Init => nodes = {<<>>}
    BY DEF Init
  <2> QED
    BY ONLY <2>1, <2>2
<1>2. IsFiniteSet(nodes) /\ [Next]_vars => IsFiniteSet(nodes)'
  <2> SUFFICES ASSUME IsFiniteSet(nodes), [Next]_vars PROVE IsFiniteSet(nodes')
    OBVIOUS
  <2>1. ASSUME NEW p \in Prefix, NEW v \in Value, Insert(p, v)
        PROVE  IsFiniteSet(nodes')
    <3>1. p \in Path
      BY <2>1, AcceptedPath DEF Insert, Accepts
    <3>2. nodes' = nodes \cup Prefixes(p)
      BY <2>1 DEF Insert, PathTo
    <3> QED
      BY <3>1, <3>2, PathIsFinite, FS_Union
  <2>2. ASSUME nodes' = nodes PROVE IsFiniteSet(nodes')
    BY <2>2
  <2>3. ASSUME NEW c \in Caller, Search(c) PROVE nodes' = nodes
    BY <2>3, SearchKeepsTrie
  <2> QED
    BY <2>1, <2>2, <2>3 DEF Next, InsertInvalid, Publish, Call, trieVars, vars
<1> QED
  BY <1>1, <1>2, PTL DEF Spec

\* How many places a search has still to come to.
StepsLeft(c) == Cardinality(Ahead(c))

LEMMA StepsLeftBound ==
  ASSUME IsFiniteSet(nodes), NEW c \in Caller
  PROVE  /\ IsFiniteSet(Ahead(c))
         /\ StepsLeft(c) \in Nat
         /\ StepsLeft(c) <= 4 * Cardinality(nodes)
<1>1. IsFiniteSet(Place) /\ Cardinality(Place) = 4
  <2>1. IsFiniteSet({"enter", "exact", "wild"}) /\ Cardinality({"enter", "exact", "wild"}) = 3
    <3>1. IsFiniteSet({"enter", "exact"}) /\ Cardinality({"enter", "exact"}) = 2
      <4>1. {"enter", "exact"} = {"enter"} \cup {"exact"}
        OBVIOUS
      <4>2. IsFiniteSet({"enter"}) /\ Cardinality({"enter"}) = 1
        BY FS_Singleton
      <4>3. \A S : IsFiniteSet(S) /\ Cardinality(S) = 1 /\ "exact" \notin S
                  => /\ IsFiniteSet(S \cup {"exact"})
                     /\ Cardinality(S \cup {"exact"}) = 2
        BY FS_AddElement
      <4>4. "exact" \notin {"enter"}
        OBVIOUS
      <4> QED
        BY <4>1, <4>2, <4>3, <4>4
    <3>2. /\ {"enter", "exact", "wild"} = {"enter", "exact"} \cup {"wild"}
          /\ "wild" \notin {"enter", "exact"}
      OBVIOUS
    <3>3. \A S : IsFiniteSet(S) /\ Cardinality(S) = 2 /\ "wild" \notin S
                => /\ IsFiniteSet(S \cup {"wild"})
                   /\ Cardinality(S \cup {"wild"}) = 3
      BY FS_AddElement
    <3> QED
      BY ONLY <3>1, <3>2, <3>3, Zenon
  <2>2. /\ Place = {"enter", "exact", "wild"} \cup {"ret"}
        /\ "ret" \notin {"enter", "exact", "wild"}
    BY DEF Place
  <2>3. \A S : IsFiniteSet(S) /\ Cardinality(S) = 3 /\ "ret" \notin S
              => /\ IsFiniteSet(S \cup {"ret"})
                 /\ Cardinality(S \cup {"ret"}) = 4
    BY FS_AddElement
  <2> QED
    BY ONLY <2>1, <2>2, <2>3, Zenon
<1>2. IsFiniteSet(nodes \X Place) /\ Cardinality(nodes \X Place) = Cardinality(nodes) * 4
  BY <1>1, FS_Product
<1>3. Ahead(c) \subseteq nodes \X Place
  BY AheadIs
<1>4. Cardinality(nodes) \in Nat
  BY FS_CardinalityType
<1>5. IsFiniteSet(Ahead(c)) /\ Cardinality(Ahead(c)) <= Cardinality(nodes) * 4
  BY <1>2, <1>3, FS_Subset
<1> QED
  BY <1>4, <1>5, FS_CardinalityType DEF StepsLeft

\* Every step of a lookup but the last leaves fewer steps to take, and there
\* are never more than four for each node of the trie: with a goroutine that
\* goes on running, this is why a lookup returns (trie.go:118-164, 187-225).
THEOREM StepsRunOut ==
  Spec => /\ [](\A c \in Caller : /\ StepsLeft(c) \in Nat
                                  /\ StepsLeft(c) <= 4 * Cardinality(nodes))
          /\ [][\A c \in Caller :
                  Search(c) => stage'[c] = "done" \/ StepsLeft(c)' < StepsLeft(c)]_vars
<1>1. Spec => []IsFiniteSet(nodes) /\ []Inv
  BY NodesFinite, InvInit, InvNext, PTL DEF Spec
<1>2. IsFiniteSet(nodes) =>
        \A c \in Caller : /\ StepsLeft(c) \in Nat
                          /\ StepsLeft(c) <= 4 * Cardinality(nodes)
  BY StepsLeftBound
<1>3. IsFiniteSet(nodes) /\ Inv /\ Inv' /\ [Next]_vars =>
        [\A c \in Caller :
           Search(c) => stage'[c] = "done" \/ StepsLeft(c)' < StepsLeft(c)]_vars
  <2> SUFFICES ASSUME IsFiniteSet(nodes), Inv, Inv', NEW c \in Caller, Search(c),
                      stage'[c] # "done"
               PROVE  StepsLeft(c)' < StepsLeft(c)
    OBVIOUS
  <2> DEFINE here == <<at'[c], stage'[c]>>
             A == Ahead(c)
             B == Ahead(c)'
  <2>1. here \in A /\ B \subseteq A \ {here}
    BY StepMovesOn DEF Inv, SearchFor
  <2>2. IsFiniteSet(A) /\ StepsLeft(c) = Cardinality(A) /\ StepsLeft(c)' = Cardinality(B)
    BY StepsLeftBound DEF StepsLeft
  <2> HIDE DEF A, B, here
  <2>3. B \subseteq A /\ B # A
    BY <2>1
  <2>4. IsFiniteSet(B) /\ Cardinality(B) <= Cardinality(A) /\ Cardinality(A) # Cardinality(B)
    BY <2>2, <2>3, FS_Subset
  <2>5. Cardinality(A) \in Nat /\ Cardinality(B) \in Nat
    BY <2>2, <2>4, FS_CardinalityType
  <2> QED
    BY <2>2, <2>4, <2>5
<1> QED
  BY <1>1, <1>2, <1>3, PTL DEF Spec
=============================================================================
