----------------------------- MODULE SegmentTrie -----------------------------
(***************************************************************************)
(* mapper/internal/segmenttrie: the trie itself, and every lookup as the   *)
(* depth-first search the code runs, one recursion step at a time.         *)
(*                                                                         *)
(* A node is named by the path that leads to it from the root, so the      *)
(* children of node n are the nodes Append(n, s).  `rule' holds the nodes  *)
(* with hasVal set, with their val and pattern.                            *)
(*                                                                         *)
(* A search holds its position `at' (whose length is `depth', and which    *)
(* fixes the offset into the reason), where it is in the body of dfs, and  *)
(* the best rule so far.  The recursion stack needs no variable: a call    *)
(* returns to the parent of `at', after the exact branch when the last     *)
(* segment of `at' is a literal, at the end of the body when it is "*".    *)
(***************************************************************************)
EXTENDS Segments, FiniteSets, SequencesExt

CONSTANTS
  Prefix, Value, Zero, Reason, Caller,   \* as in LongestPrefixMatch
  MaxRules                               \* bound: rules one trie may hold

ASSUME InputAssumption ==
  /\ Prefix \subseteq Seq(Segment \cup {Star, Malformed})
  /\ Reason \subseteq Seq(Segment \cup {Malformed})

VARIABLES
  nodes,      \* paths of the nodes that exist; <<>> is the root
  rule,       \* nodes with hasVal: their val and pattern
  latest,     \* the Insert mapper.New called last, until it returns
  published,  \* mapper.New has returned the mapper that holds the trie
  stage,      \* per caller: where its search is in the body of dfs
  op,         \* per caller: Match or MatchWithPattern
  reason,     \* per caller: the reason it looks up
  at,         \* per caller: the node dfs is at
  best,       \* per caller: bestDepth, bestVal, bestPat
  answer      \* per caller: what its last lookup returned

trieVars == <<nodes, rule, latest, published>>
searchVars == <<stage, op, reason, at, best, answer>>
vars == <<nodes, rule, latest, published,
          stage, op, reason, at, best, answer>>

Op == {"Match", "MatchWithPattern"}
Stage == {"idle", "enter", "exact", "wild", "ret", "done"}
NoInsert == [prefix |-> <<>>, val |-> Zero, err |-> "none"]
NoMatch == [ok |-> FALSE, val |-> Zero, pattern |-> <<>>]
NoBest == [depth |-> -1, val |-> Zero, pattern |-> <<>>]

Init ==
  /\ nodes = {<<>>}
  /\ rule = [p \in {} |-> [val |-> Zero, pattern |-> <<>>]]
  /\ latest = NoInsert
  /\ published = FALSE
  /\ stage = [c \in Caller |-> "idle"]
  /\ op = [c \in Caller |-> "Match"]
  /\ reason = [c \in Caller |-> <<>>]
  /\ at = [c \in Caller |-> <<>>]
  /\ best = [c \in Caller |-> NoBest]
  /\ answer = [c \in Caller |-> NoMatch]

-----------------------------------------------------------------------------
(* Building the trie.                                                      *)

\* Mutant: the check that a prefix is not only "*" is dropped.
AcceptsOnlyStars(p) ==
  p # <<>> /\ \A i \in 1..Len(p) : ValidSegment(p[i])

\* The prefix is checked before the first node is created.
Accepts(p) == ValidPrefix(p)

\* The nodes the walk down from the root creates or passes.
PathTo(p) == Prefixes(p)

\* Mutant: the first rule for a prefix wins over a later one.
LabelledFirstWins(p, v) ==
  [q \in DOMAIN rule \cup {p} |->
     IF q \in DOMAIN rule THEN rule[q] ELSE [val |-> v, pattern |-> p]]

\* The node at p after the insert: val is replaced, pattern is set once.
Labelled(p, v) ==
  [q \in DOMAIN rule \cup {p} |->
     IF q # p THEN rule[q]
     ELSE [val |-> v,
           pattern |-> IF p \in DOMAIN rule THEN rule[p].pattern ELSE p]]

Insert(p, v) ==
  /\ ~published
  /\ Accepts(p)
  /\ Cardinality(DOMAIN rule \cup {p}) <= MaxRules
  /\ nodes' = nodes \cup PathTo(p)
  /\ rule' = Labelled(p, v)
  /\ latest' = [prefix |-> p, val |-> v, err |-> "nil"]
  /\ UNCHANGED <<published, stage, op, reason, at, best, answer>>

\* Mutant: segments are checked while the nodes are being created.
InsertInvalidHalfway(p, v) ==
  /\ ~published
  /\ ~Accepts(p)
  /\ nodes' = nodes \cup {n \in Prefixes(p) : \A i \in 1..Len(n) : ValidSegment(n[i])}
  /\ latest' = [prefix |-> p, val |-> v, err |-> "ErrInvalidPrefix"]
  /\ UNCHANGED <<rule, published, stage, op, reason, at, best, answer>>

InsertInvalid(p, v) ==
  /\ ~published
  /\ ~Accepts(p)
  /\ latest' = [prefix |-> p, val |-> v, err |-> "ErrInvalidPrefix"]
  /\ UNCHANGED <<nodes, rule, published, stage, op, reason, at, best, answer>>

\* mapper.New stores the finished trie in the mapper it returns: from here
\* on no code path inserts, and callers may look reasons up.
Publish ==
  /\ ~published
  /\ published' = TRUE
  /\ latest' = NoInsert
  /\ UNCHANGED <<nodes, rule, stage, op, reason, at, best, answer>>

-----------------------------------------------------------------------------
(* Looking a reason up.  Match and MatchWithPattern hold a copy each of the *)
(* search dfs; what the copies share is only how a Go function calls,      *)
(* returns and reads a map.                                                *)

Call(c, o, r) ==
  /\ published
  /\ stage[c] \in {"idle", "done"}
  /\ stage' = [stage EXCEPT ![c] = "enter"]
  /\ op' = [op EXCEPT ![c] = o]
  /\ reason' = [reason EXCEPT ![c] = r]
  /\ at' = [at EXCEPT ![c] = <<>>]
  /\ best' = [best EXCEPT ![c] = NoBest]
  /\ answer' = [answer EXCEPT ![c] = NoMatch]
  /\ UNCHANGED trieVars

\* The text between two dots dfs looks at next.
NextSegment(c) == reason[c][Len(at[c]) + 1]

\* Call dfs for child s of the current node, or go on at stage `otherwise'.
Branch(c, s, otherwise) ==
  LET child == Append(at[c], s) IN
  /\ \/ /\ child \in nodes
        /\ at' = [at EXCEPT ![c] = child]
        /\ stage' = [stage EXCEPT ![c] = "enter"]
     \/ /\ child \notin nodes
        /\ stage' = [stage EXCEPT ![c] = otherwise]
        /\ UNCHANGED at
  /\ UNCHANGED <<nodes, rule, latest, published, op, reason, best, answer>>

\* A recursive call of dfs returns to the call for the parent node, which
\* goes on at stage `resume'.
ReturnUp(c, resume) ==
  /\ stage[c] = "ret"
  /\ at[c] # <<>>
  /\ at' = [at EXCEPT ![c] = Front(at[c])]
  /\ stage' = [stage EXCEPT ![c] = resume]
  /\ UNCHANGED <<nodes, rule, latest, published, op, reason, best, answer>>

\* The outermost call of dfs returns, and with it the lookup, with `result'.
ReturnOut(c, result) ==
  /\ stage[c] = "ret"
  /\ at[c] = <<>>
  /\ stage' = [stage EXCEPT ![c] = "done"]
  /\ best' = [best EXCEPT ![c] = NoBest]
  /\ answer' = [answer EXCEPT ![c] = result]
  /\ UNCHANGED <<nodes, rule, latest, published, op, reason, at>>

\* Mutants, of either copy: the next segment is not checked; the first rule
\* found is kept; "*" is an alternative to the exact branch; the exact branch
\* is taken again.
HasNextUnchecked(c) == Len(at[c]) < Len(reason[c])
FirstFound(c) == best[c].depth < 0
ResumeAtEnd(p) == "ret"
ResumeAtExact(p) == IF Last(p) = Star THEN "ret" ELSE "exact"

-----------------------------------------------------------------------------
(* The search of Match.                                                    *)

\* There is a segment to parse and it is well-formed.
MatchHasNext(c) == Len(at[c]) < Len(reason[c]) /\ NextSegment(c) \in Segment

\* Only a strictly deeper node replaces the best one.
MatchDeeper(c) == Len(at[c]) > best[c].depth

\* The first half of dfs: weigh the node, then parse the next segment; the
\* end of the reason and a malformed segment both return at once.  Match has
\* no bestPat: here `pattern' is a history variable, which rule it found.
MatchEnter(c) ==
  /\ stage[c] = "enter"
  /\ best' = IF at[c] \in DOMAIN rule /\ MatchDeeper(c)
             THEN [best EXCEPT ![c] = [depth |-> Len(at[c]),
                                       val |-> rule[at[c]].val,
                                       pattern |-> at[c]]]
             ELSE best
  /\ stage' = [stage EXCEPT ![c] = IF MatchHasNext(c) THEN "exact" ELSE "ret"]
  /\ UNCHANGED <<nodes, rule, latest, published, op, reason, at, answer>>

MatchExact(c) == stage[c] = "exact" /\ Branch(c, NextSegment(c), "wild")

MatchWildcard(c) == stage[c] = "wild" /\ Branch(c, Star, "ret")

\* Where dfs goes on when its call for node p returns.
MatchResume(p) == IF Last(p) = Star THEN "ret" ELSE "wild"

MatchReturn(c) == ReturnUp(c, MatchResume(at[c]))

MatchResult(b) ==
  IF b.depth < 0 THEN NoMatch
  ELSE [ok |-> TRUE, val |-> b.val, pattern |-> <<>>]

MatchFinish(c) == ReturnOut(c, MatchResult(best[c]))

MatchSearch(c) ==
  /\ op[c] = "Match"
  /\ \/ MatchEnter(c)
     \/ MatchExact(c)
     \/ MatchWildcard(c)
     \/ MatchReturn(c)
     \/ MatchFinish(c)

-----------------------------------------------------------------------------
(* The search of MatchWithPattern.                                         *)

PatternHasNext(c) == Len(at[c]) < Len(reason[c]) /\ NextSegment(c) \in Segment

PatternDeeper(c) == Len(at[c]) > best[c].depth

PatternEnter(c) ==
  /\ stage[c] = "enter"
  /\ best' = IF at[c] \in DOMAIN rule /\ PatternDeeper(c)
             THEN [best EXCEPT ![c] = [depth |-> Len(at[c]),
                                       val |-> rule[at[c]].val,
                                       pattern |-> rule[at[c]].pattern]]
             ELSE best
  /\ stage' = [stage EXCEPT ![c] = IF PatternHasNext(c) THEN "exact" ELSE "ret"]
  /\ UNCHANGED <<nodes, rule, latest, published, op, reason, at, answer>>

PatternExact(c) == stage[c] = "exact" /\ Branch(c, NextSegment(c), "wild")

PatternWildcard(c) == stage[c] = "wild" /\ Branch(c, Star, "ret")

PatternResume(p) == IF Last(p) = Star THEN "ret" ELSE "wild"

PatternReturn(c) == ReturnUp(c, PatternResume(at[c]))

PatternResult(b) ==
  IF b.depth < 0 THEN NoMatch
  ELSE [ok |-> TRUE, val |-> b.val, pattern |-> b.pattern]

PatternFinish(c) == ReturnOut(c, PatternResult(best[c]))

PatternSearch(c) ==
  /\ op[c] = "MatchWithPattern"
  /\ \/ PatternEnter(c)
     \/ PatternExact(c)
     \/ PatternWildcard(c)
     \/ PatternReturn(c)
     \/ PatternFinish(c)

-----------------------------------------------------------------------------
Search(c) == MatchSearch(c) \/ PatternSearch(c)

Next ==
  \/ \E p \in Prefix, v \in Value : Insert(p, v)
  \/ \E p \in Prefix, v \in Value : InsertInvalid(p, v)
  \/ Publish
  \/ \E c \in Caller, o \in Op, r \in Reason : Call(c, o, r)
  \/ \E c \in Caller : Search(c)

Spec == Init /\ [][Next]_vars

\* A goroutine that is in a lookup goes on running.
FairSpec == Spec /\ \A c \in Caller : WF_vars(Search(c))

-----------------------------------------------------------------------------
(* Properties.                                                             *)

Searching(c) == stage[c] \in {"enter", "exact", "wild", "ret"}

\* Types; in particular only accepted prefixes carry a value, and each rule's
\* pattern is its own prefix.
TypeOK ==
  /\ nodes \subseteq Seq(Segment \cup {Star})
  /\ DOMAIN rule \subseteq {p \in Prefix : ValidPrefix(p)}
  /\ \A p \in DOMAIN rule :
       rule[p] \in [val : Value, pattern : {p}]
  /\ latest \in [prefix : Prefix \cup {<<>>}, val : Value \cup {Zero},
                err : {"none", "nil", "ErrInvalidPrefix"}]
  /\ published \in BOOLEAN
  /\ stage \in [Caller -> Stage]
  /\ op \in [Caller -> Op]
  /\ reason \in [Caller -> Reason \cup {<<>>}]
  /\ at \in [Caller -> nodes]
  /\ best \in [Caller -> [depth : Nat \cup {-1}, val : Value \cup {Zero},
                         pattern : DOMAIN rule \cup {<<>>}]]
  /\ answer \in [Caller -> [ok : BOOLEAN, val : Value \cup {Zero},
                           pattern : DOMAIN rule \cup {<<>>}]]

\* Every node lies on the way to a rule, and every node on the way to a rule
\* exists: a rejected prefix ("a.BAD") leaves no half-built path behind, and
\* no rule is cut off from the root (Insert, trie.go:62-99).
TrieShape ==
  /\ <<>> \in nodes
  /\ \A n \in nodes : n = <<>> \/ \E p \in DOMAIN rule : Below(p, n)
  /\ \A p \in DOMAIN rule : Prefixes(p) \subseteq nodes

\* A well-formed segment follows the part of the reason the node covers.
HasNextSegment(c) == Len(at[c]) < Len(reason[c]) /\ NextSegment(c) \in Segment

\* dfs only ever stands on nodes that cover the reason read so far, so no "*"
\* of a rule swallows a malformed segment; and the best rule it carries is a
\* rule of the trie that covers the reason, with its own value and depth
\* (trie.go:118-164, 187-225).
SearchSound ==
  \A c \in Caller : Searching(c) =>
    /\ Matches(at[c], reason[c])
    /\ stage[c] \in {"exact", "wild"} => HasNextSegment(c)
    /\ best[c] # NoBest =>
         /\ best[c].pattern \in DOMAIN rule
         /\ Matches(best[c].pattern, reason[c])
         /\ best[c].depth = Len(best[c].pattern)
         /\ best[c].val = rule[best[c].pattern].val

\* Rule q lies in the part of the trie the search has still to enter: below
\* the current node, or below a "*" branch of a node on the recursion stack
\* whose exact branch the search is in.
Pending(c, q) ==
  \/ stage[c] = "enter" /\ Below(q, at[c])
  \/ /\ stage[c] = "exact"
     /\ \/ Below(q, Append(at[c], NextSegment(c)))
        \/ Below(q, Append(at[c], Star))
  \/ stage[c] = "wild" /\ Below(q, Append(at[c], Star))
  \/ SpelledOutFirst(at[c], q)

\* The search loses no rule: one that covers the reason is still ahead of it,
\* or is the best one so far, or is beaten by that one.  In particular a
\* dead end under the exact branch never hides the "*" branch beside it.
SearchComplete ==
  \A c \in Caller : Searching(c) =>
    \A q \in DOMAIN rule : Matches(q, reason[c]) =>
      \/ Pending(c, q)
      \/ /\ best[c] # NoBest
         /\ best[c].pattern = q \/ Beats(best[c].pattern, q)

\* What makes "strictly deeper replaces" enough to break ties: a rule still
\* ahead that is as long as the best one loses to it, because the search
\* takes exact branches first (trie.go:119, 188 with 147-163, 219-224).
SearchOrder ==
  \A c \in Caller : Searching(c) /\ best[c] # NoBest =>
    \A q \in DOMAIN rule :
      Matches(q, reason[c]) /\ Pending(c, q) /\ Len(q) = best[c].depth
        => SpelledOutFirst(best[c].pattern, q)

\* The trie and its step-by-step searches behave as the rule dictionary that
\* answers in one step: for every set of rules, insertion order and
\* interleaving of lookups the answer is the deciding rule's.
Phase(s) == CASE s = "idle" -> "idle" [] s = "done" -> "answered"
              [] OTHER -> "asked"
LPM == INSTANCE LongestPrefixMatch WITH
         rules <- [p \in DOMAIN rule |-> rule[p].val],
         phase <- [c \in Caller |-> Phase(stage[c])]
ImplementsLPM == LPM!Spec

\* The two copies of the search agree: whichever of Match (behind HTTPStatus
\* and GRPCStatus) and MatchWithPattern (behind Explain) two callers run for
\* one reason, at the same place of the trie both carry the same best rule,
\* and at the end both answer alike (trie.go:118-171 against 187-231).
LookupsAgree ==
  \A c, d \in Caller : reason[c] = reason[d] =>
    /\ Searching(c) /\ Searching(d) /\ at[c] = at[d] /\ stage[c] = stage[d]
         => best[c] = best[d]
    /\ stage[c] = "done" /\ stage[d] = "done"
         => answer[c].ok = answer[d].ok /\ answer[c].val = answer[d].val

\* What the search has still to come to, as pairs of a node and a place in the
\* body of dfs: the rest of the call it is in, the rest of the calls on the
\* recursion stack, and all of every call for a node it has still to enter.
Place == {"enter", "exact", "wild", "ret"}
After(s) == CASE s = "enter" -> {"exact", "wild", "ret"}
              [] s = "exact" -> {"wild", "ret"}
              [] s = "wild" -> {"ret"}
              [] OTHER -> {}
AfterBranch(s) == IF s = Star THEN {"ret"} ELSE {"wild", "ret"}

Ahead(c) ==
  {x \in nodes \X Place :
     LET n == x[1] IN
     \/ n = at[c] /\ x[2] \in After(stage[c])
     \/ /\ n # at[c] /\ Below(at[c], n)
        /\ x[2] \in AfterBranch(at[c][Len(n) + 1])
     \/ n # at[c] /\ Pending(c, n)}

\* A search never goes back to where it has been: whatever branches it takes
\* and gives up, every step comes to a place that was ahead of it and no longer
\* is (trie.go:118-164, 187-225).  No lookup goes round in the trie, and none
\* takes more steps than the trie has places.
SearchMovesOn ==
  [][\A c \in Caller : Search(c) =>
       \/ stage'[c] = "done"
       \/ /\ <<at'[c], stage'[c]>> \in Ahead(c)
          /\ Ahead(c)' \subseteq Ahead(c) \ {<<at'[c], stage'[c]>>}]_vars

\* Every lookup returns: the backtracking search over "*" branches ends.
EveryLookupReturns == \A c \in Caller : Searching(c) ~> stage[c] = "done"

\* The claim of Match's comment (trie.go:105): "If the reason is invalid or
\* nothing matches, it returns the zero value and false."
InvalidReasonNeverMatches ==
  \A c \in Caller : answer[c].ok => ValidReason(reason[c])
=============================================================================
