------------------------- MODULE LongestPrefixMatch -------------------------
(***************************************************************************)
(* What a rule index promises to mapper.New, which fills it, and to the    *)
(* callers of the finished mapper, which query it from any goroutine: a    *)
(* dictionary from prefixes to values that answers a reason with the rule  *)
(* that decides it, in one step.  SegmentTrie implements this.             *)
(***************************************************************************)
EXTENDS Segments

CONSTANTS
  Prefix,    \* prefixes offered to Insert, malformed ones included
  Value,     \* values a rule may carry
  Zero,      \* the zero value of T, returned with ok = false
  Reason,    \* reasons callers ask about, malformed ones included
  Caller     \* goroutines that query the index

VARIABLES
  rules,      \* accepted prefixes and the value each was last given
  latest,     \* the Insert mapper.New called last, until it returns
  published,  \* the index has left mapper.New: no Insert from now on
  phase,      \* per caller: "idle", "asked" or "answered"
  op,         \* per caller: the lookup it called
  reason,     \* per caller: the reason it asked about
  answer      \* per caller: the last answer

vars == <<rules, latest, published, phase, op, reason, answer>>

Op == {"Match", "MatchWithPattern"}
NoInsert == [prefix |-> <<>>, val |-> Zero, err |-> "none"]
NoMatch == [ok |-> FALSE, val |-> Zero, pattern |-> <<>>]

\* Match returns the value alone, MatchWithPattern the rule's prefix too.
Hit(o, v, p) ==
  [ok |-> TRUE, val |-> v, pattern |-> IF o = "Match" THEN <<>> ELSE p]

Init ==
  /\ rules = [p \in {} |-> Zero]
  /\ latest = NoInsert
  /\ published = FALSE
  /\ phase = [c \in Caller |-> "idle"]
  /\ op = [c \in Caller |-> "Match"]
  /\ reason = [c \in Caller |-> <<>>]
  /\ answer = [c \in Caller |-> NoMatch]

\* The last value given to a prefix wins.
InsertAccepted(p, v) ==
  /\ ~published
  /\ ValidPrefix(p)
  /\ rules' = [q \in DOMAIN rules \cup {p} |-> IF q = p THEN v ELSE rules[q]]
  /\ latest' = [prefix |-> p, val |-> v, err |-> "nil"]
  /\ UNCHANGED <<published, phase, op, reason, answer>>

\* A rejected prefix leaves no trace in the index.
InsertRejected(p, v) ==
  /\ ~published
  /\ ~ValidPrefix(p)
  /\ latest' = [prefix |-> p, val |-> v, err |-> "ErrInvalidPrefix"]
  /\ UNCHANGED <<rules, published, phase, op, reason, answer>>

Publish ==
  /\ ~published
  /\ published' = TRUE
  /\ latest' = NoInsert
  /\ UNCHANGED <<rules, phase, op, reason, answer>>

Ask(c, o, r) ==
  /\ published
  /\ phase[c] # "asked"
  /\ phase' = [phase EXCEPT ![c] = "asked"]
  /\ op' = [op EXCEPT ![c] = o]
  /\ reason' = [reason EXCEPT ![c] = r]
  /\ answer' = [answer EXCEPT ![c] = NoMatch]
  /\ UNCHANGED <<rules, latest, published>>

Answer(c) ==
  /\ phase[c] = "asked"
  /\ phase' = [phase EXCEPT ![c] = "answered"]
  /\ \/ \E p \in DOMAIN rules :
          /\ IsBest(p, DOMAIN rules, reason[c])
          /\ answer' = [answer EXCEPT ![c] = Hit(op[c], rules[p], p)]
     \/ /\ \A p \in DOMAIN rules : ~Matches(p, reason[c])
        /\ answer' = [answer EXCEPT ![c] = NoMatch]
  /\ UNCHANGED <<rules, latest, published, op, reason>>

Next ==
  \/ \E p \in Prefix, v \in Value : InsertAccepted(p, v)
  \/ \E p \in Prefix, v \in Value : InsertRejected(p, v)
  \/ Publish
  \/ \E c \in Caller, o \in Op, r \in Reason : Ask(c, o, r)
  \/ \E c \in Caller : Answer(c)

Spec == Init /\ [][Next]_vars
=============================================================================
