------------------------------ MODULE Segments ------------------------------
(***************************************************************************)
(* Dotted keys of mapper/internal/segmenttrie, as sequences of segments.   *)
(*                                                                         *)
(* A segment the code accepts ([a-z][a-z0-9_]* ) is a member of Segment.   *)
(* Star is the segment "*" of a rule prefix.  Malformed stands for every   *)
(* other text between two dots: the empty text, an upper-case letter, a    *)
(* digit first, ...; in a reason it also stands for "*", which the scan    *)
(* of Match refuses like any other text that does not begin with a-z.      *)
(***************************************************************************)
EXTENDS Integers, Sequences

CONSTANTS Segment, Star, Malformed

ASSUME SegmentAssumption ==
  /\ Star \notin Segment
  /\ Malformed \notin Segment
  /\ Star # Malformed

\* validSegment(seg, allowWildcard = true).
ValidSegment(s) == s \in Segment \cup {Star}

\* A prefix the trie accepts: not empty, every segment valid, not only "*".
ValidPrefix(p) ==
  /\ p # <<>>
  /\ \A i \in 1..Len(p) : ValidSegment(p[i])
  /\ \E i \in 1..Len(p) : p[i] # Star

\* A reason all of whose segments the scan accepts.
ValidReason(r) == \A i \in 1..Len(r) : r[i] \in Segment

\* Rule p covers reason r: p is not longer, and each of its segments is the
\* corresponding, well-formed, segment of r or a "*".
Matches(p, r) ==
  /\ Len(p) <= Len(r)
  /\ \A i \in 1..Len(p) : r[i] \in Segment /\ p[i] \in {Star, r[i]}

\* q extends path p, or is p.
Below(q, p) ==
  /\ Len(p) <= Len(q)
  /\ \A i \in 1..Len(p) : q[i] = p[i]

\* p and q agree up to a segment that p spells out and q leaves to a "*".
SpelledOutFirst(p, q) ==
  \E i \in 1..Len(p) :
    /\ i <= Len(q)
    /\ p[i] # Star
    /\ q[i] = Star
    /\ \A j \in 1..(i - 1) : p[j] = q[j]

\* Which of two rules that cover the same reason wins: the longer one, and
\* among rules of one length the one whose first difference is a literal.
Beats(p, q) ==
  \/ Len(p) > Len(q)
  \/ Len(p) = Len(q) /\ SpelledOutFirst(p, q)

\* Of the prefixes in P, p is the one that decides reason r.
IsBest(p, P, r) ==
  /\ p \in P
  /\ Matches(p, r)
  /\ \A q \in P \ {p} : Matches(q, r) => Beats(p, q)
=============================================================================
