---------------------------- MODULE MCSegmentTrie ----------------------------
(* Small instances of SegmentTrie for TLC. *)
EXTENDS SegmentTrie

CONSTANTS a, b, one, two, c1, c2

SegmentAndValueSymmetry ==
  {f @@ g : f \in Permutations({a, b}), g \in Permutations({one, two})}

\* Sequences over S of at most n members.
SeqUpTo(S, n) == UNION {[1..m -> S] : m \in 0..n}

\* Every well-formed prefix of up to three segments, and malformed ones.
DeepPrefixes == SeqUpTo({a, b, Star}, 3) \cup {<<a, Malformed>>, <<Malformed>>}

\* Prefixes that share nodes, tie in length and shadow each other.
CrowdedPrefixes ==
  {<<a, b>>, <<a, Star>>, <<Star, b>>, <<a, Star, a>>, <<a, Malformed>>}

\* Reasons, some of them malformed in the middle or at the end.
DeepReasons == SeqUpTo({a, b}, 3) \cup {<<a, Malformed, a>>, <<a, b, Malformed>>}
CrowdedReasons == {<<a, b, a>>, <<a, a, Malformed>>}
=============================================================================
