------------------------------- MODULE GoMaps -------------------------------
(* Go maps as functions whose domain is the set of keys present. *)

EmptyMap == [k \in {} |-> k]

\* m[k] = x.
Put(m, k, x) == [j \in DOMAIN m \cup {k} |-> IF j = k THEN x ELSE m[j]]

\* What m holds after every entry of n has been stored into it.
Merge(m, n) ==
  [j \in DOMAIN m \cup DOMAIN n |-> IF j \in DOMAIN n THEN n[j] ELSE m[j]]
=============================================================================
