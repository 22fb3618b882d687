--------------------------- MODULE SegmentSyntax ---------------------------
(***************************************************************************)
(* Dotted text taken apart, in the three ways the code does it: by         *)
(* strings.Split when a prefix becomes a rule, once in mapper and once in  *)
(* segmenttrie, and by the byte scan of a lookup.  Module Segments starts  *)
(* from the segments these agree on.                                       *)
(***************************************************************************)
EXTENDS ReasonSyntax

\* strings.Split(s, "."): what lies between two cuts.
Split(s) ==
  LET cuts == Dots(s) \cup {0, Len(s) + 1}
      Cut(k) == CHOOSE i \in cuts : Cardinality({j \in cuts : j < i}) = k
  IN [k \in 1..(Cardinality(cuts) - 1) |-> SubSeq(s, Cut(k - 1) + 1, Cut(k) - 1)]

\* validPrefixSegment of package mapper.
ValidPrefixSegment(seg) ==
  \/ seg = <<"*">>
  \/ /\ seg # <<>>
     /\ seg[1] \in Small
     /\ \A i \in 2..Len(seg) : seg[i] \in Ident

\* Mutant: the first byte of a segment may be a digit too.
PrefixOfDigits(raw) ==
  LET p == ReasonNormalize(raw)
      segs == Split(p)
      ok == /\ p # <<>>
            /\ \A k \in DOMAIN segs : \/ segs[k] = <<"*">>
                                      \/ segs[k] # <<>> /\ ToSet(segs[k]) \subseteq Ident
            /\ \E k \in DOMAIN segs : segs[k] # <<"*">>
  IN IF ok THEN Result("nil", p) ELSE Result("invalid prefix", <<>>)

\* normalizeAndValidatePrefix of package mapper.
NormalizeAndValidatePrefix(raw) ==
  LET p == ReasonNormalize(raw)
      segs == Split(p)
      ok == /\ p # <<>>
            /\ \A k \in DOMAIN segs : ValidPrefixSegment(segs[k])
            /\ \E k \in DOMAIN segs : segs[k] # <<"*">>
  IN IF ok THEN Result("nil", p) ELSE Result("invalid prefix", <<>>)

\* validSegment of segmenttrie.
ValidTrieSegment(seg, allowWildcard) ==
  \/ allowWildcard /\ seg = <<"*">>
  \/ /\ seg # <<>>
     /\ seg[1] \in Small
     /\ \A i \in 2..Len(seg) : seg[i] \in Ident

\* splitAndValidate of segmenttrie: the segments, or an error.
SplitAndValidate(s, allowWildcard) ==
  LET segs == Split(s) IN
  IF s = <<>> THEN Result("nil", <<>>)
  ELSE IF \A k \in DOMAIN segs : ValidTrieSegment(segs[k], allowWildcard)
    THEN Result("nil", segs)
  ELSE Result("invalid prefix", <<>>)

\* Mutant: a scan goes over a character it does not know.
ScanUnchecked(r, off) ==
  IF off >= Len(r) \/ r[off + 1] \notin Small THEN <<>>
  ELSE LET stops == {i \in (off + 2)..Len(r) : r[i] = "."}
       IN SubSeq(r, off + 1, IF stops = {} THEN Len(r) ELSE Min(stops) - 1)

\* The segment a lookup reads at byte offset off of a reason (counted from 0),
\* <<>> when it stops there.
Scan(r, off) ==
  IF off >= Len(r) \/ r[off + 1] \notin Small THEN <<>>
  ELSE LET stops == {i \in (off + 2)..Len(r) : r[i] \notin Ident}
       IN IF stops = {} THEN SubSeq(r, off + 1, Len(r))
          ELSE IF r[Min(stops)] = "." THEN SubSeq(r, off + 1, Min(stops) - 1)
          ELSE <<>>

\* The segments a lookup with nothing but branches to take reads, as far as it
\* gets: the next one starts after a segment and its dot.
ScanAll(r) ==
  LET start[k \in 1..(Len(r) + 1)] ==
        IF k = 1 THEN 0 ELSE start[k - 1] + Len(Scan(r, start[k - 1])) + 1
      reads == {k \in 1..Len(r) : \A j \in 1..k : Scan(r, start[j]) # <<>>}
  IN [k \in 1..Cardinality(reads) |-> Scan(r, start[k])]
=============================================================================
