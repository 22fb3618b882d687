\* Every pair of prefixes of up to three segments, one caller.
SPECIFICATION Spec
CONSTANTS
  a = a
  b = b
  one = one
  two = two
  c1 = c1
  c2 = c2
  Segment = {a, b}
  Star = Star
  Malformed = Malformed
  Zero = Zero
  Value = {one, two}
  Caller = {c1}
  MaxRules = 2
  Prefix <- DeepPrefixes
  Reason <- DeepReasons
SYMMETRY SegmentAndValueSymmetry
INVARIANTS
  TypeOK
  TrieShape
  SearchSound
  SearchComplete
  SearchOrder
PROPERTY
  ImplementsLPM
