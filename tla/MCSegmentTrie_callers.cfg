\* Two callers whose searches interleave, over up to three rules that share
\* nodes, tie and shadow each other.
SPECIFICATION FairSpec
CONSTANTS
  a = a
  b = b
  one = one
  two = two
  c1 = c1
  c2 = c2
  Segment = {a, b}
  Star = Star
  Malformed = Malformed
  Zero = Zero
  Value = {one, two}
  Caller = {c1, c2}
  MaxRules = 3
  Prefix <- CrowdedPrefixes
  Reason <- CrowdedReasons
INVARIANT
  LookupsAgree
PROPERTIES
  ImplementsLPM
  EveryLookupReturns
  SearchMovesOn
