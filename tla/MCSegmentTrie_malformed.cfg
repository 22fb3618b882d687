\* The comment of Match on invalid reasons, against the code.
SPECIFICATION Spec
CONSTANTS
  a = a
  b = b
  one = one
  two = two
  c1 = c1
  c2 = c2
  Segment = {a, b}
  Star = Star
  Malformed = Malformed
  Zero = Zero
  Value = {one}
  Caller = {c1}
  MaxRules = 1
  Prefix <- CrowdedPrefixes
  Reason <- CrowdedReasons
INVARIANT
  InvalidReasonNeverMatches
