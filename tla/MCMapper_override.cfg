\* The comments on overrides and prefix rules, against the code.
SPECIFICATION Spec
CONSTANTS
  a = a
  b = b
  b1 = b1
  b2 = b2
  Segment = {a, b}
  Star = Star
  Malformed = Malformed
  Build = {b1}
  Code <- TwoCodes
  OptionList <- OneNewLists
  Reason <- Reasons
  RawSegment = {"a", "A", "b", "*", "!"}
  Canonical <- Spelling
  CodeModulus = 64
\* Every call has returned: nothing more to do.
CHECK_DEADLOCK FALSE
INVARIANT
  PrefixBeatsOverride
