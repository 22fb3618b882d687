\* Two concurrent calls of New.
SPECIFICATION Spec
CONSTANTS
  a = a
  b = b
  b1 = b1
  b2 = b2
  Segment = {a, b}
  Star = Star
  Malformed = Malformed
  Build = {b1, b2}
  Code <- TwoCodes
  OptionList <- TwoNewLists
  Reason <- FewReasons
  RawSegment = {"a", "A", "b", "*", "!"}
  Canonical <- Spelling
  CodeModulus = 64
\* Every call has returned: nothing more to do.
CHECK_DEADLOCK FALSE
PROPERTY
  ImplementsContract
