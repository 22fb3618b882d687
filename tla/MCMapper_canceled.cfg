\* The comment on the default of canceled, against the table.
SPECIFICATION Spec
CONSTANTS
  a = a
  b = b
  b1 = b1
  b2 = b2
  Segment = {a, b}
  Star = Star
  Malformed = Malformed
  Build = {b1}
  Code <- WithCanceled
  OptionList <- DeepLists
  Reason <- FewReasons
  RawSegment = {"a", "A", "b", "*", "!"}
  Canonical <- Spelling
  CodeModulus = 64
\* Every call has returned: nothing more to do.
CHECK_DEADLOCK FALSE
INVARIANT
  CanceledIs499
