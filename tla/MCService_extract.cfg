\* One call beside one write on one response; 2^32 is 4096.
SPECIFICATION Spec
CONSTANTS
  a = a
  Segment = {a}
  Star = Star
  Malformed = Malformed
  Build = {}
  Code <- Codes
  OptionList <- Lists
  Reason <- NoReasonOrA
  RawSegment = {"a"}
  Canonical <- Spelling
  CodeModulus = 4096
  EdgeErrors <- Together
  MaxCalls = 1
  MaxWrites = 1
  RetrySeconds <- OneRetry
\* Calls and writes end.
CHECK_DEADLOCK FALSE
INVARIANT
  DescriptorIsReadBack
