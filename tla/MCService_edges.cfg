\* Chains of three calls beside two writes on one response; 2^32 is 4096.
SPECIFICATION Spec
CONSTANTS
  a = a
  Segment = {a}
  Star = Star
  Malformed = Malformed
  Build = {}
  Code <- Codes
  OptionList <- Lists
  Reason <- NoReasonOrA
  RawSegment = {"a"}
  Canonical <- Spelling
  CodeModulus = 4096
  EdgeErrors <- Together
  MaxCalls = 3
  MaxWrites = 2
  RetrySeconds <- Retries
\* Calls and writes end.
CHECK_DEADLOCK FALSE
INVARIANTS
  TypeOK
  FailuresGoOutAsFailures
  DescriptorTellsTheStatus
  FirstFinalDecides
  EdgesAgree
  DefaultsAsOffered
PROPERTY
  RelayedAsIs
