\* Codes of 3 to 5 characters, reasons of 3 to 9 bytes.
SPECIFICATION Spec
CONSTANTS
  Char <- Chars
  Small <- OneLetter
  Digit <- OneDigit
  Blank <- OneBlank
  LowerOf <- Lower
  Width <- Bytes
  CodeMinLength = 3
  CodeMaxLength = 5
  ReasonMinLength = 3
  ReasonMaxLength = 9
  Typeable <- ShortOrDotted
  Prior <- Triple
\* An exchange ends.
CHECK_DEADLOCK FALSE
INVARIANTS
  TypeOK
  RoundTrip
  ParseIsCanonical
  OneGrammar
  ScanReadsSegments
  ScanStopsAtMalformed
PROPERTY
  ReceiverStaysCanonical
