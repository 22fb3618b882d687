--------------------------- MODULE ReasonSyntax ----------------------------
(* The text form of error reasons: package reason. *)
EXTENDS Texts

CONSTANTS ReasonMinLength, ReasonMaxLength   \* 3 and 128

\* The empty text has not the length of a reason: Empty is a case of its own.
ASSUME ReasonAssumption == ReasonMinLength \in Nat \ {0} /\ ReasonMaxLength \in Nat

MaxDots == 3

Dots(s) == {i \in 1..Len(s) : s[i] = "."}

ReasonNormalize(s) ==
  ReplaceAll(ReplaceAll(Lowered(Trim(s)), "/", "."), "-", "_")

\* Mutant: the regexp is [a-z][a-z0-9_.]*, with dots anywhere.
MatchesReasonReLoose(s) ==
  /\ s[1] \in Small
  /\ \A i \in 1..Len(s) : s[i] \in Ident \cup {"."}
  /\ Cardinality(Dots(s)) <= MaxDots

\* The regexp: one to four segments, each a letter and then letters, digits
\* and "_".
MatchesReasonRe(s) ==
  /\ \A i \in 1..Len(s) : s[i] \in Ident \cup {"."}
  /\ \A i \in Dots(s) \cup {0} : i < Len(s) /\ s[i + 1] \in Small
  /\ Cardinality(Dots(s)) <= MaxDots

\* validate: the length, in bytes, before the format.
CheckReason(s) ==
  IF ByteLen(s) \notin ReasonMinLength..ReasonMaxLength THEN "invalid length"
  ELSE IF MatchesReasonRe(s) THEN "nil" ELSE "invalid format"

\* Mutant: the text is checked as it was before Normalize.
ReasonParseRaw(s) ==
  IF s = <<>> THEN Result("nil", <<>>)
  ELSE IF CheckReason(s) = "nil" THEN Result("nil", ReasonNormalize(s))
  ELSE Result(CheckReason(s), <<>>)

ReasonParse(s) ==
  LET r == ReasonNormalize(s) IN
  IF r = <<>> THEN Result("nil", <<>>)
  ELSE IF CheckReason(r) = "nil" THEN Result("nil", r)
  ELSE Result(CheckReason(r), <<>>)

ReasonMustParse(s) ==
  IF ReasonParse(s).err = "nil" /\ ReasonParse(s).val # <<>> THEN ReasonParse(s)
  ELSE Result("panic", <<>>)

ReasonValidate(r) == IF r = <<>> THEN "nil" ELSE CheckReason(r)

ReasonMarshalText(r) ==
  IF ReasonValidate(r) = "nil" THEN Result("nil", r)
  ELSE Result(ReasonValidate(r), <<>>)

\* The receiver held r.
ReasonUnmarshalText(r, t) ==
  LET parsed == ReasonParse(Trim(t)) IN
  IF parsed.err = "nil" THEN parsed ELSE Result(parsed.err, r)
=============================================================================
