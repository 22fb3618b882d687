---------------------------- MODULE CodeSyntax -----------------------------
(* The text form of error codes: package code. *)
EXTENDS Texts

CONSTANTS CodeMinLength, CodeMaxLength   \* 3 and 64

CodeNormalize(s) == ReplaceAll(Lowered(Trim(s)), "-", "_")

\* Mutant: the regexp ends in [a-z0-9_-]{2,63}.
MatchesCodeReDash(s) ==
  /\ Len(s) \in CodeMinLength..CodeMaxLength
  /\ s[1] \in Small
  /\ \A i \in 1..Len(s) : s[i] \in Ident \cup {"-"}

\* The regexp, which bounds the length as well: a character it accepts is one
\* byte.
MatchesCodeRe(s) ==
  /\ Len(s) \in CodeMinLength..CodeMaxLength
  /\ s[1] \in Small
  /\ \A i \in 1..Len(s) : s[i] \in Ident

\* validate and Validate.
CodeValidate(s) == IF MatchesCodeRe(s) THEN "nil" ELSE "invalid code"

CodeParse(s) ==
  LET c == CodeNormalize(s) IN
  IF CodeValidate(c) = "nil" THEN Result("nil", c) ELSE Result(CodeValidate(c), <<>>)

CodeMustParse(s) ==
  IF CodeParse(s).err = "nil" THEN CodeParse(s) ELSE Result("panic", <<>>)

\* Mutant: whatever was converted to a Code goes out.
CodeMarshalUnchecked(c) == Result("nil", c)

CodeMarshalText(c) ==
  IF CodeValidate(c) = "nil" THEN Result("nil", c) ELSE Result(CodeValidate(c), <<>>)

\* Mutant: the receiver gets what Parse returned before its error is looked at.
CodeUnmarshalEarly(c, t) == CodeParse(Trim(t))

\* The receiver held c.
CodeUnmarshalText(c, t) ==
  LET parsed == CodeParse(Trim(t)) IN
  IF parsed.err = "nil" THEN parsed ELSE Result(parsed.err, c)
=============================================================================
