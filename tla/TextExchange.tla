---------------------------- MODULE TextExchange ----------------------------
(***************************************************************************)
(* A code or a reason goes from one process to another as text.  A caller  *)
(* types a text and makes a value of it - by Parse, by MustParse, or by a  *)
(* plain conversion, which checks nothing -, marshals it, and a second     *)
(* process unmarshals into a field of its own.  Or the second process      *)
(* unmarshals the typed text itself, as it does with a configuration file. *)
(***************************************************************************)
EXTENDS CodeSyntax, SegmentSyntax

CONSTANTS
  Typeable(_),  \* bounds the texts typed
  Prior         \* what the receiving field may hold before

ASSUME PriorAssumption ==
  /\ Prior \in Seq(Char)
  /\ CodeParse(Prior) = Result("nil", Prior)
  /\ ReasonParse(Prior) = Result("nil", Prior)

VARIABLES
  kind,      \* "code" or "reason": the type of the two values
  pc,        \* "typing", "made", "sent", "done" or "panicked"
  text,      \* what the caller has typed
  value,     \* the sender's variable
  wire,      \* what MarshalText gave
  received,  \* the receiver's field
  err        \* what the last call returned

vars == <<kind, pc, text, value, wire, received, err>>

Parse(s) == IF kind = "code" THEN CodeParse(s) ELSE ReasonParse(s)
MustParse(s) == IF kind = "code" THEN CodeMustParse(s) ELSE ReasonMustParse(s)
Validate(s) == IF kind = "code" THEN CodeValidate(s) ELSE ReasonValidate(s)
Normalize(s) == IF kind = "code" THEN CodeNormalize(s) ELSE ReasonNormalize(s)
MarshalText(v) == IF kind = "code" THEN CodeMarshalText(v) ELSE ReasonMarshalText(v)
UnmarshalText(v, t) ==
  IF kind = "code" THEN CodeUnmarshalText(v, t) ELSE ReasonUnmarshalText(v, t)

Init ==
  /\ kind \in {"code", "reason"}
  /\ pc = "typing"
  /\ text = <<>> /\ value = <<>> /\ wire = <<>>
  /\ received \in {<<>>, Prior}
  /\ err = "nil"

Type(c) ==
  /\ pc = "typing"
  /\ Typeable(Append(text, c))
  /\ text' = Append(text, c)
  /\ UNCHANGED <<kind, pc, value, wire, received, err>>

\* code.Code(s) and reason.Reason(s), with s a string, are always legal.
Convert ==
  /\ pc = "typing"
  /\ pc' = "made"
  /\ value' = text
  /\ UNCHANGED <<kind, text, wire, received, err>>

\* The sender may go on with Empty after a Parse that failed.
MakeByParse ==
  /\ pc = "typing"
  /\ pc' = "made"
  /\ value' = Parse(text).val
  /\ err' = Parse(text).err
  /\ UNCHANGED <<kind, text, wire, received>>

MakeByMustParse ==
  /\ pc = "typing"
  /\ pc' = IF MustParse(text).err = "panic" THEN "panicked" ELSE "made"
  /\ value' = MustParse(text).val
  /\ err' = MustParse(text).err
  /\ UNCHANGED <<kind, text, wire, received>>

Marshal ==
  LET res == MarshalText(value) IN
  /\ pc = "made"
  /\ pc' = IF res.err = "nil" THEN "sent" ELSE "done"
  /\ wire' = res.val
  /\ err' = res.err
  /\ UNCHANGED <<kind, text, value, received>>

Unmarshal(t) ==
  LET res == UnmarshalText(received, t) IN
  /\ pc' = "done"
  /\ received' = res.val
  /\ err' = res.err
  /\ UNCHANGED <<kind, text, value, wire>>

UnmarshalSent == pc = "sent" /\ Unmarshal(wire)
UnmarshalTyped == pc = "typing" /\ Unmarshal(text)

Next ==
  \/ \E c \in Char : Type(c)
  \/ Convert \/ MakeByParse \/ MakeByMustParse
  \/ Marshal
  \/ UnmarshalSent \/ UnmarshalTyped

Spec == Init /\ [][Next]_vars

-----------------------------------------------------------------------------
(* Properties.                                                             *)

Text == Seq(Char)
Errors == {"nil", "panic", "invalid code", "invalid length", "invalid format"}

\* A value is canonical when its package's Validate accepts it.
Canonical(v) == Validate(v) = "nil"

\* Types, and how far the exchange can be: a text on the wire, and whatever a
\* MustParse let through, is canonical although any string can be converted to
\* a Code or Reason.
TypeOK ==
  /\ kind \in {"code", "reason"}
  /\ pc \in {"typing", "made", "sent", "done", "panicked"}
  /\ err \in Errors
  /\ text \in Text /\ value \in Text /\ wire \in Text /\ received \in Text
  /\ pc = "sent" => wire = value /\ Canonical(wire)

\* What MarshalText lets out UnmarshalText takes in, as the same value,
\* whatever the receiver held (code.go:172-191, reason.go:188-210).
RoundTrip ==
  pc = "sent" => \A held \in {received, <<>>, Prior} :
                   UnmarshalText(held, wire) = Result("nil", value)

\* A field into which text is unmarshalled only ever changes to a canonical
\* value, and only when the call reports no error: a refused text neither
\* empties it nor leaves half of itself behind.
ReceiverStaysCanonical ==
  [][received' # received => err' = "nil" /\ Canonical(received')]_vars

\* Parse, Validate and Normalize are three views of one format: Parse returns
\* what Validate accepts, Validate accepts exactly what Parse returns as it is,
\* and text that has been through Normalize before parses the same
\* (code.go:121, 151, 160; reason.go:124, 140, 172).
ParseIsCanonical ==
  /\ Parse(text).err = "nil" => Canonical(Parse(text).val)
  /\ Canonical(text) <=> Parse(text) = Result("nil", text)
  /\ Parse(Normalize(text)) = Parse(text)

\* The format of reasons is written twice, as a regexp in package reason and
\* as segment checks in package mapper, whose comments say prefixes go through
\* reason.Parse (mapper.go:39, 320): a prefix without "*" that has the length
\* and the number of segments of a reason is accepted iff it parses as a
\* reason, and both make the same text of it.
OneGrammar ==
  LET p == ReasonNormalize(text)
      rule == NormalizeAndValidatePrefix(text)
  IN (/\ ByteLen(p) \in ReasonMinLength..ReasonMaxLength
      /\ Len(Split(p)) <= MaxDots + 1
      /\ <<"*">> \notin ToSet(Split(p)))
     => IF rule.err = "nil" THEN ReasonParse(text) = rule
                            ELSE ReasonParse(text).err # "nil"

\* A rule is compiled by splitting its prefix, a reason is looked up by
\* scanning bytes: for every accepted prefix without "*", Insert accepts it
\* too, and the scan of the same text reads the segments Insert stored.
ScanReadsSegments ==
  LET rule == NormalizeAndValidatePrefix(text)
      stored == SplitAndValidate(rule.val, TRUE)
  IN rule.err = "nil" =>
       /\ stored.err = "nil"
       /\ SplitAndValidate(rule.val, FALSE).err = "nil" => ScanAll(rule.val) = stored.val

\* A scan never reads a segment Insert could not have stored as a literal, and
\* never reads past a malformed one: a lookup sees the longest well-formed
\* beginning of whatever a Reason holds.
ScanStopsAtMalformed ==
  LET segs == Split(text)
      good == {n \in 0..Len(segs) : \A k \in 1..n : ValidTrieSegment(segs[k], FALSE)}
  IN ScanAll(text) = SubSeq(segs, 1, Max(good))
=============================================================================
