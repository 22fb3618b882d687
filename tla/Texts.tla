------------------------------- MODULE Texts -------------------------------
(***************************************************************************)
(* Go strings as the parsers of packages code and reason look at them: a   *)
(* sequence of characters, each with its width in UTF-8 and its lower-case *)
(* form.  One character stands for its class; what matters beyond ASCII is *)
(* that lowering may change a width, and may give an ASCII letter (the     *)
(* Kelvin sign, three bytes, becomes k).                                   *)
(***************************************************************************)
EXTENDS Integers, SequencesExt

CONSTANTS
  Char,      \* the characters under study
  Small,     \* a-z
  Digit,     \* 0-9
  Blank,     \* what strings.TrimSpace cuts
  LowerOf,   \* unicode.ToLower
  Width      \* bytes of a character

Ident == Small \cup Digit \cup {"_"}

ASSUME CharAssumption ==
  /\ Small \cup Digit \cup Blank \cup {"_", "-", "/", ".", "*"} \subseteq Char
  /\ Blank \cap (Small \cup Digit \cup {"_", "-", "/", ".", "*"}) = {}
  /\ {"_", "-", "/", ".", "*"} \cap (Small \cup Digit) = {}
  /\ LowerOf \in [Char -> Char]
  /\ \A c \in Char : LowerOf[LowerOf[c]] = LowerOf[c]
  /\ \A c \in Small \cup Digit \cup Blank \cup {"_", "-", "/", ".", "*"} : LowerOf[c] = c
  /\ \A c \in Char : LowerOf[c] \in Blank \cup {"-", "/"} => LowerOf[c] = c
  /\ Width \in [Char -> Nat \ {0}]
  /\ \A c \in Ident \cup {"."} : Width[c] = 1

\* strings.TrimSpace.
Trim(s) ==
  LET kept == {i \in 1..Len(s) : s[i] \notin Blank} IN
  IF kept = {} THEN <<>> ELSE SubSeq(s, Min(kept), Max(kept))

\* strings.ToLower.
Lowered(s) == [i \in 1..Len(s) |-> LowerOf[s[i]]]

\* len, which counts bytes.
ByteLen(s) == SumFunction([i \in DOMAIN s |-> Width[s[i]]])

\* What a parser returns, or leaves in its receiver: an error and a value.
Result(err, val) == [err |-> err, val |-> val]
=============================================================================
