--------------------------- MODULE MCTextExchange ---------------------------
(* A small alphabet for TLC: one character of each class, "K" the Kelvin     *)
(* sign (three bytes, lowers to a letter), "N" any other non-ASCII letter.   *)
EXTENDS TextExchange

Chars == {"a", "A", "K", "7", "_", "-", "/", ".", " ", "*", "N"}
OneLetter == {"a"}
OneDigit == {"7"}
OneBlank == {" "}
Lower == [c \in Chars |-> IF c \in {"A", "K"} THEN "a" ELSE c]
Bytes == [c \in Chars |-> CASE c = "K" -> 3 [] c = "N" -> 2 [] OTHER -> 1]
Triple == <<"a", "a", "a">>

\* Every text of up to four characters, and the longer ones over letters and
\* dots: enough for five segments and for one byte too many.
ShortOrDotted(s) == Len(s) <= 4 \/ (Len(s) <= 10 /\ ToSet(s) \subseteq {"a", "."})
=============================================================================
