-------------------------------- MODULE Text --------------------------------
(***************************************************************************)
(* The operations on strings that the analyzer is written with.  A TLA+    *)
(* string is a sequence of characters, so the sequence operators apply.    *)
(***************************************************************************)
EXTENDS Integers, SequencesExt, FiniteSetsExt

CharAt(s, i) == IF i \in 1 .. Len(s) THEN SubSeq(s, i, i) ELSE ""
CharSet(s) == {CharAt(s, i) : i \in 1 .. Len(s)}

StartsWith(s, prefix) ==
  Len(prefix) <= Len(s) /\ SubSeq(s, 1, Len(prefix)) = prefix

EndsWith(s, suffix) ==
  Len(suffix) <= Len(s) /\ SubSeq(s, Len(s) - Len(suffix) + 1, Len(s)) = suffix

(* Where part occurs in s, and what follows a prefix of length n. *)
Occurrences(part, s) ==
  {i \in 1 .. Len(s) - Len(part) + 1 : SubSeq(s, i, i + Len(part) - 1) = part}
Mentions(s, part) == Occurrences(part, s) # {}
Drop(s, n) == SubSeq(s, n + 1, Len(s))

(* The strings in a sequence, one after the other; slice.join(" ") *)
Concat(parts) == FlattenSeq(parts \o <<"">>)
Joined(parts) ==
  Concat([k \in DOMAIN parts |-> IF k = 1 THEN parts[k] ELSE " " \o parts[k]])

Digit == {"0", "1", "2", "3", "4", "5", "6", "7", "8", "9"}

(* is_field_sep; a TLA+ string cannot spell the vertical tab. *)
FieldSep == {" ", "\t", "\n", "\r", "\f"}

(* text.split(is_field_sep) without the empty parts *)
Fields(s) ==
  LET Sep(i) == i \notin 1 .. Len(s) \/ CharAt(s, i) \in FieldSep
      from[i \in 1 .. Len(s) + 1] ==
        IF i > Len(s) THEN <<>>
        ELSE LET rest == from[i + 1]
             IN  IF Sep(i) THEN rest
                 ELSE IF Sep(i + 1) THEN <<CharAt(s, i)>> \o rest
                 ELSE <<CharAt(s, i) \o Head(rest)>> \o Tail(rest)
  IN  from[1]

(* A text without the white space in it. *)
Bare(s) ==
  Concat([k \in 1 .. Len(s) |-> IF CharAt(s, k) \in FieldSep THEN "" ELSE CharAt(s, k)])

(* text.trim_start() *)
TrimStart(s) ==
  LET text == {i \in 1 .. Len(s) : CharAt(s, i) \notin FieldSep}
  IN  IF text = {} THEN "" ELSE SubSeq(s, Min(text), Len(s))
=============================================================================
