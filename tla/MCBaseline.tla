----------------------------- MODULE MCBaseline -----------------------------
(* Instance of Baseline: every needle in small letters, in capitals and     *)
(* with one capital, alone and before every sink, two rules at a time, and  *)
(* needles with a letter missing or a space too many.                       *)
EXTENDS Baseline

Upper(text) ==
  Concat([k \in 1 .. Len(text) |->
            LET small == Occurrences(CharAt(text, k), LowerCase)
            IN  IF small = {} THEN CharAt(text, k) ELSE CharAt(UpperCase, Min(small))])

Needle == {n[1] : n \in ToSet(Needles)}
Spellings(text) ==
  {text, Upper(text), Upper(SubSeq(text, 1, 1)) \o Drop(text, 1)}
FirstOf(rule) == SelectSeq(Needles, LAMBDA n : n[2] = rule)[1][1]
OnePerRule == {FirstOf(n[2]) : n \in ToSet(Needles)}

MCCommand ==
  {""}
    \cup UNION {Spellings(needle) : needle \in Needle}
    \cup {needle \o " u" \o sink : needle \in Needle, sink \in Sinks \cup {"| SH", "| perl"}}
    \cup {"a" \o first \o "; " \o second \o rest :
            first, second \in OnePerRule, rest \in {"", " | sh"}}
    \cup {SubSeq(needle, 1, Len(needle) - 1) : needle \in Needle}
    \cup {SubSeq(needle, 1, 2) \o " " \o Drop(needle, 2) : needle \in Needle}
=============================================================================
