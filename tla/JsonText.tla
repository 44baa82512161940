------------------------------ MODULE JsonText ------------------------------
(***************************************************************************)
(* The pieces of the hand-written JSON reader and writer (json.rs).        *)
(*                                                                         *)
(* A text is the sequence of the code points of its characters: the source *)
(* works on UTF-8 bytes, but only ever looks at or stops at ASCII ones.  A *)
(* reader called at position i of a line answers {} where the source       *)
(* answers None, and otherwise {<<what it read, the position after>>}.     *)
(***************************************************************************)
EXTENDS Options, SequencesExt, FiniteSetsExt

Quote == 34
Comma == 44
Colon == 58
Backslash == 92
OpenBracket == 91
CloseBracket == 93
OpenBrace == 123
CloseBrace == 125
LetterU == 117
White == {9, 10, 13, 32}
HexDigit == 48 .. 57 \cup 65 .. 70 \cup 97 .. 102
NumberChar == 48 .. 57 \cup {43, 45, 46, 69, 101}

(* \" \\ \b \f \n \r \t: the letter and what it stands for. *)
ShortEscape ==
  {<<34, 34>>, <<92, 92>>, <<98, 8>>, <<102, 12>>, <<110, 10>>, <<114, 13>>, <<116, 9>>}

(* Cursor::peek and the position Cursor::skip_ws stops at. *)
End == -1
At(line, i) == IF i \in DOMAIN line THEN line[i] ELSE End
SkipWs(line, i) == Min({k \in i .. Len(line) + 1 : At(line, k) \notin White})

(* The n characters from i on, or as many as there are. *)
Span(line, i, n) == SubSeq(line, i, Min({i + n - 1, Len(line)}))

-----------------------------------------------------------------------------
(* parse_hex4; four digits never overflow its u16. *)
HexValue(c) == IF c <= 57 THEN c - 48 ELSE IF c <= 70 THEN c - 55 ELSE c - 87
Hex4(line, j) ==
  LET quad == Span(line, j, 4)
      v(k) == HexValue(quad[k])
  IN  IF Len(quad) = 4 /\ ToSet(quad) \subseteq HexDigit
      THEN {16 * (16 * (16 * v(1) + v(2)) + v(3)) + v(4)} ELSE {}

(* \uXXXX, its digits at j: one unit, or a surrogate pair of two escapes. *)
HighSurrogate == 55296 .. 56319
LowSurrogate == 56320 .. 57343
(* Mutant of UnicodeEscape: the low surrogate may be anything. *)
UnicodeEscapeAnyLow(line, j) ==
  UNION {IF hi \in HighSurrogate
         THEN {<<65536 + (hi - 55296) * 1024 + (lo - 56320), j + 10>> :
                 lo \in IF Span(line, j + 4, 2) = <<Backslash, LetterU>>
                        THEN Hex4(line, j + 6) ELSE {}}
         ELSE IF hi \in LowSurrogate THEN {} ELSE {<<hi, j + 4>>}
         : hi \in Hex4(line, j)}

UnicodeEscape(line, j) ==
  UNION {IF hi \in HighSurrogate
         THEN {<<65536 + (hi - 55296) * 1024 + (lo - 56320), j + 10>> :
                 lo \in IF Span(line, j + 4, 2) = <<Backslash, LetterU>>
                        THEN Hex4(line, j + 6) \cap LowSurrogate ELSE {}}
         ELSE IF hi \in LowSurrogate THEN {} ELSE {<<hi, j + 4>>}
         : hi \in Hex4(line, j)}

(* One character of a string. *)
Character(line, j) ==
  IF line[j] # Backslash THEN {<<line[j], j + 1>>}
  ELSE IF At(line, j + 1) = LetterU THEN UnicodeEscape(line, j + 2)
  ELSE {<<e[2], j + 2>> :
          e \in {p \in ShortEscape \cup {<<47, 47>>} : p[1] = At(line, j + 1)}}

(* parse_string *)
StringAt(line, i) ==
  LET rest[j \in 1 .. Len(line) + 1] ==
        CASE At(line, j) = End   -> {}
          [] At(line, j) = Quote -> {<<<<>>, j + 1>>}
          [] OTHER -> UNION {{<<<<c[1]>> \o r[1], r[2]>> : r \in rest[c[2]]}
                             : c \in Character(line, j)}
  IN  IF At(line, i) = Quote THEN rest[i + 1] ELSE {}

(* skip_composite: where the value that opens at i ends. *)
Composite(line, i) ==
  LET open  == line[i]
      close == IF open = OpenBrace THEN CloseBrace ELSE CloseBracket
      skip[j \in 1 .. Len(line) + 1] ==
        [depth \in Nat |->
           CASE depth = 0 -> {j}
             [] depth > 0 /\ At(line, j) = End -> {}
             [] depth > 0 /\ At(line, j) = Quote ->
                  UNION {skip[s[2]][depth] : s \in StringAt(line, j)}
             [] OTHER -> skip[j + 1][IF At(line, j) = open THEN depth + 1
                                     ELSE IF At(line, j) = close THEN depth - 1 ELSE depth]]
  IN  skip[i + 1][1]

(* expect_word for true, false and null. *)
Words == {<<116, 114, 117, 101>>, <<102, 97, 108, 115, 101>>, <<110, 117, 108, 108>>}
(* Mutant of WordEnd: only the first letter is compared. *)
WordEndByLetter(line, i) == {i + Len(w) : w \in {v \in Words : v[1] = At(line, i)}}

WordEnd(line, i) ==
  {i + Len(w) : w \in {v \in Words : Span(line, i, Len(v)) = v}}

(* The run of a number's characters. *)
NumberEnd(line, i) ==
  Min({k \in i .. Len(line) + 1 : At(line, k) \notin NumberChar})

(* parse_value: a string as {text}, any other value as {}. *)
ValueAt(line, i) ==
  LET Ends(ends) == {<<{}, j>> : j \in ends}
      first == At(line, i)
  IN  CASE first = Quote -> {<<{s[1]}, s[2]>> : s \in StringAt(line, i)}
        [] first \in {OpenBrace, OpenBracket} -> Ends(Composite(line, i))
        [] first \in {w[1] : w \in Words} -> Ends(WordEnd(line, i))
        [] OTHER -> Ends({NumberEnd(line, i)} \ {i})

-----------------------------------------------------------------------------
(* escape_into *)
HexCode(n) == IF n < 10 THEN 48 + n ELSE 87 + n
Hex4Of(n) ==
  <<HexCode(n \div 4096), HexCode((n \div 256) % 16), HexCode((n \div 16) % 16), HexCode(n % 16)>>

(* Mutant of Escape: control characters without a letter are left as they are. *)
EscapeNoControls(c) ==
  LET short == {e[1] : e \in {p \in ShortEscape : p[2] = c}}
  IN  IF short # {} THEN <<Backslash, Get(short)>> ELSE <<c>>

Escape(c) ==
  LET short == {e[1] : e \in {p \in ShortEscape : p[2] = c}}
  IN  CASE short # {} -> <<Backslash, Get(short)>>
        [] short = {} /\ c < 32 -> <<Backslash, LetterU>> \o Hex4Of(c)
        [] OTHER -> <<c>>

EscapeInto(text) ==
  <<Quote>> \o FlattenSeq([k \in DOMAIN text |-> Escape(text[k])]) \o <<Quote>>

(* render_record, of a verdict whose decision and rule are spelled in       *)
(* capital letters: only the id and the detail can need an escape.          *)
IdKey == <<105, 100>>
CmdKey == <<99, 109, 100>>
Field(key, value) == EscapeInto(key) \o <<Colon>> \o EscapeInto(value)
RenderRecord(id, decision, rule, detail) ==
  <<OpenBrace>> \o Field(IdKey, id)
    \o <<Comma>> \o Field(<<100, 101, 99, 105, 115, 105, 111, 110>>, decision)
    \o <<Comma>> \o Field(<<114, 117, 108, 101>>, rule)
    \o <<Comma>> \o Field(<<100, 101, 116, 97, 105, 108>>, detail) \o <<CloseBrace>>
=============================================================================
