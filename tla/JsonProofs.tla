----------------------------- MODULE JsonProofs -----------------------------
(***************************************************************************)
(* Machine-checked proofs about the JSON reader and writer.                *)
(***************************************************************************)
EXTENDS JsonRecord, DataProofs, FiniteSetTheorems

(* A line and the positions a cursor can be at: on a character, or behind   *)
(* the last.                                                                *)
IsText(line) == line \in Seq(Nat)
Position(line) == 1 .. Len(line) + 1

LEMMA LeastOf ==
  ASSUME NEW S \in SUBSET Nat, S # {}
  PROVE  Min(S) \in S /\ \A x \in S : Min(S) <= x
BY LeastExists DEF Min

(* The character at a position is one of the line, or there is none.        *)
LEMMA AtPosition ==
  ASSUME NEW line, IsText(line), NEW j \in Nat
  PROVE  /\ j \in 1 .. Len(line) => At(line, j) = line[j] /\ line[j] \in Nat
         /\ j \notin 1 .. Len(line) => At(line, j) = -1
<1>1. Len(line) \in Nat /\ DOMAIN line = 1 .. Len(line)
  BY DEF IsText
<1>2. QED
  BY <1>1 DEF At, End, IsText

(* White space is skipped forward, and only white space.                    *)
LEMMA SkipForward ==
  ASSUME NEW line, IsText(line), NEW p \in Position(line)
  PROVE  /\ SkipWs(line, p) \in p .. Len(line) + 1
         /\ At(line, p) \notin White => SkipWs(line, p) = p
<1> DEFINE Stops == {k \in p .. Len(line) + 1 : At(line, k) \notin White}
<1>1. Len(line) \in Nat /\ p \in 1 .. Len(line) + 1
  BY DEF IsText, Position
<1>2. Len(line) + 1 \in Stops
  <2>1. At(line, Len(line) + 1) = -1
    BY <1>1, AtPosition
  <2>2. QED
    BY <1>1, <2>1 DEF White
<1>3. Stops \in SUBSET Nat /\ Stops # {} /\ Stops \subseteq p .. Len(line) + 1
  BY <1>1, <1>2
<1>4. SkipWs(line, p) = Min(Stops)
  BY DEF SkipWs
<1>5. At(line, p) \notin White => p \in Stops
  BY <1>1
<1> HIDE DEF Stops
<1>6. Min(Stops) \in Stops /\ \A x \in Stops : Min(Stops) <= x
  BY <1>3, LeastOf
<1>7. SkipWs(line, p) \in p .. Len(line) + 1
  BY <1>3, <1>4, <1>6
<1>8. ASSUME At(line, p) \notin White PROVE SkipWs(line, p) = p
  <2>1. SkipWs(line, p) <= p
    BY <1>4, <1>5, <1>6, <1>8
  <2>2. QED
    BY <1>1, <1>7, <2>1
<1>9. QED
  BY <1>7, <1>8

(* A number ends behind where it begins, and on the line.                   *)
LEMMA NumberForward ==
  ASSUME NEW line, IsText(line), NEW p \in Position(line)
  PROVE  NumberEnd(line, p) \in p .. Len(line) + 1
<1> DEFINE Stops == {k \in p .. Len(line) + 1 : At(line, k) \notin NumberChar}
<1>1. Len(line) \in Nat /\ p \in 1 .. Len(line) + 1
  BY DEF IsText, Position
<1>2. Len(line) + 1 \in Stops
  <2>1. At(line, Len(line) + 1) = -1
    BY <1>1, AtPosition
  <2>2. QED
    BY <1>1, <2>1 DEF NumberChar
<1>3. Stops \in SUBSET Nat /\ Stops # {} /\ Stops \subseteq p .. Len(line) + 1
  BY <1>1, <1>2
<1>4. NumberEnd(line, p) = Min(Stops)
  BY DEF NumberEnd
<1> HIDE DEF Stops
<1>5. Min(Stops) \in Stops
  BY <1>3, LeastOf
<1>6. QED
  BY <1>3, <1>4, <1>5

(* The n characters from p on: as many as there are, each as in the line.   *)
LEMMA SpanFacts ==
  ASSUME NEW line, IsText(line), NEW p \in 1 .. Len(line) + 2, NEW n \in Nat
  PROVE  LET span == Span(line, p, n)
         IN  /\ span \in Seq(Nat)
             /\ Len(span) = n /\ n > 0 => p + n - 1 <= Len(line)
             /\ p + n - 1 <= Len(line) =>
                  Len(span) = n /\ \A k \in 1 .. n : span[k] = line[p + k - 1]
<1>1. Len(line) \in Nat /\ DOMAIN line = 1 .. Len(line)
  BY DEF IsText
<1> DEFINE last == Min({p + n - 1, Len(line)})
<1>2. {p + n - 1, Len(line)} \in SUBSET Nat
  BY <1>1
<1>3. last \in {p + n - 1, Len(line)} /\ last <= p + n - 1 /\ last <= Len(line)
  BY <1>2, LeastOf
<1>4. last \in Nat /\ (p + n - 1 <= Len(line) => last = p + n - 1)
  <2>1. p + n - 1 \in Nat
    OBVIOUS
  <2>2. p + n - 1 <= Len(line) => last = p + n - 1
    BY <1>1, <1>3, <2>1
  <2>3. QED
    BY <1>1, <1>3, <2>1, <2>2
<1>5. Span(line, p, n) = SubSeq(line, p, last)
  BY DEF Span
<1> HIDE DEF last
<1>6. p \in Nat \ {0}
  OBVIOUS
<1>7. \A k \in p .. last : line[k] \in Nat
  <2>1. \A l, m \in Nat : l <= m => \A k \in p .. l : k \in 1 .. m
    BY <1>6
  <2>2. \A k \in p .. last : k \in 1 .. Len(line)
    BY <1>1, <1>3, <1>4, <2>1
  <2>3. QED
    BY <2>2 DEF IsText
<1>8. /\ SubSeq(line, p, last) \in Seq(Nat)
      /\ Len(SubSeq(line, p, last)) = IF p <= last THEN last - p + 1 ELSE 0
      /\ \A k \in 1 .. last - p + 1 : SubSeq(line, p, last)[k] = line[p + k - 1]
  BY <1>4, <1>6, <1>7, SubSeqProperties DEF IsText
<1>9. Len(Span(line, p, n)) = n /\ n > 0 => p + n - 1 <= Len(line)
  <2>1. \A l, m \in Nat : (IF p <= l THEN l - p + 1 ELSE 0) = n /\ n > 0 /\ l <= m => p + n - 1 <= m
    OBVIOUS
  <2>2. QED
    BY <1>1, <1>3, <1>4, <1>5, <1>8, <2>1
<1>10. ASSUME p + n - 1 <= Len(line)
       PROVE  /\ Len(Span(line, p, n)) = n
              /\ \A k \in 1 .. n : Span(line, p, n)[k] = line[p + k - 1]
  <2>1. last = p + n - 1
    BY <1>4, <1>10
  <2>2. last - p + 1 = n /\ (p <= last <=> n # 0)
    BY <2>1
  <2>3. QED
    BY <1>5, <1>8, <2>2
<1>11. QED
  BY <1>5, <1>8, <1>9, <1>10

-----------------------------------------------------------------------------
(* Escapes. *)

(* Four hexadecimal digits are read as a number.                            *)
LEMMA Hex4Forward ==
  ASSUME NEW line, IsText(line), NEW p \in 1 .. Len(line) + 2, NEW c \in Hex4(line, p)
  PROVE  c \in Nat /\ p + 3 <= Len(line)
<1> DEFINE quad == Span(line, p, 4)
           v(k) == HexValue(quad[k])
<1>1. /\ Len(quad) = 4 /\ ToSet(quad) \subseteq HexDigit
      /\ c = 16 * (16 * (16 * v(1) + v(2)) + v(3)) + v(4)
  BY DEF Hex4
<1>2. quad \in Seq(Nat) /\ (Len(quad) = 4 /\ 4 > 0 => p + 4 - 1 <= Len(line))
  BY SpanFacts
<1> HIDE DEF quad
<1>3. \A k \in 1 .. 4 : quad[k] \in HexDigit
  BY <1>1, <1>2 DEF ToSet
<1>4. \A d \in HexDigit : HexValue(d) \in Nat
  BY DEF HexDigit, HexValue
<1>5. v(1) \in Nat /\ v(2) \in Nat /\ v(3) \in Nat /\ v(4) \in Nat
  BY <1>3, <1>4
<1> HIDE DEF v
<1>6. c \in Nat
  <2>1. \A a, b \in Nat : 16 * a + b \in Nat
    OBVIOUS
  <2>2. QED
    BY <1>1, <1>5, <2>1
<1>7. QED
  BY <1>1, <1>2, <1>6

(* An escape is read forward and on the line.                               *)
LEMMA EscapeForward ==
  ASSUME NEW line, IsText(line), NEW p \in 1 .. Len(line) + 2,
         NEW c \in UnicodeEscape(line, p)
  PROVE  c[1] \in Nat /\ c[2] \in p .. Len(line) + 1 /\ c = <<c[1], c[2]>>
<1>1. Len(line) \in Nat
  BY DEF IsText
<1>2. PICK hi \in Hex4(line, p) :
        c \in IF hi \in HighSurrogate
              THEN {<<65536 + (hi - 55296) * 1024 + (lo - 56320), p + 10>> :
                      lo \in IF Span(line, p + 4, 2) = <<Backslash, LetterU>>
                             THEN Hex4(line, p + 6) \cap LowSurrogate ELSE {}}
              ELSE IF hi \in LowSurrogate THEN {} ELSE {<<hi, p + 4>>}
  BY DEF UnicodeEscape
<1>3. hi \in Nat /\ p + 3 <= Len(line)
  BY Hex4Forward
<1>4. CASE hi \in HighSurrogate
  <2>1. PICK lo \in IF Span(line, p + 4, 2) = <<Backslash, LetterU>>
                    THEN Hex4(line, p + 6) \cap LowSurrogate ELSE {} :
          c = <<65536 + (hi - 55296) * 1024 + (lo - 56320), p + 10>>
    BY <1>2, <1>4
  <2>2. Span(line, p + 4, 2) = <<Backslash, LetterU>> /\ lo \in LowSurrogate
        /\ lo \in Hex4(line, p + 6)
    BY <2>1
  <2>3. p + 4 \in 1 .. Len(line) + 2
    BY <1>1, <1>3
  <2>4. p + 5 <= Len(line)
    <3>1. Len(Span(line, p + 4, 2)) = 2
      BY <2>2
    <3>2. 2 \in Nat /\ 2 > 0
      OBVIOUS
    <3>3. (p + 4) + 2 - 1 <= Len(line)
      BY <2>3, <3>1, <3>2, SpanFacts
    <3>4. QED
      BY <3>3, <1>1
  <2>5. p + 6 \in 1 .. Len(line) + 2
    BY <1>1, <2>4
  <2>6. (p + 6) + 3 <= Len(line)
    BY <2>2, <2>5, Hex4Forward
  <2>7. p + 10 \in p .. Len(line) + 1
    BY <1>1, <2>6
  <2>8. 65536 + (hi - 55296) * 1024 + (lo - 56320) \in Nat
    BY <1>4, <2>2 DEF HighSurrogate, LowSurrogate
  <2>9. QED
    BY <2>1, <2>7, <2>8
<1>5. CASE hi \notin HighSurrogate
  <2>1. c = <<hi, p + 4>>
    BY <1>2, <1>5
  <2>2. p + 4 \in p .. Len(line) + 1
    BY <1>1, <1>3
  <2>3. QED
    BY <1>3, <2>1, <2>2
<1>6. QED
  BY <1>4, <1>5

(* One character is read forward and on the line.                           *)
LEMMA CharacterForward ==
  ASSUME NEW line, IsText(line), NEW p \in 1 .. Len(line), NEW c \in Character(line, p)
  PROVE  c[1] \in Nat /\ c[2] \in p + 1 .. Len(line) + 1 /\ c = <<c[1], c[2]>>
<1>1. Len(line) \in Nat /\ line[p] \in Nat
  BY DEF IsText
<1>2. CASE line[p] # Backslash
  <2>1. c = <<line[p], p + 1>>
    BY <1>2 DEF Character
  <2>2. QED
    BY <1>1, <2>1
<1>3. CASE line[p] = Backslash /\ At(line, p + 1) = LetterU
  <2>1. c \in UnicodeEscape(line, p + 2)
    BY <1>3 DEF Character
  <2>2. p + 2 \in 1 .. Len(line) + 2
    BY <1>1
  <2>3. c[1] \in Nat /\ c[2] \in p + 2 .. Len(line) + 1 /\ c = <<c[1], c[2]>>
    BY <2>1, <2>2, EscapeForward
  <2>4. QED
    BY <1>1, <2>3
<1>4. CASE line[p] = Backslash /\ At(line, p + 1) # LetterU
  <2>1. PICK e \in ShortEscape \cup {<<47, 47>>} :
          e[1] = At(line, p + 1) /\ c = <<e[2], p + 2>>
    BY <1>4 DEF Character
  <2>2. e[1] # -1 /\ e[2] \in Nat
    BY DEF ShortEscape
  <2>3. p + 1 \in 1 .. Len(line)
    <3>1. p + 1 \in Nat
      OBVIOUS
    <3>2. QED
      BY <2>1, <2>2, <3>1, AtPosition
  <2>4. p + 2 \in p + 1 .. Len(line) + 1
    BY <1>1, <2>3
  <2>5. QED
    BY <2>1, <2>2, <2>4
<1>5. QED
  BY <1>2, <1>3, <1>4

-----------------------------------------------------------------------------
(* Strings. *)

(* What the rest of a string at j is read as, if f says so of what follows. *)
RestAt(line, f, j) ==
  CASE At(line, j) = End   -> {}
    [] At(line, j) = Quote -> {<<<<>>, j + 1>>}
    [] OTHER -> UNION {{<<<<c[1]>> \o r[1], r[2]>> : r \in f[c[2]]}
                       : c \in Character(line, j)}

(* A character before each of the ways to read what follows it.             *)
Before(c, readings) == {<<<<c[1]>> \o r[1], r[2]>> : r \in readings}
FromCharacters(line, f, j) == UNION {Before(c, f[c[2]]) : c \in Character(line, j)}

Readings == SUBSET (Seq(Nat) \X Nat)
IsRest(line, f) == f = [j \in 1 .. Len(line) + 1 |-> RestAt(line, f, j)]

(* Only a quote ends a string, and only where the line ends there is nothing *)
(* to read.                                                                 *)
LEMMA RestCases ==
  ASSUME NEW line, IsText(line), NEW f, NEW j \in 1 .. Len(line) + 1
  PROVE  \/ j \notin 1 .. Len(line) /\ RestAt(line, f, j) = {}
         \/ j \in 1 .. Len(line) /\ line[j] = Quote /\ RestAt(line, f, j) = {<<<<>>, j + 1>>}
         \/ /\ j \in 1 .. Len(line) /\ line[j] # Quote
            /\ RestAt(line, f, j) = FromCharacters(line, f, j)
<1>1. CASE j \notin 1 .. Len(line)
  <2>1. j \in Nat
    BY DEF IsText
  <2>2. At(line, j) = End
    BY <1>1, <2>1, AtPosition DEF End
  <2>3. QED
    BY <1>1, <2>2 DEF RestAt, End, Quote
<1>2. CASE j \in 1 .. Len(line) /\ line[j] = Quote
  <2>1. At(line, j) = Quote /\ Quote # End
    BY <1>2, AtPosition DEF Quote, End
  <2>2. QED
    BY <1>2, <2>1 DEF RestAt
<1>3. CASE j \in 1 .. Len(line) /\ line[j] # Quote
  <2>1. At(line, j) # Quote /\ At(line, j) # End
    BY <1>3, AtPosition DEF End
  <2>2. QED
    BY <1>3, <2>1 DEF RestAt, FromCharacters, Before
<1>4. QED
  BY <1>1, <1>2, <1>3

(* One step of parse_string leads from readings to readings ...             *)
LEMMA RestTyped ==
  ASSUME NEW line, IsText(line), NEW f \in [1 .. Len(line) + 1 -> Readings],
         NEW j \in 1 .. Len(line) + 1
  PROVE  RestAt(line, f, j) \in Readings
<1>1. Len(line) \in Nat
  BY DEF IsText
<1>2. CASE j \in 1 .. Len(line) /\ line[j] # Quote
  <2> SUFFICES ASSUME NEW x \in FromCharacters(line, f, j) PROVE x \in Seq(Nat) \X Nat
    BY <1>2, RestCases DEF Readings
  <2>1. PICK c \in Character(line, j) : x \in Before(c, f[c[2]])
    BY DEF FromCharacters
  <2>2. PICK r \in f[c[2]] : x = <<<<c[1]>> \o r[1], r[2]>>
    BY <2>1 DEF Before
  <2>3. c[1] \in Nat /\ c[2] \in j + 1 .. Len(line) + 1
    BY <1>2, CharacterForward
  <2>4. c[2] \in 1 .. Len(line) + 1
    BY <1>1, <2>3
  <2>5. r \in Seq(Nat) \X Nat
    BY <2>4 DEF Readings
  <2>6. r[1] \in Seq(Nat) /\ r[2] \in Nat /\ <<c[1]>> \in Seq(Nat)
    BY <2>3, <2>5
  <2>7. <<c[1]>> \o r[1] \in Seq(Nat)
    BY <2>6, ConcatProperties
  <2>8. QED
    BY <2>2, <2>6, <2>7
<1>3. CASE ~(j \in 1 .. Len(line) /\ line[j] # Quote)
  <2>1. RestAt(line, f, j) = {} \/ RestAt(line, f, j) = {<<<<>>, j + 1>>}
    BY <1>3, RestCases
  <2>2. <<<<>>, j + 1>> \in Seq(Nat) \X Nat
    <3>1. <<>> \in Seq(Nat) /\ j + 1 \in Nat
      BY <1>1
    <3>2. QED
      BY <3>1
  <2>3. QED
    BY <2>1, <2>2 DEF Readings
<1>4. QED
  BY <1>2, <1>3

(* ... and looks only at those further on, since a character is longer      *)
(* than nothing.                                                            *)
LEMMA RestLooksAhead ==
  ASSUME NEW line, IsText(line), NEW f, NEW g, NEW j \in 1 .. Len(line) + 1,
         AgreeAfter(Len(line) + 1, j, f, g)
  PROVE  RestAt(line, f, j) = RestAt(line, g, j)
<1>1. Len(line) \in Nat
  BY DEF IsText
<1>2. CASE j \in 1 .. Len(line) /\ line[j] # Quote
  <2>1. \A c \in Character(line, j) : f[c[2]] = g[c[2]]
    <3> TAKE c \in Character(line, j)
    <3>1. c[2] \in j + 1 .. Len(line) + 1
      BY <1>2, CharacterForward
    <3>2. c[2] \in 1 .. Len(line) + 1 /\ c[2] > j
      BY <1>1, <3>1
    <3>3. QED
      BY <3>2 DEF AgreeAfter
  <2>2. FromCharacters(line, f, j) = FromCharacters(line, g, j)
    BY <2>1 DEF FromCharacters
  <2>3. RestAt(line, f, j) = FromCharacters(line, f, j)
        /\ RestAt(line, g, j) = FromCharacters(line, g, j)
    BY <1>2, RestCases
  <2>4. QED
    BY <2>2, <2>3
<1>3. CASE ~(j \in 1 .. Len(line) /\ line[j] # Quote)
  BY <1>3, RestCases
<1>4. QED
  BY <1>2, <1>3

(* The recursion of parse_string is well defined.                           *)
LEMMA RestExists ==
  ASSUME NEW line, IsText(line)
  PROVE  \E f : IsRest(line, f)
<1> DEFINE n == Len(line) + 1
           body == [j \in 1 .. n |-> [f \in [1 .. n -> Readings] |-> RestAt(line, f, j)]]
<1>1. n \in Nat
  BY DEF IsText
<1>2. {} \in Readings
  BY DEF Readings
<1>3. body \in Makers(n, Readings)
  BY RestTyped DEF Makers
<1>4. \A j \in 1 .. n : \A f \in [1 .. n -> Readings] : body[j][f] = RestAt(line, f, j)
  OBVIOUS
<1> HIDE DEF body
<1>5. LooksAhead(n, Readings, body)
  BY <1>4, RestLooksAhead DEF LooksAhead
<1> HIDE DEF n
<1>6. IsMade(n, Readings, body)
  BY <1>1, <1>2, <1>3, <1>5, RecursionFromTheEnd
<1>7. PICK f \in [1 .. n -> Readings] : \A j \in 1 .. n : f[j] = body[j][f]
  BY <1>6 DEF IsMade
<1>8. f = [j \in 1 .. n |-> RestAt(line, f, j)]
  BY <1>4, <1>7
<1>9. QED
  BY <1>8 DEF IsRest, n

(* So StringAt is what it says.                                             *)
LEMMA StringIsRest ==
  ASSUME NEW line, IsText(line)
  PROVE  \E f : /\ \A j \in 1 .. Len(line) + 1 : f[j] = RestAt(line, f, j)
               /\ \A p : StringAt(line, p) = IF At(line, p) = Quote THEN f[p + 1] ELSE {}
<1>1. PICK f : f = CHOOSE g : IsRest(line, g)
  OBVIOUS
<1>2. IsRest(line, f)
  BY <1>1, RestExists
<1>3. \A p : StringAt(line, p) = IF At(line, p) = Quote THEN f[p + 1] ELSE {}
  BY <1>1 DEF StringAt, IsRest, RestAt
<1>4. \A j \in 1 .. Len(line) + 1 : f[j] = RestAt(line, f, j)
  BY <1>2 DEF IsRest
<1>5. QED
  BY <1>3, <1>4

(* A string is read forward and on the line.                                *)
LEMMA StringForward ==
  ASSUME NEW line, IsText(line), NEW p \in Nat, NEW s \in StringAt(line, p)
  PROVE  /\ p \in 1 .. Len(line)
         /\ s[1] \in Seq(Nat) /\ s[2] \in p + 2 .. Len(line) + 1
<1>1. Len(line) \in Nat
  BY DEF IsText
<1>2. PICK f : /\ \A j \in 1 .. Len(line) + 1 : f[j] = RestAt(line, f, j)
               /\ \A q : StringAt(line, q) = IF At(line, q) = Quote THEN f[q + 1] ELSE {}
  BY StringIsRest
<1> DEFINE n == Len(line) + 1
           Holds == {j \in 1 .. n : \A r \in f[j] : r[1] \in Seq(Nat) /\ r[2] \in j + 1 .. n}
<1>3. n \in Nat /\ Holds \in SUBSET (1 .. n)
  BY <1>1
<1>4. ASSUME NEW j \in 1 .. n, \A k \in 1 .. n : k > j => k \in Holds
      PROVE  j \in Holds
  <2> SUFFICES ASSUME NEW r \in f[j] PROVE r[1] \in Seq(Nat) /\ r[2] \in j + 1 .. n
    OBVIOUS
  <2>1. j \in 1 .. Len(line) + 1 /\ r \in RestAt(line, f, j)
    BY <1>2
  <2>2. CASE j \in 1 .. Len(line) /\ r = <<<<>>, j + 1>>
    <3>1. r[1] = <<>> /\ r[2] = j + 1
      BY <2>2
    <3>2. j + 1 \in j + 1 .. n
      BY <1>1, <2>2
    <3>3. QED
      BY <3>1, <3>2
  <2>3. CASE j \in 1 .. Len(line) /\ r \in FromCharacters(line, f, j)
    <3>1. PICK c \in Character(line, j) : r \in Before(c, f[c[2]])
      BY <2>3 DEF FromCharacters
    <3>2. PICK t \in f[c[2]] : r = <<<<c[1]>> \o t[1], t[2]>>
      BY <3>1 DEF Before
    <3>3. c[1] \in Nat /\ c[2] \in j + 1 .. n
      BY <2>3, CharacterForward
    <3>4. c[2] \in 1 .. n /\ c[2] > j
      BY <1>3, <3>3
    <3>5. t[1] \in Seq(Nat) /\ t[2] \in c[2] + 1 .. n
      BY <1>4, <3>4
    <3>6. <<c[1]>> \in Seq(Nat)
      BY <3>3
    <3>7. <<c[1]>> \o t[1] \in Seq(Nat)
      BY <3>5, <3>6, ConcatProperties
    <3>8. t[2] \in j + 1 .. n
      BY <1>3, <3>4, <3>5
    <3>9. QED
      BY <3>2, <3>7, <3>8
  <2>4. QED
    BY <2>1, <2>2, <2>3, RestCases
<1> HIDE DEF Holds
<1>5. Holds = 1 .. n
  <2> HIDE DEF n
  <2>1. QED
    BY <1>3, <1>4, InductionFromTheEnd
<1>6. At(line, p) = Quote /\ s \in f[p + 1]
  BY <1>2
<1>7. p \in 1 .. Len(line)
  <2>1. At(line, p) # -1
    BY <1>6 DEF Quote
  <2>2. QED
    BY <2>1, AtPosition
<1>8. p + 1 \in 1 .. n /\ p + 1 + 1 = p + 2
  BY <1>1, <1>7
<1>9. s[1] \in Seq(Nat) /\ s[2] \in p + 1 + 1 .. n
  BY <1>5, <1>6, <1>8 DEF Holds
<1>10. QED
  BY <1>7, <1>8, <1>9

-----------------------------------------------------------------------------
(* Values. *)

(* Where a composite ends, its skipping being at j and so many levels deep, *)
(* if f says so of what follows.                                            *)
NextDepth(line, open, close, j, depth) ==
  IF At(line, j) = open THEN depth + 1
  ELSE IF At(line, j) = close THEN depth - 1 ELSE depth
OverStrings(line, f, j, depth) == UNION {f[s[2]][depth] : s \in StringAt(line, j)}
SkipAt(line, open, close, f, j, depth) ==
  CASE depth = 0 -> {j}
    [] depth > 0 /\ At(line, j) = End -> {}
    [] depth > 0 /\ At(line, j) = Quote ->
         UNION {f[s[2]][depth] : s \in StringAt(line, j)}
    [] OTHER -> f[j + 1][NextDepth(line, open, close, j, depth)]
SkipFrom(line, open, close, f, j) ==
  [depth \in Nat |-> SkipAt(line, open, close, f, j, depth)]

EndsByDepth == [Nat -> SUBSET Nat]
CloseOf(open) == IF open = OpenBrace THEN CloseBrace ELSE CloseBracket
IsSkip(line, open, close, f) ==
  f = [j \in 1 .. Len(line) + 1 |-> SkipFrom(line, open, close, f, j)]

(* The composite's end, the line's end, a string to go over, or one         *)
(* character.                                                               *)
SkipRules(line, open, close, f, j, depth) ==
  /\ depth = 0 => SkipAt(line, open, close, f, j, depth) = {j}
  /\ depth # 0 /\ j \notin 1 .. Len(line)
       => SkipAt(line, open, close, f, j, depth) = {}
  /\ depth # 0 /\ j \in 1 .. Len(line) /\ line[j] = Quote
       => SkipAt(line, open, close, f, j, depth) = OverStrings(line, f, j, depth)
  /\ depth # 0 /\ j \in 1 .. Len(line) /\ line[j] # Quote
       => /\ NextDepth(line, open, close, j, depth) \in Nat
          /\ SkipAt(line, open, close, f, j, depth)
               = f[j + 1][NextDepth(line, open, close, j, depth)]

LEMMA SkipCases ==
  ASSUME NEW line, IsText(line), NEW open, NEW close, NEW f,
         NEW j \in 1 .. Len(line) + 1, NEW depth \in Nat
  PROVE  SkipRules(line, open, close, f, j, depth)
<1> USE DEF SkipRules
<1>1. CASE depth = 0
  BY <1>1 DEF SkipAt
<1>2. CASE depth # 0 /\ j \notin 1 .. Len(line)
  <2>1. j \in Nat
    BY DEF IsText
  <2>2. At(line, j) = End /\ depth > 0
    BY <1>2, <2>1, AtPosition DEF End
  <2>3. QED
    BY <1>2, <2>2 DEF SkipAt, End, Quote
<1>3. CASE depth # 0 /\ j \in 1 .. Len(line) /\ line[j] = Quote
  <2>1. At(line, j) = Quote /\ Quote # End /\ depth > 0
    BY <1>3, AtPosition DEF Quote, End
  <2>2. QED
    BY <1>3, <2>1 DEF SkipAt, OverStrings
<1>4. CASE depth # 0 /\ j \in 1 .. Len(line) /\ line[j] # Quote
  <2>1. At(line, j) # Quote /\ At(line, j) # End
    BY <1>4, AtPosition DEF End
  <2>2. NextDepth(line, open, close, j, depth) \in Nat
    BY <1>4 DEF NextDepth
  <2>3. QED
    BY <1>4, <2>1, <2>2 DEF SkipAt
<1>5. QED
  BY <1>1, <1>2, <1>3, <1>4

(* One step of skip_composite leads from ends to ends ...                   *)
LEMMA SkipTyped ==
  ASSUME NEW line, IsText(line), NEW open, NEW close,
         NEW f \in [1 .. Len(line) + 1 -> EndsByDepth], NEW j \in 1 .. Len(line) + 1
  PROVE  SkipFrom(line, open, close, f, j) \in EndsByDepth
<1>1. Len(line) \in Nat
  BY DEF IsText
<1>2. ASSUME NEW depth \in Nat, NEW x \in SkipAt(line, open, close, f, j, depth)
      PROVE  x \in Nat
  <2>rules. SkipRules(line, open, close, f, j, depth)
    BY SkipCases
  <2>1. CASE depth = 0
    BY <1>2, <2>rules, <2>1 DEF SkipRules
  <2>2. CASE depth # 0 /\ j \in 1 .. Len(line) /\ line[j] = Quote
    <3>1. x \in OverStrings(line, f, j, depth)
      BY <1>2, <2>2, <2>rules DEF SkipRules
    <3>2. PICK s \in StringAt(line, j) : x \in f[s[2]][depth]
      BY <3>1 DEF OverStrings
    <3>3. s[2] \in j + 2 .. Len(line) + 1
      BY StringForward
    <3>4. s[2] \in 1 .. Len(line) + 1
      BY <1>1, <3>3
    <3>5. f[s[2]][depth] \in SUBSET Nat
      BY <3>4 DEF EndsByDepth
    <3>6. QED
      BY <3>2, <3>5
  <2>3. CASE depth # 0 /\ j \in 1 .. Len(line) /\ line[j] # Quote
    <3>1. /\ NextDepth(line, open, close, j, depth) \in Nat
          /\ x \in f[j + 1][NextDepth(line, open, close, j, depth)]
      BY <1>2, <2>3, <2>rules DEF SkipRules
    <3>2. j + 1 \in 1 .. Len(line) + 1
      BY <1>1, <2>3
    <3>3. f[j + 1] \in EndsByDepth
      BY <3>2
    <3>4. QED
      BY <3>1, <3>3 DEF EndsByDepth
  <2>4. CASE depth # 0 /\ j \notin 1 .. Len(line)
    BY <1>2, <2>4, <2>rules DEF SkipRules
  <2>5. QED
    BY <2>1, <2>2, <2>3, <2>4
<1>3. QED
  BY <1>2 DEF SkipFrom, EndsByDepth

(* ... and looks only at those further on.                                  *)
LEMMA SkipLooksAhead ==
  ASSUME NEW line, IsText(line), NEW open, NEW close, NEW f, NEW g,
         NEW j \in 1 .. Len(line) + 1,
         AgreeAfter(Len(line) + 1, j, f, g)
  PROVE  SkipFrom(line, open, close, f, j) = SkipFrom(line, open, close, g, j)
<1>1. Len(line) \in Nat
  BY DEF IsText
<1>2. ASSUME j \in 1 .. Len(line) PROVE f[j + 1] = g[j + 1]
  <2>1. j + 1 \in 1 .. Len(line) + 1 /\ j + 1 > j
    BY <1>1, <1>2
  <2>2. QED
    BY <2>1 DEF AgreeAfter
<1>3. ASSUME NEW s \in StringAt(line, j) PROVE f[s[2]] = g[s[2]]
  <2>1. s[2] \in j + 2 .. Len(line) + 1
    BY StringForward
  <2>2. s[2] \in 1 .. Len(line) + 1 /\ s[2] > j
    BY <1>1, <2>1
  <2>3. QED
    BY <2>2 DEF AgreeAfter
<1>4. ASSUME NEW depth \in Nat
      PROVE  SkipAt(line, open, close, f, j, depth) = SkipAt(line, open, close, g, j, depth)
  <2> DEFINE F == SkipAt(line, open, close, f, j, depth)
             G == SkipAt(line, open, close, g, j, depth)
  <2>rules. SkipRules(line, open, close, f, j, depth) /\ SkipRules(line, open, close, g, j, depth)
    BY SkipCases
  <2>1. CASE depth = 0
    <3>1. F = {j}
      BY <2>1, <2>rules DEF SkipRules
    <3>2. G = {j}
      BY <2>1, <2>rules DEF SkipRules
    <3>3. QED
      BY <3>1, <3>2
  <2>2. CASE depth # 0 /\ j \in 1 .. Len(line) /\ line[j] = Quote
    <3>1. OverStrings(line, f, j, depth) = OverStrings(line, g, j, depth)
      BY <1>3 DEF OverStrings
    <3>2. F = OverStrings(line, f, j, depth)
      BY <2>2, <2>rules DEF SkipRules
    <3>3. G = OverStrings(line, g, j, depth)
      BY <2>2, <2>rules DEF SkipRules
    <3>4. QED
      BY <3>1, <3>2, <3>3
  <2>3. CASE depth # 0 /\ j \in 1 .. Len(line) /\ line[j] # Quote
    <3>1. F = f[j + 1][NextDepth(line, open, close, j, depth)]
      BY <2>3, <2>rules DEF SkipRules
    <3>2. G = g[j + 1][NextDepth(line, open, close, j, depth)]
      BY <2>3, <2>rules DEF SkipRules
    <3>3. QED
      BY <1>2, <2>3, <3>1, <3>2
  <2>4. CASE depth # 0 /\ j \notin 1 .. Len(line)
    <3>1. F = {}
      BY <2>4, <2>rules DEF SkipRules
    <3>2. G = {}
      BY <2>4, <2>rules DEF SkipRules
    <3>3. QED
      BY <3>1, <3>2
  <2>5. QED
    BY <2>1, <2>2, <2>3, <2>4
<1>5. QED
  BY <1>4 DEF SkipFrom

(* The recursion of skip_composite is well defined.                         *)
LEMMA SkipExists ==
  ASSUME NEW line, IsText(line), NEW open, NEW close
  PROVE  \E f : IsSkip(line, open, close, f)
<1> DEFINE n == Len(line) + 1
           body == [j \in 1 .. n |-> [f \in [1 .. n -> EndsByDepth] |->
                                       SkipFrom(line, open, close, f, j)]]
<1>1. n \in Nat
  BY DEF IsText
<1>2. [depth \in Nat |-> {}] \in EndsByDepth
  BY DEF EndsByDepth
<1>3. body \in Makers(n, EndsByDepth)
  BY SkipTyped DEF Makers
<1>4. \A j \in 1 .. n : \A f \in [1 .. n -> EndsByDepth] :
        body[j][f] = SkipFrom(line, open, close, f, j)
  OBVIOUS
<1> HIDE DEF body
<1>5. LooksAhead(n, EndsByDepth, body)
  BY <1>4, SkipLooksAhead DEF LooksAhead
<1> HIDE DEF n
<1>6. IsMade(n, EndsByDepth, body)
  BY <1>1, <1>2, <1>3, <1>5, RecursionFromTheEnd
<1>7. PICK f \in [1 .. n -> EndsByDepth] : \A j \in 1 .. n : f[j] = body[j][f]
  BY <1>6 DEF IsMade
<1>8. f = [j \in 1 .. n |-> SkipFrom(line, open, close, f, j)]
  BY <1>4, <1>7
<1>9. QED
  BY <1>8 DEF IsSkip, n

(* So Composite is what it says.                                            *)
LEMMA CompositeIsSkip ==
  ASSUME NEW line, IsText(line), NEW p \in 1 .. Len(line)
  PROVE  \E f : /\ \A j \in 1 .. Len(line) + 1 : \A depth \in Nat :
                     f[j][depth] = SkipAt(line, line[p], CloseOf(line[p]), f, j, depth)
               /\ Composite(line, p) = f[p + 1][1]
<1> DEFINE open == line[p]
           close == CloseOf(open)
<1>1. PICK f : f = CHOOSE g : IsSkip(line, open, close, g)
  OBVIOUS
<1>2. IsSkip(line, open, close, f)
  BY <1>1, SkipExists
<1>3. Composite(line, p) = f[p + 1][1]
  BY <1>1 DEF Composite, IsSkip, SkipFrom, SkipAt, NextDepth, OverStrings, CloseOf
<1> HIDE DEF open, close
<1>4. ASSUME NEW j \in 1 .. Len(line) + 1, NEW depth \in Nat
      PROVE  f[j][depth] = SkipAt(line, open, close, f, j, depth)
  <2>1. f[j] = SkipFrom(line, open, close, f, j)
    BY <1>2 DEF IsSkip
  <2>2. QED
    BY <2>1 DEF SkipFrom
<1>5. QED
  BY <1>3, <1>4 DEF open, close

(* A composite ends behind where it opens, on the line.                     *)
LEMMA CompositeForward ==
  ASSUME NEW line, IsText(line), NEW p \in 1 .. Len(line), NEW e \in Composite(line, p)
  PROVE  e \in p + 1 .. Len(line) + 1
<1>1. Len(line) \in Nat
  BY DEF IsText
<1> DEFINE open == line[p]
           close == CloseOf(open)
           n == Len(line) + 1
<1>2. PICK f : /\ \A j \in 1 .. Len(line) + 1 : \A depth \in Nat :
                    f[j][depth] = SkipAt(line, open, close, f, j, depth)
               /\ Composite(line, p) = f[p + 1][1]
  BY CompositeIsSkip
<1> HIDE DEF open, close
<1> DEFINE Holds == {j \in 1 .. n : \A depth \in Nat : \A x \in f[j][depth] : x \in j .. n}
<1>3. n \in Nat /\ Holds \in SUBSET (1 .. n)
  BY <1>1
<1>4. ASSUME NEW j \in 1 .. n, \A k \in 1 .. n : k > j => k \in Holds
      PROVE  j \in Holds
  <2> SUFFICES ASSUME NEW depth \in Nat, NEW x \in f[j][depth] PROVE x \in j .. n
    OBVIOUS
  <2>1. j \in 1 .. Len(line) + 1 /\ x \in SkipAt(line, open, close, f, j, depth)
    BY <1>2
  <2>rules. SkipRules(line, open, close, f, j, depth)
    BY SkipCases
  <2>2. CASE depth = 0
    <3>1. x = j
      BY <2>1, <2>2, <2>rules DEF SkipRules
    <3>2. QED
      BY <1>3, <3>1
  <2>3. CASE depth # 0 /\ j \in 1 .. Len(line) /\ line[j] = Quote
    <3>1. x \in OverStrings(line, f, j, depth)
      BY <2>1, <2>3, <2>rules DEF SkipRules
    <3>2. PICK s \in StringAt(line, j) : x \in f[s[2]][depth]
      BY <3>1 DEF OverStrings
    <3>3. s[2] \in j + 2 .. Len(line) + 1
      BY StringForward
    <3>4. s[2] \in 1 .. n /\ s[2] > j
      BY <1>1, <3>3
    <3>5. x \in s[2] .. n
      BY <1>4, <3>2, <3>4
    <3>6. QED
      BY <1>3, <3>4, <3>5
  <2>4. CASE depth # 0 /\ j \in 1 .. Len(line) /\ line[j] # Quote
    <3>1. /\ NextDepth(line, open, close, j, depth) \in Nat
          /\ x \in f[j + 1][NextDepth(line, open, close, j, depth)]
      BY <2>1, <2>4, <2>rules DEF SkipRules
    <3>2. j + 1 \in 1 .. n /\ j + 1 > j
      BY <1>1, <2>4
    <3>3. x \in j + 1 .. n
      BY <1>4, <3>1, <3>2
    <3>4. QED
      BY <1>3, <3>3
  <2>5. CASE depth # 0 /\ j \notin 1 .. Len(line)
    BY <2>1, <2>5, <2>rules DEF SkipRules
  <2>6. QED
    BY <2>2, <2>3, <2>4, <2>5
<1> HIDE DEF Holds
<1>5. Holds = 1 .. n
  <2> HIDE DEF n
  <2>1. QED
    BY <1>3, <1>4, InductionFromTheEnd
<1>6. p + 1 \in 1 .. n /\ e \in f[p + 1][1] /\ 1 \in Nat
  BY <1>1, <1>2
<1>7. QED
  BY <1>5, <1>6 DEF Holds

(* A value that begins with a quote is the string it begins.                *)
LEMMA ValueOfString ==
  ASSUME NEW line, NEW p, At(line, p) = Quote
  PROVE  ValueAt(line, p) = {<<{s[1]}, s[2]>> : s \in StringAt(line, p)}
<1> DEFINE first == At(line, p)
           letters == {w[1] : w \in Words}
<1>1. letters = {116, 102, 110}
  BY DEF Words
<1> HIDE DEF letters
<1>2. first \notin {OpenBrace, OpenBracket} /\ first \notin letters
  BY <1>1 DEF Quote, OpenBrace, OpenBracket
<1>3. QED
  BY <1>2 DEF ValueAt, letters

(* A value is read forward and on the line.                                 *)
LEMMA ValueForward ==
  ASSUME NEW line, IsText(line), NEW p \in 1 .. Len(line) + 1, NEW v \in ValueAt(line, p)
  PROVE  v[2] \in p + 1 .. Len(line) + 1
<1>1. Len(line) \in Nat /\ p \in Nat
  BY DEF IsText
<1> DEFINE first == At(line, p)
           letters == {w[1] : w \in Words}
<1>2. letters = {116, 102, 110}
  BY DEF Words
<1> HIDE DEF letters
<1>3. CASE first = Quote
  <2>1. PICK s \in StringAt(line, p) : v = <<{s[1]}, s[2]>>
    BY <1>3, ValueOfString
  <2>2. s[2] \in p + 2 .. Len(line) + 1
    BY <1>1, StringForward
  <2>3. QED
    BY <1>1, <2>1, <2>2
<1>4. CASE first # Quote /\ first \in {OpenBrace, OpenBracket}
  <2> DEFINE ends == {<<{}, e>> : e \in Composite(line, p)}
  <2>1. first \notin letters
    BY <1>4, <1>2 DEF OpenBrace, OpenBracket
  <2>2. ValueAt(line, p) = ends
    BY <1>4, <2>1 DEF ValueAt, letters
  <2>3. PICK e \in Composite(line, p) : v = <<{}, e>>
    BY <2>2
  <2>4. first # -1
    BY <1>4 DEF OpenBrace, OpenBracket
  <2>5. p \in 1 .. Len(line)
    BY <1>1, <2>4, AtPosition
  <2>6. QED
    BY <2>3, <2>5, CompositeForward
<1>5. CASE /\ first # Quote /\ first \notin {OpenBrace, OpenBracket}
           /\ first \in letters
  <2>1. PICK e \in WordEnd(line, p) : v = <<{}, e>>
    BY <1>5 DEF ValueAt, letters
  <2>2. PICK w \in Words : Span(line, p, Len(w)) = w /\ e = p + Len(w)
    BY <2>1 DEF WordEnd
  <2>3. Len(w) \in {4, 5}
    BY DEF Words
  <2>4. p \in 1 .. Len(line) + 2
    BY <1>1
  <2>5. Len(w) \in Nat /\ Len(w) > 0 /\ Len(w) >= 1
    <3>1. \A n \in {4, 5} : n \in Nat /\ n > 0 /\ n >= 1
      OBVIOUS
    <3>2. QED
      BY <2>3, <3>1
  <2>6. p + Len(w) - 1 <= Len(line)
    BY <2>2, <2>4, <2>5, SpanFacts
  <2>7. e \in p + 1 .. Len(line) + 1
    <3>1. \A n, m \in Nat : n >= 1 /\ p + n - 1 <= m => p + n \in p + 1 .. m + 1
      BY <1>1
    <3>2. QED
      BY <1>1, <2>2, <2>5, <2>6, <3>1
  <2>8. QED
    BY <2>1, <2>7
<1>6. CASE /\ first # Quote /\ first \notin {OpenBrace, OpenBracket}
           /\ first \notin letters
  <2>1. PICK e \in {NumberEnd(line, p)} \ {p} : v = <<{}, e>>
    BY <1>6 DEF ValueAt, letters
  <2>2. e \in p .. Len(line) + 1 /\ e # p
    BY <2>1, NumberForward DEF Position
  <2>3. QED
    BY <1>1, <2>1, <2>2
<1>7. QED
  BY <1>3, <1>4, <1>5, <1>6

-----------------------------------------------------------------------------
(* The reader. *)

TypeInv == IsText(input.line) /\ TypeOK

(* The reader starts at the first position of a line ...                    *)
LEMMA InitTypeInv == Init => TypeInv
<1> SUFFICES ASSUME Init PROVE TypeInv
  OBVIOUS
<1>1. IsText(input.line)
  BY InputAssumption DEF Init, IsText
<1>2. Len(input.line) \in Nat
  BY <1>1 DEF IsText
<1>3. QED
  BY <1>1, <1>2 DEF Init, TypeInv, TypeOK

(* The cursor after skipping white space, and one character behind it.      *)
LEMMA SkippedForward ==
  ASSUME IsText(input.line), NEW p \in 1 .. Len(input.line) + 1
  PROVE  /\ Skipped(p) \in p .. Len(input.line) + 1
         /\ Skipped(p) \in 1 .. Len(input.line) + 1
         /\ Byte(Skipped(p)) # -1 => Skipped(p) + 1 \in 1 .. Len(input.line) + 1
<1>1. Len(input.line) \in Nat
  BY DEF IsText
<1>2. Skipped(p) \in p .. Len(input.line) + 1
  BY SkipForward DEF Skipped, Position
<1>3. Skipped(p) \in 1 .. Len(input.line) + 1
  BY <1>1, <1>2
<1>4. ASSUME Byte(Skipped(p)) # -1 PROVE Skipped(p) + 1 \in 1 .. Len(input.line) + 1
  <2>1. Skipped(p) \in Nat /\ At(input.line, Skipped(p)) # -1
    BY <1>3, <1>4 DEF Byte
  <2>2. Skipped(p) \in 1 .. Len(input.line)
    BY <2>1, AtPosition
  <2>3. QED
    BY <1>1, <2>2
<1>5. QED
  BY <1>2, <1>3, <1>4

(* ... and no step of its loop takes it off the line.                       *)
LEMMA NextTypeInv == TypeInv /\ [Next]_vars => TypeInv'
<1> SUFFICES ASSUME TypeInv, [Next]_vars PROVE TypeInv'
  OBVIOUS
<1> DEFINE Places == 1 .. Len(input.line) + 1
<1>1. IsText(input.line) /\ i \in Places /\ (at = "end" <=> outcome # {})
  BY DEF TypeInv, TypeOK
<1>2. i \in Nat
  BY <1>1
<1>3. CASE UNCHANGED vars
  BY <1>3 DEF vars, TypeInv, TypeOK, IsText
<1>4. ASSUME NEW point \in {"key", "value", "next"}, NEW j \in Places, Go(point, j),
             at # "end", input' = input
      PROVE  TypeInv'
  <2>1. outcome' = {} /\ at' = point /\ i' = j
    BY <1>1, <1>4 DEF Go
  <2>2. QED
    BY <1>1, <1>4, <2>1 DEF TypeInv, TypeOK, IsText
<1>5. ASSUME NEW result, Stop(result), input' = input
      PROVE  TypeInv'
  BY <1>1, <1>5 DEF Stop, TypeInv, TypeOK, IsText
<1> HIDE DEF Places
<1>6. ASSUME Open PROVE TypeInv'
  <2> DEFINE start == Skipped(i)
  <2>1. input' = input /\ at # "end"
    BY <1>6 DEF Open
  <2>2. \/ Stop("none") \/ Stop("some")
        \/ Byte(start) = OpenBrace /\ Go("key", start + 1)
    BY <1>6 DEF Open
  <2>3. Byte(start) = OpenBrace => start + 1 \in Places
    BY <1>1, SkippedForward DEF OpenBrace, Places
  <2> HIDE DEF start
  <2>4. QED
    BY <1>4, <1>5, <2>1, <2>2, <2>3
<1>7. ASSUME ReadKey PROVE TypeInv'
  <2> DEFINE read == StringAt(input.line, Skipped(i))
             colon == Skipped(Get(read)[2])
  <2>1. input' = input /\ at # "end"
    BY <1>7 DEF ReadKey
  <2>2. \/ Stop("none")
        \/ read # {} /\ Byte(colon) = Colon /\ Go("value", colon + 1)
    BY <1>7 DEF ReadKey
  <2>3. ASSUME read # {}, Byte(colon) = Colon PROVE colon + 1 \in Places
    <3>1. Skipped(i) \in Nat
      BY <1>1, SkippedForward DEF Places
    <3>2. Get(read) \in read
      BY <2>3, GetMember
    <3>3. Get(read)[2] \in Skipped(i) + 2 .. Len(input.line) + 1
      BY <1>1, <3>1, <3>2, StringForward
    <3>4. Get(read)[2] \in 1 .. Len(input.line) + 1
      BY <3>1, <3>3
    <3>5. QED
      BY <1>1, <2>3, <3>4, SkippedForward DEF Colon, Places
  <2> HIDE DEF read, colon
  <2>4. QED
    BY <1>4, <1>5, <2>1, <2>2, <2>3
<1>8. ASSUME ReadValue PROVE TypeInv'
  <2> DEFINE read == ValueAt(input.line, Skipped(i))
  <2>1. input' = input /\ at # "end"
    BY <1>8 DEF ReadValue
  <2>2. Stop("none") \/ (read # {} /\ Go("next", Get(read)[2]))
    BY <1>8 DEF ReadValue
  <2>3. ASSUME read # {} PROVE Get(read)[2] \in Places
    <3>1. Skipped(i) \in 1 .. Len(input.line) + 1 /\ Skipped(i) \in Nat
      BY <1>1, SkippedForward DEF Places
    <3>2. Get(read) \in read
      BY <2>3, GetMember
    <3>3. Get(read)[2] \in Skipped(i) + 1 .. Len(input.line) + 1
      BY <1>1, <3>1, <3>2, ValueForward
    <3>4. QED
      BY <3>1, <3>3 DEF Places
  <2> HIDE DEF read
  <2>4. QED
    BY <1>4, <1>5, <2>1, <2>2, <2>3
<1>9. ASSUME ReadNext PROVE TypeInv'
  <2> DEFINE j == Skipped(i)
  <2>1. input' = input /\ at # "end"
    BY <1>9 DEF ReadNext
  <2>2. \/ Stop("none") \/ Stop("some")
        \/ Byte(j) = Comma /\ Go("key", j + 1)
    BY <1>9 DEF ReadNext
  <2>3. Byte(j) = Comma => j + 1 \in Places
    BY <1>1, SkippedForward DEF Comma, Places
  <2> HIDE DEF j
  <2>4. QED
    BY <1>4, <1>5, <2>1, <2>2, <2>3
<1>10. QED
  BY <1>3, <1>6, <1>7, <1>8, <1>9 DEF Next, Done

(* The cursor of parse_record stays on the line, whatever the line is and   *)
(* wherever the strings, composites, words and numbers on it break off; and *)
(* it has an outcome exactly when it is done.                               *)
THEOREM TypeCorrect == Spec => []TypeOK
<1>1. Spec => []TypeInv
  BY InitTypeInv, NextTypeInv, PTL DEF Spec
<1>2. TypeInv => TypeOK
  BY DEF TypeInv
<1>3. QED
  BY <1>1, <1>2, PTL

-----------------------------------------------------------------------------
(* The writer. *)

(* The characters that are no control characters.                           *)
Printable == {c \in Nat : c >= 32}

(* The letter that stands for a character, if there is one, is the only one *)
(* that does.                                                               *)
ShortFor(c) == {e[1] : e \in {p \in ShortEscape : p[2] = c}}
LEMMA ShortForOne ==
  ASSUME NEW c
  PROVE  \/ ShortFor(c) = {} /\ \A p \in ShortEscape : p[2] # c
         \/ \E l \in Printable : ShortFor(c) = {l} /\ <<l, c>> \in ShortEscape
<1>1. \A p \in ShortEscape : p = <<p[1], p[2]>> /\ p[1] \in Printable
  BY DEF ShortEscape, Printable
<1>2. \A p, q \in ShortEscape : p[2] = q[2] => p[1] = q[1]
  BY DEF ShortEscape
<1>3. CASE \A p \in ShortEscape : p[2] # c
  BY <1>3 DEF ShortFor
<1>4. CASE \E p \in ShortEscape : p[2] = c
  <2>1. PICK p \in ShortEscape : p[2] = c
    BY <1>4
  <2>2. \A x : x \in ShortFor(c) <=> x = p[1]
    BY <1>2, <2>1 DEF ShortFor
  <2>3. ShortFor(c) = {p[1]}
    BY <2>2
  <2>4. QED
    BY <1>1, <2>1, <2>3
<1>5. QED
  BY <1>3, <1>4

(* What a character is written as: a backslash and a letter, an escape of   *)
(* four digits, or the character itself.                                    *)
LEMMA EscapeForms ==
  ASSUME NEW c \in Nat
  PROVE  \/ \E l \in Printable : <<l, c>> \in ShortEscape /\ Escape(c) = <<Backslash, l>>
         \/ c < 32 /\ Escape(c) = <<Backslash, LetterU>> \o Hex4Of(c)
         \/ /\ c \in Printable /\ c # Quote /\ c # Backslash
            /\ Escape(c) = <<c>>
<1>1. Escape(c) = CASE ShortFor(c) # {} -> <<Backslash, Get(ShortFor(c))>>
                    [] ShortFor(c) = {} /\ c < 32 -> <<Backslash, LetterU>> \o Hex4Of(c)
                    [] OTHER -> <<c>>
  BY DEF Escape, ShortFor
<1>2. CASE \E l \in Printable : ShortFor(c) = {l} /\ <<l, c>> \in ShortEscape
  <2>1. PICK l \in Printable : ShortFor(c) = {l} /\ <<l, c>> \in ShortEscape
    BY <1>2
  <2>2. ShortFor(c) # {} /\ Get(ShortFor(c)) = l
    <3>1. ShortFor(c) # {}
      BY <2>1
    <3>2. Get(ShortFor(c)) \in ShortFor(c)
      BY <3>1, GetMember
    <3>3. QED
      BY <2>1, <3>1, <3>2
  <2>3. Escape(c) = <<Backslash, l>>
    BY <1>1, <2>2
  <2>4. QED
    BY <2>1, <2>3
<1>3. CASE ShortFor(c) = {} /\ \A p \in ShortEscape : p[2] # c
  <2>1. CASE c < 32
    BY <1>1, <1>3, <2>1
  <2>2. CASE ~(c < 32)
    <3>1. Escape(c) = <<c>>
      BY <1>1, <1>3, <2>2
    <3>2. <<34, 34>> \in ShortEscape /\ <<92, 92>> \in ShortEscape
      BY DEF ShortEscape
    <3>3. c # Quote /\ c # Backslash
      BY <1>3, <3>2 DEF Quote, Backslash
    <3>4. QED
      BY <2>2, <3>1, <3>3 DEF Printable
  <2>3. QED
    BY <2>1, <2>2
<1>4. QED
  BY <1>2, <1>3, ShortForOne

(* The four digits of a number, for a control character.                    *)
LEMMA HexDigits ==
  ASSUME NEW c \in 0 .. 31
  PROVE  /\ Hex4Of(c) \in Seq(Printable) /\ Len(Hex4Of(c)) = 4
         /\ Hex4Of(c) = <<HexCode(0), HexCode(0), HexCode(c \div 16), HexCode(c % 16)>>
         /\ \A d \in 0 .. 15 : /\ HexCode(d) \in Printable /\ HexCode(d) \in HexDigit
                              /\ HexValue(HexCode(d)) = d
         /\ c \div 16 \in 0 .. 15 /\ c % 16 \in 0 .. 15
         /\ 16 * (16 * (16 * 0 + 0) + (c \div 16)) + (c % 16) = c
<1>1. c \div 4096 = 0 /\ (c \div 256) % 16 = 0 /\ (c \div 16) % 16 = c \div 16
  OBVIOUS
<1>2. c \div 16 \in 0 .. 15 /\ c % 16 \in 0 .. 15
  OBVIOUS
<1>3. 16 * (16 * (16 * 0 + 0) + (c \div 16)) + (c % 16) = c
  OBVIOUS
<1>4. ASSUME NEW d \in 0 .. 15
      PROVE  /\ HexCode(d) \in Printable /\ HexCode(d) \in HexDigit
             /\ HexValue(HexCode(d)) = d
  BY DEF HexCode, HexValue, HexDigit, Printable
<1>5. Hex4Of(c) = <<HexCode(0), HexCode(0), HexCode(c \div 16), HexCode(c % 16)>>
  BY <1>1 DEF Hex4Of
<1>6. Hex4Of(c) \in Seq(Printable) /\ Len(Hex4Of(c)) = 4
  <2>1. 0 \in 0 .. 15
    OBVIOUS
  <2>2. \A a, b, d, e \in Printable :
          <<a, b, d, e>> \in Seq(Printable) /\ Len(<<a, b, d, e>>) = 4
    OBVIOUS
  <2>3. QED
    BY <1>2, <1>4, <1>5, <2>1, <2>2
<1>7. QED
  BY <1>2, <1>3, <1>4, <1>5, <1>6

(* escape_into turns every character into at least one, all printable.      *)
LEMMA EscapePrintable ==
  ASSUME NEW c \in Nat
  PROVE  Escape(c) \in Seq(Printable) /\ Len(Escape(c)) # 0
<1>1. Backslash \in Printable /\ LetterU \in Printable
  BY DEF Printable, Backslash, LetterU
<1>2. CASE \E l \in Printable : Escape(c) = <<Backslash, l>>
  BY <1>1, <1>2
<1>3. CASE c < 32 /\ Escape(c) = <<Backslash, LetterU>> \o Hex4Of(c)
  <2>1. c \in 0 .. 31
    BY <1>3
  <2>2. Hex4Of(c) \in Seq(Printable) /\ Len(Hex4Of(c)) = 4
    BY <2>1, HexDigits
  <2>3. <<Backslash, LetterU>> \in Seq(Printable) /\ Len(<<Backslash, LetterU>>) = 2
    BY <1>1
  <2>4. QED
    BY <1>3, <2>2, <2>3, ConcatProperties
<1>4. CASE c \in Printable /\ Escape(c) = <<c>>
  BY <1>4
<1>5. QED
  BY <1>2, <1>3, <1>4, EscapeForms

LEMMA EscapeIntoPrintable ==
  ASSUME NEW text \in Seq(Nat)
  PROVE  EscapeInto(text) \in Seq(Printable)
<1> DEFINE n == Len(text)
           seqs == [k \in DOMAIN text |-> Escape(text[k])]
<1>1. n \in Nat /\ DOMAIN text = 1 .. n /\ \A k \in 1 .. n : text[k] \in Nat
  OBVIOUS
<1>2. seqs \in [1 .. n -> Seq(Printable)]
  BY <1>1, EscapePrintable
<1>3. EscapeInto(text) = <<Quote>> \o FlattenSeq(seqs) \o <<Quote>>
  BY DEF EscapeInto
<1> HIDE DEF n, seqs
<1>4. FlattenSeq(seqs) \in Seq(Printable)
  <2>1. PICK h \in Flattenings(Printable, n, seqs) : TRUE
    BY <1>1, <1>2, FlattenSteps
  <2>2. n \in 0 .. n
    BY <1>1
  <2>3. QED
    BY <2>1, <2>2 DEF Flattenings
<1>5. <<Quote>> \in Seq(Printable)
  BY DEF Quote, Printable
<1>6. <<Quote>> \o FlattenSeq(seqs) \in Seq(Printable)
  BY <1>4, <1>5, ConcatProperties
<1>7. QED
  BY <1>3, <1>5, <1>6, ConcatProperties

(* Every answer of the gate among the lines is one that render_record made, *)
(* and what it means is the id it was made with.                            *)
GateAnswers ==
  \A x \in Input : x.by = "gate" =>
    \E id, decision, rule, detail \in Seq(Nat) :
      /\ x.line = RenderRecord(id, decision, rule, detail)
      /\ x.meant = {[id |-> {id}, cmd |-> {}]}

(* A member of an answer is printable, whatever its key and value are.      *)
LEMMA FieldPrintable ==
  ASSUME NEW k \in Seq(Nat), NEW v \in Seq(Nat)
  PROVE  Field(k, v) \in Seq(Printable)
<1>1. <<Colon>> \in Seq(Printable)
  BY DEF Colon, Printable
<1>2. EscapeInto(k) \o <<Colon>> \in Seq(Printable)
  BY <1>1, EscapeIntoPrintable, ConcatProperties
<1>3. QED
  BY <1>2, EscapeIntoPrintable, ConcatProperties DEF Field

DecisionKey == <<100, 101, 99, 105, 115, 105, 111, 110>>
RuleKey == <<114, 117, 108, 101>>
DetailKey == <<100, 101, 116, 97, 105, 108>>
LEMMA Keys ==
  IdKey \in Seq(Nat) /\ DecisionKey \in Seq(Nat) /\ RuleKey \in Seq(Nat)
    /\ DetailKey \in Seq(Nat) /\ CmdKey \in Seq(Nat)
BY DEF IdKey, DecisionKey, RuleKey, DetailKey, CmdKey

(* So is an answer, whatever its four texts are.                            *)
LEMMA RenderPrintable ==
  ASSUME NEW id \in Seq(Nat), NEW decision \in Seq(Nat),
         NEW rule \in Seq(Nat), NEW detail \in Seq(Nat)
  PROVE  RenderRecord(id, decision, rule, detail) \in Seq(Printable)
<1> DEFINE P == Seq(Printable)
           f1 == Field(IdKey, id)
           f2 == Field(DecisionKey, decision)
           f3 == Field(RuleKey, rule)
           f4 == Field(DetailKey, detail)
<1>1. f1 \in P /\ f2 \in P /\ f3 \in P /\ f4 \in P
  BY Keys, FieldPrintable
<1>2. <<OpenBrace>> \in P /\ <<Comma>> \in P /\ <<CloseBrace>> \in P
  BY DEF OpenBrace, Comma, CloseBrace, Printable
<1>3. RenderRecord(id, decision, rule, detail)
        = <<OpenBrace>> \o f1 \o <<Comma>> \o f2 \o <<Comma>> \o f3 \o <<Comma>> \o f4
            \o <<CloseBrace>>
  BY DEF RenderRecord, DecisionKey, RuleKey, DetailKey
<1>4. \A s, t \in P : s \o t \in P
  BY ConcatProperties
<1> HIDE DEF P, f1, f2, f3, f4
<1>5. <<OpenBrace>> \o f1 \in P
  BY <1>1, <1>2, <1>4
<1>6. <<OpenBrace>> \o f1 \o <<Comma>> \in P
  BY <1>2, <1>4, <1>5
<1>7. <<OpenBrace>> \o f1 \o <<Comma>> \o f2 \in P
  BY <1>1, <1>4, <1>6
<1>8. <<OpenBrace>> \o f1 \o <<Comma>> \o f2 \o <<Comma>> \in P
  BY <1>2, <1>4, <1>7
<1>9. <<OpenBrace>> \o f1 \o <<Comma>> \o f2 \o <<Comma>> \o f3 \in P
  BY <1>1, <1>4, <1>8
<1>10. <<OpenBrace>> \o f1 \o <<Comma>> \o f2 \o <<Comma>> \o f3 \o <<Comma>> \in P
  BY <1>2, <1>4, <1>9
<1>11. <<OpenBrace>> \o f1 \o <<Comma>> \o f2 \o <<Comma>> \o f3 \o <<Comma>> \o f4 \in P
  BY <1>1, <1>4, <1>10
<1>12. QED
  BY <1>2, <1>3, <1>4, <1>11 DEF P

LEMMA InputStays == [Next]_vars => input' = input
BY DEF Next, vars, Open, ReadKey, ReadValue, ReadNext, Done

(* An answer is one line, whatever its id and detail are made of: no line   *)
(* feed, and no other control character, can come from what a client or a   *)
(* command wrote.                                                           *)
THEOREM OneLinePerAnswerAlways ==
  ASSUME GateAnswers
  PROVE  Spec => []OneLinePerAnswer
<1>1. Init => OneLinePerAnswer
  <2> SUFFICES ASSUME Init, input.by = "gate"
               PROVE  \A k \in DOMAIN input.line : input.line[k] >= 32
    BY DEF OneLinePerAnswer
  <2>1. input \in Input
    BY DEF Init
  <2>2. PICK id, decision, rule, detail \in Seq(Nat) :
          input.line = RenderRecord(id, decision, rule, detail)
    BY <2>1 DEF GateAnswers
  <2>3. input.line \in Seq(Printable)
    BY <2>2, RenderPrintable
  <2>4. QED
    BY <2>3 DEF Printable
<1>2. OneLinePerAnswer /\ [Next]_vars => OneLinePerAnswer'
  BY InputStays DEF OneLinePerAnswer
<1>3. QED
  BY <1>1, <1>2, PTL DEF Spec

-----------------------------------------------------------------------------
(* Reading back what was written. *)

(* The characters of w stand on the line from p on.                         *)
Stands(line, p, w) ==
  /\ w \in Seq(Nat) /\ p \in Nat \ {0} /\ p + Len(w) <= Len(line) + 1
  /\ \A k \in 1 .. Len(w) : line[p + k - 1] = w[k]

(* Where one word after another stands, each of them does.                  *)
LEMMA StandsConcat ==
  ASSUME NEW line, IsText(line), NEW p, NEW s \in Seq(Nat), NEW t \in Seq(Nat),
         Stands(line, p, s \o t)
  PROVE  Stands(line, p, s) /\ Stands(line, p + Len(s), t)
<1>1. /\ s \o t \in Seq(Nat) /\ Len(s \o t) = Len(s) + Len(t)
      /\ \A k \in 1 .. Len(s) + Len(t) :
           (s \o t)[k] = IF k <= Len(s) THEN s[k] ELSE t[k - Len(s)]
  BY ConcatProperties
<1>2. /\ p \in Nat \ {0} /\ p + Len(s \o t) <= Len(line) + 1
      /\ \A k \in 1 .. Len(s \o t) : line[p + k - 1] = (s \o t)[k]
  BY DEF Stands
<1>3. Len(s) \in Nat /\ Len(t) \in Nat /\ Len(line) \in Nat
  BY DEF IsText
<1> DEFINE m == Len(s)
           n == Len(t)
<1>4. p + (m + n) <= Len(line) + 1
  BY <1>1, <1>2
<1> HIDE DEF m, n
<1>5. m \in Nat /\ n \in Nat
  BY <1>3 DEF m, n
<1>6. p + m <= Len(line) + 1 /\ (p + m) + n <= Len(line) + 1 /\ p + m \in Nat \ {0}
  BY <1>2, <1>3, <1>4, <1>5
<1>7. ASSUME NEW k \in 1 .. m PROVE line[p + k - 1] = s[k]
  <2>1. k \in 1 .. m + n /\ k <= m
    BY <1>5
  <2>2. QED
    BY <1>1, <1>2, <2>1 DEF m, n
<1>8. ASSUME NEW k \in 1 .. n PROVE line[(p + m) + k - 1] = t[k]
  <2>1. m + k \in 1 .. m + n /\ ~(m + k <= m) /\ m + k - m = k
        /\ p + (m + k) - 1 = (p + m) + k - 1
    BY <1>2, <1>5
  <2>2. line[p + (m + k) - 1] = (s \o t)[m + k]
    BY <1>1, <1>2, <2>1 DEF m, n
  <2>3. (s \o t)[m + k] = t[m + k - m]
    BY <1>1, <2>1 DEF m, n
  <2>4. QED
    BY <2>1, <2>2, <2>3
<1>9. QED
  BY <1>2, <1>6, <1>7, <1>8 DEF Stands, m, n

(* One character that stands on the line is at its position.                *)
LEMMA StandsOne ==
  ASSUME NEW line, IsText(line), NEW p, NEW c \in Nat, Stands(line, p, <<c>>)
  PROVE  /\ p \in 1 .. Len(line) /\ p \in 1 .. Len(line) + 1
         /\ p + 1 \in 1 .. Len(line) + 1
         /\ line[p] = c /\ At(line, p) = c
<1>1. Len(line) \in Nat
  BY DEF IsText
<1>2. Len(<<c>>) = 1 /\ <<c>>[1] = c /\ 1 \in 1 .. 1
  OBVIOUS
<1>3. p \in Nat \ {0} /\ p + 1 <= Len(line) + 1 /\ line[p + 1 - 1] = c
  BY <1>2 DEF Stands
<1>4. p \in 1 .. Len(line) /\ p \in 1 .. Len(line) + 1 /\ p + 1 \in 1 .. Len(line) + 1
      /\ p + 1 - 1 = p
  BY <1>1, <1>3
<1>5. QED
  BY <1>3, <1>4, AtPosition

(* The four digits of a control character are read as it.                   *)
LEMMA Hex4ReadsBack ==
  ASSUME NEW line, IsText(line), NEW c \in 0 .. 31, NEW p, Stands(line, p, Hex4Of(c))
  PROVE  Hex4(line, p) = {c}
<1>1. Len(line) \in Nat
  BY DEF IsText
<1> DEFINE digits == Hex4Of(c)
           quad == Span(line, p, 4)
           v(k) == HexValue(quad[k])
<1>2. /\ digits = <<HexCode(0), HexCode(0), HexCode(c \div 16), HexCode(c % 16)>>
      /\ \A d \in 0 .. 15 : HexCode(d) \in HexDigit /\ HexValue(HexCode(d)) = d
      /\ c \div 16 \in 0 .. 15 /\ c % 16 \in 0 .. 15 /\ 0 \in 0 .. 15
      /\ Len(digits) = 4
  <2>1. 0 \in 0 .. 15
    OBVIOUS
  <2>2. c \div 16 \in 0 .. 15 /\ c % 16 \in 0 .. 15
    BY HexDigits
  <2>3. \A d \in 0 .. 15 : HexCode(d) \in HexDigit /\ HexValue(HexCode(d)) = d
    BY HexDigits
  <2>4. digits = <<HexCode(0), HexCode(0), HexCode(c \div 16), HexCode(c % 16)>>
    BY HexDigits
  <2>5. Len(digits) = 4
    BY HexDigits
  <2> HIDE DEF digits
  <2>6. QED
    BY <2>1, <2>2, <2>3, <2>4, <2>5
<1>3. digits[1] = HexCode(0) /\ digits[2] = HexCode(0)
      /\ digits[3] = HexCode(c \div 16) /\ digits[4] = HexCode(c % 16)
  BY <1>2
<1>4. p \in Nat \ {0} /\ p + 4 <= Len(line) + 1
      /\ \A k \in 1 .. 4 : line[p + k - 1] = digits[k]
  BY <1>2 DEF Stands
<1>5. p \in 1 .. Len(line) + 2 /\ p + 4 - 1 <= Len(line) /\ 4 \in Nat
  BY <1>1, <1>4
<1>6. quad \in Seq(Nat) /\ Len(quad) = 4 /\ \A k \in 1 .. 4 : quad[k] = line[p + k - 1]
  BY <1>5, SpanFacts
<1>7. \A k \in 1 .. 4 : quad[k] = digits[k]
  BY <1>4, <1>6
<1> HIDE DEF digits, quad
<1>8. v(1) = 0 /\ v(2) = 0 /\ v(3) = c \div 16 /\ v(4) = c % 16
  BY <1>2, <1>3, <1>7
<1>9. \A k \in 1 .. 4 : quad[k] \in HexDigit
  BY <1>2, <1>3, <1>7
<1>10. ToSet(quad) \subseteq HexDigit
  BY <1>6, <1>9 DEF ToSet
<1>11. 16 * (16 * (16 * v(1) + v(2)) + v(3)) + v(4) = c
  <2>1. 16 * (16 * (16 * 0 + 0) + (c \div 16)) + (c % 16) = c
    BY HexDigits
  <2>2. QED
    BY <1>8, <2>1
<1>12. Hex4(line, p) = {16 * (16 * (16 * v(1) + v(2)) + v(3)) + v(4)}
  BY <1>6, <1>10 DEF Hex4, quad
<1>13. QED
  BY <1>11, <1>12

(* What a character is written as is read as it.                            *)
LEMMA CharacterReadsBack ==
  ASSUME NEW line, IsText(line), NEW c \in Nat, NEW p, Stands(line, p, Escape(c))
  PROVE  /\ p \in 1 .. Len(line) /\ line[p] # Quote
         /\ Character(line, p) = {<<c, p + Len(Escape(c))>>}
<1>1. Len(line) \in Nat
  BY DEF IsText
<1>2. CASE c \in Printable /\ c # Quote /\ c # Backslash /\ Escape(c) = <<c>>
  <2>1. p \in 1 .. Len(line) /\ line[p] = c /\ Len(Escape(c)) = 1
    BY <1>2, StandsOne
  <2>2. Character(line, p) = {<<line[p], p + 1>>}
    BY <1>2, <2>1 DEF Character
  <2>3. QED
    BY <1>2, <2>1, <2>2
<1>3. ASSUME NEW l \in Nat, Stands(line, p, <<Backslash, l>>)
      PROVE  /\ p \in 1 .. Len(line) /\ p + 1 \in 1 .. Len(line)
             /\ line[p] = Backslash /\ At(line, p + 1) = l
  <2>1. Len(<<Backslash, l>>) = 2 /\ <<Backslash, l>>[1] = Backslash /\ <<Backslash, l>>[2] = l
        /\ 1 \in 1 .. 2 /\ 2 \in 1 .. 2
    OBVIOUS
  <2>2. p \in Nat \ {0} /\ p + 2 <= Len(line) + 1
        /\ line[p + 1 - 1] = Backslash /\ line[p + 2 - 1] = l
    BY <1>3, <2>1 DEF Stands
  <2>3. p \in 1 .. Len(line) /\ p + 1 \in 1 .. Len(line) /\ p + 1 - 1 = p /\ p + 2 - 1 = p + 1
        /\ p + 1 \in Nat
    BY <1>1, <2>2
  <2>4. QED
    BY <2>2, <2>3, AtPosition
<1>4. CASE \E l \in Printable : <<l, c>> \in ShortEscape /\ Escape(c) = <<Backslash, l>>
  <2>1. PICK l \in Printable : <<l, c>> \in ShortEscape /\ Escape(c) = <<Backslash, l>>
    BY <1>4
  <2>2. /\ p \in 1 .. Len(line) /\ line[p] = Backslash /\ At(line, p + 1) = l
    BY <1>3, <2>1 DEF Printable
  <2>3. l # LetterU /\ \A e \in ShortEscape \cup {<<47, 47>>} : e[1] = l => e[2] = c
    BY <2>1 DEF ShortEscape, LetterU
  <2>4. Character(line, p) = {<<e[2], p + 2>> :
          e \in {q \in ShortEscape \cup {<<47, 47>>} : q[1] = At(line, p + 1)}}
    BY <2>2, <2>3 DEF Character
  <2>5. \A x : x \in Character(line, p) <=> x = <<c, p + 2>>
    <3>1. <<l, c>> \in ShortEscape \cup {<<47, 47>>} /\ <<l, c>>[1] = l /\ <<l, c>>[2] = c
      BY <2>1
    <3>2. QED
      BY <2>2, <2>3, <2>4, <3>1
  <2>6. Len(Escape(c)) = 2
    BY <2>1
  <2>7. QED
    BY <2>2, <2>5, <2>6 DEF Quote, Backslash
<1>5. CASE c < 32 /\ Escape(c) = <<Backslash, LetterU>> \o Hex4Of(c)
  <2>1. c \in 0 .. 31
    BY <1>5
  <2>2. Hex4Of(c) \in Seq(Nat) /\ Len(Hex4Of(c)) = 4
    <3>1. Hex4Of(c) \in Seq(Printable) /\ Len(Hex4Of(c)) = 4
      BY <2>1, HexDigits
    <3>2. QED
      BY <3>1 DEF Printable
  <2>3. <<Backslash, LetterU>> \in Seq(Nat) /\ Len(<<Backslash, LetterU>>) = 2
    BY DEF Backslash, LetterU
  <2>4. Stands(line, p, <<Backslash, LetterU>>) /\ Stands(line, p + 2, Hex4Of(c))
    BY <1>5, <2>2, <2>3, StandsConcat
  <2>5. p \in 1 .. Len(line) /\ line[p] = Backslash /\ At(line, p + 1) = LetterU
    BY <1>3, <2>4 DEF LetterU
  <2>6. Hex4(line, p + 2) = {c}
    BY <2>1, <2>4, Hex4ReadsBack
  <2>7. c \notin HighSurrogate /\ c \notin LowSurrogate
    BY <2>1 DEF HighSurrogate, LowSurrogate
  <2>8. UnicodeEscape(line, p + 2) = {<<c, p + 2 + 4>>}
    BY <2>6, <2>7 DEF UnicodeEscape
  <2>9. Character(line, p) = UnicodeEscape(line, p + 2)
    BY <2>5 DEF Character
  <2>10. Len(Escape(c)) = 6
    <3>1. \A s, t \in Seq(Nat) : Len(s \o t) = Len(s) + Len(t)
      BY ConcatProperties
    <3>2. Len(<<Backslash, LetterU>> \o Hex4Of(c)) = 2 + 4
      BY <2>2, <2>3, <3>1
    <3>3. QED
      BY <1>5, <3>2
  <2>11. p + 2 + 4 = p + 6
    BY <2>5
  <2>12. QED
    BY <2>5, <2>8, <2>9, <2>10, <2>11 DEF Quote, Backslash
<1>6. QED
  BY <1>2, <1>4, <1>5, EscapeForms

(* The whole of a sequence, nothing of it, and all from one element on.     *)
LEMMA SuffixFacts ==
  ASSUME NEW s \in Seq(Nat)
  PROVE  /\ SubSeq(s, 1, Len(s)) = s
         /\ SubSeq(s, Len(s) + 1, Len(s)) = <<>>
         /\ \A j \in 1 .. Len(s) : SubSeq(s, j, Len(s)) = <<s[j]>> \o SubSeq(s, j + 1, Len(s))
<1>1. Len(s) \in Nat /\ \A k \in 1 .. Len(s) : s[k] \in Nat
  OBVIOUS
<1>2. SubSeq(s, 1, Len(s)) = s
  BY SubSeqFull
<1>3. SubSeq(s, Len(s) + 1, Len(s)) = <<>>
  <2>1. Len(s) + 1 \in Int /\ Len(s) \in Int /\ Len(s) < Len(s) + 1
    BY <1>1
  <2>2. QED
    BY <2>1, SubSeqEmpty
<1>4. ASSUME NEW j \in 1 .. Len(s)
      PROVE  SubSeq(s, j, Len(s)) = <<s[j]>> \o SubSeq(s, j + 1, Len(s))
  <2>1. Len(s) \in j .. Len(s)
    BY <1>1
  <2>2. QED
    BY <2>1, SubSeqRecursiveFirst
<1>5. QED
  BY <1>2, <1>3, <1>4

(* A text that stands on the line as it was written is read as it.          *)
LEMMA StringReadsBack ==
  ASSUME NEW line, IsText(line), NEW text \in Seq(Nat), NEW p,
         Stands(line, p, EscapeInto(text))
  PROVE  /\ p \in 1 .. Len(line) /\ At(line, p) = Quote
         /\ p + Len(EscapeInto(text)) \in 1 .. Len(line) + 1
         /\ StringAt(line, p) = {<<text, p + Len(EscapeInto(text))>>}
<1> DEFINE n == Len(text)
           seqs == [k \in DOMAIN text |-> Escape(text[k])]
<1>1. /\ n \in Nat /\ DOMAIN text = 1 .. n /\ \A k \in 1 .. n : text[k] \in Nat
      /\ Len(line) \in Nat
  BY DEF IsText
<1>2. \A k \in 1 .. n : Escape(text[k]) \in Seq(Nat)
  <2>1. \A c \in Nat : Escape(c) \in Seq(Printable)
    BY EscapePrintable
  <2>2. Seq(Printable) \subseteq Seq(Nat)
    BY DEF Printable
  <2>3. QED
    BY <1>1, <2>1, <2>2
<1>3. seqs \in [1 .. n -> Seq(Nat)] /\ \A k \in 1 .. n : seqs[k] = Escape(text[k])
  BY <1>1, <1>2
<1>4. EscapeInto(text) = <<Quote>> \o FlattenSeq(seqs) \o <<Quote>>
  BY DEF EscapeInto
<1> HIDE DEF seqs
<1>5. PICK h \in Flattenings(Nat, n, seqs) : TRUE
  BY <1>1, <1>3, FlattenSteps
<1>6. /\ h \in [0 .. n -> Seq(Nat)] /\ h[0] = <<>> /\ h[n] = FlattenSeq(seqs)
      /\ \A k \in 1 .. n : h[k] = h[k - 1] \o Escape(text[k])
      /\ n \in 0 .. n
  <2>1. /\ h \in [0 .. n -> Seq(Nat)] /\ h[0] = <<>> /\ h[n] = FlattenSeq(seqs)
        /\ \A k \in 1 .. n : h[k] = h[k - 1] \o seqs[k]
    BY DEF Flattenings
  <2>2. n \in 0 .. n
    BY <1>1
  <2> HIDE DEF n
  <2>3. QED
    BY <1>3, <2>1, <2>2
<1>7. <<Quote>> \in Seq(Nat) /\ Len(<<Quote>>) = 1 /\ h[n] \in Seq(Nat) /\ Quote \in Nat
  BY <1>6 DEF Quote
<1>8. /\ <<Quote>> \o h[n] \in Seq(Nat) /\ Len(<<Quote>> \o h[n]) = 1 + Len(h[n])
      /\ Len(EscapeInto(text)) = (1 + Len(h[n])) + 1
  <2>1. \A s, t \in Seq(Nat) : s \o t \in Seq(Nat) /\ Len(s \o t) = Len(s) + Len(t)
    BY ConcatProperties
  <2>2. <<Quote>> \o h[n] \in Seq(Nat) /\ Len(<<Quote>> \o h[n]) = 1 + Len(h[n])
    BY <1>7, <2>1
  <2>3. Len((<<Quote>> \o h[n]) \o <<Quote>>) = (1 + Len(h[n])) + 1
    BY <1>7, <2>1, <2>2
  <2>4. QED
    BY <1>4, <1>6, <2>2, <2>3
<1>9. /\ Stands(line, p, <<Quote>>) /\ Stands(line, p + 1, h[n])
      /\ Stands(line, p + (1 + Len(h[n])), <<Quote>>)
  <2>1. Stands(line, p, (<<Quote>> \o h[n]) \o <<Quote>>)
    BY <1>4, <1>6
  <2>2. Stands(line, p, <<Quote>> \o h[n]) /\ Stands(line, p + (1 + Len(h[n])), <<Quote>>)
    BY <1>7, <1>8, <2>1, StandsConcat
  <2>3. QED
    BY <1>7, <2>2, StandsConcat
<1>10. PICK f : /\ \A j \in 1 .. Len(line) + 1 : f[j] = RestAt(line, f, j)
                /\ \A q : StringAt(line, q) = IF At(line, q) = Quote THEN f[q + 1] ELSE {}
  BY StringIsRest
<1>11. p \in 1 .. Len(line) /\ At(line, p) = Quote
  BY <1>7, <1>9, StandsOne
<1> DEFINE after(k) == (p + 1) + Len(h[k])
           last == after(n) + 1
<1>12. /\ after(n) \in 1 .. Len(line) /\ line[after(n)] = Quote
       /\ last \in 1 .. Len(line) + 1
  <2>1. Len(h[n]) \in Nat
    BY <1>6
  <2>2. p + (1 + Len(h[n])) = after(n)
    <3>1. \A a \in Nat : p + (1 + a) = (p + 1) + a
      BY <1>11
    <3>2. QED
      BY <2>1, <3>1
  <2> HIDE DEF after
  <2>3. QED
    BY <1>7, <1>9, <2>2, StandsOne
<1>13. last = p + Len(EscapeInto(text))
  <2>1. Len(h[n]) \in Nat
    BY <1>6
  <2>2. \A a \in Nat : p + ((1 + a) + 1) = ((p + 1) + a) + 1
    BY <1>11
  <2>3. QED
    BY <1>8, <2>1, <2>2
<1>14. after(0) = p + 1
  <2>1. Len(h[0]) = 0
    BY <1>6
  <2>2. QED
    BY <1>11, <2>1
<1>15. \A k \in 0 .. n : \A s \in Seq(Nat) :
         h[k] \in Seq(Nat) /\ Len(h[k] \o s) = Len(h[k]) + Len(s)
  <2>1. \A t, s \in Seq(Nat) : Len(t \o s) = Len(t) + Len(s)
    BY ConcatProperties
  <2> HIDE DEF n
  <2>2. QED
    BY <1>6, <2>1
<1> HIDE DEF last
<1> DEFINE Good(k) == /\ Stands(line, p + 1, h[k])
                      /\ after(k) \in 1 .. Len(line) + 1
                      /\ f[after(k)] = {<<SubSeq(text, k + 1, n), last>>}
<1>16. Good(n)
  <2> HIDE DEF after
  <2>1. after(n) \in 1 .. Len(line) + 1
    BY <1>1, <1>12
  <2>2. f[after(n)] = RestAt(line, f, after(n))
    BY <1>10, <2>1
  <2>3. RestAt(line, f, after(n)) = {<<<<>>, after(n) + 1>>}
    BY <1>12, <2>1, RestCases
  <2>4. SubSeq(text, n + 1, n) = <<>>
    BY SuffixFacts
  <2>5. QED
    BY <1>9, <2>1, <2>2, <2>3, <2>4 DEF last
<1>17. ASSUME NEW k \in 0 .. n, NEW m \in 1 .. n, m = k + 1, Good(m)
       PROVE  Good(k)
  <2> DEFINE c == text[m]
             here == after(k)
             there == after(m)
  <2>1. m \in 0 .. n /\ m - 1 = k /\ c \in Nat
    BY <1>1, <1>17
  <2>2. h[k] \in Seq(Nat) /\ Escape(c) \in Seq(Nat) /\ h[m] = h[k] \o Escape(c)
    BY <1>2, <1>6, <2>1
  <2>3. Stands(line, p + 1, h[m])
    BY <1>17
  <2>4. Stands(line, p + 1, h[k]) /\ Stands(line, here, Escape(c))
    BY <2>2, <2>3, StandsConcat
  <2>5. here + Len(Escape(c)) = there
    <3>1. Len(h[m]) = Len(h[k]) + Len(Escape(c))
      BY <1>15, <2>2
    <3>2. Len(h[k]) \in Nat /\ Len(Escape(c)) \in Nat
      BY <2>2
    <3>3. \A a, b \in Nat : (p + 1) + a + b = (p + 1) + (a + b)
      BY <1>11
    <3>4. QED
      BY <3>1, <3>2, <3>3
  <2>6. /\ there \in 1 .. Len(line) + 1
        /\ f[there] = {<<SubSeq(text, m + 1, n), last>>}
    BY <1>17
  <2> HIDE DEF after, c, here, there
  <2>7. /\ here \in 1 .. Len(line) /\ line[here] # Quote
        /\ Character(line, here) = {<<c, there>>}
    BY <2>1, <2>4, <2>5, CharacterReadsBack
  <2>8. here \in 1 .. Len(line) + 1
    BY <1>1, <2>7
  <2>9. f[here] = RestAt(line, f, here)
    BY <1>10, <2>8
  <2>10. RestAt(line, f, here) = FromCharacters(line, f, here)
    BY <2>7, <2>8, RestCases
  <2>11. FromCharacters(line, f, here) = Before(<<c, there>>, f[there])
    BY <2>7 DEF FromCharacters
  <2>12. Before(<<c, there>>, f[there]) = {<<<<c>> \o SubSeq(text, m + 1, n), last>>}
    <3>1. \A t, z : Before(<<c, there>>, {<<t, z>>}) = {<<<<c>> \o t, z>>}
      BY DEF Before
    <3>2. QED
      BY <2>6, <3>1
  <2>13. <<c>> \o SubSeq(text, m + 1, n) = SubSeq(text, m, n)
    BY SuffixFacts DEF c
  <2>14. f[here] = {<<SubSeq(text, m, n), last>>}
    BY <2>9, <2>10, <2>11, <2>12, <2>13
  <2>15. QED
    BY <1>17, <2>4, <2>8, <2>14 DEF here
<1> HIDE DEF Good, after, n
<1> DEFINE Holds == {j \in 1 .. n + 1 : \E k \in 0 .. n : j = k + 1 /\ Good(k)}
<1>18. Holds = 1 .. n + 1
  <2>1. n + 1 \in Nat /\ Holds \in SUBSET (1 .. n + 1)
    BY <1>1
  <2>2. ASSUME NEW j \in 1 .. n + 1, \A m \in 1 .. n + 1 : m > j => m \in Holds
        PROVE  j \in Holds
    <3> SUFFICES ASSUME NEW k \in 0 .. n, j = k + 1 PROVE Good(k)
      <4>1. j - 1 \in 0 .. n /\ j = (j - 1) + 1
        BY <1>1
      <4>2. QED
        BY <4>1
    <3>1. CASE k = n
      BY <1>16, <3>1
    <3>2. CASE k # n
      <4>1. j \in 1 .. n /\ j + 1 \in 1 .. n + 1 /\ j + 1 > j
        BY <1>1, <3>2
      <4>2. j + 1 \in Holds
        BY <2>2, <4>1
      <4>3. PICK m \in 0 .. n : j + 1 = m + 1 /\ Good(m)
        BY <4>2
      <4>4. m = j
        BY <1>1, <4>1, <4>3
      <4>5. QED
        BY <1>17, <4>1, <4>3, <4>4
    <3>3. QED
      BY <3>1, <3>2
  <2> HIDE DEF Holds
  <2>3. QED
    BY <2>1, <2>2, InductionFromTheEnd
<1>19. Good(0)
  <2>1. 1 \in Holds
    <3>1. 1 \in 1 .. n + 1
      BY <1>1
    <3>2. QED
      BY <1>18, <3>1
  <2>2. PICK k \in 0 .. n : 1 = k + 1 /\ Good(k)
    BY <2>1
  <2>3. k = 0
    BY <1>1, <2>2
  <2>4. QED
    BY <2>2, <2>3
<1>20. f[p + 1] = {<<text, last>>}
  <2>1. f[after(0)] = {<<SubSeq(text, 0 + 1, n), last>>}
    BY <1>19 DEF Good
  <2>2. SubSeq(text, 0 + 1, n) = text
    <3>1. 0 + 1 = 1
      OBVIOUS
    <3>2. QED
      BY <3>1, SuffixFacts DEF n
  <2>3. QED
    BY <1>14, <2>1, <2>2
<1>21. QED
  BY <1>10, <1>11, <1>12, <1>13, <1>20

-----------------------------------------------------------------------------
(* Answers that are read back. *)

(* Keys tell the members apart.                                             *)
KeyOf(m) == IF m = 1 THEN IdKey ELSE IF m = 2 THEN DecisionKey
            ELSE IF m = 3 THEN RuleKey ELSE DetailKey
LEMMA KeysDiffer ==
  /\ \A m \in 1 .. 4 : KeyOf(m) \in Seq(Nat) /\ KeyOf(m) # CmdKey
  /\ \A m \in 1 .. 4 : KeyOf(m) = IdKey <=> m = 1
<1>1. /\ Len(IdKey) = 2 /\ Len(CmdKey) = 3 /\ Len(DecisionKey) = 8
      /\ Len(RuleKey) = 4 /\ Len(DetailKey) = 6
  BY DEF IdKey, DecisionKey, RuleKey, DetailKey, CmdKey
<1>2. /\ IdKey # CmdKey /\ DecisionKey # CmdKey /\ RuleKey # CmdKey /\ DetailKey # CmdKey
      /\ DecisionKey # IdKey /\ RuleKey # IdKey /\ DetailKey # IdKey
  BY <1>1
<1>3. \A m \in 1 .. 4 : m = 1 \/ m = 2 \/ m = 3 \/ m = 4
  OBVIOUS
<1>4. KeyOf(1) = IdKey /\ KeyOf(2) = DecisionKey /\ KeyOf(3) = RuleKey /\ KeyOf(4) = DetailKey
  BY DEF KeyOf
<1>5. QED
  BY <1>2, <1>3, <1>4, Keys

(* Where the members of an answer stand on its line: member m at q[m], with *)
(* the value v[m].                                                          *)
FieldEnd(q, v, m) == q[m] + Len(Field(KeyOf(m), v[m]))
Laid(line, q, v) ==
  /\ q \in [1 .. 4 -> Nat] /\ v \in [1 .. 4 -> Seq(Nat)]
  /\ Stands(line, 1, <<OpenBrace>>) /\ q[1] = 2
  /\ \A m \in 1 .. 4 : Stands(line, q[m], Field(KeyOf(m), v[m]))
  /\ \A m \in 1 .. 3 : /\ Stands(line, FieldEnd(q, v, m), <<Comma>>)
                       /\ q[m + 1] = FieldEnd(q, v, m) + 1
  /\ Stands(line, FieldEnd(q, v, 4), <<CloseBrace>>)

IsLaid(line, id) == \E q, v : Laid(line, q, v) /\ v[1] = id

LEMMA FieldIsSeq ==
  ASSUME NEW k \in Seq(Nat), NEW v \in Seq(Nat)
  PROVE  Field(k, v) \in Seq(Nat)
<1>1. Field(k, v) \in Seq(Printable)
  BY FieldPrintable
<1>2. QED
  BY <1>1 DEF Printable

(* An answer is four members laid out one behind the other.                 *)
LEMMA RenderLaid ==
  ASSUME NEW line, NEW id \in Seq(Nat), NEW decision \in Seq(Nat),
         NEW rule \in Seq(Nat), NEW detail \in Seq(Nat),
         line = RenderRecord(id, decision, rule, detail)
  PROVE  IsLaid(line, id)
<1> DEFINE f1 == Field(IdKey, id)
           f2 == Field(DecisionKey, decision)
           f3 == Field(RuleKey, rule)
           f4 == Field(DetailKey, detail)
           S == Seq(Nat)
<1>1. f1 \in S /\ f2 \in S /\ f3 \in S /\ f4 \in S
  BY Keys, FieldIsSeq
<1>2. /\ <<OpenBrace>> \in S /\ <<Comma>> \in S /\ <<CloseBrace>> \in S
      /\ Len(<<OpenBrace>>) = 1 /\ Len(<<Comma>>) = 1
  BY DEF OpenBrace, Comma, CloseBrace
<1>3. line = <<OpenBrace>> \o f1 \o <<Comma>> \o f2 \o <<Comma>> \o f3 \o <<Comma>> \o f4
               \o <<CloseBrace>>
  BY DEF RenderRecord, DecisionKey, RuleKey, DetailKey
<1> DEFINE w1 == <<OpenBrace>> \o f1
           w2 == w1 \o <<Comma>>
           w3 == w2 \o f2
           w4 == w3 \o <<Comma>>
           w5 == w4 \o f3
           w6 == w5 \o <<Comma>>
           w7 == w6 \o f4
           w8 == w7 \o <<CloseBrace>>
<1>4. line = w8
  BY <1>3
<1>5. \A s, t \in S : s \o t \in S /\ Len(s \o t) = Len(s) + Len(t)
  BY ConcatProperties
<1> HIDE DEF f1, f2, f3, f4
<1>6. w1 \in S /\ Len(w1) = 1 + Len(f1)
  BY <1>1, <1>2, <1>5
<1> HIDE DEF w1
<1>7. w2 \in S /\ Len(w2) = Len(w1) + 1
  BY <1>2, <1>5, <1>6
<1> HIDE DEF w2
<1>8. w3 \in S /\ Len(w3) = Len(w2) + Len(f2)
  BY <1>1, <1>5, <1>7
<1> HIDE DEF w3
<1>9. w4 \in S /\ Len(w4) = Len(w3) + 1
  BY <1>2, <1>5, <1>8
<1> HIDE DEF w4
<1>10. w5 \in S /\ Len(w5) = Len(w4) + Len(f3)
  BY <1>1, <1>5, <1>9
<1> HIDE DEF w5
<1>11. w6 \in S /\ Len(w6) = Len(w5) + 1
  BY <1>2, <1>5, <1>10
<1> HIDE DEF w6
<1>12. w7 \in S /\ Len(w7) = Len(w6) + Len(f4)
  BY <1>1, <1>5, <1>11
<1> HIDE DEF w7
<1>13. w8 \in S
  BY <1>2, <1>5, <1>12
<1>14. IsText(line) /\ Stands(line, 1, w8)
  <2>1. line \in S /\ Len(line) \in Nat
    BY <1>4, <1>13
  <2>2. \A k \in 1 .. Len(line) : 1 + k - 1 = k
    BY <2>1
  <2>3. 1 + Len(line) <= Len(line) + 1
    BY <2>1
  <2>4. Stands(line, 1, line)
    BY <2>1, <2>2, <2>3 DEF Stands
  <2>5. QED
    BY <1>4, <2>1, <2>4 DEF IsText
<1>15. Stands(line, 1, w7) /\ Stands(line, 1 + Len(w7), <<CloseBrace>>)
  BY <1>2, <1>12, <1>14, StandsConcat
<1>16. Stands(line, 1, w6) /\ Stands(line, 1 + Len(w6), f4)
  BY <1>1, <1>11, <1>14, <1>15, StandsConcat DEF w7
<1>17. Stands(line, 1, w5) /\ Stands(line, 1 + Len(w5), <<Comma>>)
  BY <1>2, <1>10, <1>14, <1>16, StandsConcat DEF w6
<1>18. Stands(line, 1, w4) /\ Stands(line, 1 + Len(w4), f3)
  BY <1>1, <1>9, <1>14, <1>17, StandsConcat DEF w5
<1>19. Stands(line, 1, w3) /\ Stands(line, 1 + Len(w3), <<Comma>>)
  BY <1>2, <1>8, <1>14, <1>18, StandsConcat DEF w4
<1>20. Stands(line, 1, w2) /\ Stands(line, 1 + Len(w2), f2)
  BY <1>1, <1>7, <1>14, <1>19, StandsConcat DEF w3
<1>21. Stands(line, 1, w1) /\ Stands(line, 1 + Len(w1), <<Comma>>)
  BY <1>2, <1>6, <1>14, <1>20, StandsConcat DEF w2
<1>22. Stands(line, 1, <<OpenBrace>>) /\ Stands(line, 1 + 1, f1)
  BY <1>1, <1>2, <1>14, <1>21, StandsConcat DEF w1
<1> DEFINE v == [m \in 1 .. 4 |-> IF m = 1 THEN id ELSE IF m = 2 THEN decision
                                 ELSE IF m = 3 THEN rule ELSE detail]
           q == [m \in 1 .. 4 |-> IF m = 1 THEN 2 ELSE IF m = 2 THEN 1 + Len(w2)
                                 ELSE IF m = 3 THEN 1 + Len(w4) ELSE 1 + Len(w6)]
<1>23. /\ v \in [1 .. 4 -> S] /\ v[1] = id /\ v[2] = decision /\ v[3] = rule /\ v[4] = detail
  OBVIOUS
<1>24. Len(w1) \in Nat /\ Len(w2) \in Nat /\ Len(w3) \in Nat /\ Len(w4) \in Nat
       /\ Len(w5) \in Nat /\ Len(w6) \in Nat /\ Len(w7) \in Nat
       /\ Len(f1) \in Nat /\ Len(f2) \in Nat /\ Len(f3) \in Nat /\ Len(f4) \in Nat
  <2>1. \A s \in S : Len(s) \in Nat
    OBVIOUS
  <2> HIDE DEF S
  <2>2. QED
    BY <2>1, <1>1, <1>6, <1>7, <1>8, <1>9, <1>10, <1>11, <1>12
<1>25. /\ q \in [1 .. 4 -> Nat]
       /\ q[1] = 2 /\ q[2] = 1 + Len(w2) /\ q[3] = 1 + Len(w4) /\ q[4] = 1 + Len(w6)
  BY <1>24
<1> HIDE DEF v, q
<1>26. /\ Field(KeyOf(1), v[1]) = f1 /\ Field(KeyOf(2), v[2]) = f2
       /\ Field(KeyOf(3), v[3]) = f3 /\ Field(KeyOf(4), v[4]) = f4
  BY <1>23 DEF KeyOf, f1, f2, f3, f4
<1>27. /\ FieldEnd(q, v, 1) = 1 + Len(w1) /\ FieldEnd(q, v, 2) = 1 + Len(w3)
       /\ FieldEnd(q, v, 3) = 1 + Len(w5) /\ FieldEnd(q, v, 4) = 1 + Len(w7)
  BY <1>6, <1>8, <1>10, <1>12, <1>24, <1>25, <1>26 DEF FieldEnd
<1>28. /\ q[2] = FieldEnd(q, v, 1) + 1 /\ q[3] = FieldEnd(q, v, 2) + 1
       /\ q[4] = FieldEnd(q, v, 3) + 1
  <2>1. \A a \in Nat : 1 + (a + 1) = (1 + a) + 1
    OBVIOUS
  <2>2. q[2] = FieldEnd(q, v, 1) + 1
    BY <1>7, <1>24, <1>25, <1>27, <2>1
  <2>3. q[3] = FieldEnd(q, v, 2) + 1
    BY <1>9, <1>24, <1>25, <1>27, <2>1
  <2>4. q[4] = FieldEnd(q, v, 3) + 1
    BY <1>11, <1>24, <1>25, <1>27, <2>1
  <2>5. QED
    BY <2>2, <2>3, <2>4
<1>29. ASSUME NEW m \in 1 .. 4 PROVE Stands(line, q[m], Field(KeyOf(m), v[m]))
  <2>1. m = 1 \/ m = 2 \/ m = 3 \/ m = 4
    OBVIOUS
  <2>2. 1 + 1 = 2
    OBVIOUS
  <2>3. QED
    BY <1>16, <1>18, <1>20, <1>22, <1>25, <1>26, <2>1, <2>2
<1>30. ASSUME NEW m \in 1 .. 3
       PROVE  /\ Stands(line, FieldEnd(q, v, m), <<Comma>>)
              /\ q[m + 1] = FieldEnd(q, v, m) + 1
  <2>1. m = 1 \/ m = 2 \/ m = 3
    OBVIOUS
  <2>2. 1 + 1 = 2 /\ 2 + 1 = 3 /\ 3 + 1 = 4
    OBVIOUS
  <2>3. QED
    BY <1>17, <1>19, <1>21, <1>27, <1>28, <2>1, <2>2
<1>31. Laid(line, q, v)
  BY <1>15, <1>22, <1>23, <1>25, <1>27, <1>29, <1>30 DEF Laid
<1>32. QED
  BY <1>23, <1>31 DEF IsLaid

(* A member is read as its key, a colon and its value, all without white    *)
(* space.                                                                   *)
FieldRead(line, p, k, v, c, e) ==
  /\ p \in 1 .. Len(line) + 1 /\ At(line, p) = Quote
  /\ StringAt(line, p) = {<<k, c>>}
  /\ c \in 1 .. Len(line) + 1 /\ At(line, c) = Colon
  /\ c + 1 \in 1 .. Len(line) + 1 /\ At(line, c + 1) = Quote
  /\ StringAt(line, c + 1) = {<<v, e>>}

(* Wherever a member written by the gate stands on a line, its key and its  *)
(* value are read back there.                                               *)
LEMMA FieldReadsBack ==
  ASSUME NEW line, IsText(line), NEW k \in Seq(Nat), NEW v \in Seq(Nat), NEW p,
         Stands(line, p, Field(k, v))
  PROVE  \E c : FieldRead(line, p, k, v, c, p + Len(Field(k, v)))
<1> DEFINE a == EscapeInto(k)
           b == EscapeInto(v)
           c == p + Len(a)
<1>1. a \in Seq(Nat) /\ b \in Seq(Nat)
  <2>1. a \in Seq(Printable) /\ b \in Seq(Printable)
    BY EscapeIntoPrintable
  <2>2. QED
    BY <2>1 DEF Printable
<1>2. <<Colon>> \in Seq(Nat) /\ Len(<<Colon>>) = 1 /\ Colon \in Nat
  BY DEF Colon
<1>3. Field(k, v) = (a \o <<Colon>>) \o b
  BY DEF Field
<1> HIDE DEF a, b
<1>4. \A s, t \in Seq(Nat) : s \o t \in Seq(Nat) /\ Len(s \o t) = Len(s) + Len(t)
  BY ConcatProperties
<1>5. a \o <<Colon>> \in Seq(Nat) /\ Len(a \o <<Colon>>) = Len(a) + 1
  BY <1>1, <1>2, <1>4
<1>6. Len(Field(k, v)) = (Len(a) + 1) + Len(b) /\ Len(a) \in Nat /\ Len(b) \in Nat
  BY <1>1, <1>3, <1>4, <1>5
<1>7. Stands(line, p, a \o <<Colon>>) /\ Stands(line, p + (Len(a) + 1), b)
  BY <1>1, <1>3, <1>5, StandsConcat
<1>8. Stands(line, p, a) /\ Stands(line, c, <<Colon>>)
  BY <1>1, <1>2, <1>7, StandsConcat
<1>9. p \in Nat
  BY <1>8 DEF Stands
<1>10. p + (Len(a) + 1) = c + 1 /\ (c + 1) + Len(b) = p + Len(Field(k, v))
  <2>1. \A m, n \in Nat : /\ p + (m + 1) = (p + m) + 1
                          /\ ((p + m) + 1) + n = p + ((m + 1) + n)
    BY <1>9
  <2>2. QED
    BY <1>6, <2>1
<1>11. /\ p \in 1 .. Len(line) /\ At(line, p) = Quote
       /\ StringAt(line, p) = {<<k, c>>}
  BY <1>8, StringReadsBack DEF a
<1>12. c \in 1 .. Len(line) + 1 /\ At(line, c) = Colon
  BY <1>2, <1>8, StandsOne
<1> HIDE DEF c
<1>13. /\ c + 1 \in 1 .. Len(line) /\ At(line, c + 1) = Quote
       /\ StringAt(line, c + 1) = {<<v, (c + 1) + Len(b)>>}
  <2>1. Stands(line, c + 1, b)
    BY <1>7, <1>10
  <2>2. QED
    BY <2>1, StringReadsBack DEF b
<1>14. \A j \in 1 .. Len(line) : j \in 1 .. Len(line) + 1
  BY DEF IsText
<1>15. FieldRead(line, p, k, v, c, p + Len(Field(k, v)))
  BY <1>10, <1>11, <1>12, <1>13, <1>14 DEF FieldRead
<1>16. QED
  BY <1>15

Nothing == [id |-> {}, cmd |-> {}]
Meant(v) == [id |-> {v[1]}, cmd |-> {}]

(* How far the reader is on such a line: before member m or in it, behind   *)
(* it, or done.  The id is there once the first member has been read.       *)
AtKey(q, v, m) ==
  /\ at = "key" /\ i = q[m] /\ rec = IF m = 1 THEN Nothing ELSE Meant(v)
AtValue(q, v, m) ==
  /\ at = "value" /\ key = KeyOf(m) /\ rec = IF m = 1 THEN Nothing ELSE Meant(v)
  /\ i \in 1 .. Len(input.line) + 1 /\ Byte(i) = Quote
  /\ StringAt(input.line, i) = {<<v[m], FieldEnd(q, v, m)>>}
Progress(q, v) ==
  \/ at = "open" /\ i = 1 /\ rec = Nothing
  \/ \E m \in 1 .. 4 : AtKey(q, v, m)
  \/ \E m \in 1 .. 4 : AtValue(q, v, m)
  \/ at = "next" /\ rec = Meant(v) /\ \E m \in 1 .. 4 : i = FieldEnd(q, v, m)
  \/ at = "end" /\ outcome = {"some"} /\ rec = Meant(v)

AnswerInv ==
  input.by = "gate" =>
    /\ IsText(input.line)
    /\ \E q, v : Laid(input.line, q, v) /\ input.meant = {Meant(v)} /\ Progress(q, v)

(* Nothing has been read yet of an answer.                                  *)
LEMMA InitAnswerInv ==
  ASSUME GateAnswers
  PROVE  Init => AnswerInv
<1> SUFFICES ASSUME Init, input.by = "gate"
             PROVE  /\ IsText(input.line)
                    /\ \E q, v : /\ Laid(input.line, q, v) /\ input.meant = {Meant(v)}
                                 /\ Progress(q, v)
  BY DEF AnswerInv
<1>1. input \in Input
  BY DEF Init
<1>2. PICK id, decision, rule, detail \in Seq(Nat) :
        /\ input.line = RenderRecord(id, decision, rule, detail)
        /\ input.meant = {[id |-> {id}, cmd |-> {}]}
  BY <1>1 DEF GateAnswers
<1>3. PICK q, v : Laid(input.line, q, v) /\ v[1] = id
  <2>1. IsLaid(input.line, id)
    BY <1>2, RenderLaid
  <2>2. QED
    BY <2>1 DEF IsLaid
<1>4. input.meant = {Meant(v)}
  BY <1>2, <1>3 DEF Meant
<1>5. Progress(q, v)
  BY DEF Init, Progress, Nothing
<1>6. IsText(input.line)
  BY <1>1, InputAssumption DEF IsText
<1>7. QED
  BY <1>3, <1>4, <1>5, <1>6

(* A step of the reader on such a line.                                     *)
LEMMA AnswerStep ==
  ASSUME IsText(input.line), NEW q, NEW v, Laid(input.line, q, v), Progress(q, v), Next
  PROVE  Progress(q, v)'
<1> DEFINE line == input.line
<1>1. ASSUME NEW p \in 1 .. Len(line) + 1, NEW c, Byte(p) = c, c \in {Quote, Colon, Comma, OpenBrace, CloseBrace}
      PROVE  Skipped(p) = p
  <2>1. At(line, p) \notin White
    BY <1>1 DEF Byte, White, Quote, Colon, Comma, OpenBrace, CloseBrace
  <2>2. QED
    BY <2>1, SkipForward DEF Skipped, Position
<1>2. Quote \in Nat /\ Comma \in Nat /\ OpenBrace \in Nat /\ CloseBrace \in Nat
  BY DEF Quote, Comma, OpenBrace, CloseBrace
<1>3. \A x : Get({x}) = x
  BY DEF Get
<1>4. /\ q \in [1 .. 4 -> Nat] /\ v \in [1 .. 4 -> Seq(Nat)] /\ q[1] = 2
      /\ \A m \in 1 .. 4 : v[m] \in Seq(Nat) /\ KeyOf(m) \in Seq(Nat)
  BY KeysDiffer DEF Laid
<1>5. ASSUME NEW m \in 1 .. 4
      PROVE  \E c : FieldRead(line, q[m], KeyOf(m), v[m], c, FieldEnd(q, v, m))
  <2>1. Stands(line, q[m], Field(KeyOf(m), v[m]))
    BY DEF Laid
  <2>2. KeyOf(m) \in Seq(Nat) /\ v[m] \in Seq(Nat)
    BY <1>4
  <2>3. \E c : FieldRead(line, q[m], KeyOf(m), v[m], c, q[m] + Len(Field(KeyOf(m), v[m])))
    BY <2>1, <2>2, FieldReadsBack
  <2>4. QED
    BY <2>3 DEF FieldEnd
<1> HIDE DEF line
<1>6. CASE at = "open" /\ i = 1 /\ rec = Nothing
  <2>1. Open
    BY <1>6 DEF Next, ReadKey, ReadValue, ReadNext, Done
  <2>2. /\ 1 \in 1 .. Len(line) + 1 /\ Byte(1) = OpenBrace
    <3>1. Stands(line, 1, <<OpenBrace>>)
      BY DEF Laid, line
    <3>2. QED
      BY <1>2, <3>1, StandsOne DEF Byte, line
  <2>3. Skipped(1) = 1
    BY <1>1, <2>2
  <2>4. 2 \in 1 .. Len(line) + 1 /\ Byte(2) = Quote
    <3>1. PICK c : FieldRead(line, q[1], KeyOf(1), v[1], c, FieldEnd(q, v, 1))
      BY <1>5
    <3>2. QED
      BY <1>4, <3>1 DEF FieldRead, Byte, line
  <2>5. Skipped(1 + 1) = 2
    <3>1. Skipped(2) = 2
      BY <1>1, <2>4
    <3>2. QED
      BY <3>1
  <2>6. Byte(Skipped(1)) = OpenBrace /\ Byte(Skipped(Skipped(1) + 1)) # CloseBrace
    BY <2>2, <2>3, <2>4, <2>5 DEF Quote, CloseBrace
  <2>7. Go("key", 2) /\ UNCHANGED <<input, key, rec>>
    BY <1>6, <2>1, <2>3, <2>6 DEF Open
  <2>8. AtKey(q, v, 1)'
    BY <1>4, <1>6, <2>7 DEF AtKey, Go
  <2>9. QED
    BY <2>8 DEF Progress
<1>7. ASSUME NEW m \in 1 .. 4, AtKey(q, v, m) PROVE Progress(q, v)'
  <2>1. ReadKey
    BY <1>7 DEF AtKey, Next, Open, ReadValue, ReadNext, Done
  <2>2. PICK c : FieldRead(line, q[m], KeyOf(m), v[m], c, FieldEnd(q, v, m))
    BY <1>5
  <2>3. /\ q[m] \in 1 .. Len(line) + 1 /\ At(line, q[m]) = Quote
        /\ StringAt(line, q[m]) = {<<KeyOf(m), c>>}
        /\ c \in 1 .. Len(line) + 1 /\ At(line, c) = Colon
        /\ c + 1 \in 1 .. Len(line) + 1 /\ At(line, c + 1) = Quote
        /\ StringAt(line, c + 1) = {<<v[m], FieldEnd(q, v, m)>>}
    BY <2>2 DEF FieldRead
  <2>4. i = q[m] /\ rec = IF m = 1 THEN Nothing ELSE Meant(v)
    BY <1>7 DEF AtKey
  <2>5. Skipped(i) = q[m]
    BY <1>1, <2>3, <2>4 DEF Byte, line
  <2>6. Skipped(c) = c
    BY <1>1, <2>3 DEF Byte, line
  <2> DEFINE read == StringAt(input.line, Skipped(i))
  <2>7. read = {<<KeyOf(m), c>>}
    BY <2>3, <2>5 DEF line
  <2>8. read # {} /\ Get(read) = <<KeyOf(m), c>>
    BY <1>3, <2>7
  <2>9. Byte(Skipped(Get(read)[2])) = Colon
    BY <2>3, <2>6, <2>8 DEF Byte, line
  <2>10. Go("value", Skipped(Get(read)[2]) + 1) /\ key' = Get(read)[1]
        /\ UNCHANGED <<input, rec>>
    BY <2>1, <2>8, <2>9 DEF ReadKey
  <2> HIDE DEF read
  <2>11. /\ at' = "value" /\ i' = c + 1 /\ key' = KeyOf(m) /\ input' = input /\ rec' = rec
    BY <2>6, <2>8, <2>10 DEF Go
  <2>12. AtValue(q, v, m)'
    BY <2>3, <2>4, <2>11 DEF AtValue, Byte, FieldEnd, line
  <2>13. QED
    BY <2>12 DEF Progress
<1>8. ASSUME NEW m \in 1 .. 4, AtValue(q, v, m) PROVE Progress(q, v)'
  <2>1. ReadValue
    BY <1>8 DEF AtValue, Next, Open, ReadKey, ReadNext, Done
  <2>2. /\ key = KeyOf(m) /\ rec = IF m = 1 THEN Nothing ELSE Meant(v)
        /\ i \in 1 .. Len(line) + 1 /\ Byte(i) = Quote
        /\ StringAt(line, i) = {<<v[m], FieldEnd(q, v, m)>>}
    BY <1>8 DEF AtValue, line
  <2>3. Skipped(i) = i
    BY <1>1, <2>2
  <2> DEFINE read == ValueAt(input.line, Skipped(i))
  <2>4. read = {<<{v[m]}, FieldEnd(q, v, m)>>}
    <3>1. At(line, i) = Quote
      BY <2>2 DEF Byte, line
    <3>2. ValueAt(line, i) = {<<{s[1]}, s[2]>> : s \in StringAt(line, i)}
      BY <2>2, <3>1, ValueOfString DEF line
    <3>3. \A x, y : {<<{s[1]}, s[2]>> : s \in {<<x, y>>}} = {<<{x}, y>>}
      OBVIOUS
    <3>4. QED
      BY <2>2, <2>3, <3>2, <3>3 DEF line
  <2>5. read # {} /\ Get(read) = <<{v[m]}, FieldEnd(q, v, m)>>
    BY <1>3, <2>4
  <2>6. /\ Go("next", Get(read)[2]) /\ UNCHANGED <<input, key>>
        /\ rec' = [id  |-> IF key = IdKey THEN Get(read)[1] ELSE rec.id,
                   cmd |-> IF key = CmdKey THEN Get(read)[1] ELSE rec.cmd]
    BY <2>1, <2>5 DEF ReadValue
  <2> HIDE DEF read
  <2>7. rec' = Meant(v)
    <3>1. key # CmdKey /\ (key = IdKey <=> m = 1) /\ Get(read)[1] = {v[m]}
      BY <2>2, <2>5, KeysDiffer
    <3>2. rec' = [id  |-> IF m = 1 THEN {v[m]} ELSE rec.id, cmd |-> rec.cmd]
      BY <2>6, <3>1
    <3>3. CASE m = 1
      BY <2>2, <3>2, <3>3 DEF Meant, Nothing
    <3>4. CASE m # 1
      BY <2>2, <3>2, <3>4 DEF Meant
    <3>5. QED
      BY <3>3, <3>4
  <2>8. at' = "next" /\ i' = FieldEnd(q, v, m)
    BY <2>5, <2>6 DEF Go
  <2>9. QED
    BY <2>7, <2>8 DEF Progress, FieldEnd, Meant
<1>9. ASSUME at = "next", rec = Meant(v), NEW m \in 1 .. 4, i = FieldEnd(q, v, m)
      PROVE  Progress(q, v)'
  <2>1. ReadNext
    BY <1>9 DEF Next, Open, ReadKey, ReadValue, Done
  <2>2. CASE m = 4
    <3>1. Stands(line, i, <<CloseBrace>>)
      BY <1>9, <2>2 DEF Laid, line
    <3>2. i \in 1 .. Len(line) + 1 /\ Byte(i) = CloseBrace
      BY <1>2, <3>1, StandsOne DEF Byte, line
    <3>3. Skipped(i) = i
      BY <1>1, <3>2
    <3>4. Stop("some") /\ UNCHANGED <<input, key, rec>>
      BY <2>1, <3>2, <3>3 DEF ReadNext, CloseBrace, Comma
    <3>5. QED
      BY <1>9, <3>4 DEF Stop, Progress, Meant
  <2>3. CASE m # 4
    <3>1. m \in 1 .. 3 /\ m + 1 \in 1 .. 4 /\ m + 1 # 1
      BY <2>3
    <3>2. Stands(line, i, <<Comma>>) /\ q[m + 1] = i + 1
      BY <1>9, <3>1 DEF Laid, line
    <3>3. i \in 1 .. Len(line) + 1 /\ Byte(i) = Comma
      BY <1>2, <3>2, StandsOne DEF Byte, line
    <3>4. Skipped(i) = i
      BY <1>1, <3>3
    <3>5. Go("key", i + 1) /\ UNCHANGED <<input, key, rec>>
      BY <2>1, <3>3, <3>4 DEF ReadNext, CloseBrace, Comma
    <3>6. AtKey(q, v, m + 1)'
      BY <1>9, <3>1, <3>2, <3>5 DEF AtKey, Go, Meant
    <3>7. QED
      BY <3>1, <3>6 DEF Progress
  <2>4. QED
    BY <2>2, <2>3
<1>10. CASE at = "end" /\ outcome = {"some"} /\ rec = Meant(v)
  <2>1. UNCHANGED vars
    BY <1>10 DEF Next, Open, ReadKey, ReadValue, ReadNext, Done
  <2>2. QED
    BY <1>10, <2>1 DEF vars, Progress, Meant
<1>11. QED
  BY <1>6, <1>7, <1>8, <1>9, <1>10 DEF Progress

(* An answer of the gate is read as the id it was made with, whatever       *)
(* characters the id, the rule and the detail are made of: what escape_into *)
(* writes is what parse_string reads, and no character in one field moves   *)
(* the limits of another.                                                   *)
THEOREM AnswersAreReadBack ==
  ASSUME GateAnswers
  PROVE  Spec => [](input.by = "gate" => ReadsWhatWasWritten)
<1>1. Init => AnswerInv
  BY InitAnswerInv
<1>2. AnswerInv /\ [Next]_vars => AnswerInv'
  <2> SUFFICES ASSUME AnswerInv, [Next]_vars, input.by = "gate" PROVE AnswerInv'
    BY InputStays DEF AnswerInv
  <2>1. PICK q, v : Laid(input.line, q, v) /\ input.meant = {Meant(v)} /\ Progress(q, v)
    BY DEF AnswerInv
  <2>2. IsText(input.line) /\ input' = input
    BY InputStays DEF AnswerInv
  <2>3. Progress(q, v)'
    <3>1. CASE UNCHANGED vars
      BY <2>1, <3>1 DEF vars, Progress, AtKey, AtValue, Byte
    <3>2. CASE Next
      BY <2>1, <2>2, <3>2, AnswerStep
    <3>3. QED
      BY <3>1, <3>2
  <2>4. IsText(input.line)'
    BY <2>2 DEF IsText
  <2>5. (Laid(input.line, q, v) /\ input.meant = {Meant(v)})'
    BY <2>1, <2>2
  <2>6. QED
    BY <2>3, <2>4, <2>5 DEF AnswerInv
<1>3. AnswerInv => (input.by = "gate" => ReadsWhatWasWritten)
  <2> SUFFICES ASSUME AnswerInv, input.by = "gate", at = "end", input.meant # {}
               PROVE  outcome = {"some"} /\ rec = Get(input.meant)
    BY DEF ReadsWhatWasWritten
  <2>1. PICK q, v : /\ Laid(input.line, q, v) /\ input.meant = {Meant(v)}
                    /\ Progress(q, v)
    BY DEF AnswerInv
  <2>2. outcome = {"some"} /\ rec = Meant(v)
    BY <2>1 DEF Progress, AtKey, AtValue
  <2>3. Get({Meant(v)}) = Meant(v)
    BY DEF Get
  <2>4. QED
    BY <2>1, <2>2, <2>3
<1>4. QED
  BY <1>1, <1>2, <1>3, PTL DEF Spec

-----------------------------------------------------------------------------
(* Broken lines. *)

(* place holds where a line stands behind each of its first n characters.   *)
IsPlace(line, n, place) ==
  place = [m \in 0 .. n |-> IF m = 0 THEN StartOfLine ELSE Behind(place[m - 1], line[m])]

LEMMA PlaceExists ==
  ASSUME NEW line, NEW n \in Nat
  PROVE  \E place : IsPlace(line, n, place)
<1> DEFINE Holds == {m \in Nat : \E place : IsPlace(line, m, place)}
<1>1. 0 \in Holds
  <2>1. IsPlace(line, 0, [m \in 0 .. 0 |-> StartOfLine])
    BY DEF IsPlace
  <2>2. QED
    BY <2>1
<1>2. ASSUME NEW m \in 1 .. n, m - 1 \in Holds PROVE m \in Holds
  <2>1. PICK f : IsPlace(line, m - 1, f)
    BY <1>2
  <2> DEFINE g == [k \in 0 .. m |-> IF k < m THEN f[k] ELSE Behind(f[m - 1], line[m])]
  <2>2. ASSUME NEW k \in 0 .. m
        PROVE  g[k] = IF k = 0 THEN StartOfLine ELSE Behind(g[k - 1], line[k])
    <3>1. CASE k < m
      <4>1. k \in 0 .. m - 1 /\ (k # 0 => k - 1 \in 0 .. m /\ k - 1 < m)
        BY <3>1
      <4>2. f[k] = IF k = 0 THEN StartOfLine ELSE Behind(f[k - 1], line[k])
        BY <2>1, <4>1 DEF IsPlace
      <4>3. QED
        BY <3>1, <4>1, <4>2
    <3>2. CASE k = m
      <4>1. k # 0 /\ k - 1 \in 0 .. m /\ k - 1 < m
        BY <3>2
      <4>2. QED
        BY <3>2, <4>1
    <3>3. QED
      BY <3>1, <3>2
  <2>3. IsPlace(line, m, g)
    BY <2>2 DEF IsPlace
  <2>4. QED
    BY <2>3
<1> HIDE DEF Holds
<1>3. n \in Holds
  BY <1>1, <1>2, InductionUpTo
<1>4. QED
  BY <1>3 DEF Holds

(* Where a line stands before its character at p.                           *)
Place(line, p) == PlacesOf(line)[p - 1]
Outside(line, p, open) == Place(line, p) = [mode |-> "out", open |-> open]
Inside(line, p, open) == Place(line, p) = [mode |-> "in", open |-> open]

LEMMA PlaceSteps ==
  ASSUME NEW line, IsText(line)
  PROVE  /\ Outside(line, 1, <<>>)
         /\ \A p \in 1 .. Len(line) : Place(line, p + 1) = Behind(Place(line, p), line[p])
<1>1. Len(line) \in Nat
  BY DEF IsText
<1>2. PICK f : f = CHOOSE g : IsPlace(line, Len(line), g)
  OBVIOUS
<1>3. IsPlace(line, Len(line), f)
  BY <1>1, <1>2, PlaceExists
<1>4. PlacesOf(line) = f
  BY <1>2 DEF PlacesOf, IsPlace
<1>5. \A m \in 0 .. Len(line) : f[m] = IF m = 0 THEN StartOfLine ELSE Behind(f[m - 1], line[m])
  BY <1>3 DEF IsPlace
<1>6. Outside(line, 1, <<>>)
  <2>1. 0 \in 0 .. Len(line) /\ 1 - 1 = 0
    BY <1>1
  <2>2. f[0] = StartOfLine
    BY <1>5, <2>1
  <2>3. QED
    BY <1>4, <2>1, <2>2 DEF Outside, Place, StartOfLine
<1>7. ASSUME NEW p \in 1 .. Len(line)
      PROVE  Place(line, p + 1) = Behind(Place(line, p), line[p])
  <2>1. p \in 0 .. Len(line) /\ p # 0 /\ (p + 1) - 1 = p
    BY <1>1
  <2>2. f[p] = Behind(f[p - 1], line[p])
    BY <1>5, <2>1
  <2>3. QED
    BY <1>4, <2>1, <2>2 DEF Place
<1>8. QED
  BY <1>6, <1>7

(* What one character makes of the place before it.                         *)
Brackets == {OpenBrace, OpenBracket, CloseBrace, CloseBracket}

LEMMA OutsideSteps ==
  ASSUME NEW line, IsText(line), NEW p \in 1 .. Len(line), NEW open,
         Outside(line, p, open)
  PROVE  /\ line[p] \notin Brackets \cup {Quote} => Outside(line, p + 1, open)
         /\ line[p] = Quote => Inside(line, p + 1, open)
         /\ line[p] \in {OpenBrace, OpenBracket}
              => Outside(line, p + 1, Append(open, line[p]))
         /\ line[p] \in {CloseBrace, CloseBracket} => Outside(line, p + 1, Front(open))
<1> DEFINE s == [mode |-> "out", open |-> open]
<1>1. Place(line, p + 1) = Behind(s, line[p])
  BY PlaceSteps DEF Outside
<1>2. Behind(s, line[p])
        = [mode |-> IF line[p] = Quote THEN "in" ELSE "out",
           open |-> IF line[p] \in {OpenBrace, OpenBracket} THEN Append(open, line[p])
                    ELSE IF line[p] \in {CloseBrace, CloseBracket} THEN Front(open)
                    ELSE open]
  BY DEF Behind
<1> HIDE DEF s
<1> DEFINE c == line[p]
           after == Behind(s, c)
<1>3. ASSUME c \notin Brackets \cup {Quote} PROVE after = [mode |-> "out", open |-> open]
  BY <1>2, <1>3 DEF Brackets
<1>4. ASSUME c = Quote PROVE after = [mode |-> "in", open |-> open]
  BY <1>2, <1>4 DEF Quote, OpenBrace, OpenBracket, CloseBrace, CloseBracket
<1>5. ASSUME c \in {OpenBrace, OpenBracket}
      PROVE  after = [mode |-> "out", open |-> Append(open, c)]
  <2>1. c # Quote
    BY <1>5 DEF Quote, OpenBrace, OpenBracket
  <2>2. QED
    BY <1>2, <1>5, <2>1
<1>6. ASSUME c \in {CloseBrace, CloseBracket}
      PROVE  after = [mode |-> "out", open |-> Front(open)]
  <2>1. c # Quote /\ c \notin {OpenBrace, OpenBracket}
    BY <1>6 DEF Quote, OpenBrace, OpenBracket, CloseBrace, CloseBracket
  <2>2. QED
    BY <1>2, <1>6, <2>1
<1>7. Place(line, p + 1) = after
  BY <1>1
<1> HIDE DEF after
<1>8. QED
  BY <1>3, <1>4, <1>5, <1>6, <1>7 DEF Outside, Inside

LEMMA InsideSteps ==
  ASSUME NEW line, IsText(line), NEW p \in 1 .. Len(line), NEW open,
         Inside(line, p, open)
  PROVE  /\ line[p] \notin {Quote, Backslash} => Inside(line, p + 1, open)
         /\ line[p] = Quote => Outside(line, p + 1, open)
         /\ line[p] = Backslash /\ p + 1 \in 1 .. Len(line) => Inside(line, p + 2, open)
<1> DEFINE s == [mode |-> "in", open |-> open]
           next == IF line[p] = Quote THEN "out"
                   ELSE IF line[p] = Backslash THEN "escaped" ELSE "in"
<1>1. Place(line, p + 1) = Behind(s, line[p])
  BY PlaceSteps DEF Inside
<1>2. Behind(s, line[p]) = [mode |-> next, open |-> open]
  BY DEF Behind
<1>3. ASSUME line[p] = Backslash, p + 1 \in 1 .. Len(line)
      PROVE  Inside(line, p + 2, open)
  <2> DEFINE t == [mode |-> "escaped", open |-> open]
  <2>1. Place(line, p + 1) = t
    BY <1>1, <1>2, <1>3 DEF Quote, Backslash
  <2>2. Place(line, (p + 1) + 1) = Behind(t, line[p + 1])
    BY <1>3, <2>1, PlaceSteps
  <2>3. Behind(t, line[p + 1]) = [mode |-> "in", open |-> open]
    BY DEF Behind
  <2>4. (p + 1) + 1 = p + 2
    OBVIOUS
  <2>5. QED
    BY <2>2, <2>3, <2>4 DEF Inside
<1>4. QED
  BY <1>1, <1>2, <1>3 DEF Inside, Outside, Quote, Backslash

(* The line is read no further than to k: no bracket before it closes the   *)
(* object, and behind it the line ends or an escape does not decode.        *)
StopsAt(line, k) ==
  /\ k \in 1 .. Len(line) + 1
  /\ \A j \in 1 .. k - 1 :
       PlacesOf(line)[j - 1].mode = "out" /\ line[j] \in {CloseBrace, CloseBracket}
         => Fits(PlacesOf(line)[j - 1].open, line[j])
  /\ k <= Len(line) => Undecodable(line, PlacesOf(line), k)

LEMMA BreaksOffStops ==
  ASSUME NEW line, BreaksOff(line)
  PROVE  \E k : StopsAt(line, k)
BY DEF BreaksOff, StopsAt

(* Outside strings, k is not reached before the line's end.                 *)
LEMMA NotAtStop ==
  ASSUME NEW line, IsText(line), NEW k, StopsAt(line, k), NEW p \in 1 .. Len(line), p <= k,
         NEW open, Outside(line, p, open)
  PROVE  /\ p < k /\ p + 1 <= k
         /\ line[p] \in {CloseBrace, CloseBracket} => Fits(open, line[p])
<1>1. Len(line) \in Nat /\ k \in Nat
  BY DEF IsText, StopsAt
<1>2. p # k
  <2> SUFFICES ASSUME p = k PROVE FALSE
    OBVIOUS
  <2>1. Undecodable(line, PlacesOf(line), k)
    BY <1>1 DEF StopsAt
  <2>2. PlacesOf(line)[k - 1].mode = "in"
    BY <2>1 DEF Undecodable
  <2>3. QED
    BY <2>2 DEF Outside, Place
<1>3. p < k /\ p + 1 <= k
  BY <1>1, <1>2
<1>4. p \in 1 .. k - 1
  BY <1>1, <1>3
<1>5. PlacesOf(line)[p - 1].mode = "out" /\ PlacesOf(line)[p - 1].open = open
  BY DEF Outside, Place
<1>6. QED
  BY <1>3, <1>4, <1>5 DEF StopsAt

(* A run of characters that are neither quotes nor brackets.                *)
LEMMA RunOutside ==
  ASSUME NEW line, IsText(line), NEW k, StopsAt(line, k), NEW open,
         NEW p \in 1 .. Len(line) + 1, NEW e \in p .. Len(line) + 1,
         p <= k, Outside(line, p, open),
         \A q \in p .. e - 1 : line[q] \notin Brackets \cup {Quote}
  PROVE  e <= k /\ Outside(line, e, open)
<1>1. Len(line) \in Nat /\ k \in Nat /\ e - p \in Nat
  BY DEF IsText, StopsAt
<1> DEFINE Holds == {m \in 0 .. e - p : p + m <= k /\ Outside(line, p + m, open)}
<1>2. 0 \in Holds
  <2>1. p + 0 = p
    OBVIOUS
  <2>2. QED
    BY <1>1, <2>1
<1>3. ASSUME NEW m \in 1 .. e - p, m - 1 \in Holds PROVE m \in Holds
  <2> DEFINE q == p + (m - 1)
  <2>1. q \in 1 .. Len(line) /\ q \in p .. e - 1 /\ q + 1 = p + m
    BY <1>1
  <2>2. q <= k /\ Outside(line, q, open) /\ line[q] \notin Brackets \cup {Quote}
    BY <1>3, <2>1
  <2> HIDE DEF q
  <2>3. q + 1 <= k /\ Outside(line, q + 1, open)
    BY <2>1, <2>2, NotAtStop, OutsideSteps
  <2>4. m \in 0 .. e - p
    BY <1>1
  <2>5. QED
    BY <2>1, <2>3, <2>4
<1> HIDE DEF Holds
<1>4. e - p \in Holds
  <2>1. e - p \in 0 .. e - p
    BY <1>1
  <2>2. QED
    BY <1>1, <1>2, <1>3, <2>1, InductionUpTo
<1>5. p + (e - p) = e
  BY <1>1
<1>6. QED
  BY <1>4, <1>5 DEF Holds

(* White space is such a run, ...                                           *)
LEMMA BeforeLeast ==
  ASSUME NEW n \in Nat, NEW p \in Nat, NEW T, p <= n, n \notin T,
         NEW first, first = Min({k \in p .. n : k \notin T})
  PROVE  first \in p .. n /\ \A q \in p .. first - 1 : q \in T
<1> DEFINE Stops == {k \in p .. n : k \notin T}
<1>1. Stops \in SUBSET Nat /\ n \in Stops /\ Stops \subseteq p .. n
  OBVIOUS
<1>2. first = Min(Stops)
  OBVIOUS
<1>3. \A q \in p .. n : q \notin Stops => q \in T
  OBVIOUS
<1> HIDE DEF Stops
<1>4. first \in Stops /\ \A x \in Stops : first <= x
  <2>1. Stops # {}
    BY <1>1
  <2>2. Min(Stops) \in Stops /\ \A x \in Stops : Min(Stops) <= x
    BY <1>1, <2>1, LeastOf
  <2>3. QED
    BY <1>2, <2>2
<1>5. first \in p .. n
  BY <1>1, <1>4
<1>6. ASSUME NEW q \in p .. first - 1 PROVE q \in T
  <2>1. q \in p .. n /\ ~(first <= q)
    BY <1>5
  <2>2. QED
    BY <1>3, <1>4, <2>1
<1>7. QED
  BY <1>5, <1>6

LEMMA SkipOutside ==
  ASSUME NEW line, IsText(line), NEW k, StopsAt(line, k), NEW open,
         NEW p \in 1 .. Len(line) + 1, p <= k, Outside(line, p, open)
  PROVE  /\ SkipWs(line, p) \in 1 .. Len(line) + 1
         /\ SkipWs(line, p) <= k /\ Outside(line, SkipWs(line, p), open)
<1>1. Len(line) + 1 \in Nat /\ p \in Nat /\ p <= Len(line) + 1
  BY DEF IsText
<1> DEFINE T == {q \in Nat : At(line, q) \in White}
<1>2. Len(line) + 1 \notin T
  <2>1. At(line, Len(line) + 1) = -1
    BY <1>1, AtPosition DEF IsText
  <2>2. QED
    BY <2>1 DEF White
<1>3. SkipWs(line, p) = Min({q \in p .. Len(line) + 1 : q \notin T})
  <2>1. {q \in p .. Len(line) + 1 : At(line, q) \notin White}
          = {q \in p .. Len(line) + 1 : q \notin T}
    BY <1>1
  <2>2. QED
    BY <2>1 DEF SkipWs
<1>4. \A q \in T : q \in 1 .. Len(line) => line[q] \notin Brackets \cup {Quote}
  BY AtPosition DEF White, Brackets, OpenBrace, OpenBracket, CloseBrace, CloseBracket, Quote
<1> HIDE DEF T
<1> DEFINE e == SkipWs(line, p)
<1>5. e \in p .. Len(line) + 1 /\ \A q \in p .. e - 1 : q \in T
  BY <1>1, <1>2, <1>3, BeforeLeast
<1> HIDE DEF e
<1>6. \A q \in p .. e - 1 : line[q] \notin Brackets \cup {Quote}
  <2> TAKE q \in p .. e - 1
  <2>1. q \in 1 .. Len(line)
    BY <1>1, <1>5
  <2>2. QED
    BY <1>4, <1>5, <2>1
<1>7. e <= k /\ Outside(line, e, open)
  BY <1>5, <1>6, RunOutside
<1>8. e \in 1 .. Len(line) + 1
  BY <1>1, <1>5
<1>9. QED
  BY <1>7, <1>8 DEF e

(* ... and so is a number ...                                               *)
LEMMA NumberOutside ==
  ASSUME NEW line, IsText(line), NEW k, StopsAt(line, k), NEW open,
         NEW p \in 1 .. Len(line) + 1, p <= k, Outside(line, p, open)
  PROVE  NumberEnd(line, p) <= k /\ Outside(line, NumberEnd(line, p), open)
<1>1. Len(line) + 1 \in Nat /\ p \in Nat /\ p <= Len(line) + 1
  BY DEF IsText
<1> DEFINE T == {q \in Nat : At(line, q) \in NumberChar}
<1>2. Len(line) + 1 \notin T
  <2>1. At(line, Len(line) + 1) = -1
    BY <1>1, AtPosition DEF IsText
  <2>2. QED
    BY <2>1 DEF NumberChar
<1>3. NumberEnd(line, p) = Min({q \in p .. Len(line) + 1 : q \notin T})
  <2>1. {q \in p .. Len(line) + 1 : At(line, q) \notin NumberChar}
          = {q \in p .. Len(line) + 1 : q \notin T}
    BY <1>1
  <2>2. QED
    BY <2>1 DEF NumberEnd
<1>4. \A q \in T : q \in 1 .. Len(line) => line[q] \notin Brackets \cup {Quote}
  <2>1. \A c \in NumberChar : c \notin Brackets \cup {Quote}
    BY DEF NumberChar, Brackets, OpenBrace, OpenBracket, CloseBrace, CloseBracket, Quote
  <2>2. \A q \in Nat : q \in 1 .. Len(line) => At(line, q) = line[q]
    BY AtPosition
  <2>3. QED
    BY <2>1, <2>2
<1> HIDE DEF T
<1> DEFINE e == NumberEnd(line, p)
<1>5. e \in p .. Len(line) + 1 /\ \A q \in p .. e - 1 : q \in T
  BY <1>1, <1>2, <1>3, BeforeLeast
<1> HIDE DEF e
<1>6. \A q \in p .. e - 1 : line[q] \notin Brackets \cup {Quote}
  <2> TAKE q \in p .. e - 1
  <2>1. q \in 1 .. Len(line)
    BY <1>1, <1>5
  <2>2. QED
    BY <1>4, <1>5, <2>1
<1>7. QED
  BY <1>5, <1>6, RunOutside DEF e

(* ... and one of the three words.                                          *)
LEMMA WordOutside ==
  ASSUME NEW line, IsText(line), NEW k, StopsAt(line, k), NEW open,
         NEW p \in 1 .. Len(line) + 1, p <= k, Outside(line, p, open),
         NEW e \in WordEnd(line, p)
  PROVE  e <= k /\ Outside(line, e, open)
<1>1. Len(line) \in Nat /\ p \in 1 .. Len(line) + 2
  BY DEF IsText
<1>2. PICK w \in Words : Span(line, p, Len(w)) = w /\ e = p + Len(w)
  BY DEF WordEnd
<1>3. /\ Len(w) \in 1 .. 5
      /\ \A n \in 1 .. Len(w) : w[n] \notin Brackets \cup {Quote}
  <2> DEFINE Plain(c) == c \notin Brackets \cup {Quote}
  <2>1. \A c \in 97 .. 122 : Plain(c)
    BY DEF Brackets, OpenBrace, OpenBracket, CloseBrace, CloseBracket, Quote
  <2>2. \A v \in Words : Len(v) \in 1 .. 5
    BY DEF Words
  <2>3. ASSUME NEW v \in Words, NEW n \in 1 .. Len(v) PROVE v[n] \in 97 .. 122
    <3>1. CASE v = <<116, 114, 117, 101>>
      <4>1. n = 1 \/ n = 2 \/ n = 3 \/ n = 4
        BY <3>1
      <4>2. v[1] = 116 /\ v[2] = 114 /\ v[3] = 117 /\ v[4] = 101
        BY <3>1
      <4>3. v[1] \in 97 .. 122 /\ v[2] \in 97 .. 122 /\ v[3] \in 97 .. 122 /\ v[4] \in 97 .. 122
        BY <4>2
      <4>4. QED
        BY <4>1, <4>3, Zenon
    <3>2. CASE v = <<102, 97, 108, 115, 101>>
      <4>1. n = 1 \/ n = 2 \/ n = 3 \/ n = 4 \/ n = 5
        BY <3>2
      <4>2. v[1] = 102 /\ v[2] = 97 /\ v[3] = 108 /\ v[4] = 115 /\ v[5] = 101
        BY <3>2
      <4>3. /\ v[1] \in 97 .. 122 /\ v[2] \in 97 .. 122 /\ v[3] \in 97 .. 122
            /\ v[4] \in 97 .. 122 /\ v[5] \in 97 .. 122
        BY <4>2
      <4>4. QED
        BY <4>1, <4>3, Zenon
    <3>3. CASE v = <<110, 117, 108, 108>>
      <4>1. n = 1 \/ n = 2 \/ n = 3 \/ n = 4
        BY <3>3
      <4>2. v[1] = 110 /\ v[2] = 117 /\ v[3] = 108 /\ v[4] = 108
        BY <3>3
      <4>3. v[1] \in 97 .. 122 /\ v[2] \in 97 .. 122 /\ v[3] \in 97 .. 122 /\ v[4] \in 97 .. 122
        BY <4>2
      <4>4. QED
        BY <4>1, <4>3, Zenon
    <3>4. QED
      BY <3>1, <3>2, <3>3 DEF Words
  <2> HIDE DEF Plain
  <2>4. Len(w) \in 1 .. 5 /\ \A n \in 1 .. Len(w) : Plain(w[n])
    BY <2>1, <2>2, <2>3
  <2>5. QED
    BY <2>4 DEF Plain
<1>4. PICK n : n = Len(w)
  OBVIOUS
<1>5. n \in Nat /\ n > 0 /\ Span(line, p, n) = w
  BY <1>2, <1>3, <1>4
<1>6. p + n - 1 <= Len(line)
  BY <1>1, <1>4, <1>5, SpanFacts
<1>7. \A m \in 1 .. n : w[m] = line[p + m - 1]
  BY <1>1, <1>5, <1>6, SpanFacts
<1>8. e \in p .. Len(line) + 1 /\ e = p + n
  BY <1>1, <1>2, <1>4, <1>5, <1>6
<1>9. \A q \in p .. e - 1 : line[q] \notin Brackets \cup {Quote}
  <2> TAKE q \in p .. e - 1
  <2>1. q - p + 1 \in 1 .. n /\ p + (q - p + 1) - 1 = q
    BY <1>1, <1>5, <1>8
  <2>2. line[q] = w[q - p + 1]
    BY <1>7, <2>1
  <2>3. QED
    BY <1>3, <1>4, <2>1, <2>2
<1>10. QED
  BY <1>8, <1>9, RunOutside

(* Inside strings: four digits, ...                                         *)
LEMMA HexInside ==
  ASSUME NEW line, IsText(line), NEW p \in 1 .. Len(line) + 2, NEW open,
         Inside(line, p, open), NEW d \in Hex4(line, p)
  PROVE  p + 3 <= Len(line) /\ Inside(line, p + 4, open)
<1>1. Len(line) \in Nat
  BY DEF IsText
<1>2. Len(Span(line, p, 4)) = 4 /\ ToSet(Span(line, p, 4)) \subseteq HexDigit
  BY DEF Hex4
<1>3. p + 3 <= Len(line)
  BY Hex4Forward
<1>4. p + 4 - 1 <= Len(line) /\ 4 \in Nat
  BY <1>1, <1>3
<1>5. /\ Span(line, p, 4) \in Seq(Nat)
      /\ \A n \in 1 .. 4 : Span(line, p, 4)[n] = line[p + n - 1]
  BY <1>4, SpanFacts
<1>6. \A q \in p .. p + 3 : line[q] \in HexDigit
  <2> TAKE q \in p .. p + 3
  <2>1. q - p + 1 \in 1 .. 4 /\ p + (q - p + 1) - 1 = q
    BY <1>1
  <2>2. line[q] = Span(line, p, 4)[q - p + 1]
    BY <1>5, <2>1
  <2>3. QED
    BY <1>2, <1>5, <2>1, <2>2 DEF ToSet
<1>7. \A q \in p .. p + 3 : Inside(line, q, open) => Inside(line, q + 1, open)
  <2> TAKE q \in p .. p + 3
  <2>1. \A c \in HexDigit : c \notin {Quote, Backslash}
    BY DEF HexDigit, Quote, Backslash
  <2>2. q \in 1 .. Len(line) /\ line[q] \notin {Quote, Backslash}
    BY <1>1, <1>3, <1>6, <2>1
  <2>3. QED
    BY <2>2, InsideSteps
<1>8. /\ p \in p .. p + 3 /\ p + 1 \in p .. p + 3 /\ p + 2 \in p .. p + 3
      /\ p + 3 \in p .. p + 3
      /\ (p + 1) + 1 = p + 2 /\ (p + 2) + 1 = p + 3 /\ (p + 3) + 1 = p + 4
  BY <1>1
<1>9. Inside(line, p + 1, open)
  BY <1>7, <1>8
<1>10. Inside(line, p + 2, open)
  BY <1>7, <1>8, <1>9
<1>11. Inside(line, p + 3, open)
  BY <1>7, <1>8, <1>10
<1>12. Inside(line, p + 4, open)
  BY <1>7, <1>8, <1>11
<1>13. QED
  BY <1>3, <1>12

(* ... and a character: the quote behind an escape ends the string, the one *)
(* in an escape does not.                                                   *)
LEMMA CharacterInside ==
  ASSUME NEW line, IsText(line), NEW p \in 1 .. Len(line), line[p] # Quote, NEW open,
         Inside(line, p, open), NEW c \in Character(line, p)
  PROVE  Inside(line, c[2], open)
<1>1. Len(line) \in Nat
  BY DEF IsText
<1>2. CASE line[p] # Backslash
  <2>1. c[2] = p + 1
    BY <1>2 DEF Character
  <2>2. QED
    BY <1>2, <2>1, InsideSteps
<1>3. ASSUME line[p] = Backslash, At(line, p + 1) # -1
      PROVE  p + 1 \in 1 .. Len(line) /\ Inside(line, p + 2, open)
  <2>1. p + 1 \in Nat
    BY <1>1
  <2>2. p + 1 \in 1 .. Len(line)
    BY <1>3, <2>1, AtPosition
  <2>3. QED
    BY <1>3, <2>2, InsideSteps
<1>4. CASE line[p] = Backslash /\ At(line, p + 1) # LetterU
  <2>1. PICK e \in ShortEscape \cup {<<47, 47>>} :
          e[1] = At(line, p + 1) /\ c = <<e[2], p + 2>>
    BY <1>4 DEF Character
  <2>2. e[1] # -1
    BY DEF ShortEscape
  <2>3. QED
    BY <1>3, <1>4, <2>1, <2>2
<1>5. CASE line[p] = Backslash /\ At(line, p + 1) = LetterU
  <2>1. c \in UnicodeEscape(line, p + 2)
    BY <1>5 DEF Character
  <2>2. p + 1 \in 1 .. Len(line) /\ Inside(line, p + 2, open)
    BY <1>3, <1>5 DEF LetterU
  <2>3. PICK q : q = p + 2
    OBVIOUS
  <2>4. q \in 1 .. Len(line) + 2 /\ Inside(line, q, open) /\ c \in UnicodeEscape(line, q)
    BY <1>1, <2>1, <2>2, <2>3
  <2>5. PICK hi \in Hex4(line, q) :
          c \in IF hi \in HighSurrogate
                THEN {<<65536 + (hi - 55296) * 1024 + (lo - 56320), q + 10>> :
                        lo \in IF Span(line, q + 4, 2) = <<Backslash, LetterU>>
                               THEN Hex4(line, q + 6) \cap LowSurrogate ELSE {}}
                ELSE IF hi \in LowSurrogate THEN {} ELSE {<<hi, q + 4>>}
    BY <2>4 DEF UnicodeEscape
  <2>6. q + 3 <= Len(line) /\ Inside(line, q + 4, open)
    BY <2>4, HexInside
  <2>7. CASE hi \notin HighSurrogate
    <3>1. c = <<hi, q + 4>>
      BY <2>5, <2>7
    <3>2. QED
      BY <2>6, <3>1
  <2>8. CASE hi \in HighSurrogate
    <3>1. PICK lo \in IF Span(line, q + 4, 2) = <<Backslash, LetterU>>
                      THEN Hex4(line, q + 6) \cap LowSurrogate ELSE {} :
            c = <<65536 + (hi - 55296) * 1024 + (lo - 56320), q + 10>>
      BY <2>5, <2>8
    <3>2. Span(line, q + 4, 2) = <<Backslash, LetterU>> /\ lo \in Hex4(line, q + 6)
      BY <3>1
    <3>3. PICK r : r = q + 4
      OBVIOUS
    <3>4. r \in 1 .. Len(line) + 2 /\ r + 2 = q + 6
      BY <1>1, <2>4, <2>6, <3>3
    <3>5. Len(Span(line, r, 2)) = 2 /\ 2 \in Nat /\ 2 > 0
      BY <3>2, <3>3
    <3>6. r + 2 - 1 <= Len(line)
      BY <3>4, <3>5, SpanFacts
    <3>7. \A n \in 1 .. 2 : Span(line, r, 2)[n] = line[r + n - 1]
      BY <3>4, <3>5, <3>6, SpanFacts
    <3>8. r \in 1 .. Len(line) /\ r + 1 \in 1 .. Len(line) /\ r + 1 - 1 = r
      BY <1>1, <3>4, <3>6
    <3>9. line[r] = Backslash
      <4>1. Span(line, r, 2)[1] = Backslash
        BY <3>2, <3>3
      <4>2. QED
        BY <3>7, <3>8, <4>1
    <3>10. Inside(line, r + 2, open)
      BY <2>6, <3>3, <3>8, <3>9, InsideSteps
    <3>11. r + 2 \in 1 .. Len(line) + 2 /\ lo \in Hex4(line, r + 2)
      BY <1>1, <3>2, <3>4, <3>8
    <3>12. PICK t : t = r + 2
      OBVIOUS
    <3>13. Inside(line, t + 4, open)
      BY <3>10, <3>11, <3>12, HexInside
    <3>14. t + 4 = q + 10
      BY <2>4, <3>4, <3>12
    <3>15. QED
      BY <3>1, <3>13, <3>14
  <2>9. QED
    BY <2>7, <2>8
<1>6. QED
  BY <1>2, <1>4, <1>5

(* What is known of the value v of a digit c, ...                           *)
DigitOf(c, v) ==
  /\ v \in 0 .. 15
  /\ v = 13 <=> c \in {68, 100}
  /\ v \in 8 .. 11 <=> c \in {56, 57, 65, 66, 97, 98}
  /\ v \in 12 .. 15 <=> c \in 67 .. 70 \cup 99 .. 102

(* ... and is true of the one HexValue gives it.                             *)
LEMMA DigitValues ==
  ASSUME NEW c \in HexDigit
  PROVE  DigitOf(c, HexValue(c))
<1>1. c \in 48 .. 57 \/ c \in 65 .. 70 \/ c \in 97 .. 102
  BY DEF HexDigit
<1>2. CASE c \in 48 .. 57
  <2>1. HexValue(c) = c - 48
    BY <1>2 DEF HexValue
  <2>2. QED
    BY <1>2, <2>1 DEF DigitOf
<1>3. CASE c \in 65 .. 70
  <2>1. HexValue(c) = c - 55
    BY <1>3 DEF HexValue
  <2>2. QED
    BY <1>3, <2>1 DEF DigitOf
<1>4. CASE c \in 97 .. 102
  <2>1. HexValue(c) = c - 87
    BY <1>4 DEF HexValue
  <2>2. QED
    BY <1>4, <2>1 DEF DigitOf
<1>5. QED
  BY <1>1, <1>2, <1>3, <1>4

(* A unit is half of a character if its first digit is D and its second one *)
(* between 8 and B, or between C and F.                                     *)
UnitOf(a, b, c, e) == 16 * (16 * (16 * a + b) + c) + e
HalfOf(d, a, b) ==
  /\ d \in HighSurrogate <=> a = 13 /\ b \in 8 .. 11
  /\ d \in LowSurrogate <=> a = 13 /\ b \in 12 .. 15

(* Four digits make one or the other, or neither.                           *)
LEMMA HalfDigits ==
  ASSUME NEW a \in 0 .. 15, NEW b \in 0 .. 15, NEW c \in 0 .. 15, NEW e \in 0 .. 15,
         NEW d, d = UnitOf(a, b, c, e)
  PROVE  HalfOf(d, a, b)
<1>1. d = 4096 * a + 256 * b + 16 * c + e
  BY DEF UnitOf
<1>2. d \in HighSurrogate <=> a = 13 /\ b \in 8 .. 11
  BY <1>1 DEF HighSurrogate
<1>3. d \in LowSurrogate <=> a = 13 /\ b \in 12 .. 15
  BY <1>1 DEF LowSurrogate
<1>4. QED
  BY <1>2, <1>3 DEF HalfOf

(* The four digits of a unit tell whether it is half of a character.        *)
LEMMA UnitDigits ==
  ASSUME NEW line, IsText(line), NEW p \in 1 .. Len(line), line[p] = Backslash,
         At(line, p + 1) = LetterU, NEW d \in Hex4(line, p + 2)
  PROVE  /\ UnitAt(line, p)
         /\ d \in HighSurrogate => HighHalf(line, p)
         /\ HighHalf(line, p) => d \in HighSurrogate
         /\ d \in LowSurrogate => LowHalf(line, p)
         /\ LowHalf(line, p) => d \in LowSurrogate
<1>1. Len(line) \in Nat
  BY DEF IsText
<1>2. p + 1 \in 1 .. Len(line) /\ line[p + 1] = LetterU
  <2>1. p + 1 \in Nat /\ LetterU # -1
    BY DEF LetterU
  <2>2. p + 1 \in 1 .. Len(line)
    BY <2>1, AtPosition
  <2>3. QED
    BY <2>1, <2>2, AtPosition
<1>3. PICK q : q = p + 2
  OBVIOUS
<1>4. q \in 1 .. Len(line) + 2 /\ d \in Hex4(line, q)
  BY <1>1, <1>2, <1>3
<1>5. q + 3 <= Len(line) /\ q + 4 - 1 <= Len(line) /\ 4 \in Nat
  BY <1>1, <1>4, Hex4Forward
<1> DEFINE quad == Span(line, q, 4)
<1>6. /\ ToSet(quad) \subseteq HexDigit
      /\ d = 16 * (16 * (16 * HexValue(quad[1]) + HexValue(quad[2])) + HexValue(quad[3]))
              + HexValue(quad[4])
  BY <1>4 DEF Hex4
<1>7. quad \in Seq(Nat) /\ Len(quad) = 4 /\ \A n \in 1 .. 4 : quad[n] = line[q + n - 1]
  BY <1>4, <1>5, SpanFacts
<1> HIDE DEF quad
<1>8. \A n \in 1 .. 4 : quad[n] \in HexDigit
  <2>1. DOMAIN quad = 1 .. 4
    BY <1>7
  <2>2. QED
    BY <1>6, <2>1 DEF ToSet
<1>9. /\ quad[1] = line[p + 2] /\ quad[2] = line[p + 3]
      /\ quad[3] = line[p + 4] /\ quad[4] = line[p + 5]
  <2>1. q + 1 - 1 = p + 2 /\ q + 2 - 1 = p + 3 /\ q + 3 - 1 = p + 4 /\ q + 4 - 1 = p + 5
    BY <1>3
  <2>2. QED
    BY <1>7, <2>1
<1>10. UnitAt(line, p)
  <2>1. \A k \in p + 2 .. p + 5 : k = p + 2 \/ k = p + 3 \/ k = p + 4 \/ k = p + 5
    OBVIOUS
  <2>2. \A k \in p + 2 .. p + 5 : line[k] \in HexDigit
    BY <1>8, <1>9, <2>1
  <2>3. p + 5 <= Len(line)
    BY <1>1, <1>3, <1>5
  <2>4. QED
    BY <1>2, <2>2, <2>3 DEF UnitAt
<1>11. quad[1] \in HexDigit /\ quad[2] \in HexDigit /\ quad[3] \in HexDigit /\ quad[4] \in HexDigit
  BY <1>8
<1>12. PICK v1 : v1 = HexValue(quad[1])
  OBVIOUS
<1>13. PICK v2 : v2 = HexValue(quad[2])
  OBVIOUS
<1>14. PICK v3 : v3 = HexValue(quad[3])
  OBVIOUS
<1>15. PICK v4 : v4 = HexValue(quad[4])
  OBVIOUS
<1>16. d = UnitOf(v1, v2, v3, v4)
  BY <1>6, <1>12, <1>13, <1>14, <1>15 DEF UnitOf
<1>17. /\ DigitOf(line[p + 2], v1) /\ DigitOf(line[p + 3], v2)
       /\ DigitOf(quad[3], v3) /\ DigitOf(quad[4], v4)
  BY <1>9, <1>11, <1>12, <1>13, <1>14, <1>15, DigitValues
<1>18. v1 \in 0 .. 15 /\ v2 \in 0 .. 15 /\ v3 \in 0 .. 15 /\ v4 \in 0 .. 15
  BY <1>17 DEF DigitOf
<1>19. HalfOf(d, v1, v2)
  BY <1>16, <1>18, HalfDigits
<1>20. v1 = 13 <=> line[p + 2] \in {68, 100}
  BY <1>17 DEF DigitOf
<1>21. /\ v2 \in 8 .. 11 <=> line[p + 3] \in {56, 57, 65, 66, 97, 98}
       /\ v2 \in 12 .. 15 <=> line[p + 3] \in 67 .. 70 \cup 99 .. 102
  BY <1>17 DEF DigitOf
<1>22. QED
  BY <1>10, <1>19, <1>20, <1>21 DEF HighHalf, LowHalf, HalfOf

(* What is read behind a backslash is an escape: short, a unit that stands  *)
(* for a character, or two halves.                                          *)
LEMMA CharacterIsEscape ==
  ASSUME NEW line, IsText(line), NEW p \in 1 .. Len(line), line[p] = Backslash,
         NEW c \in Character(line, p)
  PROVE  /\ IsEscape(line, p)
         /\ \/ c[2] = p + 2
            \/ c[2] = p + 6 /\ UnitAt(line, p)
            \/ c[2] = p + 12 /\ HighHalf(line, p) /\ LowHalf(line, p + 6)
<1>1. Len(line) \in Nat
  BY DEF IsText
<1>2. CASE At(line, p + 1) # LetterU
  <2>1. PICK e \in ShortEscape \cup {<<47, 47>>} :
          e[1] = At(line, p + 1) /\ c = <<e[2], p + 2>>
    BY <1>2 DEF Character
  <2>2. e[1] # -1 /\ e[1] \in {34, 47, 92, 98, 102, 110, 114, 116}
    BY DEF ShortEscape
  <2>3. p + 1 \in Nat
    OBVIOUS
  <2>4. p + 1 \in 1 .. Len(line) /\ line[p + 1] = e[1]
    BY <2>1, <2>2, <2>3, AtPosition
  <2>5. p < Len(line)
    BY <1>1, <2>4
  <2>6. QED
    BY <2>1, <2>2, <2>4, <2>5 DEF IsEscape
<1>3. CASE At(line, p + 1) = LetterU
  <2>1. c \in UnicodeEscape(line, p + 2)
    BY <1>3 DEF Character
  <2>2. PICK hi \in Hex4(line, p + 2) :
          c \in IF hi \in HighSurrogate
                THEN {<<65536 + (hi - 55296) * 1024 + (lo - 56320), p + 2 + 10>> :
                        lo \in IF Span(line, p + 2 + 4, 2) = <<Backslash, LetterU>>
                               THEN Hex4(line, p + 2 + 6) \cap LowSurrogate ELSE {}}
                ELSE IF hi \in LowSurrogate THEN {} ELSE {<<hi, p + 2 + 4>>}
    BY <2>1 DEF UnicodeEscape
  <2>3. /\ UnitAt(line, p)
        /\ HighHalf(line, p) <=> hi \in HighSurrogate
        /\ LowHalf(line, p) <=> hi \in LowSurrogate
    BY <1>3, UnitDigits
  <2>4. CASE hi \notin HighSurrogate
    <3>1. hi \notin LowSurrogate /\ c = <<hi, p + 2 + 4>>
      BY <2>2, <2>4
    <3>2. c[2] = p + 6
      BY <3>1
    <3>3. QED
      BY <2>3, <2>4, <3>1, <3>2 DEF IsEscape
  <2>5. CASE hi \in HighSurrogate
    <3>1. PICK lo \in IF Span(line, p + 2 + 4, 2) = <<Backslash, LetterU>>
                      THEN Hex4(line, p + 2 + 6) \cap LowSurrogate ELSE {} :
            c = <<65536 + (hi - 55296) * 1024 + (lo - 56320), p + 2 + 10>>
      BY <2>2, <2>5
    <3>2. /\ Span(line, p + 2 + 4, 2) = <<Backslash, LetterU>>
          /\ lo \in Hex4(line, p + 2 + 6) /\ lo \in LowSurrogate
      BY <3>1
    <3>3. PICK r : r = p + 6
      OBVIOUS
    <3>4. p + 2 + 4 = r /\ p + 2 + 6 = r + 2 /\ p + 2 + 10 = p + 12
      BY <3>3
    <3>5. p + 5 <= Len(line)
      BY <2>3 DEF UnitAt
    <3>6. r \in 1 .. Len(line) + 2
      BY <1>1, <3>3, <3>5
    <3>7. Span(line, r, 2) = <<Backslash, LetterU>>
      BY <3>2, <3>4
    <3>8. Len(Span(line, r, 2)) = 2 /\ 2 \in Nat /\ 2 > 0
      BY <3>7
    <3>9. r + 2 - 1 <= Len(line)
      BY <3>6, <3>8, SpanFacts
    <3>10. \A n \in 1 .. 2 : Span(line, r, 2)[n] = line[r + n - 1]
      BY <3>6, <3>8, <3>9, SpanFacts
    <3>11. r \in 1 .. Len(line) /\ r + 1 \in 1 .. Len(line) /\ r + 1 - 1 = r /\ r + 2 - 1 = r + 1
      BY <1>1, <3>6, <3>9
    <3>12. Span(line, r, 2)[1] = Backslash /\ Span(line, r, 2)[2] = LetterU
      BY <3>7
    <3>13. line[r] = Backslash /\ line[r + 1] = LetterU
      BY <3>10, <3>11, <3>12
    <3>14. At(line, r + 1) = LetterU
      BY <3>11, <3>13, AtPosition
    <3>15. lo \in Hex4(line, r + 2) /\ lo \in LowSurrogate
      BY <3>2, <3>4
    <3>16. LowHalf(line, r)
      BY <3>11, <3>13, <3>14, <3>15, UnitDigits
    <3>17. c[2] = p + 12
      BY <3>1, <3>4
    <3>18. QED
      BY <2>3, <2>5, <3>3, <3>16, <3>17 DEF IsEscape
  <2>6. QED
    BY <2>4, <2>5
<1>4. QED
  BY <1>2, <1>3

(* A backslash in a string stands neither directly behind one nor among the *)
(* digits of a unit ...                                                     *)
LEMMA NotInUnit ==
  ASSUME NEW line, IsText(line), NEW j \in 1 .. Len(line), UnitAt(line, j),
         NEW k \in j + 1 .. j + 5
  PROVE  line[k] # Backslash
<1>1. k = j + 1 \/ k \in j + 2 .. j + 5
  OBVIOUS
<1>2. CASE k = j + 1
  BY <1>2 DEF UnitAt, LetterU, Backslash
<1>3. CASE k \in j + 2 .. j + 5
  <2>1. \A d \in HexDigit : d # Backslash
    BY DEF HexDigit, Backslash
  <2>2. QED
    BY <1>3, <2>1 DEF UnitAt
<1>4. QED
  BY <1>1, <1>2, <1>3

(* ... so a character before the one that does not decode ends before it.   *)
LEMMA EndsBefore ==
  ASSUME NEW line, IsText(line), NEW k \in 1 .. Len(line),
         Undecodable(line, PlacesOf(line), k),
         NEW j \in 1 .. k - 1, NEW open, Inside(line, j, open), NEW c \in Character(line, j)
  PROVE  c[2] <= k
<1>1. Len(line) \in Nat /\ j \in 1 .. Len(line)
  BY DEF IsText
<1>2. CASE line[j] # Backslash
  <2>1. c[2] = j + 1
    BY <1>2 DEF Character
  <2>2. QED
    BY <2>1
<1>3. CASE line[j] = Backslash
  <2>1. /\ line[k] = Backslash /\ PlacesOf(line)[k - 1].mode = "in"
        /\ ~(k > 6 /\ PlacesOf(line)[k - 7].mode = "in" /\ HighHalf(line, k - 6)
               /\ LowHalf(line, k))
    BY DEF Undecodable
  <2>2. PlacesOf(line)[j - 1].mode = "in"
    BY DEF Inside, Place
  <2>3. k # j + 1
    <3> SUFFICES ASSUME k = j + 1 PROVE FALSE
      OBVIOUS
    <3>1. Place(line, j + 1) = Behind(Place(line, j), line[j])
      BY <1>1, PlaceSteps
    <3>2. Place(line, j) = [mode |-> "in", open |-> open]
      BY DEF Inside
    <3>3. Behind(Place(line, j), line[j]).mode = "escaped"
      BY <1>3, <3>2 DEF Behind, Quote, Backslash
    <3>4. QED
      BY <2>1, <3>1, <3>3 DEF Place
  <2>4. CASE c[2] = j + 2
    BY <2>3, <2>4
  <2>5. CASE c[2] = j + 6 /\ UnitAt(line, j)
    BY <1>1, <2>1, <2>5, NotInUnit
  <2>6. CASE c[2] = j + 12 /\ HighHalf(line, j) /\ LowHalf(line, j + 6)
    <3>1. k \notin j + 1 .. j + 5
      BY <1>1, <2>1, <2>6, NotInUnit DEF HighHalf
    <3>2. k # j + 6
      <4> SUFFICES ASSUME k = j + 6 PROVE FALSE
        OBVIOUS
      <4>1. k - 6 = j /\ k - 7 = j - 1 /\ k > 6
        OBVIOUS
      <4>2. QED
        BY <2>1, <2>2, <2>6, <4>1
    <3>3. k \notin j + 7 .. j + 11
      <4> SUFFICES ASSUME k \in j + 7 .. j + 11 PROVE FALSE
        OBVIOUS
      <4>1. PICK h : h = j + 6
        OBVIOUS
      <4>2. h + 5 <= Len(line) /\ UnitAt(line, h)
        BY <2>6, <4>1 DEF LowHalf, UnitAt
      <4>3. h \in 1 .. Len(line) /\ k \in h + 1 .. h + 5
        BY <1>1, <4>1, <4>2
      <4>4. QED
        BY <2>1, <4>2, <4>3, NotInUnit
    <3>4. QED
      BY <2>6, <3>1, <3>2, <3>3
  <2>7. QED
    BY <1>1, <1>3, <2>4, <2>5, <2>6, CharacterIsEscape
<1>4. QED
  BY <1>2, <1>3

(* A string that is read ends before k, and outside again.                  *)
LEMMA StringOutside ==
  ASSUME NEW line, IsText(line), NEW k, StopsAt(line, k), NEW open,
         NEW p \in Nat, p <= k, Outside(line, p, open), NEW s \in StringAt(line, p)
  PROVE  /\ s[2] \in 1 .. Len(line) + 1
         /\ s[2] <= k /\ Outside(line, s[2], open)
<1>1. Len(line) \in Nat /\ k \in 1 .. Len(line) + 1
  BY DEF IsText, StopsAt
<1>2. PICK f : /\ \A j \in 1 .. Len(line) + 1 : f[j] = RestAt(line, f, j)
               /\ \A q : StringAt(line, q) = IF At(line, q) = Quote THEN f[q + 1] ELSE {}
  BY StringIsRest
<1> DEFINE n == Len(line) + 1
           Holds == {j \in 1 .. n : j <= k /\ Inside(line, j, open) =>
                       \A r \in f[j] : r[2] <= k /\ Outside(line, r[2], open)}
<1>3. n \in Nat /\ Holds \in SUBSET (1 .. n)
  BY <1>1
<1>4. ASSUME NEW j \in 1 .. n, \A q \in 1 .. n : q > j => q \in Holds
      PROVE  j \in Holds
  <2> SUFFICES ASSUME j <= k, Inside(line, j, open), NEW r \in f[j]
               PROVE  r[2] <= k /\ Outside(line, r[2], open)
    OBVIOUS
  <2>1. j \in 1 .. Len(line) + 1 /\ r \in RestAt(line, f, j)
    BY <1>2
  <2>2. CASE j \in 1 .. Len(line) /\ line[j] = Quote
    <3>1. RestAt(line, f, j) = {<<<<>>, j + 1>>}
      BY <2>2, RestCases
    <3>2. r[2] = j + 1
      BY <2>1, <3>1
    <3>3. j # k
      <4>1. k <= Len(line) => line[k] = Backslash
        BY DEF StopsAt, Undecodable
      <4>2. QED
        BY <2>2, <4>1 DEF Quote, Backslash
    <3>4. j + 1 <= k
      BY <1>1, <3>3
    <3>5. QED
      BY <2>2, <3>2, <3>4, InsideSteps
  <2>3. CASE j \in 1 .. Len(line) /\ line[j] # Quote
    <3>1. RestAt(line, f, j) = FromCharacters(line, f, j)
      BY <2>3, RestCases
    <3>2. PICK c \in Character(line, j) : r \in Before(c, f[c[2]])
      BY <2>1, <3>1 DEF FromCharacters
    <3>3. PICK t \in f[c[2]] : r = <<<<c[1]>> \o t[1], t[2]>>
      BY <3>2 DEF Before
    <3>4. c[2] \in j + 1 .. n
      BY <2>3, CharacterForward
    <3>5. c[2] \in 1 .. n /\ c[2] > j
      BY <1>3, <3>4
    <3>6. j # k
      <4> SUFFICES ASSUME j = k PROVE FALSE
        OBVIOUS
      <4>1. line[j] = Backslash /\ ~IsEscape(line, j)
        BY <2>3 DEF StopsAt, Undecodable
      <4>2. QED
        BY <2>3, <4>1, CharacterIsEscape
    <3>7. c[2] <= k
      <4>1. CASE k <= Len(line)
        <5>1. Undecodable(line, PlacesOf(line), k)
          BY <4>1 DEF StopsAt
        <5>2. j \in 1 .. k - 1
          BY <1>1, <3>6
        <5>3. k \in 1 .. Len(line)
          BY <1>1, <4>1
        <5>4. QED
          BY <5>1, <5>2, <5>3, EndsBefore
      <4>2. CASE ~(k <= Len(line))
        BY <1>1, <3>5, <4>2
      <4>3. QED
        BY <4>1, <4>2
    <3>8. Inside(line, c[2], open)
      BY <2>3, CharacterInside
    <3>9. t[2] <= k /\ Outside(line, t[2], open)
      BY <1>4, <3>3, <3>5, <3>7, <3>8
    <3>10. QED
      BY <3>3, <3>9
  <2>4. CASE j \notin 1 .. Len(line)
    <3>1. RestAt(line, f, j) = {}
      BY <2>4, RestCases
    <3>2. QED
      BY <2>1, <3>1
  <2>5. QED
    BY <2>2, <2>3, <2>4
<1> HIDE DEF Holds
<1>5. Holds = 1 .. n
  <2> HIDE DEF n
  <2>1. QED
    BY <1>3, <1>4, InductionFromTheEnd
<1>6. At(line, p) = Quote /\ s \in f[p + 1]
  BY <1>2
<1>7. p \in 1 .. Len(line) /\ s[2] \in p + 2 .. Len(line) + 1
  BY StringForward
<1>8. line[p] = Quote
  BY <1>6, <1>7, AtPosition
<1>9. p + 1 \in 1 .. n /\ p + 1 <= k /\ Inside(line, p + 1, open)
  <2>1. p + 1 <= k
    BY <1>7, NotAtStop
  <2>2. Inside(line, p + 1, open)
    BY <1>7, <1>8, OutsideSteps
  <2>3. QED
    BY <1>1, <1>7, <2>1, <2>2
<1>10. s[2] <= k /\ Outside(line, s[2], open)
  BY <1>5, <1>6, <1>9 DEF Holds
<1>11. s[2] \in 1 .. Len(line) + 1
  BY <1>1, <1>7
<1>12. QED
  BY <1>10, <1>11

(* Of the brackets that are open, those of one kind behind the first b.     *)
Own(open, b, kind) == {q \in b + 1 .. Len(open) : open[q] = kind}
Levels(open, b, kind) == Cardinality(Own(open, b, kind))

LEMMA LevelsTyped ==
  ASSUME NEW open \in Seq(Nat), NEW b \in Nat, NEW kind
  PROVE  /\ IsFiniteSet(Own(open, b, kind)) /\ Levels(open, b, kind) \in Nat
         /\ Levels(open, b, kind) = 0 => Own(open, b, kind) = {}
         /\ Own(open, b, kind) = {} => Levels(open, b, kind) = 0
<1>1. Len(open) \in Nat /\ b + 1 \in Nat
  OBVIOUS
<1>2. PICK S : S = Own(open, b, kind)
  OBVIOUS
<1>3. S \subseteq b + 1 .. Len(open)
  BY <1>2 DEF Own
<1>4. IsFiniteSet(b + 1 .. Len(open))
  BY <1>1, FS_Interval
<1>5. IsFiniteSet(S)
  BY <1>3, <1>4, FS_Subset
<1>6. Cardinality(S) \in Nat /\ (Cardinality(S) = 0 <=> S = {})
  BY <1>5, FS_CardinalityType, FS_EmptySet
<1>7. QED
  BY <1>2, <1>5, <1>6 DEF Levels

(* A bracket that opens is one more of its kind, ...                        *)
LEMMA LevelsPush ==
  ASSUME NEW open \in Seq(Nat), NEW b \in Nat, b <= Len(open), NEW kind, NEW c \in Nat
  PROVE  Levels(Append(open, c), b, kind)
           = IF c = kind THEN Levels(open, b, kind) + 1 ELSE Levels(open, b, kind)
<1> DEFINE n == Len(open)
           more == Append(open, c)
<1>1. /\ n \in Nat /\ Len(more) = n + 1 /\ more[n + 1] = c
      /\ \A q \in 1 .. n : more[q] = open[q]
  BY AppendProperties
<1>2. PICK S : S = Own(open, b, kind)
  OBVIOUS
<1>3. n + 1 \notin S
  BY <1>1, <1>2 DEF Own
<1>4. Own(more, b, kind) = IF c = kind THEN S \cup {n + 1} ELSE S
  <2> HIDE DEF more, n
  <2>1. \A q : q \in b + 1 .. n + 1 <=> q \in b + 1 .. n \/ q = n + 1
    BY <1>1 DEF n
  <2>2. \A q \in b + 1 .. n : q \in 1 .. n
    BY <1>1
  <2>3. \A q : q \in Own(more, b, kind)
                 <=> (q \in b + 1 .. n /\ open[q] = kind) \/ (q = n + 1 /\ c = kind)
    BY <1>1, <2>1, <2>2 DEF Own
  <2>4. \A q : q \in S <=> q \in b + 1 .. n /\ open[q] = kind
    BY <1>2 DEF Own, n
  <2>5. QED
    BY <2>3, <2>4
<1>5. IsFiniteSet(S)
  BY <1>2, LevelsTyped
<1>6. Cardinality(S \cup {n + 1}) = Cardinality(S) + 1
  BY <1>3, <1>5, FS_AddElement
<1>7. QED
  BY <1>2, <1>4, <1>6 DEF Levels

(* What is open behind a closing bracket.                                   *)
LEMMA FrontFacts ==
  ASSUME NEW open \in Seq(Nat), Len(open) > 0
  PROVE  /\ Front(open) \in Seq(Nat) /\ Len(Front(open)) = Len(open) - 1
         /\ \A q \in 1 .. Len(open) - 1 : Front(open)[q] = open[q]
<1> DEFINE n == Len(open) - 1
           less == SubSeq(open, 1, n)
<1>1. n \in Nat /\ \A q \in 1 .. n : open[q] \in Nat
  OBVIOUS
<1>2. /\ less \in Seq(Nat)
      /\ Len(less) = IF 1 <= n THEN n - 1 + 1 ELSE 0
      /\ \A q \in 1 .. n - 1 + 1 : less[q] = open[1 + q - 1]
  BY <1>1, SubSeqProperties
<1>3. Front(open) = less
  BY DEF Front
<1> HIDE DEF less
<1>4. Len(less) = n
  <2>1. \A m \in Nat : (IF 1 <= m THEN m - 1 + 1 ELSE 0) = m
    OBVIOUS
  <2>2. QED
    BY <1>1, <1>2, <2>1
<1>5. \A q \in 1 .. n : q \in 1 .. n - 1 + 1 /\ 1 + q - 1 = q
  BY <1>1
<1>6. \A q \in 1 .. n : less[q] = open[q]
  BY <1>2, <1>5
<1>7. QED
  BY <1>2, <1>3, <1>4, <1>6

(* ... and one that closes it, one less.                                    *)
LEMMA LevelsPop ==
  ASSUME NEW open \in Seq(Nat), NEW b \in Nat, b < Len(open), NEW kind
  PROVE  Levels(Front(open), b, kind)
           = IF Last(open) = kind THEN Levels(open, b, kind) - 1 ELSE Levels(open, b, kind)
<1> DEFINE n == Len(open)
           less == Front(open)
<1>1. n \in Nat /\ n > 0 /\ n - 1 \in Nat
  OBVIOUS
<1>2. /\ Len(less) = n - 1
      /\ \A q \in 1 .. n - 1 : less[q] = open[q]
  BY <1>1, FrontFacts
<1>3. PICK S : S = Own(open, b, kind)
  OBVIOUS
<1>4. n \in S <=> Last(open) = kind
  BY <1>1, <1>3 DEF Own, Last
<1>5. Own(less, b, kind) = S \ {n}
  <2> HIDE DEF less
  <2>1. \A q : q \in b + 1 .. n - 1 <=> q \in b + 1 .. n /\ q # n
    BY <1>1
  <2>2. \A q \in b + 1 .. n - 1 : q \in 1 .. n - 1
    BY <1>1
  <2>3. \A q : q \in Own(less, b, kind) <=> q \in b + 1 .. n - 1 /\ open[q] = kind
    BY <1>2, <2>2 DEF Own
  <2>4. \A q : q \in S <=> q \in b + 1 .. n /\ open[q] = kind
    BY <1>3 DEF Own
  <2>5. QED
    BY <2>1, <2>3, <2>4
<1>6. IsFiniteSet(S)
  BY <1>3, LevelsTyped
<1>7. n \in S => Cardinality(S \ {n}) = Cardinality(S) - 1
  BY <1>6, FS_RemoveElement
<1>8. n \notin S => S \ {n} = S
  OBVIOUS
<1>9. QED
  BY <1>3, <1>4, <1>5, <1>7, <1>8 DEF Levels

(* The brackets open within a composite of some kind that opens behind      *)
(* those of base.                                                           *)
Within(open, base, kind) ==
  /\ open \in Seq(Nat) /\ Len(open) > Len(base)
  /\ \A q \in 1 .. Len(base) : open[q] = base[q]
  /\ open[Len(base) + 1] = kind

LEMMA WithinOpens ==
  ASSUME NEW base \in Seq(Nat), NEW kind \in Nat
  PROVE  /\ Within(Append(base, kind), base, kind)
         /\ Levels(Append(base, kind), Len(base), kind) = 1
<1>1. Own(base, Len(base), kind) = {}
  BY DEF Own
<1>2. Levels(base, Len(base), kind) = 0
  <2>1. Len(base) \in Nat
    OBVIOUS
  <2>2. QED
    BY <1>1, <2>1, LevelsTyped
<1>3. Levels(Append(base, kind), Len(base), kind) = 0 + 1
  <2>1. PICK b : b = Len(base)
    OBVIOUS
  <2>2. b \in Nat /\ b <= Len(base)
    BY <2>1
  <2>3. Levels(Append(base, kind), b, kind) = Levels(base, b, kind) + 1
    BY <2>2, LevelsPush
  <2>4. QED
    BY <1>2, <2>1, <2>3
<1>4. Within(Append(base, kind), base, kind)
  BY AppendProperties DEF Within
<1>5. QED
  BY <1>3, <1>4

LEMMA WithinPush ==
  ASSUME NEW base \in Seq(Nat), NEW kind, NEW open, Within(open, base, kind), NEW c \in Nat
  PROVE  Within(Append(open, c), base, kind)
<1>1. /\ open \in Seq(Nat) /\ Len(open) > Len(base) /\ Len(base) \in Nat /\ Len(open) \in Nat
  BY DEF Within
<1>2. /\ Append(open, c) \in Seq(Nat) /\ Len(Append(open, c)) = Len(open) + 1
      /\ \A q \in 1 .. Len(open) : Append(open, c)[q] = open[q]
  BY <1>1, AppendProperties
<1>3. \A q \in 1 .. Len(base) : q \in 1 .. Len(open)
  BY <1>1
<1>4. Len(base) + 1 \in 1 .. Len(open)
  BY <1>1
<1>5. QED
  BY <1>1, <1>2, <1>3, <1>4 DEF Within

LEMMA WithinPop ==
  ASSUME NEW base \in Seq(Nat), NEW kind, NEW open, Within(open, base, kind)
  PROVE  /\ Len(open) = Len(base) + 1 => Front(open) = base /\ Last(open) = kind
         /\ Len(open) # Len(base) + 1 => Within(Front(open), base, kind)
<1> DEFINE n == Len(open)
           less == Front(open)
<1>1. /\ open \in Seq(Nat) /\ n > Len(base) /\ Len(base) \in Nat /\ n \in Nat /\ n - 1 \in Nat
  BY DEF Within
<1>2. /\ less \in Seq(Nat) /\ Len(less) = n - 1
      /\ \A q \in 1 .. n - 1 : less[q] = open[q]
  BY <1>1, FrontFacts
<1>3. \A q \in 1 .. Len(base) : open[q] = base[q]
  BY DEF Within
<1>4. open[Len(base) + 1] = kind
  BY DEF Within
<1> HIDE DEF less
<1>5. ASSUME n = Len(base) + 1 PROVE less = base /\ Last(open) = kind
  <2>1. Len(less) = Len(base) /\ \A q \in 1 .. Len(less) : less[q] = base[q]
    BY <1>1, <1>2, <1>3, <1>5
  <2>2. less = base
    BY <1>2, <2>1, SeqEqual
  <2>3. Last(open) = kind
    BY <1>4, <1>5 DEF Last
  <2>4. QED
    BY <2>2, <2>3
<1>6. ASSUME n # Len(base) + 1 PROVE Within(less, base, kind)
  <2>1. n - 1 > Len(base)
    BY <1>1, <1>6
  <2>2. \A q \in 1 .. Len(base) + 1 : q \in 1 .. n - 1
    BY <1>1, <2>1
  <2>3. \A q \in 1 .. Len(base) + 1 : less[q] = open[q]
    BY <1>2, <2>2
  <2>4. \A q \in 1 .. Len(base) : less[q] = base[q]
    BY <1>1, <1>3, <2>3
  <2>5. less[Len(base) + 1] = kind
    BY <1>1, <1>4, <2>3
  <2>6. QED
    BY <1>2, <2>1, <2>4, <2>5 DEF Within
<1>7. QED
  BY <1>5, <1>6 DEF less

(* In a composite some level of its own kind is open.                       *)
LEMMA WithinLevels ==
  ASSUME NEW base \in Seq(Nat), NEW kind, NEW open, Within(open, base, kind)
  PROVE  Levels(open, Len(base), kind) \in Nat /\ Levels(open, Len(base), kind) # 0
<1>1. Len(base) \in Nat /\ open \in Seq(Nat)
  BY DEF Within
<1>2. Len(base) + 1 \in Own(open, Len(base), kind)
  <2>1. Len(base) + 1 \in Len(base) + 1 .. Len(open)
    BY <1>1 DEF Within
  <2>2. QED
    BY <2>1 DEF Own, Within
<1>3. QED
  BY <1>1, <1>2, LevelsTyped

(* One character of a composite leaves it in a composite or ends it; the    *)
(* depth the reader counts is the number of open brackets of its kind,      *)
(* which fit as they stand before k.                                        *)
Levelled(line, j, base, kind, depth) ==
  \E open : /\ Outside(line, j, open) /\ Within(open, base, kind)
            /\ depth = Levels(open, Len(base), kind)

LEMMA LevelledStep ==
  ASSUME NEW line, IsText(line), NEW k, StopsAt(line, k), NEW base \in Seq(Nat),
         NEW kind \in {OpenBrace, OpenBracket}, NEW j \in 1 .. Len(line), j <= k,
         line[j] # Quote, NEW depth \in Nat, Levelled(line, j, base, kind, depth)
  PROVE  LET next == NextDepth(line, kind, CloseOf(kind), j, depth)
         IN  /\ next = 0 => Outside(line, j + 1, base)
             /\ next # 0 => Levelled(line, j + 1, base, kind, next)
<1> DEFINE c == line[j]
           b == Len(base)
           next == NextDepth(line, kind, CloseOf(kind), j, depth)
<1>1. /\ At(line, j) = c /\ c \in Nat
  BY AtPosition DEF IsText
<1>2. PICK open : /\ Outside(line, j, open) /\ Within(open, base, kind)
                  /\ depth = Levels(open, b, kind)
  BY DEF Levelled
<1>3. /\ open \in Seq(Nat) /\ b \in Nat /\ b < Len(open) /\ b <= Len(open)
      /\ Len(open) \in Nat
  BY <1>2 DEF Within
<1>4. depth # 0
  BY <1>2, WithinLevels
<1>5. next = IF c = kind THEN depth + 1 ELSE IF c = CloseOf(kind) THEN depth - 1 ELSE depth
  BY <1>1 DEF NextDepth
<1>6. kind # CloseOf(kind) /\ CloseOf(kind) \in {CloseBrace, CloseBracket}
  BY DEF CloseOf, OpenBrace, OpenBracket, CloseBrace, CloseBracket
<1> HIDE DEF next, c
<1>7. CASE c \notin Brackets
  <2>1. next = depth
    BY <1>5, <1>6, <1>7 DEF Brackets
  <2>2. Outside(line, j + 1, open)
    BY <1>2, <1>7, OutsideSteps DEF c
  <2>3. QED
    BY <1>2, <1>4, <2>1, <2>2 DEF Levelled, next, b
<1>8. CASE c \in {OpenBrace, OpenBracket}
  <2>1. Outside(line, j + 1, Append(open, c))
    BY <1>2, <1>8, OutsideSteps DEF c
  <2>2. Within(Append(open, c), base, kind)
    BY <1>1, <1>2, WithinPush DEF c
  <2>3. c # CloseOf(kind)
    BY <1>8 DEF CloseOf, OpenBrace, OpenBracket, CloseBrace, CloseBracket
  <2>4. Levels(Append(open, c), b, kind) = next
    BY <1>1, <1>2, <1>3, <1>5, <2>3, LevelsPush DEF c
  <2>5. next # 0
    BY <2>2, <2>4, WithinLevels
  <2>6. QED
    BY <2>1, <2>2, <2>4, <2>5 DEF Levelled, next, b
<1>9. CASE c \in {CloseBrace, CloseBracket}
  <2>1. Outside(line, j + 1, Front(open))
    BY <1>2, <1>9, OutsideSteps DEF c
  <2>2. Fits(open, c)
    BY <1>2, <1>9, NotAtStop DEF c
  <2>3. (c = CloseOf(kind)) <=> (Last(open) = kind)
    BY <1>9, <2>2 DEF Fits, CloseOf, OpenBrace, OpenBracket, CloseBrace, CloseBracket
  <2>4. c # kind
    BY <1>9 DEF OpenBrace, OpenBracket, CloseBrace, CloseBracket
  <2>5. Levels(Front(open), b, kind) = next
    BY <1>2, <1>3, <1>5, <2>3, <2>4, LevelsPop
  <2>6. CASE Len(open) = b + 1
    <3>1. Front(open) = base
      BY <1>2, <2>6, WithinPop
    <3>2. Own(base, b, kind) = {}
      BY <1>3 DEF Own, b
    <3>3. Levels(base, b, kind) = 0
      BY <1>3, <3>2, LevelsTyped
    <3>4. QED
      BY <2>1, <2>5, <3>1, <3>3 DEF next
  <2>7. CASE Len(open) # b + 1
    <3>1. Within(Front(open), base, kind)
      BY <1>2, <2>7, WithinPop
    <3>2. next # 0
      BY <2>5, <3>1, WithinLevels
    <3>3. QED
      BY <2>1, <2>5, <3>1, <3>2 DEF Levelled, next, b
  <2>8. QED
    BY <2>6, <2>7
<1>10. QED
  BY <1>7, <1>8, <1>9 DEF Brackets

(* A composite that is read ends before k, at the bracket that fits the one *)
(* it opens with.                                                           *)
LEMMA CompositeOutside ==
  ASSUME NEW line, IsText(line), NEW k, StopsAt(line, k), NEW base \in Seq(Nat),
         NEW p \in 1 .. Len(line), p <= k, Outside(line, p, base),
         line[p] \in {OpenBrace, OpenBracket}, NEW e \in Composite(line, p)
  PROVE  e <= k /\ Outside(line, e, base)
<1>1. Len(line) \in Nat /\ k \in 1 .. Len(line) + 1
  BY DEF IsText, StopsAt
<1> DEFINE kind == line[p]
           close == CloseOf(kind)
           n == Len(line) + 1
<1>2. PICK f : /\ \A j \in 1 .. Len(line) + 1 : \A depth \in Nat :
                    f[j][depth] = SkipAt(line, kind, close, f, j, depth)
               /\ Composite(line, p) = f[p + 1][1]
  BY CompositeIsSkip
<1>3. kind \in {OpenBrace, OpenBracket} /\ kind \in Nat
  BY DEF OpenBrace, OpenBracket
<1> HIDE DEF kind
<1> DEFINE Holds == {j \in 1 .. n : j <= k =>
                       \A depth \in Nat : Levelled(line, j, base, kind, depth) =>
                         \A x \in f[j][depth] : x <= k /\ Outside(line, x, base)}
<1>4. n \in Nat /\ Holds \in SUBSET (1 .. n)
  BY <1>1
<1>5. ASSUME NEW j \in 1 .. n, \A q \in 1 .. n : q > j => q \in Holds
      PROVE  j \in Holds
  <2> SUFFICES ASSUME j <= k, NEW depth \in Nat, Levelled(line, j, base, kind, depth),
                      NEW x \in f[j][depth]
               PROVE  x <= k /\ Outside(line, x, base)
    OBVIOUS
  <2>1. j \in 1 .. Len(line) + 1 /\ x \in SkipAt(line, kind, close, f, j, depth)
    BY <1>2
  <2>rules. SkipRules(line, kind, close, f, j, depth)
    BY SkipCases
  <2>2. depth # 0
    BY WithinLevels DEF Levelled
  <2>3. PICK open : /\ Outside(line, j, open) /\ Within(open, base, kind)
                    /\ depth = Levels(open, Len(base), kind)
    BY DEF Levelled
  <2>4. CASE j \in 1 .. Len(line) /\ line[j] = Quote
    <3>1. x \in OverStrings(line, f, j, depth)
      BY <2>1, <2>2, <2>4, <2>rules DEF SkipRules
    <3>2. PICK s \in StringAt(line, j) : x \in f[s[2]][depth]
      BY <3>1 DEF OverStrings
    <3>3. /\ s[2] \in 1 .. Len(line) + 1 /\ s[2] <= k /\ Outside(line, s[2], open)
      BY <2>3, StringOutside
    <3>4. s[2] \in j + 2 .. Len(line) + 1
      BY StringForward
    <3>5. s[2] \in 1 .. n /\ s[2] > j
      BY <1>1, <3>3, <3>4
    <3>6. Levelled(line, s[2], base, kind, depth)
      BY <2>3, <3>3 DEF Levelled
    <3>7. QED
      BY <1>5, <3>2, <3>3, <3>5, <3>6
  <2>5. CASE j \in 1 .. Len(line) /\ line[j] # Quote
    <3>1. PICK next : next = NextDepth(line, kind, close, j, depth)
      OBVIOUS
    <3>2. next \in Nat /\ x \in f[j + 1][next]
      BY <2>1, <2>2, <2>5, <2>rules, <3>1 DEF SkipRules
    <3>3. j + 1 \in 1 .. n /\ j + 1 > j
      BY <1>1, <2>5
    <3>4. j + 1 <= k
      BY <2>3, <2>5, NotAtStop
    <3>5. CASE next = 0
      <4>1. Outside(line, j + 1, base)
        BY <1>3, <2>5, <3>1, <3>5, LevelledStep
      <4>2. f[j + 1][0] = SkipAt(line, kind, close, f, j + 1, 0) /\ 0 \in Nat
        BY <1>2, <3>3
      <4>3. SkipAt(line, kind, close, f, j + 1, 0) = {j + 1}
        BY DEF SkipAt
      <4>4. x = j + 1
        BY <3>2, <3>5, <4>2, <4>3
      <4>5. QED
        BY <3>4, <4>1, <4>4
    <3>6. CASE next # 0
      <4>1. Levelled(line, j + 1, base, kind, next)
        BY <1>3, <2>5, <3>1, <3>6, LevelledStep
      <4>2. QED
        BY <1>5, <3>2, <3>3, <3>4, <4>1
    <3>7. QED
      BY <3>5, <3>6
  <2>6. CASE j \notin 1 .. Len(line)
    BY <2>1, <2>2, <2>6, <2>rules DEF SkipRules
  <2>7. QED
    BY <2>4, <2>5, <2>6
<1> HIDE DEF Holds
<1>6. Holds = 1 .. n
  <2> HIDE DEF n
  <2>1. QED
    BY <1>4, <1>5, InductionFromTheEnd
<1>7. p + 1 \in 1 .. n /\ p + 1 <= k /\ 1 \in Nat
  BY <1>1, NotAtStop
<1>8. Outside(line, p + 1, Append(base, kind))
  BY <1>3, OutsideSteps DEF kind
<1>9. Levelled(line, p + 1, base, kind, 1)
  BY <1>3, <1>8, WithinOpens DEF Levelled
<1>10. e \in f[p + 1][1]
  BY <1>2
<1>11. QED
  BY <1>6, <1>7, <1>9, <1>10 DEF Holds

(* So does every value.                                                     *)
LEMMA ValueOutside ==
  ASSUME NEW line, IsText(line), NEW k, StopsAt(line, k), NEW open \in Seq(Nat),
         NEW p \in 1 .. Len(line) + 1, p <= k, Outside(line, p, open),
         NEW v \in ValueAt(line, p)
  PROVE  v[2] <= k /\ Outside(line, v[2], open)
<1>1. Len(line) \in Nat /\ p \in Nat
  BY DEF IsText
<1> DEFINE first == At(line, p)
           letters == {w[1] : w \in Words}
<1>2. letters = {116, 102, 110}
  BY DEF Words
<1> HIDE DEF letters
<1>3. CASE first = Quote
  <2>1. PICK s \in StringAt(line, p) : v = <<{s[1]}, s[2]>>
    BY <1>3, ValueOfString
  <2>2. QED
    BY <1>1, <2>1, StringOutside
<1>4. CASE first # Quote /\ first \in {OpenBrace, OpenBracket}
  <2> DEFINE ends == {<<{}, e>> : e \in Composite(line, p)}
  <2>1. first \notin letters
    BY <1>4, <1>2 DEF OpenBrace, OpenBracket
  <2>2. ValueAt(line, p) = ends
    BY <1>4, <2>1 DEF ValueAt, letters
  <2>3. PICK e \in Composite(line, p) : v = <<{}, e>>
    BY <2>2
  <2>4. first # -1
    BY <1>4 DEF OpenBrace, OpenBracket
  <2>5. p \in 1 .. Len(line)
    BY <1>1, <2>4, AtPosition
  <2>6. line[p] \in {OpenBrace, OpenBracket}
    BY <1>1, <1>4, <2>5, AtPosition
  <2>7. QED
    BY <2>3, <2>5, <2>6, CompositeOutside
<1>5. CASE /\ first # Quote /\ first \notin {OpenBrace, OpenBracket}
           /\ first \in letters
  <2>1. PICK e \in WordEnd(line, p) : v = <<{}, e>>
    BY <1>5 DEF ValueAt, letters
  <2>2. QED
    BY <2>1, WordOutside
<1>6. CASE /\ first # Quote /\ first \notin {OpenBrace, OpenBracket}
           /\ first \notin letters
  <2>1. PICK e \in {NumberEnd(line, p)} \ {p} : v = <<{}, e>>
    BY <1>6 DEF ValueAt, letters
  <2>2. QED
    BY <2>1, NumberOutside
<1>7. QED
  BY <1>3, <1>4, <1>5, <1>6

(* Until it ends, the reader stands in the outermost object, before k.      *)
StillBefore(k) ==
  /\ StopsAt(input.line, k)
  /\ at \in {"open", "key", "value", "next", "end"}
  /\ at = "open" => i = 1
  /\ at \in {"key", "value", "next"} => i <= k /\ Outside(input.line, i, <<OpenBrace>>)
  /\ at = "end" => outcome = {"none"}
BrokenInv == input.by = "broken" => \E k : StillBefore(k)

(* Every line that is to be rejected breaks off.                            *)
BrokenBreaksOff == \A x \in Input : x.by = "broken" => BreaksOff(x.line)

LEMMA InitBrokenInv ==
  ASSUME BrokenBreaksOff, Init
  PROVE  BrokenInv
<1> SUFFICES ASSUME input.by = "broken" PROVE \E k : StillBefore(k)
  BY DEF BrokenInv
<1>1. BreaksOff(input.line)
  BY DEF BrokenBreaksOff, Init
<1>2. PICK k : StopsAt(input.line, k)
  BY <1>1, BreaksOffStops
<1>3. QED
  BY <1>2 DEF Init, StillBefore

(* A step of the loop goes on before k, or rejects the line.                *)
LEMMA StillBeforeStep ==
  ASSUME TypeInv, NEW k, StillBefore(k), [Next]_vars
  PROVE  StillBefore(k)'
<1> DEFINE line == input.line
           Stays(j) == j \in 1 .. Len(line) + 1 /\ j <= k /\ Outside(line, j, <<OpenBrace>>)
<1>1. IsText(line) /\ StopsAt(line, k) /\ i \in 1 .. Len(line) + 1
  BY DEF TypeInv, TypeOK, StillBefore
<1>2. Len(line) \in Nat /\ k \in 1 .. Len(line) + 1
  BY <1>1 DEF IsText, StopsAt
<1>3. CASE UNCHANGED vars
  BY <1>3 DEF vars, StillBefore
<1>4. ASSUME NEW point \in {"key", "value", "next"}, NEW j, Stays(j), Go(point, j),
             input' = input
      PROVE  StillBefore(k)'
  BY <1>4 DEF Go, StillBefore
<1>5. ASSUME Stop("none"), input' = input PROVE StillBefore(k)'
  BY <1>5 DEF Stop, StillBefore
(* A character that is no bracket and no quote, met between the members. *)
<1>6. ASSUME NEW j, Stays(j), Byte(j) \in {Comma, Colon} PROVE Stays(j + 1)
  <2>1. j \in Nat /\ At(line, j) # -1
    BY <1>2, <1>6 DEF Byte, Comma, Colon
  <2>2. j \in 1 .. Len(line) /\ line[j] \in {Comma, Colon}
    BY <1>1, <1>6, <2>1, AtPosition DEF Byte
  <2>3. line[j] \notin Brackets \cup {Quote}
    BY <2>2 DEF Brackets, OpenBrace, OpenBracket, CloseBrace, CloseBracket, Quote, Comma, Colon
  <2>4. j + 1 <= k /\ Outside(line, j + 1, <<OpenBrace>>)
    BY <1>1, <1>6, <2>2, <2>3, NotAtStop, OutsideSteps
  <2>5. j + 1 \in 1 .. Len(line) + 1
    BY <1>2, <2>2
  <2>6. QED
    BY <2>4, <2>5
(* There is no closing brace of the object. *)
<1>7. ASSUME NEW j, Stays(j) PROVE Byte(j) # CloseBrace
  <2> SUFFICES ASSUME Byte(j) = CloseBrace PROVE FALSE
    OBVIOUS
  <2>1. j \in Nat /\ At(line, j) # -1
    BY <1>2, <1>7 DEF Byte, CloseBrace
  <2>2. j \in 1 .. Len(line) /\ line[j] = CloseBrace
    BY <1>1, <2>1, AtPosition DEF Byte
  <2>3. Fits(<<OpenBrace>>, line[j])
    BY <1>1, <1>7, <2>2, NotAtStop
  <2>4. Len(<<OpenBrace>>) = 1
    OBVIOUS
  <2>5. QED
    BY <2>3, <2>4 DEF Fits
<1>8. ASSUME NEW j, Stays(j) PROVE Stays(Skipped(j))
  BY <1>1, <1>8, SkipOutside DEF Skipped
<1>9. <<OpenBrace>> \in Seq(Nat)
  BY DEF OpenBrace
<1>10. ASSUME Open PROVE StillBefore(k)'
  <2> DEFINE start == Skipped(i)
  <2>1. at = "open" /\ i = 1 /\ input' = input
    BY <1>10 DEF Open, StillBefore
  <2>2. 1 \in 1 .. Len(line) + 1 /\ 1 <= k
    BY <1>2
  <2>3. /\ start \in 1 .. Len(line) + 1 /\ start <= k /\ Outside(line, start, <<>>)
    BY <1>1, <2>1, <2>2, PlaceSteps, SkipOutside DEF Skipped
  <2>4. ASSUME Byte(start) = OpenBrace PROVE Stays(start + 1)
    <3>1. start \in Nat /\ At(line, start) # -1
      BY <1>2, <2>3, <2>4 DEF Byte, OpenBrace
    <3>2. start \in 1 .. Len(line) /\ line[start] = OpenBrace
      BY <1>1, <2>4, <3>1, AtPosition DEF Byte
    <3>3. Outside(line, start + 1, Append(<<>>, OpenBrace))
      BY <1>1, <2>3, <3>2, OutsideSteps
    <3>4. Append(<<>>, OpenBrace) = <<OpenBrace>>
      OBVIOUS
    <3>5. start + 1 <= k
      BY <1>1, <2>3, <3>2, NotAtStop
    <3>6. start + 1 \in 1 .. Len(line) + 1
      BY <1>2, <3>2
    <3>7. QED
      BY <3>3, <3>4, <3>5, <3>6
  <2>5. \/ Stop("none")
        \/ Byte(start) = OpenBrace /\ Byte(Skipped(start + 1)) = CloseBrace
        \/ Byte(start) = OpenBrace /\ Go("key", start + 1)
    BY <1>10 DEF Open
  <2> HIDE DEF start, Stays, line
  <2>6. CASE Stop("none")
    BY <1>5, <2>1, <2>6
  <2>7. CASE Byte(start) = OpenBrace /\ Byte(Skipped(start + 1)) = CloseBrace
    BY <1>7, <1>8, <2>4, <2>7
  <2>8. CASE Byte(start) = OpenBrace /\ Go("key", start + 1)
    BY <1>4, <2>1, <2>4, <2>8
  <2>9. QED
    BY <2>5, <2>6, <2>7, <2>8
<1>11. ASSUME at \in {"key", "value", "next"} PROVE Stays(Skipped(i))
  <2>1. Stays(i)
    BY <1>1, <1>11 DEF StillBefore
  <2> HIDE DEF Stays
  <2>2. QED
    BY <1>8, <2>1
<1>12. ASSUME ReadKey PROVE StillBefore(k)'
  <2> DEFINE read  == StringAt(line, Skipped(i))
             colon == Skipped(Get(read)[2])
  <2>1. Stays(Skipped(i)) /\ input' = input
    BY <1>11, <1>12 DEF ReadKey
  <2>2. ASSUME read # {} PROVE Stays(Get(read)[2])
    <3>1. Get(read) \in read
      BY <2>2, GetMember
    <3>2. Skipped(i) \in Nat
      BY <1>2, <2>1
    <3>3. QED
      BY <1>1, <2>1, <3>1, <3>2, StringOutside
  <2>3. Stop("none") \/ (read # {} /\ Byte(colon) = Colon /\ Go("value", colon + 1))
    BY <1>12 DEF ReadKey
  <2> HIDE DEF Stays, line, read
  <2>4. CASE Stop("none")
    BY <1>5, <2>1, <2>4
  <2>5. CASE read # {} /\ Byte(colon) = Colon /\ Go("value", colon + 1)
    <3>1. Stays(colon)
      BY <1>8, <2>2, <2>5
    <3>2. Stays(colon + 1)
      BY <1>6, <2>5, <3>1
    <3>3. QED
      BY <1>4, <2>1, <2>5, <3>2
  <2>6. QED
    BY <2>3, <2>4, <2>5
<1>13. ASSUME ReadValue PROVE StillBefore(k)'
  <2> DEFINE read == ValueAt(line, Skipped(i))
  <2>1. Stays(Skipped(i)) /\ input' = input
    BY <1>11, <1>13 DEF ReadValue
  <2>2. ASSUME read # {} PROVE Stays(Get(read)[2])
    <3>1. Get(read) \in read
      BY <2>2, GetMember
    <3>2. Get(read)[2] <= k /\ Outside(line, Get(read)[2], <<OpenBrace>>)
      BY <1>1, <1>9, <2>1, <3>1, ValueOutside
    <3>3. Get(read)[2] \in Skipped(i) + 1 .. Len(line) + 1
      BY <1>1, <2>1, <3>1, ValueForward
    <3>4. Get(read)[2] \in 1 .. Len(line) + 1
      BY <1>2, <2>1, <3>3
    <3>5. QED
      BY <3>2, <3>4
  <2>3. Stop("none") \/ (read # {} /\ Go("next", Get(read)[2]))
    BY <1>13 DEF ReadValue
  <2> HIDE DEF Stays, line, read
  <2>4. QED
    BY <1>4, <1>5, <2>1, <2>2, <2>3
<1>14. ASSUME ReadNext PROVE StillBefore(k)'
  <2> DEFINE j == Skipped(i)
  <2>1. Stays(j) /\ input' = input
    BY <1>11, <1>14 DEF ReadNext
  <2>2. \/ Stop("none")
        \/ Byte(j) = CloseBrace
        \/ Byte(j) = Comma /\ Go("key", j + 1)
    BY <1>14 DEF ReadNext
  <2> HIDE DEF Stays, line, j
  <2>3. QED
    BY <1>4, <1>5, <1>6, <1>7, <2>1, <2>2
<1>15. QED
  BY <1>3, <1>10, <1>12, <1>13, <1>14 DEF Next, Done

LEMMA NextBrokenInv ==
  ASSUME TypeInv, BrokenInv, [Next]_vars
  PROVE  BrokenInv'
<1>1. input' = input
  BY InputStays
<1> SUFFICES ASSUME input.by = "broken" PROVE \E k : StillBefore(k)'
  BY <1>1 DEF BrokenInv
<1>2. PICK k : StillBefore(k)
  BY DEF BrokenInv
<1>3. StillBefore(k)'
  BY <1>2, StillBeforeStep
<1>4. QED
  BY <1>3

(* No line is read as a record if the brackets on it fit and the object is  *)
(* open still where the line ends, or where one of its strings has an       *)
(* escape that does not decode: wherever a client or a pipe cuts an object  *)
(* off, parse_record answers None.                                          *)
THEOREM BrokenIsRejectedAlways ==
  ASSUME BrokenBreaksOff
  PROVE  Spec => []BrokenIsRejected
<1>1. Init => TypeInv /\ BrokenInv
  BY InitTypeInv, InitBrokenInv
<1>2. TypeInv /\ BrokenInv /\ [Next]_vars => (TypeInv /\ BrokenInv)'
  BY NextTypeInv, NextBrokenInv
<1>3. TypeInv /\ BrokenInv => BrokenIsRejected
  BY DEF BrokenInv, BrokenIsRejected, StillBefore
<1>4. QED
  BY <1>1, <1>2, <1>3, PTL DEF Spec
=============================================================================
