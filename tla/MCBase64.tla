------------------------------ MODULE MCBase64 ------------------------------
(* Instance of Base64: encodings of short texts with white space in any     *)
(* place, and of longer ones; texts that break the rules.                   *)
EXTENDS Base64

(* The encoding of RFC 4648, from the definition: the bits of the bytes in  *)
(* groups of six, zeros to fill the last group, '=' to fill the quantum.    *)
Alphabet == [v \in 0 .. 63 |-> CHOOSE c \in 0 .. 127 : ValueOf(c) = {v}]
BitOf(bytes, n) ==
  IF n >= 8 * Len(bytes) THEN 0 ELSE (bytes[(n \div 8) + 1] \div 2 ^ (7 - (n % 8))) % 2
Symbols(bytes) ==
  LET Value(k) == FoldLeft(LAMBDA v, b : 2 * v + BitOf(bytes, 6 * (k - 1) + b), 0,
                           <<0, 1, 2, 3, 4, 5>>)
  IN  [k \in 1 .. (8 * Len(bytes) + 5) \div 6 |-> Alphabet[Value(k)]]
Padding(bytes) == [k \in 1 .. (3 - (Len(bytes) % 3)) % 3 |-> Pad]
Encode(bytes) == Symbols(bytes) \o Padding(bytes)

ByteValues == {0, 97, 195, 169, 255}
Short == UNION {[1 .. n -> ByteValues] : n \in 1 .. 3}
Long == UNION {[1 .. n -> {97, 126}] : n \in 4 .. 7}

Encoding(text, bytes) ==
  [text |-> text, by |-> IF IsUtf8(bytes) THEN "encoder" ELSE "broken",
   meant |-> IF IsUtf8(bytes) THEN {bytes} ELSE {}]
Encodings == {Encoding(Encode(bytes), bytes) : bytes \in Short \cup Long}
Wrapped ==
  {Encoding(SubSeq(Encode(bytes), 1, k) \o <<10>> \o SubSeq(Encode(bytes), k + 1, Len(Encode(bytes))), bytes) :
     bytes \in {b \in Short \cup Long : Len(b) \in {3, 4, 6}}, k \in 0 .. 4}
Unpadded == {Encoding(Symbols(bytes), bytes) : bytes \in Short \cup Long}

(* One symbol too few or too many for a whole number of bytes, a stray bit, *)
(* a foreign byte, a symbol after the padding, nothing at all.              *)
Broken(text) == [text |-> text, by |-> "broken", meant |-> {}]
Some == {bytes \in Short : IsUtf8(bytes)}
BrokenTexts ==
  {Broken(<<>>), Broken(<<Pad>>)}
    \cup {Broken(Symbols(bytes) \o <<65>>) : bytes \in {b \in Some : Len(b) = 3}}
    \cup {Broken([Symbols(bytes) EXCEPT ![Len(Symbols(bytes))] = Alphabet[Get(ValueOf(@)) + 1]]
                   \o Padding(bytes)) : bytes \in {b \in Some : Len(b) % 3 # 0}}
    \cup {Broken(Symbols(bytes) \o <<c>>) : bytes \in Some, c \in {0, 45, 95, 200}}
    \cup {Broken(Encode(bytes) \o Encode(<<97>>)) : bytes \in {b \in Some : Len(b) % 3 # 0}}
    \cup {Broken(Symbols(bytes) \o <<Pad, Pad, Pad>>) : bytes \in Some}

(* A broken text encodes none of the byte strings of the instance.          *)
ASSUME BrokenAssumption ==
  \A x \in BrokenTexts, bytes \in Short \cup Long : ~Encodes(x.text, bytes)

MCInput == Encodings \cup Wrapped \cup Unpadded \cup BrokenTexts
=============================================================================
