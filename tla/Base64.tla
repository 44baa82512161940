------------------------------- MODULE Base64 -------------------------------
(***************************************************************************)
(* The base64 decoder (b64.rs): one pass over the text, an accumulator of  *)
(* a fixed width, and checks at the end.                                   *)
(*                                                                         *)
(* A text is the sequence of its bytes.  An input is [text, by, meant]: a  *)
(* text, whether it is an encoding ("encoder") or breaks the rules of one  *)
(* ("broken"), and the bytes it stands for, as an option.                  *)
(***************************************************************************)
EXTENDS Options, SequencesExt, FiniteSetsExt

CONSTANTS
  Input,
  AccBits,      \* the width of acc: 32 in the source
  MaxOutput     \* limits::MAX_B64_OUTPUT

(* Room for the six bits that wait and the six that come in.                *)
ASSUME AccBitsAssumption ==
  AccBits \in Nat /\ 2 ^ AccBits \in Nat \ {0} /\ 2 ^ AccBits % 2 ^ 12 = 0
ASSUME MaxOutputAssumption == MaxOutput \in Nat

VARIABLES
  input,
  i,         \* the bytes of the text seen so far
  acc,       \* bits that have come in, the last AccBits of them
  nbits,     \* how many of them have not gone out yet
  padding,   \* the number of '=' seen
  symbols,   \* the number of symbols seen
  out,       \* the bytes decoded
  outcome    \* {} while decoding, then {"none"} or {"some"}

vars == <<input, i, acc, nbits, padding, symbols, out, outcome>>

(* value_of *)
ValueOf(c) ==
  CASE c \in 65 .. 90  -> {c - 65}
    [] c \in 97 .. 122 -> {c - 97 + 26}
    [] c \in 48 .. 57  -> {c - 48 + 52}
    [] c = 43          -> {62}
    [] c = 47          -> {63}
    [] OTHER           -> {}

(* u8::is_ascii_whitespace, which leaves the vertical tab out. *)
Space == {9, 10, 12, 13, 32}
Pad == 61

Init ==
  /\ input \in Input
  /\ i = 0 /\ acc = 0 /\ nbits = 0 /\ padding = 0 /\ symbols = 0
  /\ out = <<>> /\ outcome = {}

More == outcome = {} /\ i < Len(input.text)
Byte == input.text[i + 1]
None == outcome' = {"none"}

SkipSpace ==
  /\ More /\ Byte \in Space
  /\ i' = i + 1
  /\ UNCHANGED <<input, acc, nbits, padding, symbols, out, outcome>>

(* Mutant of CountPadding: the padding fills the group it stands in. *)
CountPaddingAsSymbol ==
  /\ More /\ Byte = Pad
  /\ i' = i + 1 /\ padding' = padding + 1 /\ symbols' = symbols + 1
  /\ UNCHANGED <<input, acc, nbits, out, outcome>>

CountPadding ==
  /\ More /\ Byte = Pad
  /\ i' = i + 1 /\ padding' = padding + 1
  /\ UNCHANGED <<input, acc, nbits, symbols, out, outcome>>

(* A symbol after padding, or a byte that is none. *)
RejectByte ==
  /\ More /\ Byte \notin Space \cup {Pad}
  /\ padding > 0 \/ ValueOf(Byte) = {}
  /\ None
  /\ UNCHANGED <<input, i, acc, nbits, padding, symbols, out>>

(* Mutant of TakeSymbol: the byte is taken from the low end. *)
TakeSymbolLow ==
  /\ More /\ Byte \notin Space \cup {Pad} /\ padding = 0
  /\ \E v \in ValueOf(Byte) : acc' = (acc * 64 + v) % 2 ^ AccBits
  /\ i' = i + 1 /\ symbols' = symbols + 1
  /\ IF nbits + 6 < 8 THEN nbits' = nbits + 6 /\ UNCHANGED <<out, outcome>>
     ELSE /\ nbits' = nbits - 2
          /\ out' = Append(out, acc' % 256)
          /\ IF Len(out') > MaxOutput THEN None ELSE UNCHANGED outcome
  /\ UNCHANGED <<input, padding>>

TakeSymbol ==
  /\ More /\ Byte \notin Space \cup {Pad} /\ padding = 0
  /\ \E v \in ValueOf(Byte) : acc' = (acc * 64 + v) % 2 ^ AccBits
  /\ i' = i + 1 /\ symbols' = symbols + 1
  /\ IF nbits + 6 < 8 THEN nbits' = nbits + 6 /\ UNCHANGED <<out, outcome>>
     ELSE /\ nbits' = nbits - 2
          /\ out' = Append(out, (acc' \div 2 ^ nbits') % 256)
          /\ IF Len(out') > MaxOutput THEN None ELSE UNCHANGED outcome
  /\ UNCHANGED <<input, padding>>

(* String::from_utf8 accepts the well-formed sequences of Unicode's table   *)
(* 3-7.                                                                     *)
Tail80 == 128 .. 191
Utf8Character ==
  [first : 0 .. 127, rest : {<<>>}]
    \cup [first : 194 .. 223, rest : {<<Tail80>>}]
    \cup [first : {224}, rest : {<<160 .. 191, Tail80>>}]
    \cup [first : 225 .. 236 \cup 238 .. 239, rest : {<<Tail80, Tail80>>}]
    \cup [first : {237}, rest : {<<128 .. 159, Tail80>>}]
    \cup [first : {240}, rest : {<<144 .. 191, Tail80, Tail80>>}]
    \cup [first : 241 .. 243, rest : {<<Tail80, Tail80, Tail80>>}]
    \cup [first : {244}, rest : {<<128 .. 143, Tail80, Tail80>>}]
IsUtf8(bytes) ==
  LET wellFormed[k \in 1 .. Len(bytes) + 4] ==
        \/ k = Len(bytes) + 1
        \/ /\ k <= Len(bytes)
           /\ \E c \in Utf8Character :
                /\ c.first = bytes[k]
                /\ k + Len(c.rest) <= Len(bytes)
                /\ \A t \in DOMAIN c.rest : bytes[k + t] \in c.rest[t]
                /\ wellFormed[k + 1 + Len(c.rest)]
  IN  wellFormed[1]

(* Mutant of WellFormed: the bits left over are not looked at. *)
WellFormedAnyBits ==
  symbols # 0 /\ symbols % 4 # 1 /\ padding <= 2 /\ IsUtf8(out)

(* The checks after the loop. *)
WellFormed ==
  /\ symbols # 0 /\ symbols % 4 # 1
  /\ padding <= 2
  /\ acc % 2 ^ nbits = 0
  /\ IsUtf8(out)

Finish ==
  /\ outcome = {} /\ i = Len(input.text)
  /\ outcome' = {IF WellFormed THEN "some" ELSE "none"}
  /\ UNCHANGED <<input, i, acc, nbits, padding, symbols, out>>

Step == SkipSpace \/ CountPadding \/ RejectByte \/ TakeSymbol \/ Finish

Done == outcome # {} /\ UNCHANGED vars

Next == Step \/ Done

Spec == Init /\ [][Next]_vars

(* Mutant of LooksLikeBase64: white space is not let pass. *)
LooksLikeBase64Unwrapped(text) ==
  /\ \A k \in DOMAIN text : ValueOf(text[k]) # {} \/ text[k] = Pad
  /\ Len(text) >= 8
  /\ \A k \in 1 .. 8 : text[k] # Pad

(* looks_like_base64: what decides whether the decoder is called at all.    *)
(* body are the places of the bytes that are no white space.                *)
LooksLikeBase64(text) ==
  LET body == {k \in DOMAIN text : text[k] \notin Space}
      Before(pad) == {k \in body : k < pad}
  IN  /\ \A k \in body : ValueOf(text[k]) # {} \/ text[k] = Pad
      /\ Cardinality(body) >= 8
      /\ \A pad \in body : text[pad] = Pad => Cardinality(Before(pad)) >= 8

-----------------------------------------------------------------------------
(* What an encoding is, from the bytes that are encoded: RFC 4648, but with  *)
(* superfluous '=' let through.                                             *)

(* Six bits of the bytes and the zeros after them: the n-th such group,     *)
(* counted from 0.                                                          *)
ByteAt(bytes, k) == IF k \in DOMAIN bytes THEN bytes[k] ELSE 0
Sextet(bytes, n) ==
  LET b(k) == ByteAt(bytes, 3 * (n \div 4) + k)
  IN  CASE n % 4 = 0 -> b(1) \div 4
        [] n % 4 = 1 -> 16 * (b(1) % 4) + b(2) \div 16
        [] n % 4 = 2 -> 4 * (b(2) % 16) + b(3) \div 64
        [] n % 4 = 3 -> b(3) % 64

IsSymbol(c) == ValueOf(c) # {}
SymbolsIn(text, n) == Cardinality({k \in 1 .. n : IsSymbol(text[k])})
PadsIn(text, n) == Cardinality({k \in 1 .. n : text[k] = Pad})

(* The text encodes the bytes of a string: as many symbols as it takes, each*)
(* for its group of bits, white space anywhere, and at most two '=' behind  *)
(* the symbols, whether or not the last group needs them.                   *)
Encodes(text, bytes) ==
  /\ bytes \in Seq(0 .. 255) /\ bytes # <<>> /\ IsUtf8(bytes)
  /\ \A k \in DOMAIN text : IsSymbol(text[k]) \/ text[k] \in Space \cup {Pad}
  /\ \A j, k \in DOMAIN text : j < k /\ text[j] = Pad => ~IsSymbol(text[k])
  /\ PadsIn(text, Len(text)) <= 2
  /\ SymbolsIn(text, Len(text)) = (8 * Len(bytes) + 5) \div 6
  /\ \A k \in DOMAIN text : IsSymbol(text[k]) =>
       ValueOf(text[k]) = {Sextet(bytes, SymbolsIn(text, k - 1))}

(* An input that is meant to stand for bytes is an encoding of them.        *)
ASSUME InputAssumption ==
  \A x \in Input : x.text \in Seq(Nat) /\ \A bytes \in x.meant : Encodes(x.text, bytes)

-----------------------------------------------------------------------------

(* The bits in hand are exactly those the symbols brought and the output    *)
(* has not taken, and fewer than a byte.                                    *)
TypeOK ==
  /\ acc \in 0 .. 2 ^ AccBits - 1
  /\ nbits \in {0, 2, 4, 6}
  /\ 6 * symbols = 8 * Len(out) + nbits
  /\ symbols + padding <= i

(* An encoded text comes back as the bytes that were encoded, whatever the  *)
(* width of the accumulator forgets, wherever the lines are wrapped, as     *)
(* long as they fit.                                                        *)
DecodesWhatWasEncoded ==
  \A bytes \in input.meant :
    outcome # {} /\ Len(bytes) <= MaxOutput => outcome = {"some"} /\ out = bytes

(* What is not an encoding of a text is not decoded to one: a symbol left   *)
(* over, stray bits, a foreign byte, bytes that are no UTF-8, too many.     *)
BrokenIsRejected ==
  outcome = {"some"} => input.by # "broken" /\ Len(out) <= MaxOutput

(* Nothing that would decode to six bytes or more is kept from the decoder  *)
(* by looks_like_base64: the two let the same bytes pass.                   *)
DecodableLooksEncoded ==
  outcome = {"some"} /\ Len(out) >= 6 => LooksLikeBase64(input.text)
=============================================================================
