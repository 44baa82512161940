---------------------------- MODULE Base64Proofs ----------------------------
(***************************************************************************)
(* Proofs about the base64 decoder: for every width of the accumulator     *)
(* that is a multiple of two symbols, every limit of the output and every  *)
(* set of inputs, what it decodes is an encoding of what it hands out, and *)
(* an encoding is decoded to what was encoded.                             *)
(***************************************************************************)
EXTENDS Base64, DataProofs, FiniteSetTheorems

(* The bytes that have gone out, and behind them the bits in hand, filled   *)
(* up with zeros.                                                           *)
Held(o, nb, a) == IF nb = 0 THEN o ELSE Append(o, (a % 2 ^ nb) * 2 ^ (8 - nb))

-----------------------------------------------------------------------------
(* Arithmetic.                                                              *)

(* The powers of two that occur.                                            *)
LEMMA Powers ==
  /\ 2 ^ 0 = 1 /\ 2 ^ 2 = 4 /\ 2 ^ 4 = 16 /\ 2 ^ 6 = 64
  /\ 2 ^ 12 = 4096
  OBVIOUS

(* The accumulator after a symbol, and its last two symbols.                *)
Shifted(a, v) == (a * 64 + v) % 2 ^ AccBits
LastTwo(a, b, v) == b % 4096 = (64 * (a % 64)) + v

(* A symbol moves into the accumulator: what its width forgets are bits     *)
(* that have gone out already.                                              *)
LEMMA AccumulatorStep ==
  ASSUME NEW a \in Nat, NEW v \in 0 .. 63
  PROVE  /\ Shifted(a, v) \in 0 .. 2 ^ AccBits - 1 /\ Shifted(a, v) \in Nat
         /\ LastTwo(a, Shifted(a, v), v)
  <1> DEFINE w == 2 ^ AccBits
             t == a * 64 + v
  <1>1. w \in Nat \ {0} /\ w % 4096 = 0
    BY AccBitsAssumption, Powers
  <1>2. PICK m \in Nat : w = 4096 * m
    <2>1. w = 4096 * (w \div 4096) /\ w \div 4096 \in Nat
      <3> HIDE DEF w
      <3> QED BY <1>1
    <2> QED BY <2>1
  <1>3. t \in Nat
    OBVIOUS
  <1>4. /\ t % w \in 0 .. w - 1
        /\ t % w \in Nat
        /\ t = (w * (t \div w)) + (t % w)
        /\ t \div w \in Nat
    <2> HIDE DEF w, t
    <2> QED BY <1>1, <1>3
  <1>5. t = (4096 * (m * (t \div w))) + (t % w)
    <2> HIDE DEF w, t
    <2> QED BY <1>2, <1>4
  <1>6. (t % w) % 4096 = t % 4096
    <2>1. \A c, r \in Nat : (4096 * c + r) % 4096 = r % 4096
      OBVIOUS
    <2>2. m * (t \div w) \in Nat
      <3> HIDE DEF w, t
      <3> QED BY <1>4
    <2> HIDE DEF w, t
    <2> QED BY <1>4, <1>5, <2>1, <2>2
  <1>7. t % 4096 = 64 * (a % 64) + v
    OBVIOUS
  <1>8. Shifted(a, v) = t % w
    BY DEF Shifted
  <1> HIDE DEF t, w
  <1>9. LastTwo(a, t % w, v)
    BY <1>6, <1>7 DEF LastTwo
  <1> QED BY <1>4, <1>8, <1>9 DEF w

-----------------------------------------------------------------------------
(* The groups of six bits.                                                  *)

(* The four groups of three bytes.                                          *)
Parts(bytes, g) ==
  LET b1 == ByteAt(bytes, 3 * g + 1)
      b2 == ByteAt(bytes, 3 * g + 2)
      b3 == ByteAt(bytes, 3 * g + 3)
  IN  /\ Sextet(bytes, 4 * g) = b1 \div 4
      /\ Sextet(bytes, 4 * g + 1) = 16 * (b1 % 4) + b2 \div 16
      /\ Sextet(bytes, 4 * g + 2) = 4 * (b2 % 16) + b3 \div 64
      /\ Sextet(bytes, 4 * g + 3) = b3 % 64

LEMMA SextetParts ==
  ASSUME NEW bytes, NEW g \in Nat
  PROVE  Parts(bytes, g)
  <1>1. /\ (4 * g) % 4 = 0 /\ (4 * g) \div 4 = g
        /\ (4 * g + 1) % 4 = 1 /\ (4 * g + 1) \div 4 = g
        /\ (4 * g + 2) % 4 = 2 /\ (4 * g + 2) \div 4 = g
        /\ (4 * g + 3) % 4 = 3 /\ (4 * g + 3) \div 4 = g
    OBVIOUS
  <1> QED BY <1>1 DEF Sextet, Parts

(* Every number is a place among four.                                      *)
LEMMA FourPlaces ==
  ASSUME NEW n \in Nat
  PROVE  \E g \in Nat : n \in {4 * g, 4 * g + 1, 4 * g + 2, 4 * g + 3} /\ g = n \div 4
  <1>1. n \div 4 \in Nat /\ n \in {4 * (n \div 4), 4 * (n \div 4) + 1, 4 * (n \div 4) + 2, 4 * (n \div 4) + 3}
    OBVIOUS
  <1> QED BY <1>1

(* The first m bytes are the same.                                          *)
SameBytes(one, two, m) == \A k \in 1 .. m : ByteAt(one, k) = ByteAt(two, k)
SameSextets(one, two, n) == \A k \in 0 .. n - 1 : Sextet(one, k) = Sextet(two, k)

(* The same bytes, the same whole groups of them.                           *)
LEMMA WholeGroups ==
  ASSUME NEW one, NEW two, NEW g \in Nat, SameBytes(one, two, 3 * g)
  PROVE  SameSextets(one, two, 4 * g)
  <1> SUFFICES ASSUME NEW n \in 0 .. 4 * g - 1 PROVE Sextet(one, n) = Sextet(two, n)
    BY DEF SameSextets
  <1>1. PICK h \in Nat : n \in {4 * h, 4 * h + 1, 4 * h + 2, 4 * h + 3}
    <2>1. n \in Nat
      OBVIOUS
    <2> QED BY <2>1, FourPlaces
  <1>2. h < g
    BY <1>1
  <1>3. 3 * h + 1 \in 1 .. 3 * g /\ 3 * h + 2 \in 1 .. 3 * g /\ 3 * h + 3 \in 1 .. 3 * g
    BY <1>2
  <1>4. /\ ByteAt(one, 3 * h + 1) = ByteAt(two, 3 * h + 1)
        /\ ByteAt(one, 3 * h + 2) = ByteAt(two, 3 * h + 2)
        /\ ByteAt(one, 3 * h + 3) = ByteAt(two, 3 * h + 3)
    BY <1>3 DEF SameBytes
  <1>5. Parts(one, h) /\ Parts(two, h)
    BY SextetParts
  <1> QED BY <1>1, <1>4, <1>5 DEF Parts

(* What a byte of a sequence is, and of one with another behind it.         *)
LEMMA ByteOf ==
  ASSUME NEW o \in Seq(0 .. 255)
  PROVE  /\ \A k \in 1 .. Len(o) : ByteAt(o, k) = o[k] /\ ByteAt(o, k) \in 0 .. 255
         /\ \A k \in Nat : k > Len(o) => ByteAt(o, k) = 0
         /\ \A k \in Nat : ByteAt(o, k) \in 0 .. 255
  <1>1. DOMAIN o = 1 .. Len(o) /\ Len(o) \in Nat /\ \A k \in DOMAIN o : o[k] \in 0 .. 255
    BY SeqElements
  <1>2. 0 \in 0 .. 255
    OBVIOUS
  <1>3. \A k \in Nat : k > Len(o) => k \notin DOMAIN o
    BY <1>1
  <1> QED BY <1>1, <1>2, <1>3 DEF ByteAt

(* longer is o, of l bytes, with b behind it.                               *)
Longer(longer, o, l, b) ==
  /\ longer \in Seq(0 .. 255) /\ Len(longer) = l + 1
  /\ SameBytes(longer, o, l)
  /\ ByteAt(longer, l + 1) = b

LEMMA ByteOfAppend ==
  ASSUME NEW o \in Seq(0 .. 255), NEW b \in 0 .. 255, NEW l, l = Len(o)
  PROVE  Longer(Append(o, b), o, l, b)
  BY DEF ByteAt, SameBytes, Longer

(* Groups that are whole, and then those of the group that is not.          *)
LEMMA OneSextetMore ==
  ASSUME NEW one, NEW two, NEW n \in Nat, SameSextets(one, two, n), Sextet(one, n) = Sextet(two, n)
  PROVE  SameSextets(one, two, n + 1)
  <1>1. \A k \in 0 .. (n + 1) - 1 : k \in 0 .. n - 1 \/ k = n
    OBVIOUS
  <1> QED BY <1>1 DEF SameSextets

(* new holds the same as old, and the symbol v behind it.                   *)
Takes(new, old, n, v) == SameSextets(new, old, n) /\ Sextet(new, n) = v

(* A symbol comes in with nothing in hand, then with six, four and two bits *)
(* in hand: the groups of what is held stay, and the new one is the symbol. *)
FirstTakes(o, g, v) ==
  LET new == Append(o, v * 4)
  IN  Takes(new, o, 4 * g, v)

LEMMA FirstOfFour ==
  ASSUME NEW o \in Seq(0 .. 255), NEW g \in Nat, Len(o) = 3 * g, NEW v \in 0 .. 63
  PROVE  FirstTakes(o, g, v)
  <1> DEFINE b == v * 4
             new == Append(o, b)
  <1>1. b \in 0 .. 255 /\ b \div 4 = v
    OBVIOUS
  <1> HIDE DEF b
  <1>2. Longer(new, o, 3 * g, b)
    BY <1>1, ByteOfAppend
  <1>3. Parts(new, g)
    BY SextetParts
  <1> HIDE DEF new
  <1>4. SameSextets(new, o, 4 * g)
    BY <1>2, WholeGroups DEF Longer
  <1>5. Sextet(new, 4 * g) = v
    BY <1>1, <1>2, <1>3 DEF Longer, Parts
  <1> QED BY <1>4, <1>5 DEF FirstTakes, Takes, b, new

SecondTakes(o, g, u, v) ==
  LET old == Append(o, u * 4)
      new == Append(Append(o, 4 * u + v \div 16), (v % 16) * 16)
  IN  Takes(new, old, 4 * g + 1, v)

LEMMA SecondOfFour ==
  ASSUME NEW o \in Seq(0 .. 255), NEW g \in Nat, Len(o) = 3 * g,
         NEW u \in 0 .. 63, NEW v \in 0 .. 63
  PROVE  SecondTakes(o, g, u, v)
  <1> DEFINE a == u * 4
             b == 4 * u + v \div 16
             d == (v % 16) * 16
             old == Append(o, a)
             mid == Append(o, b)
             new == Append(mid, d)
  <1>1. /\ a \in 0 .. 255 /\ b \in 0 .. 255 /\ d \in 0 .. 255
        /\ b \div 4 = a \div 4
        /\ 16 * (b % 4) + d \div 16 = v
    OBVIOUS
  <1> HIDE DEF a, b, d
  <1>2. Longer(old, o, 3 * g, a) /\ Longer(mid, o, 3 * g, b)
    BY <1>1, ByteOfAppend
  <1> HIDE DEF mid
  <1>3. Longer(new, mid, 3 * g + 1, d)
    <2>1. mid \in Seq(0 .. 255) /\ 3 * g + 1 = Len(mid)
      BY <1>2 DEF Longer
    <2> QED BY <1>1, <2>1, ByteOfAppend
  <1> HIDE DEF old, new
  <1>4. /\ SameBytes(new, old, 3 * g)
        /\ ByteAt(new, 3 * g + 1) = b /\ ByteAt(new, 3 * g + 2) = d
        /\ ByteAt(old, 3 * g + 1) = a
    BY <1>2, <1>3 DEF Longer, SameBytes
  <1>5. Parts(new, g) /\ Parts(old, g)
    BY SextetParts
  <1>6. Sextet(new, 4 * g) = Sextet(old, 4 * g) /\ Sextet(new, 4 * g + 1) = v
    BY <1>1, <1>4, <1>5 DEF Parts
  <1>7. SameSextets(new, old, 4 * g)
    BY <1>4, WholeGroups
  <1>8. SameSextets(new, old, 4 * g + 1)
    BY <1>6, <1>7, OneSextetMore
  <1> QED BY <1>6, <1>8 DEF SecondTakes, Takes, a, b, d, old, mid, new

ThirdBytes(u, v) ==
  LET a == u * 16
      b == 16 * u + v \div 4
      d == (v % 4) * 64
  IN  /\ a \in 0 .. 255 /\ b \in 0 .. 255 /\ d \in 0 .. 255
      /\ b \div 16 = a \div 16
      /\ 4 * (b % 16) + d \div 64 = v

LEMMA ThirdBytesFit ==
  ASSUME NEW u \in 0 .. 15, NEW v \in 0 .. 63
  PROVE  ThirdBytes(u, v)
  <1>1. u * 16 \in 0 .. 255 /\ (v % 4) * 64 \in 0 .. 255
    OBVIOUS
  <1>2. v \div 4 \in 0 .. 15 /\ 16 * u + v \div 4 \in 0 .. 255
    OBVIOUS
  <1>3. (16 * u + v \div 4) \div 16 = u
    OBVIOUS
  <1>4. (u * 16) \div 16 = u
    OBVIOUS
  <1>5. (16 * u + v \div 4) % 16 = v \div 4
    OBVIOUS
  <1>6. ((v % 4) * 64) \div 64 = v % 4
    OBVIOUS
  <1>7. 4 * (v \div 4) + (v % 4) = v
    OBVIOUS
  <1> QED BY <1>1, <1>2, <1>3, <1>4, <1>5, <1>6, <1>7 DEF ThirdBytes

ThirdTakes(o, g, u, v) ==
  LET old == Append(o, u * 16)
      new == Append(Append(o, 16 * u + v \div 4), (v % 4) * 64)
  IN  Takes(new, old, 4 * g + 2, v)

LEMMA ThirdOfFour ==
  ASSUME NEW o \in Seq(0 .. 255), NEW g \in Nat, Len(o) = 3 * g + 1,
         NEW u \in 0 .. 15, NEW v \in 0 .. 63
  PROVE  ThirdTakes(o, g, u, v)
  <1> DEFINE a == u * 16
             b == 16 * u + v \div 4
             d == (v % 4) * 64
             old == Append(o, a)
             mid == Append(o, b)
             new == Append(mid, d)
  <1>1. /\ a \in 0 .. 255 /\ b \in 0 .. 255 /\ d \in 0 .. 255
        /\ b \div 16 = a \div 16
        /\ 4 * (b % 16) + d \div 64 = v
    <2>1. ThirdBytes(u, v)
      BY ThirdBytesFit
    <2> QED BY <2>1 DEF ThirdBytes
  <1> HIDE DEF a, b, d
  <1>2. Longer(old, o, 3 * g + 1, a) /\ Longer(mid, o, 3 * g + 1, b)
    BY <1>1, ByteOfAppend
  <1> HIDE DEF mid
  <1>3. Longer(new, mid, 3 * g + 2, d)
    <2>1. mid \in Seq(0 .. 255) /\ 3 * g + 2 = Len(mid)
      BY <1>2 DEF Longer
    <2> QED BY <1>1, <2>1, ByteOfAppend
  <1> HIDE DEF old, new
  <1>4. /\ SameBytes(new, old, 3 * g)
        /\ ByteAt(new, 3 * g + 1) = ByteAt(old, 3 * g + 1)
        /\ ByteAt(new, 3 * g + 2) = b /\ ByteAt(new, 3 * g + 3) = d
        /\ ByteAt(old, 3 * g + 2) = a
    BY <1>2, <1>3 DEF Longer, SameBytes
  <1>5. Parts(new, g) /\ Parts(old, g)
    BY SextetParts
  <1>6. /\ Sextet(new, 4 * g) = Sextet(old, 4 * g)
        /\ Sextet(new, 4 * g + 1) = Sextet(old, 4 * g + 1)
        /\ Sextet(new, 4 * g + 2) = v
    BY <1>1, <1>4, <1>5 DEF Parts
  <1>7. SameSextets(new, old, 4 * g)
    BY <1>4, WholeGroups
  <1>8. SameSextets(new, old, 4 * g + 1)
    BY <1>6, <1>7, OneSextetMore
  <1>9. SameSextets(new, old, 4 * g + 2)
    <2>1. (4 * g + 1) + 1 = 4 * g + 2 /\ 4 * g + 1 \in Nat
      OBVIOUS
    <2>2. SameSextets(new, old, (4 * g + 1) + 1)
      BY <1>6, <1>8, <2>1, OneSextetMore
    <2> QED BY <2>1, <2>2
  <1> QED BY <1>6, <1>9 DEF ThirdTakes, Takes, a, b, d, old, mid, new

FourthTakes(o, g, u, v) ==
  LET old == Append(o, u * 64)
      new == Append(o, 64 * u + v)
  IN  Takes(new, old, 4 * g + 3, v)

LEMMA FourthOfFour ==
  ASSUME NEW o \in Seq(0 .. 255), NEW g \in Nat, Len(o) = 3 * g + 2,
         NEW u \in 0 .. 3, NEW v \in 0 .. 63
  PROVE  FourthTakes(o, g, u, v)
  <1> DEFINE a == u * 64
             b == 64 * u + v
             old == Append(o, a)
             new == Append(o, b)
  <1>1. /\ a \in 0 .. 255 /\ b \in 0 .. 255
        /\ b \div 64 = a \div 64
        /\ b % 64 = v
    OBVIOUS
  <1> HIDE DEF a, b
  <1>2. Longer(old, o, 3 * g + 2, a) /\ Longer(new, o, 3 * g + 2, b)
    BY <1>1, ByteOfAppend
  <1> HIDE DEF old, new
  <1>4. /\ SameBytes(new, old, 3 * g)
        /\ ByteAt(new, 3 * g + 1) = ByteAt(old, 3 * g + 1)
        /\ ByteAt(new, 3 * g + 2) = ByteAt(old, 3 * g + 2)
        /\ ByteAt(new, 3 * g + 3) = b
        /\ ByteAt(old, 3 * g + 3) = a
    BY <1>2 DEF Longer, SameBytes
  <1>5. Parts(new, g) /\ Parts(old, g)
    BY SextetParts
  <1>6. /\ Sextet(new, 4 * g) = Sextet(old, 4 * g)
        /\ Sextet(new, 4 * g + 1) = Sextet(old, 4 * g + 1)
        /\ Sextet(new, 4 * g + 2) = Sextet(old, 4 * g + 2)
        /\ Sextet(new, 4 * g + 3) = v
    BY <1>1, <1>4, <1>5 DEF Parts
  <1>7. SameSextets(new, old, 4 * g)
    BY <1>4, WholeGroups
  <1>8. SameSextets(new, old, 4 * g + 1)
    BY <1>6, <1>7, OneSextetMore
  <1>9. SameSextets(new, old, 4 * g + 2)
    <2>1. (4 * g + 1) + 1 = 4 * g + 2 /\ 4 * g + 1 \in Nat
      OBVIOUS
    <2>2. SameSextets(new, old, (4 * g + 1) + 1)
      BY <1>6, <1>8, <2>1, OneSextetMore
    <2> QED BY <2>1, <2>2
  <1>10. SameSextets(new, old, 4 * g + 3)
    <2>1. (4 * g + 2) + 1 = 4 * g + 3 /\ 4 * g + 2 \in Nat
      OBVIOUS
    <2>2. SameSextets(new, old, (4 * g + 2) + 1)
      BY <1>6, <1>9, <2>1, OneSextetMore
    <2> QED BY <2>1, <2>2
  <1> QED BY <1>6, <1>10 DEF FourthTakes, Takes, a, b, old, new

-----------------------------------------------------------------------------
(* One symbol, whatever is in hand.                                         *)

(* Where the symbols stand among four, by the bits in hand.                 *)
Counts(s, l, nb) == 6 * s = 8 * l + nb
Phase(nb, s, l, g) ==
  \/ nb = 0 /\ s = 4 * g /\ l = 3 * g
  \/ nb = 6 /\ s = 4 * g + 1 /\ l = 3 * g
  \/ nb = 4 /\ s = 4 * g + 2 /\ l = 3 * g + 1
  \/ nb = 2 /\ s = 4 * g + 3 /\ l = 3 * g + 2

LEMMA Phases ==
  ASSUME NEW s \in Nat, NEW l \in Nat, NEW nb \in {0, 2, 4, 6}, Counts(s, l, nb)
  PROVE  \E g \in Nat : Phase(nb, s, l, g)
  <1>1. PICK g \in Nat : s \in {4 * g, 4 * g + 1, 4 * g + 2, 4 * g + 3}
    BY FourPlaces
  <1> QED BY <1>1 DEF Phase, Counts

(* What the step makes of the bits in hand and of the output.               *)
Shift(nb) == IF nb + 6 < 8 THEN nb + 6 ELSE nb - 2
Out(o, nb, b) ==
  IF nb + 6 < 8 THEN o ELSE Append(o, (b \div 2 ^ Shift(nb)) % 256)

(* The bits of the accumulator that matter, from its last two symbols.      *)
LowBits(a, b, v) ==
  /\ b % 64 = v
  /\ (b \div 16) % 256 = 4 * (a % 64) + v \div 16 /\ b % 16 = v % 16
  /\ (b \div 4) % 256 = 16 * (a % 16) + v \div 4 /\ b % 4 = v % 4
  /\ b % 256 = 64 * (a % 4) + v

LEMMA LowBitsCount ==
  ASSUME NEW a \in Nat, NEW b \in Nat, NEW v \in 0 .. 63, LastTwo(a, b, v)
  PROVE  LowBits(a, b, v)
  <1> DEFINE c == b \div 4096
             u == a % 64
  <1>1. c \in Nat /\ b = 4096 * c + (b % 4096)
    OBVIOUS
  <1>2. u \in 0 .. 63
    OBVIOUS
  <1>3. u % 16 = a % 16
    OBVIOUS
  <1>4. u % 4 = a % 4
    OBVIOUS
  <1>5. b = 4096 * c + (64 * u + v)
    BY <1>1 DEF LastTwo
  <1> HIDE DEF c, u
  <1>6. b % 64 = v
    BY <1>1, <1>2, <1>5
  <1>7. b % 16 = v % 16
    BY <1>1, <1>2, <1>5
  <1>8. b % 4 = v % 4
    BY <1>1, <1>2, <1>5
  <1>9. b % 256 = 64 * (u % 4) + v
    BY <1>1, <1>2, <1>5
  <1>10. (b \div 16) % 256 = 4 * u + v \div 16
    <2>1. b \div 16 = 256 * c + (4 * u + (v \div 16))
      BY <1>1, <1>2, <1>5
    <2>2. 4 * u + (v \div 16) \in 0 .. 255
      BY <1>2
    <2>3. \A r \in 0 .. 255 : (256 * c + r) % 256 = r
      BY <1>1
    <2> QED BY <2>1, <2>2, <2>3
  <1>11. (b \div 4) % 256 = 16 * (u % 16) + v \div 4
    <2>1. b \div 4 = 1024 * c + (16 * u + (v \div 4))
      BY <1>1, <1>2, <1>5
    <2>2. v \div 4 \in 0 .. 15
      OBVIOUS
    <2>3. \A r \in 0 .. 15 : (1024 * c + (16 * u + r)) % 256 = 16 * (u % 16) + r
      BY <1>1, <1>2
    <2> QED BY <2>1, <2>2, <2>3
  <1> QED BY <1>3, <1>4, <1>6, <1>7, <1>8, <1>9, <1>10, <1>11 DEF LowBits, u

(* The step in its four phases.                                             *)
SymbolIsTaken(o, nb, s, a, b, v) ==
  /\ Shift(nb) \in {0, 2, 4, 6}
  /\ Out(o, nb, b) \in Seq(0 .. 255)
  /\ Counts(s + 1, Len(Out(o, nb, b)), Shift(nb))
  /\ Takes(Held(Out(o, nb, b), Shift(nb), b), Held(o, nb, a), s, v)

LEMMA SymbolTaken ==
  ASSUME NEW o \in Seq(0 .. 255), NEW nb \in {0, 2, 4, 6}, NEW s \in Nat,
         Counts(s, Len(o), nb),
         NEW a \in Nat, NEW b \in Nat, NEW v \in 0 .. 63, LowBits(a, b, v)
  PROVE  SymbolIsTaken(o, nb, s, a, b, v)
  <1> SUFFICES /\ Shift(nb) \in {0, 2, 4, 6}
               /\ Out(o, nb, b) \in Seq(0 .. 255)
               /\ Counts(s + 1, Len(Out(o, nb, b)), Shift(nb))
               /\ Takes(Held(Out(o, nb, b), Shift(nb), b), Held(o, nb, a), s, v)
    BY DEF SymbolIsTaken
  <1>1. PICK g \in Nat : Phase(nb, s, Len(o), g)
    <2>1. Len(o) \in Nat
      OBVIOUS
    <2> HIDE DEF Phase
    <2> QED BY <2>1, Phases
  <1>2. LowBits(a, b, v)
    OBVIOUS
  <1>3. \A x \in 0 .. 255 : Append(o, x) \in Seq(0 .. 255) /\ Len(Append(o, x)) = Len(o) + 1
    OBVIOUS
  <1>4. Len(o) \in Nat
    OBVIOUS
  <1>5. CASE nb = 0
    <2>1. Held(o, nb, a) = o /\ Shift(nb) = 6 /\ Out(o, nb, b) = o
      BY <1>5 DEF Held, Shift, Out
    <2>2. Held(o, 6, b) = Append(o, v * 4)
      BY <1>2, Powers DEF Held, LowBits
    <2>3. s = 4 * g /\ Len(o) = 3 * g
      BY <1>1, <1>5 DEF Phase
    <2>4. Takes(Append(o, v * 4), o, 4 * g, v)
      <3>1. FirstTakes(o, g, v)
        BY <2>3, FirstOfFour
      <3> QED BY <3>1 DEF FirstTakes
    <2>5. Counts(s + 1, Len(o), 6)
      BY <2>3 DEF Counts
    <2>6. 6 \in {0, 2, 4, 6}
      OBVIOUS
    <2> QED BY <2>1, <2>2, <2>3, <2>4, <2>5, <2>6
  <1>6. CASE nb = 6
    <2> DEFINE u == a % 64
               c == 4 * u + v \div 16
    <2>0. s = 4 * g + 1 /\ Len(o) = 3 * g
      BY <1>1, <1>6 DEF Phase
    <2>1. u \in 0 .. 63
      OBVIOUS
    <2>2. c \in 0 .. 255
      OBVIOUS
    <2>3. Held(o, nb, a) = Append(o, u * 4)
      BY <1>6, Powers DEF Held
    <2>4. Shift(nb) = 4 /\ 2 ^ Shift(nb) = 16
      BY <1>6, Powers DEF Shift
    <2>5. (b \div 16) % 256 = c /\ b % 16 = v % 16
      BY <1>2 DEF LowBits
    <2> HIDE DEF u
    <2>6. Takes(Append(Append(o, c), (v % 16) * 16), Append(o, u * 4), 4 * g + 1, v)
      <3>1. SecondTakes(o, g, u, v)
        BY <2>0, <2>1, SecondOfFour
      <3> QED BY <3>1 DEF SecondTakes
    <2> HIDE DEF c
    <2>7. Out(o, nb, b) = Append(o, c)
      <3>1. Out(o, nb, b) = Append(o, (b \div 2 ^ Shift(nb)) % 256)
        BY <1>6 DEF Out
      <3> QED BY <2>4, <2>5, <3>1
    <2>8. Held(Append(o, c), 4, b) = Append(Append(o, c), (v % 16) * 16)
      BY <2>5, Powers DEF Held
    <2>9. Len(Append(o, c)) = Len(o) + 1 /\ Append(o, c) \in Seq(0 .. 255)
      BY <1>3, <2>2
    <2>10. Counts(s + 1, Len(o) + 1, 4)
      BY <2>0 DEF Counts
    <2>11. 4 \in {0, 2, 4, 6}
      OBVIOUS
    <2>12. Out(o, nb, b) \in Seq(0 .. 255) /\ Len(Out(o, nb, b)) = Len(o) + 1
      BY <2>7, <2>9
    <2>13. Held(Out(o, nb, b), Shift(nb), b) = Held(Append(o, c), 4, b)
      BY <2>4, <2>7
    <2>14. Takes(Held(Out(o, nb, b), Shift(nb), b), Held(o, nb, a), s, v)
      BY <2>0, <2>3, <2>6, <2>8, <2>13
    <2> QED BY <2>4, <2>10, <2>11, <2>12, <2>14
  <1>7. CASE nb = 4
    <2> DEFINE u == a % 16
               c == 16 * u + v \div 4
    <2>0. s = 4 * g + 2 /\ Len(o) = 3 * g + 1
      BY <1>1, <1>7 DEF Phase
    <2>1. u \in 0 .. 15
      OBVIOUS
    <2>2. c \in 0 .. 255
      OBVIOUS
    <2>3. Held(o, nb, a) = Append(o, u * 16)
      BY <1>7, Powers DEF Held
    <2>4. Shift(nb) = 2 /\ 2 ^ Shift(nb) = 4
      BY <1>7, Powers DEF Shift
    <2>5. (b \div 4) % 256 = c /\ b % 4 = v % 4
      BY <1>2 DEF LowBits
    <2> HIDE DEF u
    <2>6. Takes(Append(Append(o, c), (v % 4) * 64), Append(o, u * 16), 4 * g + 2, v)
      <3>1. ThirdTakes(o, g, u, v)
        BY <2>0, <2>1, ThirdOfFour
      <3> QED BY <3>1 DEF ThirdTakes
    <2> HIDE DEF c
    <2>7. Out(o, nb, b) = Append(o, c)
      <3>1. Out(o, nb, b) = Append(o, (b \div 2 ^ Shift(nb)) % 256)
        BY <1>7 DEF Out
      <3> QED BY <2>4, <2>5, <3>1
    <2>8. Held(Append(o, c), 2, b) = Append(Append(o, c), (v % 4) * 64)
      BY <2>5, Powers DEF Held
    <2>9. Len(Append(o, c)) = Len(o) + 1 /\ Append(o, c) \in Seq(0 .. 255)
      BY <1>3, <2>2
    <2>10. Counts(s + 1, Len(o) + 1, 2)
      BY <2>0 DEF Counts
    <2>11. 2 \in {0, 2, 4, 6}
      OBVIOUS
    <2>12. Out(o, nb, b) \in Seq(0 .. 255) /\ Len(Out(o, nb, b)) = Len(o) + 1
      BY <2>7, <2>9
    <2>13. Held(Out(o, nb, b), Shift(nb), b) = Held(Append(o, c), 2, b)
      BY <2>4, <2>7
    <2>14. Takes(Held(Out(o, nb, b), Shift(nb), b), Held(o, nb, a), s, v)
      BY <2>0, <2>3, <2>6, <2>8, <2>13
    <2> QED BY <2>4, <2>10, <2>11, <2>12, <2>14
  <1>8. CASE nb = 2
    <2> DEFINE u == a % 4
               c == 64 * u + v
    <2>0. s = 4 * g + 3 /\ Len(o) = 3 * g + 2
      BY <1>1, <1>8 DEF Phase
    <2>1. u \in 0 .. 3
      OBVIOUS
    <2>2. c \in 0 .. 255
      OBVIOUS
    <2>3. Held(o, nb, a) = Append(o, u * 64)
      BY <1>8, Powers DEF Held
    <2>4. Shift(nb) = 0 /\ 2 ^ Shift(nb) = 1
      BY <1>8, Powers DEF Shift
    <2>5. (b \div 1) % 256 = c
      <3>1. b \div 1 = b
        OBVIOUS
      <3> QED BY <1>2, <3>1 DEF LowBits
    <2> HIDE DEF u
    <2>6. Takes(Append(o, c), Append(o, u * 64), 4 * g + 3, v)
      <3>1. FourthTakes(o, g, u, v)
        BY <2>0, <2>1, FourthOfFour
      <3> QED BY <3>1 DEF FourthTakes
    <2> HIDE DEF c
    <2>7. Out(o, nb, b) = Append(o, c)
      <3>1. Out(o, nb, b) = Append(o, (b \div 2 ^ Shift(nb)) % 256)
        BY <1>8 DEF Out
      <3> QED BY <2>4, <2>5, <3>1
    <2>8. Held(Append(o, c), 0, b) = Append(o, c)
      BY DEF Held
    <2>9. Len(Append(o, c)) = Len(o) + 1 /\ Append(o, c) \in Seq(0 .. 255)
      BY <1>3, <2>2
    <2>10. Counts(s + 1, Len(o) + 1, 0)
      BY <2>0 DEF Counts
    <2>11. 0 \in {0, 2, 4, 6}
      OBVIOUS
    <2>12. Out(o, nb, b) \in Seq(0 .. 255) /\ Len(Out(o, nb, b)) = Len(o) + 1
      BY <2>7, <2>9
    <2>13. Held(Out(o, nb, b), Shift(nb), b) = Held(Append(o, c), 0, b)
      BY <2>4, <2>7
    <2>14. Takes(Held(Out(o, nb, b), Shift(nb), b), Held(o, nb, a), s, v)
      BY <2>0, <2>3, <2>6, <2>8, <2>13
    <2> QED BY <2>4, <2>10, <2>11, <2>12, <2>14
  <1> QED BY <1>5, <1>6, <1>7, <1>8

-----------------------------------------------------------------------------
(* The alphabet and the counts.                                             *)

(* A symbol stands for one number below 64; white space and '=' are none.   *)
LEMMA Alphabet64 ==
  ASSUME NEW c \in Nat
  PROVE  /\ \A v \in ValueOf(c) : v \in 0 .. 63 /\ ValueOf(c) = {v} /\ IsSymbol(c)
         /\ c \in Space \cup {Pad} => ~IsSymbol(c)
  <1>1. CASE c \in 65 .. 90
    <2>1. ValueOf(c) = {c - 65} /\ c - 65 \in 0 .. 63 /\ c \notin Space \cup {Pad}
      BY <1>1 DEF ValueOf, Space, Pad
    <2> QED BY <2>1 DEF IsSymbol
  <1>2. CASE c \in 97 .. 122
    <2>1. ValueOf(c) = {c - 97 + 26} /\ c - 97 + 26 \in 0 .. 63 /\ c \notin Space \cup {Pad}
      BY <1>2 DEF ValueOf, Space, Pad
    <2> QED BY <2>1 DEF IsSymbol
  <1>3. CASE c \in 48 .. 57
    <2>1. ValueOf(c) = {c - 48 + 52} /\ c - 48 + 52 \in 0 .. 63 /\ c \notin Space \cup {Pad}
      BY <1>3 DEF ValueOf, Space, Pad
    <2> QED BY <2>1 DEF IsSymbol
  <1>4. CASE c = 43
    BY <1>4 DEF ValueOf, IsSymbol, Space, Pad
  <1>5. CASE c = 47
    BY <1>5 DEF ValueOf, IsSymbol, Space, Pad
  <1>6. CASE c \notin 65 .. 90 \cup 97 .. 122 \cup 48 .. 57 \cup {43, 47}
    <2>1. ValueOf(c) = {}
      BY <1>6 DEF ValueOf
    <2> QED BY <2>1 DEF IsSymbol
  <1> QED BY <1>1, <1>2, <1>3, <1>4, <1>5, <1>6

(* The indices counted, one place further.                                  *)
NumberIn(S, m) == Cardinality({k \in 1 .. m : k \in S})

LEMMA CountStep ==
  ASSUME NEW n \in Nat, NEW S
  PROVE  /\ NumberIn(S, 0) = 0 /\ NumberIn(S, n) \in Nat
         /\ n + 1 \in S => NumberIn(S, n + 1) = NumberIn(S, n) + 1
         /\ n + 1 \notin S => NumberIn(S, n + 1) = NumberIn(S, n)
         /\ NumberIn(S, n) = 0 => \A k \in 1 .. n : k \notin S
  <1> DEFINE Counted(m) == {k \in 1 .. m : k \in S}
  <1>1. Cardinality(Counted(0)) = 0
    <2>1. Counted(0) = {}
      OBVIOUS
    <2> QED BY <2>1, FS_EmptySet
  <1>2. IsFiniteSet(Counted(n)) /\ Cardinality(Counted(n)) \in Nat
    <2>1. IsFiniteSet(1 .. n)
      BY FS_Interval
    <2>2. Counted(n) \in SUBSET (1 .. n)
      OBVIOUS
    <2> HIDE DEF Counted
    <2> QED BY <2>1, <2>2, FS_Subset, FS_CardinalityType
  <1>3. n + 1 \in S => Cardinality(Counted(n + 1)) = Cardinality(Counted(n)) + 1
    <2> SUFFICES ASSUME n + 1 \in S PROVE Cardinality(Counted(n + 1)) = Cardinality(Counted(n)) + 1
      OBVIOUS
    <2>1. Counted(n + 1) = Counted(n) \cup {n + 1} /\ n + 1 \notin Counted(n)
      OBVIOUS
    <2> HIDE DEF Counted
    <2> QED BY <1>2, <2>1, FS_AddElement
  <1>4. n + 1 \notin S => Cardinality(Counted(n + 1)) = Cardinality(Counted(n))
    <2> SUFFICES ASSUME n + 1 \notin S PROVE Cardinality(Counted(n + 1)) = Cardinality(Counted(n))
      OBVIOUS
    <2>1. Counted(n + 1) = Counted(n)
      OBVIOUS
    <2> QED BY <2>1
  <1>5. Cardinality(Counted(n)) = 0 => \A k \in 1 .. n : k \notin S
    <2>1. Cardinality(Counted(n)) = 0 => Counted(n) = {}
      <3> HIDE DEF Counted
      <3> QED BY <1>2, FS_EmptySet
    <2> QED BY <2>1
  <1>6. \A m : NumberIn(S, m) = Cardinality(Counted(m))
    BY DEF NumberIn
  <1> HIDE DEF Counted
  <1> QED BY <1>1, <1>2, <1>3, <1>4, <1>5, <1>6

LEMMA SymbolsStep ==
  ASSUME NEW text, NEW n \in Nat
  PROVE  /\ SymbolsIn(text, 0) = 0 /\ SymbolsIn(text, n) \in Nat
         /\ IsSymbol(text[n + 1]) => SymbolsIn(text, n + 1) = SymbolsIn(text, n) + 1
         /\ ~IsSymbol(text[n + 1]) => SymbolsIn(text, n + 1) = SymbolsIn(text, n)
  <1> DEFINE S == {k \in Nat : IsSymbol(text[k])}
  <1>1. \A m \in Nat : SymbolsIn(text, m) = NumberIn(S, m)
    <2> SUFFICES ASSUME NEW m \in Nat PROVE SymbolsIn(text, m) = NumberIn(S, m)
      OBVIOUS
    <2>1. {k \in 1 .. m : IsSymbol(text[k])} = {k \in 1 .. m : k \in S}
      OBVIOUS
    <2> HIDE DEF S
    <2> QED BY <2>1 DEF SymbolsIn, NumberIn
  <1>2. n + 1 \in S <=> IsSymbol(text[n + 1])
    OBVIOUS
  <1>3. 0 \in Nat /\ n + 1 \in Nat
    OBVIOUS
  <1> HIDE DEF S
  <1> QED BY <1>1, <1>2, <1>3, CountStep

LEMMA PadsStep ==
  ASSUME NEW text, NEW n \in Nat
  PROVE  /\ PadsIn(text, 0) = 0 /\ PadsIn(text, n) \in Nat
         /\ text[n + 1] = Pad => PadsIn(text, n + 1) = PadsIn(text, n) + 1
         /\ text[n + 1] # Pad => PadsIn(text, n + 1) = PadsIn(text, n)
         /\ PadsIn(text, n) = 0 => \A k \in 1 .. n : text[k] # Pad
  <1> DEFINE S == {k \in Nat : text[k] = Pad}
  <1>1. \A m \in Nat : PadsIn(text, m) = NumberIn(S, m)
    <2> SUFFICES ASSUME NEW m \in Nat PROVE PadsIn(text, m) = NumberIn(S, m)
      OBVIOUS
    <2>1. {k \in 1 .. m : text[k] = Pad} = {k \in 1 .. m : k \in S}
      OBVIOUS
    <2> HIDE DEF S
    <2> QED BY <2>1 DEF PadsIn, NumberIn
  <1>2. n + 1 \in S <=> text[n + 1] = Pad
    OBVIOUS
  <1>3. 0 \in Nat /\ n + 1 \in Nat
    OBVIOUS
  <1>4. \A k \in 1 .. n : text[k] = Pad => k \in S
    OBVIOUS
  <1> HIDE DEF S
  <1> QED BY <1>1, <1>2, <1>3, <1>4, CountStep

(* No place further on has fewer symbols before it.                         *)
LEMMA SymbolsGrow ==
  ASSUME NEW text, NEW n \in Nat, NEW m \in 0 .. n
  PROVE  SymbolsIn(text, m) <= SymbolsIn(text, n)
  <1> DEFINE A == {k \in 1 .. m : IsSymbol(text[k])}
             B == {k \in 1 .. n : IsSymbol(text[k])}
  <1>1. A \in SUBSET B /\ B \in SUBSET (1 .. n)
    OBVIOUS
  <1>2. IsFiniteSet(1 .. n)
    BY FS_Interval
  <1> HIDE DEF A, B
  <1>3. IsFiniteSet(B)
    BY <1>1, <1>2, FS_Subset
  <1>4. Cardinality(A) <= Cardinality(B)
    BY <1>1, <1>3, FS_Subset
  <1> QED BY <1>4 DEF A, B, SymbolsIn

-----------------------------------------------------------------------------
(* The inductive invariant.                                                 *)

(* The first n bytes of a text keep the rules of an encoding, and its       *)
(* symbols, of which there are s, are those of the bytes.                   *)
OnlyLegal(text, n) ==
  \A k \in 1 .. n : IsSymbol(text[k]) \/ text[k] \in Space \cup {Pad}
PadsLast(text, n) ==
  \A j, k \in 1 .. n : j < k /\ text[j] = Pad => ~IsSymbol(text[k])
StandsFor(text, n, bytes, s) ==
  /\ \A k \in 1 .. n : IsSymbol(text[k]) =>
       /\ SymbolsIn(text, k - 1) \in 0 .. s - 1
       /\ ValueOf(text[k]) = {Sextet(bytes, SymbolsIn(text, k - 1))}
  /\ \A m \in 0 .. s - 1 : \E k \in 1 .. n : IsSymbol(text[k]) /\ m = SymbolsIn(text, k - 1)

(* One byte more: no symbol, or one that is taken.                          *)
LEMMA OtherByte ==
  ASSUME NEW text, NEW n \in Nat, NEW bytes, NEW s \in Nat,
         OnlyLegal(text, n), PadsLast(text, n), StandsFor(text, n, bytes, s),
         text[n + 1] \in Space \cup {Pad}, ~IsSymbol(text[n + 1])
  PROVE  OnlyLegal(text, n + 1) /\ PadsLast(text, n + 1) /\ StandsFor(text, n + 1, bytes, s)
  <1>1. \A k \in 1 .. n + 1 : k \in 1 .. n \/ k = n + 1
    OBVIOUS
  <1>2. \A k \in 1 .. n : k \in 1 .. n + 1
    OBVIOUS
  <1>3. OnlyLegal(text, n + 1)
    BY <1>1 DEF OnlyLegal
  <1>4. PadsLast(text, n + 1)
    BY <1>1 DEF PadsLast
  <1>5. StandsFor(text, n + 1, bytes, s)
    BY <1>1, <1>2 DEF StandsFor
  <1> QED BY <1>3, <1>4, <1>5

LEMMA SymbolByte ==
  ASSUME NEW text, NEW n \in Nat, NEW old, NEW new, NEW s \in Nat, NEW v,
         OnlyLegal(text, n), StandsFor(text, n, old, s), s = SymbolsIn(text, n),
         \A k \in 1 .. n : text[k] # Pad,
         IsSymbol(text[n + 1]), text[n + 1] # Pad, ValueOf(text[n + 1]) = {v}, Takes(new, old, s, v)
  PROVE  OnlyLegal(text, n + 1) /\ PadsLast(text, n + 1) /\ StandsFor(text, n + 1, new, s + 1)
  <1>1. \A k \in 1 .. n + 1 : k \in 1 .. n \/ k = n + 1
    OBVIOUS
  <1>2. \A k \in 1 .. n : k \in 1 .. n + 1
    OBVIOUS
  <1>3. OnlyLegal(text, n + 1)
    BY <1>1 DEF OnlyLegal
  <1>4. PadsLast(text, n + 1)
    BY <1>1 DEF PadsLast
  <1>5. /\ n + 1 \in 1 .. n + 1 /\ (n + 1) - 1 = n /\ (s + 1) - 1 = s
        /\ s \in 0 .. s /\ \A m \in 0 .. s - 1 : m \in 0 .. s
        /\ \A m \in 0 .. s : m \in 0 .. s - 1 \/ m = s
    OBVIOUS
  <1>6. \A m \in 0 .. s - 1 : Sextet(new, m) = Sextet(old, m)
    BY DEF Takes, SameSextets
  <1>7. Sextet(new, s) = v
    BY DEF Takes
  <1>8. ASSUME NEW k \in 1 .. n + 1, IsSymbol(text[k])
        PROVE  /\ SymbolsIn(text, k - 1) \in 0 .. (s + 1) - 1
               /\ ValueOf(text[k]) = {Sextet(new, SymbolsIn(text, k - 1))}
    <2>1. CASE k \in 1 .. n
      <3>1. /\ SymbolsIn(text, k - 1) \in 0 .. s - 1
            /\ ValueOf(text[k]) = {Sextet(old, SymbolsIn(text, k - 1))}
        BY <1>8, <2>1 DEF StandsFor
      <3> QED BY <1>5, <1>6, <3>1
    <2>2. CASE k = n + 1
      BY <1>5, <1>7, <2>2
    <2> QED BY <1>1, <2>1, <2>2
  <1>9. ASSUME NEW m \in 0 .. (s + 1) - 1
        PROVE  \E k \in 1 .. n + 1 : IsSymbol(text[k]) /\ m = SymbolsIn(text, k - 1)
    <2>1. CASE m \in 0 .. s - 1
      BY <1>2, <2>1 DEF StandsFor
    <2>2. CASE m = s
      BY <1>5, <2>2
    <2> QED BY <1>5, <2>1, <2>2
  <1> HIDE DEF StandsFor
  <1>10. StandsFor(text, n + 1, new, s + 1)
    BY <1>8, <1>9 DEF StandsFor
  <1> QED BY <1>3, <1>4, <1>10

(* Where the pass stands.                                                   *)
Reading ==
  /\ i \in 0 .. Len(input.text)
  /\ symbols \in Nat /\ padding \in Nat /\ symbols + padding <= i
  /\ symbols = SymbolsIn(input.text, i) /\ padding = PadsIn(input.text, i)
  /\ OnlyLegal(input.text, i) /\ PadsLast(input.text, i)

(* What it holds are the bits of the symbols.                               *)
Bits ==
  /\ acc \in 0 .. 2 ^ AccBits - 1 /\ acc \in Nat
  /\ nbits \in {0, 2, 4, 6}
  /\ out \in Seq(0 .. 255)
  /\ Counts(symbols, Len(out), nbits)
  /\ StandsFor(input.text, i, Held(out, nbits, acc), symbols)

(* Why it has ended.                                                        *)
BadByte ==
  /\ i < Len(input.text) /\ input.text[i + 1] \notin Space \cup {Pad}
  /\ padding > 0 \/ ~IsSymbol(input.text[i + 1])
Ended ==
  /\ outcome \in {{}, {"none"}, {"some"}}
  /\ outcome # {"none"} => Len(out) <= MaxOutput
  /\ outcome = {"some"} => i = Len(input.text) /\ WellFormed
  /\ outcome = {"none"} =>
       Len(out) > MaxOutput \/ BadByte \/ (i = Len(input.text) /\ ~WellFormed)

DecoderInv == input \in Input /\ Reading /\ Bits /\ Ended

(* It holds at the start.                                                   *)
LEMMA DecoderInit ==
  ASSUME Init PROVE DecoderInv
  <1>1. input \in Input /\ input.text \in Seq(Nat)
    BY InputAssumption DEF Init
  <1>2. Reading
    <2>1. SymbolsIn(input.text, 0) = 0 /\ PadsIn(input.text, 0) = 0
      BY SymbolsStep, PadsStep
    <2> QED BY <1>1, <2>1 DEF Init, Reading, OnlyLegal, PadsLast
  <1>3. Bits
    <2>1. 0 \in 0 .. 2 ^ AccBits - 1
      BY AccBitsAssumption
    <2> QED BY <2>1 DEF Init, Bits, Counts, StandsFor
  <1>4. Ended
    BY MaxOutputAssumption DEF Init, Ended
  <1> QED BY <1>1, <1>2, <1>3, <1>4 DEF DecoderInv

(* The byte looked at is a natural number.                                  *)
LEMMA ByteIsNat ==
  ASSUME DecoderInv, i < Len(input.text)
  PROVE  /\ i \in Nat /\ Len(input.text) \in Nat /\ i + 1 \in 0 .. Len(input.text)
         /\ input.text[i + 1] \in Nat
  <1>1. input.text \in Seq(Nat)
    BY InputAssumption DEF DecoderInv
  <1>2. i \in 0 .. Len(input.text)
    BY DEF DecoderInv, Reading
  <1>3. Len(input.text) \in Nat /\ \A k \in 1 .. Len(input.text) : input.text[k] \in Nat
    BY <1>1, SeqElements
  <1>4. i + 1 \in 1 .. Len(input.text)
    BY <1>2, <1>3
  <1> QED BY <1>2, <1>3, <1>4

(* White space and padding bring no bits.                                   *)
LEMMA SkipSpaceKeeps ==
  ASSUME DecoderInv, SkipSpace PROVE DecoderInv'
  <1> DEFINE text == input.text
  <1>1. /\ i \in Nat /\ i + 1 \in 0 .. Len(text) /\ text[i + 1] \in Nat
        /\ text[i + 1] \in Space
    BY ByteIsNat DEF SkipSpace, More, Byte
  <1>2. ~IsSymbol(text[i + 1]) /\ text[i + 1] # Pad
    BY <1>1, Alphabet64 DEF Space, Pad
  <1>3. /\ i' = i + 1 /\ text' = text
        /\ UNCHANGED <<input, acc, nbits, padding, symbols, out, outcome>> /\ outcome = {}
    BY DEF SkipSpace, More
  <1>4. SymbolsIn(text, i + 1) = SymbolsIn(text, i) /\ PadsIn(text, i + 1) = PadsIn(text, i)
    BY <1>1, <1>2, SymbolsStep, PadsStep
  <1>5. /\ OnlyLegal(text, i + 1) /\ PadsLast(text, i + 1)
        /\ StandsFor(text, i + 1, Held(out, nbits, acc), symbols)
    BY <1>1, <1>2, OtherByte DEF DecoderInv, Reading, Bits
  <1>6. Reading'
    BY <1>1, <1>3, <1>4, <1>5 DEF DecoderInv, Reading
  <1>7. Bits'
    BY <1>3, <1>5 DEF DecoderInv, Bits
  <1>8. Ended'
    BY <1>3 DEF DecoderInv, Ended
  <1> QED BY <1>3, <1>6, <1>7, <1>8 DEF DecoderInv

LEMMA CountPaddingKeeps ==
  ASSUME DecoderInv, CountPadding PROVE DecoderInv'
  <1> DEFINE text == input.text
  <1>1. /\ i \in Nat /\ i + 1 \in 0 .. Len(text) /\ text[i + 1] \in Nat
        /\ text[i + 1] = Pad
    BY ByteIsNat DEF CountPadding, More, Byte
  <1>2. ~IsSymbol(text[i + 1])
    BY <1>1, Alphabet64
  <1>3. /\ i' = i + 1 /\ text' = text /\ padding' = padding + 1
        /\ UNCHANGED <<input, acc, nbits, symbols, out, outcome>> /\ outcome = {}
    BY DEF CountPadding, More
  <1>4. SymbolsIn(text, i + 1) = SymbolsIn(text, i) /\ PadsIn(text, i + 1) = PadsIn(text, i) + 1
    BY <1>1, <1>2, SymbolsStep, PadsStep
  <1>5. /\ OnlyLegal(text, i + 1) /\ PadsLast(text, i + 1)
        /\ StandsFor(text, i + 1, Held(out, nbits, acc), symbols)
    BY <1>1, <1>2, OtherByte DEF DecoderInv, Reading, Bits
  <1>6. Reading'
    BY <1>1, <1>3, <1>4, <1>5 DEF DecoderInv, Reading
  <1>7. Bits'
    BY <1>3, <1>5 DEF DecoderInv, Bits
  <1>8. Ended'
    BY <1>3 DEF DecoderInv, Ended
  <1> QED BY <1>3, <1>6, <1>7, <1>8 DEF DecoderInv

(* A symbol brings six bits.                                                *)
LEMMA TakeSymbolKeeps ==
  ASSUME DecoderInv, TakeSymbol PROVE DecoderInv'
  <1> DEFINE text == input.text
  <1>1. /\ i \in Nat /\ i + 1 \in 0 .. Len(text) /\ text[i + 1] \in Nat
        /\ text[i + 1] # Pad /\ padding = 0
    BY ByteIsNat DEF TakeSymbol, More, Byte
  <1>2. PICK v \in ValueOf(text[i + 1]) : acc' = (acc * 64 + v) % 2 ^ AccBits
    BY DEF TakeSymbol, Byte
  <1>3. v \in 0 .. 63 /\ ValueOf(text[i + 1]) = {v} /\ IsSymbol(text[i + 1])
    BY <1>1, <1>2, Alphabet64
  <1>4. /\ acc \in Nat /\ nbits \in {0, 2, 4, 6} /\ out \in Seq(0 .. 255)
        /\ symbols \in Nat /\ Counts(symbols, Len(out), nbits)
        /\ symbols = SymbolsIn(text, i)
    BY DEF DecoderInv, Bits, Reading
  <1>5. acc' = Shifted(acc, v)
    BY <1>2 DEF Shifted
  <1>6. acc' \in 0 .. 2 ^ AccBits - 1 /\ acc' \in Nat /\ LowBits(acc, acc', v)
    BY <1>3, <1>4, <1>5, AccumulatorStep, LowBitsCount
  <1>7. nbits' = Shift(nbits) /\ out' = Out(out, nbits, acc')
    BY <1>4 DEF TakeSymbol, Shift, Out
  <1>8. /\ i' = i + 1 /\ symbols' = symbols + 1 /\ UNCHANGED <<input, padding>> /\ text' = text
        /\ outcome = {}
    BY DEF TakeSymbol, More
  <1>9. /\ nbits' \in {0, 2, 4, 6} /\ out' \in Seq(0 .. 255)
        /\ Counts(symbols + 1, Len(out'), nbits')
        /\ Takes(Held(out', nbits', acc'), Held(out, nbits, acc), symbols, v)
    <2>1. SymbolIsTaken(out, nbits, symbols, acc, acc', v)
      BY <1>3, <1>4, <1>6, SymbolTaken
    <2> QED BY <1>7, <2>1 DEF SymbolIsTaken
  <1>10. \A k \in 1 .. i : text[k] # Pad
    BY <1>1, PadsStep DEF DecoderInv, Reading
  <1>11. /\ OnlyLegal(text, i + 1) /\ PadsLast(text, i + 1)
         /\ StandsFor(text, i + 1, Held(out', nbits', acc'), symbols + 1)
    BY <1>1, <1>3, <1>4, <1>9, <1>10, SymbolByte DEF DecoderInv, Reading, Bits
  <1>12. SymbolsIn(text, i + 1) = symbols + 1 /\ PadsIn(text, i + 1) = PadsIn(text, i)
    BY <1>1, <1>3, <1>4, SymbolsStep, PadsStep
  <1>13. Reading'
    BY <1>1, <1>8, <1>11, <1>12 DEF DecoderInv, Reading
  <1>14. Bits'
    BY <1>6, <1>8, <1>9, <1>11 DEF Bits
  <1>15. Ended'
    <2>1. CASE outcome' = {"none"} /\ Len(out') > MaxOutput
      BY <2>1 DEF Ended
    <2>2. CASE UNCHANGED outcome /\ Len(out') <= MaxOutput
      BY <1>8, <2>2 DEF Ended
    <2>3. \/ outcome' = {"none"} /\ Len(out') > MaxOutput
          \/ UNCHANGED outcome /\ Len(out') <= MaxOutput
      <3>1. CASE nbits + 6 < 8
        BY <1>8, <3>1 DEF TakeSymbol, DecoderInv, Ended
      <3>2. CASE ~(nbits + 6 < 8)
        <4>1. IF Len(out') > MaxOutput THEN None ELSE UNCHANGED outcome
          BY <3>2 DEF TakeSymbol
        <4>2. Len(out') \in Nat
          BY <1>9
        <4> QED BY <4>1, <4>2, MaxOutputAssumption DEF None
      <3> QED BY <3>1, <3>2
    <2> QED BY <2>1, <2>2, <2>3
  <1> QED BY <1>8, <1>13, <1>14, <1>15 DEF DecoderInv

(* The rest end the pass.                                                   *)
LEMMA DecoderNext ==
  ASSUME DecoderInv, [Next]_vars PROVE DecoderInv'
  <1>1. CASE SkipSpace
    BY <1>1, SkipSpaceKeeps
  <1>2. CASE CountPadding
    BY <1>2, CountPaddingKeeps
  <1>3. CASE TakeSymbol
    BY <1>3, TakeSymbolKeeps
  <1>4. CASE RejectByte
    <2>1. /\ UNCHANGED <<input, i, acc, nbits, padding, symbols, out>> /\ outcome' = {"none"}
          /\ BadByte'
      BY <1>4 DEF RejectByte, More, Byte, None, BadByte, IsSymbol
    <2>2. Reading' /\ Bits' /\ input' \in Input
      BY <2>1 DEF DecoderInv, Reading, Bits
    <2>3. Ended'
      BY <2>1 DEF Ended
    <2> QED BY <2>2, <2>3 DEF DecoderInv
  <1>5. CASE Finish
    <2>1. /\ UNCHANGED <<input, i, acc, nbits, padding, symbols, out>>
          /\ outcome' = {IF WellFormed THEN "some" ELSE "none"}
          /\ i = Len(input.text) /\ outcome = {}
      BY <1>5 DEF Finish
    <2>2. Reading' /\ Bits' /\ input' \in Input
      BY <2>1 DEF DecoderInv, Reading, Bits
    <2>3. WellFormed' <=> WellFormed
      BY <2>1 DEF WellFormed
    <2>4. Len(out) <= MaxOutput
      BY <2>1 DEF DecoderInv, Ended
    <2>5. Ended'
      <3>1. CASE WellFormed
        BY <2>1, <2>3, <2>4, <3>1 DEF Ended
      <3>2. CASE ~WellFormed
        BY <2>1, <2>3, <2>4, <3>2 DEF Ended
      <3> QED BY <3>1, <3>2
    <2> QED BY <2>2, <2>5 DEF DecoderInv
  <1>6. CASE UNCHANGED vars
    BY <1>6 DEF vars, DecoderInv, Reading, Bits, Ended, BadByte, WellFormed
  <1> QED BY <1>1, <1>2, <1>3, <1>4, <1>5, <1>6 DEF Next, Step, Done

-----------------------------------------------------------------------------
(* What the checks at the end find.                                         *)

(* The number of bytes whose bits are in so many symbols.                   *)
SymbolsFor(l) == (8 * l + 5) \div 6

LEMMA WholeBytes ==
  ASSUME NEW s \in Nat, NEW l \in Nat, NEW nb \in {0, 2, 4, 6}, Counts(s, l, nb)
  PROVE  /\ s # 0 /\ s % 4 # 1 => l > 0 /\ s = SymbolsFor(l)
         /\ \A m \in Nat \ {0} : s = SymbolsFor(m) =>
              l = m /\ s # 0 /\ s % 4 # 1 /\ nb \in {0, 2, 4}
         /\ \A m \in Nat : s <= SymbolsFor(m) => l <= m
  <1>1. PICK g \in Nat : Phase(nb, s, l, g)
    BY Phases
  <1>2. s % 4 # 1 => nb # 6
    BY <1>1 DEF Phase
  <1>3. 6 * s = 8 * l + nb
    BY DEF Counts
  <1>4. s # 0 /\ s % 4 # 1 => l > 0 /\ s = SymbolsFor(l)
    BY <1>1, <1>2, <1>3 DEF SymbolsFor
  <1>5. ASSUME NEW m \in Nat \ {0}, s = SymbolsFor(m)
        PROVE  l = m /\ s # 0 /\ s % 4 # 1 /\ nb \in {0, 2, 4}
    <2>1. 6 * s <= 8 * m + 5 /\ 8 * m <= 6 * s
      BY <1>5 DEF SymbolsFor
    <2>2. l = m /\ nb # 6
      BY <1>3, <2>1
    <2>3. s % 4 # 1 /\ s # 0
      BY <1>1, <2>1, <2>2 DEF Phase
    <2> QED BY <2>2, <2>3
  <1>6. ASSUME NEW m \in Nat, s <= SymbolsFor(m)
        PROVE  l <= m
    <2>1. 6 * s <= 8 * m + 5
      BY <1>6 DEF SymbolsFor
    <2> QED BY <1>3, <2>1
  <1> QED BY <1>4, <1>5, <1>6

(* With no bits left over that are not zero, nothing but zeros is held      *)
(* behind the bytes that have gone out.                                     *)
LEMMA NothingHeld ==
  ASSUME NEW o \in Seq(0 .. 255), NEW nb \in {0, 2, 4, 6}, NEW a \in Nat, a % 2 ^ nb = 0
  PROVE  \A m \in Nat : Sextet(Held(o, nb, a), m) = Sextet(o, m)
  <1>1. CASE nb = 0
    BY <1>1 DEF Held
  <1>2. CASE nb # 0
    <2> DEFINE h == Append(o, 0)
    <2>1. 0 * 2 ^ (8 - nb) = 0
      <3>1. 8 - nb \in {2, 4, 6}
        BY <1>2
      <3> QED BY <3>1, Powers
    <2>2. Held(o, nb, a) = h
      BY <1>2, <2>1 DEF Held
    <2>3. \A k \in Nat : ByteAt(h, k) = ByteAt(o, k)
      <3>1. Longer(h, o, Len(o), 0)
        BY ByteOfAppend
      <3>2. Len(o) \in Nat
        OBVIOUS
      <3>3. \A k \in Nat : k > Len(o) + 1 => ByteAt(h, k) = 0
        BY <3>1, <3>2, ByteOf DEF Longer
      <3>4. \A k \in Nat : k > Len(o) => ByteAt(h, k) = 0
        BY <3>1, <3>2, <3>3 DEF Longer
      <3>5. \A k \in Nat : k > Len(o) => ByteAt(o, k) = 0
        BY ByteOf
      <3>6. \A k \in 1 .. Len(o) : ByteAt(h, k) = ByteAt(o, k)
        BY <3>1 DEF Longer, SameBytes
      <3>7. ByteAt(h, 0) = ByteAt(o, 0)
        BY DEF ByteAt
      <3> HIDE DEF h
      <3> QED BY <3>2, <3>4, <3>5, <3>6, <3>7
    <2> SUFFICES ASSUME NEW m \in Nat PROVE Sextet(h, m) = Sextet(o, m)
      BY <2>2
    <2>4. PICK g \in Nat : m \in {4 * g, 4 * g + 1, 4 * g + 2, 4 * g + 3}
      BY FourPlaces
    <2>5. Parts(h, g) /\ Parts(o, g)
      BY SextetParts
    <2> HIDE DEF h
    <2>6. /\ ByteAt(h, 3 * g + 1) = ByteAt(o, 3 * g + 1)
          /\ ByteAt(h, 3 * g + 2) = ByteAt(o, 3 * g + 2)
          /\ ByteAt(h, 3 * g + 3) = ByteAt(o, 3 * g + 3)
      BY <2>3
    <2> QED BY <2>4, <2>5, <2>6 DEF Parts
  <1> QED BY <1>1, <1>2

(* What is decoded is an encoding of what it is decoded to.                 *)
LEMMA SomeIsEncoding ==
  ASSUME DecoderInv, outcome = {"some"}
  PROVE  Encodes(input.text, out) /\ Len(out) <= MaxOutput
  <1> DEFINE text == input.text
             n == Len(text)
             h == Held(out, nbits, acc)
  <1>1. /\ i = n /\ WellFormed /\ Len(out) <= MaxOutput
    BY DEF DecoderInv, Ended
  <1>2. /\ acc \in Nat /\ nbits \in {0, 2, 4, 6} /\ out \in Seq(0 .. 255) /\ symbols \in Nat
        /\ Counts(symbols, Len(out), nbits) /\ Len(out) \in Nat
        /\ symbols = SymbolsIn(text, n) /\ padding = PadsIn(text, n)
        /\ OnlyLegal(text, n) /\ PadsLast(text, n) /\ StandsFor(text, n, h, symbols)
    BY <1>1 DEF DecoderInv, Bits, Reading
  <1>3. Len(out) > 0 /\ SymbolsIn(text, n) = (8 * Len(out) + 5) \div 6
    BY <1>1, <1>2, WholeBytes DEF WellFormed, SymbolsFor
  <1>4. \A m \in Nat : Sextet(h, m) = Sextet(out, m)
    BY <1>1, <1>2, NothingHeld DEF WellFormed
  <1>5. text \in Seq(Nat)
    BY InputAssumption DEF DecoderInv
  <1>6. DOMAIN text = 1 .. n
    BY <1>5, SeqElements
  <1>7. out # <<>>
    BY <1>3
  <1> HIDE DEF h
  <1>8. \A k \in DOMAIN text : IsSymbol(text[k]) =>
          ValueOf(text[k]) = {Sextet(out, SymbolsIn(text, k - 1))}
    <2> SUFFICES ASSUME NEW k \in 1 .. n, IsSymbol(text[k])
                 PROVE  ValueOf(text[k]) = {Sextet(out, SymbolsIn(text, k - 1))}
      BY <1>6
    <2>1. SymbolsIn(text, k - 1) \in 0 .. symbols - 1
            /\ ValueOf(text[k]) = {Sextet(h, SymbolsIn(text, k - 1))}
      BY <1>2 DEF StandsFor
    <2> QED BY <1>4, <2>1
  <1>9. \A k \in DOMAIN text : IsSymbol(text[k]) \/ text[k] \in Space \cup {Pad}
    BY <1>2, <1>6 DEF OnlyLegal
  <1>10. \A j, k \in DOMAIN text : j < k /\ text[j] = Pad => ~IsSymbol(text[k])
    BY <1>2, <1>6 DEF PadsLast
  <1>11. PadsIn(text, n) <= 2 /\ IsUtf8(out)
    BY <1>1, <1>2 DEF WellFormed
  <1>12. Encodes(text, out)
    BY <1>2, <1>3, <1>7, <1>8, <1>9, <1>10, <1>11 DEF Encodes
  <1> QED BY <1>1, <1>12

-----------------------------------------------------------------------------
(* The other way: the groups determine the bytes.                           *)

GroupsFix(x1, x2, x3, y1, y2, y3) ==
  /\ x1 \div 4 = y1 \div 4
  /\ 16 * (x1 % 4) + x2 \div 16 = 16 * (y1 % 4) + y2 \div 16
  => /\ x1 = y1 /\ x2 \div 16 = y2 \div 16
     /\ 4 * (x2 % 16) + x3 \div 64 = 4 * (y2 % 16) + y3 \div 64 =>
          /\ x2 = y2 /\ x3 \div 64 = y3 \div 64
          /\ x3 % 64 = y3 % 64 => x3 = y3

LEMMA GroupsFixBytes ==
  ASSUME NEW x1 \in 0 .. 255, NEW x2 \in 0 .. 255, NEW x3 \in 0 .. 255,
         NEW y1 \in 0 .. 255, NEW y2 \in 0 .. 255, NEW y3 \in 0 .. 255
  PROVE  GroupsFix(x1, x2, x3, y1, y2, y3)
  <1>1. x1 \div 4 = y1 \div 4 /\ 16 * (x1 % 4) + x2 \div 16 = 16 * (y1 % 4) + y2 \div 16 => x1 = y1
    OBVIOUS
  <1>2. 16 * (x1 % 4) + x2 \div 16 = 16 * (y1 % 4) + y2 \div 16 => x2 \div 16 = y2 \div 16
    OBVIOUS
  <1>3. 4 * (x2 % 16) + x3 \div 64 = 4 * (y2 % 16) + y3 \div 64 => x2 % 16 = y2 % 16
    OBVIOUS
  <1>4. 4 * (x2 % 16) + x3 \div 64 = 4 * (y2 % 16) + y3 \div 64 => x3 \div 64 = y3 \div 64
    OBVIOUS
  <1>5. x2 \div 16 = y2 \div 16 /\ x2 % 16 = y2 % 16 => x2 = y2
    OBVIOUS
  <1>6. x3 \div 64 = y3 \div 64 /\ x3 % 64 = y3 % 64 => x3 = y3
    OBVIOUS
  <1> QED BY <1>1, <1>2, <1>3, <1>4, <1>5, <1>6 DEF GroupsFix

(* The bytes of a whole or a part of a group.                               *)
LEMMA EqualBytes ==
  ASSUME NEW one \in Seq(0 .. 255), NEW two \in Seq(0 .. 255), NEW g \in Nat,
         Sextet(one, 4 * g) = Sextet(two, 4 * g),
         Sextet(one, 4 * g + 1) = Sextet(two, 4 * g + 1)
  PROVE  /\ ByteAt(one, 3 * g + 1) = ByteAt(two, 3 * g + 1)
         /\ ByteAt(one, 3 * g + 2) \div 16 = ByteAt(two, 3 * g + 2) \div 16
         /\ Sextet(one, 4 * g + 2) = Sextet(two, 4 * g + 2) =>
              /\ ByteAt(one, 3 * g + 2) = ByteAt(two, 3 * g + 2)
              /\ ByteAt(one, 3 * g + 3) \div 64 = ByteAt(two, 3 * g + 3) \div 64
              /\ Sextet(one, 4 * g + 3) = Sextet(two, 4 * g + 3) =>
                   ByteAt(one, 3 * g + 3) = ByteAt(two, 3 * g + 3)
  <1> DEFINE x1 == ByteAt(one, 3 * g + 1)
             x2 == ByteAt(one, 3 * g + 2)
             x3 == ByteAt(one, 3 * g + 3)
             y1 == ByteAt(two, 3 * g + 1)
             y2 == ByteAt(two, 3 * g + 2)
             y3 == ByteAt(two, 3 * g + 3)
  <1>1. /\ x1 \in 0 .. 255 /\ x2 \in 0 .. 255 /\ x3 \in 0 .. 255
        /\ y1 \in 0 .. 255 /\ y2 \in 0 .. 255 /\ y3 \in 0 .. 255
    <2>1. 3 * g + 1 \in Nat /\ 3 * g + 2 \in Nat /\ 3 * g + 3 \in Nat
      OBVIOUS
    <2>2. \A k \in Nat : ByteAt(one, k) \in 0 .. 255 /\ ByteAt(two, k) \in 0 .. 255
      BY ByteOf
    <2> QED BY <2>1, <2>2
  <1>2. Parts(one, g) /\ Parts(two, g)
    BY SextetParts
  <1>3. /\ x1 \div 4 = y1 \div 4
        /\ 16 * (x1 % 4) + x2 \div 16 = 16 * (y1 % 4) + y2 \div 16
        /\ Sextet(one, 4 * g + 2) = Sextet(two, 4 * g + 2) =>
             4 * (x2 % 16) + x3 \div 64 = 4 * (y2 % 16) + y3 \div 64
        /\ Sextet(one, 4 * g + 3) = Sextet(two, 4 * g + 3) => x3 % 64 = y3 % 64
    <2> HIDE DEF x1, x2, x3, y1, y2, y3
    <2> QED BY <1>2 DEF Parts, x1, x2, x3, y1, y2, y3
  <1> HIDE DEF x1, x2, x3, y1, y2, y3
  <1>4. GroupsFix(x1, x2, x3, y1, y2, y3)
    BY <1>1, GroupsFixBytes
  <1> QED BY <1>3, <1>4 DEF GroupsFix, x1, x2, x3, y1, y2, y3

(* Groups that are all the same leave no room for other bytes, nor for bits *)
(* behind them that are not zero.                                           *)
NoneOver(a, nb) == a % 2 ^ nb = 0

LEMMA SextetsFixBytes ==
  ASSUME NEW o \in Seq(0 .. 255), NEW bytes \in Seq(0 .. 255), Len(bytes) = Len(o),
         NEW nb \in {0, 2, 4}, NEW a \in Nat, NEW s \in Nat, Counts(s, Len(o), nb),
         SameSextets(Held(o, nb, a), bytes, s)
  PROVE  o = bytes /\ NoneOver(a, nb)
  <1> DEFINE h == Held(o, nb, a)
             l == Len(o)
             b == (a % 2 ^ nb) * 2 ^ (8 - nb)
  <1>1. PICK g \in Nat : Phase(nb, s, l, g)
    BY Phases
  <1>2. l \in Nat
    OBVIOUS
  <1>3. b \in 0 .. 255 /\ (nb = 4 => b \div 16 = a % 16) /\ (nb = 2 => b \div 64 = a % 4)
    <2>1. CASE nb = 0
      <3>1. a % 1 = 0
        OBVIOUS
      <3>2. b = 0
        BY <2>1, <3>1, Powers
      <3> QED BY <2>1, <3>2
    <2>2. CASE nb = 2
      <3>1. b = (a % 4) * 64
        BY <2>2, Powers
      <3>2. (a % 4) * 64 \in 0 .. 255 /\ ((a % 4) * 64) \div 64 = a % 4
        OBVIOUS
      <3> QED BY <2>2, <3>1, <3>2
    <2>3. CASE nb = 4
      <3>1. b = (a % 16) * 16
        BY <2>3, Powers
      <3>2. (a % 16) * 16 \in 0 .. 255 /\ ((a % 16) * 16) \div 16 = a % 16
        OBVIOUS
      <3> QED BY <2>3, <3>1, <3>2
    <2> QED BY <2>1, <2>2, <2>3
  <1>4. h \in Seq(0 .. 255) /\ SameBytes(h, o, l) /\ (nb # 0 => ByteAt(h, l + 1) = b)
    <2>1. CASE nb = 0
      BY <2>1 DEF Held, SameBytes
    <2>2. CASE nb # 0
      <3>1. h = Append(o, b)
        BY <2>2 DEF Held
      <3> HIDE DEF b, h
      <3>2. Longer(Append(o, b), o, l, b)
        BY <1>3, ByteOfAppend
      <3> QED BY <3>1, <3>2 DEF Longer
    <2> QED BY <2>1, <2>2
  <1> HIDE DEF b, h
  <1>5. SameSextets(h, bytes, s)
    BY DEF h
  <1>6. ASSUME NEW f \in Nat, 4 * f + 1 < s
        PROVE  /\ Sextet(h, 4 * f) = Sextet(bytes, 4 * f)
               /\ Sextet(h, 4 * f + 1) = Sextet(bytes, 4 * f + 1)
               /\ 4 * f + 2 < s => Sextet(h, 4 * f + 2) = Sextet(bytes, 4 * f + 2)
               /\ 4 * f + 3 < s => Sextet(h, 4 * f + 3) = Sextet(bytes, 4 * f + 3)
    BY <1>5, <1>6 DEF SameSextets
  <1>7. ASSUME NEW f \in Nat, 4 * f + 1 < s
        PROVE  /\ ByteAt(h, 3 * f + 1) = ByteAt(bytes, 3 * f + 1)
               /\ ByteAt(h, 3 * f + 2) \div 16 = ByteAt(bytes, 3 * f + 2) \div 16
               /\ 4 * f + 2 < s =>
                    /\ ByteAt(h, 3 * f + 2) = ByteAt(bytes, 3 * f + 2)
                    /\ ByteAt(h, 3 * f + 3) \div 64 = ByteAt(bytes, 3 * f + 3) \div 64
                    /\ 4 * f + 3 < s => ByteAt(h, 3 * f + 3) = ByteAt(bytes, 3 * f + 3)
    BY <1>4, <1>6, <1>7, EqualBytes
  <1>8. ASSUME NEW k \in 1 .. l
        PROVE  o[k] = bytes[k]
    <2>1. PICK f \in Nat : k \in {3 * f + 1, 3 * f + 2, 3 * f + 3}
      <3>1. k - 1 \in Nat /\ (k - 1) \div 3 \in Nat
              /\ k \in {3 * ((k - 1) \div 3) + 1, 3 * ((k - 1) \div 3) + 2, 3 * ((k - 1) \div 3) + 3}
        BY <1>2
      <3> QED BY <3>1
    <2>2. /\ 4 * f + 1 < s
          /\ k \in {3 * f + 2, 3 * f + 3} => 4 * f + 2 < s
          /\ k = 3 * f + 3 => 4 * f + 3 < s
      BY <1>1, <1>2, <2>1 DEF Phase
    <2>3. ByteAt(h, k) = ByteAt(bytes, k)
      BY <1>7, <2>1, <2>2
    <2>4. ByteAt(h, k) = o[k] /\ ByteAt(bytes, k) = bytes[k]
      BY <1>4, ByteOf DEF SameBytes
    <2> QED BY <2>3, <2>4
  <1>9. o = bytes
    BY <1>8
  <1>10. ByteAt(bytes, l + 1) = 0
    BY <1>2, ByteOf
  <1>11. a % 2 ^ nb = 0
    <2>1. CASE nb = 0
      <3>1. a % 1 = 0
        OBVIOUS
      <3> QED BY <2>1, <3>1, Powers
    <2>2. CASE nb = 2
      <3>1. s = 4 * g + 3 /\ l = 3 * g + 2
        BY <1>1, <2>2 DEF Phase
      <3>2. ByteAt(h, 3 * g + 3) \div 64 = ByteAt(bytes, 3 * g + 3) \div 64
        BY <1>7, <3>1
      <3>3. l + 1 = 3 * g + 3
        BY <3>1
      <3>4. b \div 64 = 0 \div 64
        BY <1>4, <1>10, <2>2, <3>2, <3>3
      <3>5. 0 \div 64 = 0
        OBVIOUS
      <3> QED BY <1>3, <2>2, <3>4, <3>5, Powers
    <2>3. CASE nb = 4
      <3>1. s = 4 * g + 2 /\ l = 3 * g + 1
        BY <1>1, <2>3 DEF Phase
      <3>2. ByteAt(h, 3 * g + 2) \div 16 = ByteAt(bytes, 3 * g + 2) \div 16
        BY <1>7, <3>1
      <3>3. l + 1 = 3 * g + 2
        BY <3>1
      <3>4. b \div 16 = 0 \div 16
        BY <1>4, <1>10, <2>3, <3>2, <3>3
      <3>5. 0 \div 16 = 0
        OBVIOUS
      <3> QED BY <1>3, <2>3, <3>4, <3>5, Powers
    <2> QED BY <2>1, <2>2, <2>3
  <1> QED BY <1>9, <1>11 DEF NoneOver

(* An encoding that fits is decoded, and to what was encoded.               *)
LEMMA EncodingIsDecoded ==
  ASSUME DecoderInv, NEW bytes, Encodes(input.text, bytes), outcome # {}, Len(bytes) <= MaxOutput
  PROVE  outcome = {"some"} /\ out = bytes
  <1> DEFINE text == input.text
             n == Len(text)
             h == Held(out, nbits, acc)
             l == Len(bytes)
  <1>1. text \in Seq(Nat) /\ n \in Nat /\ DOMAIN text = 1 .. n
    <2>1. text \in Seq(Nat)
      BY InputAssumption DEF DecoderInv
    <2> QED BY <2>1, SeqElements
  <1>2. /\ bytes \in Seq(0 .. 255) /\ l \in Nat \ {0} /\ IsUtf8(bytes)
        /\ SymbolsIn(text, n) = SymbolsFor(l)
    <2>1. bytes \in Seq(0 .. 255) /\ bytes # <<>> /\ IsUtf8(bytes)
            /\ SymbolsIn(text, n) = SymbolsFor(l)
      BY DEF Encodes, SymbolsFor
    <2> QED BY <2>1
  <1>3. /\ acc \in Nat /\ nbits \in {0, 2, 4, 6} /\ out \in Seq(0 .. 255) /\ Len(out) \in Nat
        /\ Counts(symbols, Len(out), nbits)
        /\ i \in 0 .. n /\ symbols \in Nat
        /\ symbols = SymbolsIn(text, i) /\ padding = PadsIn(text, i)
        /\ StandsFor(text, i, h, symbols)
    BY DEF DecoderInv, Reading, Bits
  <1>4. Len(out) <= MaxOutput
    <2>1. symbols <= SymbolsFor(l)
      BY <1>1, <1>2, <1>3, SymbolsGrow
    <2>2. Len(out) <= l
      BY <1>2, <1>3, <2>1, WholeBytes
    <2> QED BY <1>2, <1>3, <2>2, MaxOutputAssumption
  <1>5. ~BadByte
    <2> SUFFICES ASSUME BadByte PROVE FALSE
      OBVIOUS
    <2>1. i + 1 \in DOMAIN text /\ text[i + 1] \notin Space \cup {Pad} /\ i \in Nat
      BY <1>1, <1>3 DEF BadByte
    <2>2. IsSymbol(text[i + 1])
      BY <2>1 DEF Encodes
    <2>3. padding > 0
      BY <2>2 DEF BadByte
    <2>4. PICK k \in 1 .. i : text[k] = Pad
      <3> DEFINE P == {k \in 1 .. i : text[k] = Pad}
      <3>1. Cardinality(P) > 0
        BY <1>3, <2>3 DEF PadsIn
      <3>2. P # {}
        <4> HIDE DEF P
        <4> QED BY <3>1, FS_EmptySet
      <3> QED BY <3>2
    <2>5. k \in DOMAIN text /\ k < i + 1
      BY <1>1, <1>3
    <2> QED BY <2>1, <2>2, <2>4, <2>5 DEF Encodes
  <1>6. ASSUME i = n PROVE WellFormed /\ out = bytes
    <2>1. symbols = SymbolsFor(l)
      BY <1>2, <1>3, <1>6
    <2>2. Len(out) = l /\ symbols # 0 /\ symbols % 4 # 1 /\ nbits \in {0, 2, 4}
      BY <1>2, <1>3, <2>1, WholeBytes
    <2>3. SameSextets(h, bytes, symbols)
      <3> SUFFICES ASSUME NEW m \in 0 .. symbols - 1 PROVE Sextet(h, m) = Sextet(bytes, m)
        BY DEF SameSextets
      <3>1. PICK k \in 1 .. n : IsSymbol(text[k]) /\ m = SymbolsIn(text, k - 1)
        BY <1>3, <1>6 DEF StandsFor
      <3>2. ValueOf(text[k]) = {Sextet(h, m)}
        BY <1>3, <1>6, <3>1 DEF StandsFor
      <3>3. ValueOf(text[k]) = {Sextet(bytes, m)}
        BY <1>1, <3>1 DEF Encodes
      <3> QED BY <3>2, <3>3
    <2>4. out = bytes /\ NoneOver(acc, nbits)
      <3>1. Counts(symbols, Len(out), nbits) /\ Len(bytes) = Len(out)
        BY <1>3, <2>2
      <3> QED BY <1>2, <1>3, <2>2, <2>3, <3>1, SextetsFixBytes
    <2>5. padding <= 2
      BY <1>3, <1>6 DEF Encodes
    <2> QED BY <1>2, <2>2, <2>4, <2>5 DEF WellFormed, NoneOver
  <1>7. Len(out) \in Nat /\ ~(Len(out) > MaxOutput)
    BY <1>3, <1>4, MaxOutputAssumption
  <1>8. outcome = {"some"}
    BY <1>5, <1>6, <1>7 DEF DecoderInv, Ended
  <1>9. i = n
    BY <1>8 DEF DecoderInv, Ended
  <1> QED BY <1>6, <1>8, <1>9

(* What is decoded to six bytes or more has eight symbols, all before the   *)
(* padding.                                                                 *)
LEMMA DecodedLooksEncoded ==
  ASSUME DecoderInv, outcome = {"some"}, Len(out) >= 6
  PROVE  LooksLikeBase64(input.text)
  <1> DEFINE text == input.text
             n == Len(text)
             S == {k \in 1 .. n : IsSymbol(text[k])}
             body == {k \in DOMAIN text : text[k] \notin Space}
             Before(pad) == {k \in body : k < pad}
  <1>1. Encodes(text, out)
    BY SomeIsEncoding
  <1>2. text \in Seq(Nat)
    BY InputAssumption DEF DecoderInv
  <1>3. n \in Nat /\ DOMAIN text = 1 .. n /\ \A k \in 1 .. n : text[k] \in Nat
    BY <1>2, SeqElements
  <1>4. Cardinality(S) >= 8
    <2>1. out \in Seq(0 .. 255) /\ SymbolsIn(text, n) = (8 * Len(out) + 5) \div 6
      BY <1>1 DEF Encodes
    <2>2. Len(out) \in Nat
      BY <2>1
    <2>3. (8 * Len(out) + 5) \div 6 >= 8
      BY <2>2
    <2> QED BY <2>1, <2>3 DEF SymbolsIn
  <1>5. IsFiniteSet(1 .. n)
    <2>1. 1 \in Int /\ n \in Int
      BY <1>3
    <2> HIDE DEF n
    <2> QED BY <2>1, FS_Interval
  <1>6. S \in SUBSET body /\ body \in SUBSET (1 .. n)
    <2>1. \A k \in S : text[k] \notin Space
      BY <1>3, Alphabet64
    <2> QED BY <1>3, <2>1
  <1>7. ASSUME NEW T, S \in SUBSET T, T \in SUBSET (1 .. n)
        PROVE  Cardinality(T) >= 8
    <2> HIDE DEF S
    <2>1. IsFiniteSet(T)
      BY <1>5, <1>7, FS_Subset
    <2>2. Cardinality(S) <= Cardinality(T) /\ IsFiniteSet(S)
      BY <1>7, <2>1, FS_Subset
    <2>3. Cardinality(S) \in Nat /\ Cardinality(T) \in Nat
      BY <2>1, <2>2, FS_CardinalityType
    <2> QED BY <1>4, <2>2, <2>3
  <1>8. Cardinality(body) >= 8
    BY <1>6, <1>7
  <1>9. \A k \in body : ValueOf(text[k]) # {} \/ text[k] = Pad
    BY <1>1 DEF Encodes, IsSymbol
  <1>10. ASSUME NEW pad \in body, text[pad] = Pad
         PROVE  Cardinality(Before(pad)) >= 8
    <2>1. ASSUME NEW k \in S PROVE k < pad
      <3>1. text[k] # Pad
        BY <1>3, Alphabet64
      <3>2. ~(pad < k)
        BY <1>1, <1>3, <1>10 DEF Encodes
      <3> QED BY <1>3, <1>10, <3>1, <3>2
    <2>2. S \in SUBSET Before(pad) /\ Before(pad) \in SUBSET (1 .. n)
      BY <1>6, <2>1
    <2> QED BY <1>7, <2>2
  <1> QED BY <1>8, <1>9, <1>10 DEF LooksLikeBase64

-----------------------------------------------------------------------------
(* The theorems. *)

(* The invariant.                                                           *)
LEMMA DecoderInvariant == Spec => []DecoderInv
  <1>1. Init => DecoderInv
    BY DecoderInit
  <1>2. DecoderInv /\ [Next]_vars => DecoderInv'
    BY DecoderNext
  <1> QED BY <1>1, <1>2, PTL DEF Spec

(* b64.rs never loses count: the bits in hand are those of the symbols seen *)
(* that have not gone out, fewer than a byte, whatever the text.            *)
THEOREM DecoderTypeCorrect == Spec => []TypeOK
  <1>1. DecoderInv => TypeOK
    BY DEF DecoderInv, Reading, Bits, Counts, TypeOK
  <1> QED BY <1>1, DecoderInvariant, PTL

(* What decode hands out as text, the text it was given encodes, in the     *)
(* sense of RFC 4648 (one or two superfluous '=' are let through), and it is *)
(* no longer than MAX_B64_OUTPUT.                                           *)
OnlyEncodings ==
  outcome = {"some"} => Encodes(input.text, out) /\ Len(out) <= MaxOutput
THEOREM DecodesOnlyEncodings == Spec => []OnlyEncodings
  <1>1. DecoderInv => OnlyEncodings
    BY SomeIsEncoding DEF OnlyEncodings
  <1> QED BY <1>1, DecoderInvariant, PTL

(* Every encoding of a text that fits, padded or not and with white space   *)
(* anywhere, decode turns back into the bytes that were encoded, for every  *)
(* accumulator of at least twelve bits.                                     *)
THEOREM DecodesWhatWasEncodedAlways == Spec => []DecodesWhatWasEncoded
  <1>1. DecoderInv => DecodesWhatWasEncoded
    <2> SUFFICES ASSUME DecoderInv, NEW bytes \in input.meant, outcome # {}, Len(bytes) <= MaxOutput
                 PROVE  outcome = {"some"} /\ out = bytes
      BY DEF DecodesWhatWasEncoded
    <2>1. Encodes(input.text, bytes)
      BY InputAssumption DEF DecoderInv
    <2> QED BY <2>1, EncodingIsDecoded
  <1> QED BY <1>1, DecoderInvariant, PTL

(* A text that is called broken is one that encodes nothing.                *)
BrokenEncodesNothing ==
  \A x \in Input : x.by = "broken" => \A bytes \in Seq(0 .. 255) : ~Encodes(x.text, bytes)

(* decode answers None for every text that encodes nothing, and for one     *)
(* that encodes too much.                                                   *)
THEOREM BrokenIsRejectedAlways ==
  ASSUME BrokenEncodesNothing
  PROVE  Spec => []BrokenIsRejected
  <1>1. DecoderInv => BrokenIsRejected
    <2> SUFFICES ASSUME DecoderInv, outcome = {"some"}
                 PROVE  input.by # "broken" /\ Len(out) <= MaxOutput
      BY DEF BrokenIsRejected
    <2>1. Encodes(input.text, out) /\ Len(out) <= MaxOutput
      BY SomeIsEncoding
    <2>2. out \in Seq(0 .. 255) /\ input \in Input
      BY DEF DecoderInv, Bits
    <2> QED BY <2>1, <2>2 DEF BrokenEncodesNothing
  <1> QED BY <1>1, DecoderInvariant, PTL

(* looks_like_base64 keeps nothing from decode that decodes to six bytes or *)
(* more.                                                                    *)
THEOREM DecodableLooksEncodedAlways == Spec => []DecodableLooksEncoded
  <1>1. DecoderInv => DecodableLooksEncoded
    BY DecodedLooksEncoded DEF DecodableLooksEncoded
  <1> QED BY <1>1, DecoderInvariant, PTL
=============================================================================
