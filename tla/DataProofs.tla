------------------------------ MODULE DataProofs ------------------------------
(***************************************************************************)
(* Machine-checked facts about the data the components share: options,     *)
(* sequences whose elements are of no particular set, and the induction    *)
(* that the proofs about recursive functions rest on.                      *)
(***************************************************************************)
EXTENDS Options, SequencesExt, SequenceTheorems, WellFoundedInduction, TLAPS

(* Unwrapping a non-empty option yields its element.                        *)
LEMMA GetMember ==
  ASSUME NEW S, S # {}
  PROVE  Get(S) \in S
BY DEF Get

(* A set of naturals that is not empty has a least member: the form of      *)
(* induction used here is that a property without a least counterexample    *)
(* has none.                                                                *)
LEMMA LeastExists ==
  ASSUME NEW S \in SUBSET Nat, S # {}
  PROVE  \E m \in S : \A x \in S : m <= x
<1>1. \E m \in S : \A x \in S : <<x, m>> \notin OpToRel(<, Nat)
  BY NatLessThanWellFounded, WFMin
<1>2. \A x, m \in S : <<x, m>> \notin OpToRel(<, Nat) => m <= x
  BY DEF OpToRel
<1>3. QED
  BY <1>1, <1>2

(* What holds of 0, and of k whenever it holds of k - 1, holds up to n.      *)
LEMMA InductionUpTo ==
  ASSUME NEW n \in Nat, NEW Holds, 0 \in Holds,
         \A k \in 1 .. n : k - 1 \in Holds => k \in Holds
  PROVE  \A k \in 0 .. n : k \in Holds
<1> DEFINE Lacks == {k \in 0 .. n : k \notin Holds}
<1> SUFFICES ASSUME Lacks # {} PROVE FALSE
  OBVIOUS
<1>1. PICK k \in Lacks : \A m \in Lacks : k <= m
  <2>1. Lacks \in SUBSET Nat
    OBVIOUS
  <2> HIDE DEF Lacks
  <2>2. QED
    BY <2>1, LeastExists
<1>2. k \in 1 .. n /\ k - 1 \in 0 .. n /\ ~(k <= k - 1)
  OBVIOUS
<1>3. k - 1 \in Holds
  BY <1>1, <1>2
<1>4. QED
  BY <1>2, <1>3

-----------------------------------------------------------------------------
(* Sequences. *)

IsSeq(s) == s \in Seq(ToSet(s))

(* The indices and the elements of a sequence.                              *)
LEMMA SeqElements ==
  ASSUME NEW S, NEW s \in Seq(S)
  PROVE  /\ Len(s) \in Nat /\ DOMAIN s = 1 .. Len(s)
         /\ \A i \in DOMAIN s : s[i] \in S
OBVIOUS

(* A sequence of elements of some set is a sequence.                        *)
LEMMA SeqIsSeq ==
  ASSUME NEW S, NEW s \in Seq(S)
  PROVE  IsSeq(s) /\ ToSet(s) \subseteq S
BY DEF IsSeq, ToSet

(* A function on 1 .. n is a sequence of its values.                        *)
LEMMA FunctionIsSeq ==
  ASSUME NEW n \in Nat, NEW T, NEW f \in [1 .. n -> T]
  PROVE  IsSeq(f) /\ Len(f) = n /\ ToSet(f) = {f[i] : i \in 1 .. n}
BY DEF IsSeq, ToSet

(* So is the function of a sequence's indices that has a value for each.    *)
LEMMA MapIsSeq ==
  ASSUME NEW s, IsSeq(s), NEW f, f = [i \in DOMAIN s |-> f[i]]
  PROVE  IsSeq(f) /\ Len(f) = Len(s) /\ ToSet(f) = {f[i] : i \in DOMAIN s}
<1>1. Len(s) \in Nat /\ DOMAIN s = 1 .. Len(s)
  BY DEF IsSeq
<1>2. f \in [1 .. Len(s) -> {f[i] : i \in DOMAIN s}]
  BY <1>1
<1>3. QED
  BY <1>1, <1>2, FunctionIsSeq

(* Mapping one element more appends its image.                              *)
LEMMA MapAppend ==
  ASSUME NEW S, NEW T, NEW f \in [S -> T], NEW s \in Seq(S), NEW x \in S
  PROVE  [n \in DOMAIN Append(s, x) |-> f[Append(s, x)[n]]]
           = Append([n \in DOMAIN s |-> f[s[n]]], f[x])
<1> DEFINE more == Append(s, x)
           old == [n \in DOMAIN s |-> f[s[n]]]
<1>1. /\ more \in Seq(S) /\ Len(more) = Len(s) + 1 /\ Len(s) \in Nat
      /\ more[Len(s) + 1] = x /\ DOMAIN more = 1 .. Len(s) + 1
      /\ DOMAIN s = 1 .. Len(s)
      /\ \A n \in 1 .. Len(s) : more[n] = s[n]
  BY AppendProperties
<1>2. \A n \in DOMAIN s : s[n] \in S
  BY SeqElements
<1>3. \A n \in DOMAIN more : more[n] \in S
  BY <1>1, SeqElements
<1> HIDE DEF more
<1> DEFINE new == [n \in DOMAIN more |-> f[more[n]]]
<1>4. old \in Seq(T) /\ Len(old) = Len(s)
  BY <1>1, <1>2
<1>5. new \in Seq(T) /\ Len(new) = Len(s) + 1
  BY <1>1, <1>3
<1>6. \A n \in 1 .. Len(s) : old[n] = f[s[n]] /\ new[n] = f[more[n]]
  BY <1>1
<1>7. new[Len(s) + 1] = f[x]
  BY <1>1
<1>8. /\ Append(old, f[x]) \in Seq(T)
      /\ Len(Append(old, f[x])) = Len(s) + 1
      /\ \A n \in 1 .. Len(s) : Append(old, f[x])[n] = old[n]
      /\ Append(old, f[x])[Len(s) + 1] = f[x]
  BY <1>4, AppendProperties
<1>9. \A n \in 1 .. Len(s) + 1 : new[n] = Append(old, f[x])[n]
  BY <1>1, <1>6, <1>7, <1>8
<1> HIDE DEF old, new
<1>10. new = Append(old, f[x])
  BY <1>5, <1>8, <1>9, SeqEqual
<1>11. QED
  BY <1>10 DEF new, old, more

(* The empty sequence and a single element.                                 *)
LEMMA ShortSeqs ==
  /\ IsSeq(<<>>) /\ ToSet(<<>>) = {}
  /\ \A x : IsSeq(<<x>>) /\ ToSet(<<x>>) = {x}
BY DEF IsSeq, ToSet

(* The elements of a concatenation are those of its parts.                  *)
LEMMA ConcatIsSeq ==
  ASSUME NEW s, NEW t, IsSeq(s), IsSeq(t)
  PROVE  IsSeq(s \o t) /\ ToSet(s \o t) = ToSet(s) \cup ToSet(t)
<1> DEFINE S == ToSet(s) \cup ToSet(t)
<1>1. s \in Seq(S) /\ t \in Seq(S)
  BY DEF IsSeq
<1>2. /\ s \o t \in Seq(S) /\ Len(s \o t) = Len(s) + Len(t)
      /\ \A i \in 1 .. Len(s) + Len(t) :
           (s \o t)[i] = IF i <= Len(s) THEN s[i] ELSE t[i - Len(s)]
  BY <1>1, ConcatProperties
<1>3. /\ DOMAIN s = 1 .. Len(s) /\ DOMAIN t = 1 .. Len(t)
      /\ Len(s) \in Nat /\ Len(t) \in Nat
      /\ DOMAIN (s \o t) = 1 .. Len(s) + Len(t)
  BY <1>1, <1>2
<1>4. ToSet(s) \subseteq ToSet(s \o t)
  BY <1>2, <1>3 DEF ToSet
<1>5. ToSet(t) \subseteq ToSet(s \o t)
  <2> SUFFICES ASSUME NEW i \in DOMAIN t PROVE t[i] \in ToSet(s \o t)
    BY DEF ToSet
  <2>1. Len(s) + i \in 1 .. Len(s) + Len(t) /\ ~(Len(s) + i <= Len(s))
        /\ Len(s) + i - Len(s) = i
    BY <1>3
  <2>2. (s \o t)[Len(s) + i] = t[i]
    BY <1>2, <2>1
  <2>3. QED
    BY <1>3, <2>1, <2>2 DEF ToSet
<1>6. IsSeq(s \o t) /\ ToSet(s \o t) \subseteq S
  BY <1>2, SeqIsSeq
<1>7. QED
  BY <1>4, <1>5, <1>6

(* One element more, or without the last, a sequence is still one.          *)
LEMMA AppendIsSeq ==
  ASSUME NEW s, IsSeq(s), NEW x
  PROVE  IsSeq(Append(s, x))
<1>1. s \in Seq(ToSet(s) \cup {x})
  BY DEF IsSeq
<1>2. Append(s, x) \in Seq(ToSet(s) \cup {x})
  BY <1>1
<1>3. QED
  BY <1>2, SeqIsSeq

(* What precedes the last element of a sequence is a sequence.              *)
LEMMA FrontIsSeq ==
  ASSUME NEW s, IsSeq(s)
  PROVE  IsSeq(Front(s))
<1>1. Len(s) \in Nat /\ \A i \in 1 .. Len(s) - 1 : s[i] \in ToSet(s)
  BY DEF IsSeq, ToSet
<1>2. SubSeq(s, 1, Len(s) - 1) \in Seq(ToSet(s))
  BY <1>1, SubSeqProperties
<1>3. QED
  BY <1>2, SeqIsSeq DEF Front

(* A sequence that is not empty is its head and its tail.                   *)
LEMMA HeadAndTail ==
  ASSUME NEW s, IsSeq(s), s # <<>>
  PROVE  /\ Head(s) \in ToSet(s)
         /\ IsSeq(Tail(s)) /\ ToSet(s) = {Head(s)} \cup ToSet(Tail(s))
<1>1. /\ s \in Seq(ToSet(s)) /\ Len(s) \in Nat /\ Len(s) # 0
      /\ DOMAIN s = 1 .. Len(s)
  BY EmptySeq DEF IsSeq
<1>2. /\ Head(s) = s[1] /\ Tail(s) \in Seq(ToSet(s)) /\ Len(Tail(s)) = Len(s) - 1
      /\ \A i \in 1 .. Len(Tail(s)) : Tail(s)[i] = s[i + 1]
  BY <1>1, HeadTailProperties
<1>3. IsSeq(Tail(s)) /\ ToSet(Tail(s)) \subseteq ToSet(s) /\ Head(s) \in ToSet(s)
  <2>1. IsSeq(Tail(s)) /\ ToSet(Tail(s)) \subseteq ToSet(s)
    BY <1>2, SeqIsSeq
  <2>2. Head(s) \in ToSet(s)
    BY <1>1, <1>2 DEF ToSet
  <2>3. QED
    BY <2>1, <2>2
<1>4. \A i \in DOMAIN s : s[i] = Head(s) \/ s[i] \in ToSet(Tail(s))
  <2> SUFFICES ASSUME NEW i \in DOMAIN s, i # 1 PROVE s[i] \in ToSet(Tail(s))
    BY <1>2
  <2>1. i - 1 \in 1 .. Len(Tail(s)) /\ (i - 1) + 1 = i
    BY <1>1, <1>2
  <2>2. Tail(s)[i - 1] = s[i] /\ i - 1 \in DOMAIN Tail(s)
    BY <1>2, <2>1
  <2>3. QED
    BY <2>2 DEF ToSet
<1>5. ToSet(s) \subseteq {Head(s)} \cup ToSet(Tail(s))
  BY <1>4 DEF ToSet
<1>6. QED
  BY <1>3, <1>5

-----------------------------------------------------------------------------
(* FlattenSeq, a recursive function of SequencesExt. *)

(* f holds the concatenations of the first 1, 2, ... n of seqs.             *)
Flattens(seqs, n, f) ==
  f = [i \in 1 .. n |-> IF i = 1 THEN seqs[i] ELSE f[i - 1] \o seqs[i]]

(* There is such a function for every n: the least n without one would have *)
(* one that extends the one for n - 1.                                      *)
LEMMA FlattenExists ==
  ASSUME NEW seqs, NEW last \in Nat
  PROVE  \E f : Flattens(seqs, last, f)
<1> DEFINE Lacks == {n \in Nat : ~\E f : Flattens(seqs, n, f)}
<1>1. SUFFICES ASSUME Lacks # {} PROVE FALSE
  OBVIOUS
<1>2. PICK n \in Lacks : \A m \in Lacks : n <= m
  <2>1. Lacks \in SUBSET Nat
    OBVIOUS
  <2> HIDE DEF Lacks
  <2>2. QED
    BY <1>1, <2>1, LeastExists
<1>3. n \in Nat /\ n # 0
  <2>1. Flattens(seqs, 0, [i \in 1 .. 0 |-> 0])
    BY DEF Flattens
  <2>2. QED
    BY <2>1, <1>2
<1>4. PICK f : Flattens(seqs, n - 1, f)
  BY <1>2, <1>3
<1> DEFINE g == [i \in 1 .. n |-> IF i < n THEN f[i]
                                  ELSE IF i = 1 THEN seqs[i] ELSE f[i - 1] \o seqs[i]]
<1>5. \A i \in 1 .. n : g[i] = IF i = 1 THEN seqs[i] ELSE g[i - 1] \o seqs[i]
  <2> TAKE i \in 1 .. n
  <2>1. CASE i < n
    <3>1. i \in 1 .. n - 1 /\ (i # 1 => i - 1 \in 1 .. n /\ i - 1 < n)
      BY <2>1, <1>3
    <3>2. f[i] = IF i = 1 THEN seqs[i] ELSE f[i - 1] \o seqs[i]
      BY <1>4, <3>1 DEF Flattens
    <3>3. QED
      BY <2>1, <3>1, <3>2
  <2>2. CASE i = n
    BY <2>2, <1>3
  <2>3. QED
    BY <2>1, <2>2, <1>3
<1>6. Flattens(seqs, n, g)
  BY <1>5 DEF Flattens
<1>7. QED
  BY <1>2, <1>6

(* The elements of a flattened sequence are those of the sequences in it.   *)
LEMMA FlattenIsSeq ==
  ASSUME NEW seqs, IsSeq(seqs), \A i \in DOMAIN seqs : IsSeq(seqs[i])
  PROVE  /\ IsSeq(FlattenSeq(seqs))
         /\ ToSet(FlattenSeq(seqs)) = UNION {ToSet(seqs[i]) : i \in DOMAIN seqs}
<1> DEFINE n == Len(seqs)
           Upto(k) == UNION {ToSet(seqs[i]) : i \in 1 .. k}
<1>1. n \in Nat /\ DOMAIN seqs = 1 .. n
  BY DEF IsSeq
<1>2. CASE n = 0
  <2>1. seqs = <<>>
    BY <1>2, EmptySeq DEF IsSeq
  <2>2. FlattenSeq(seqs) = <<>>
    BY <2>1, <1>2 DEF FlattenSeq
  <2>3. QED
    BY <1>1, <1>2, <2>2, ShortSeqs
<1>3. CASE n # 0
  <2>1. PICK f : f = CHOOSE g : Flattens(seqs, n, g)
    OBVIOUS
  <2>2. Flattens(seqs, n, f)
    BY <1>1, <2>1, FlattenExists
  <2>3. FlattenSeq(seqs) = f[n]
    BY <1>3, <2>1 DEF FlattenSeq, Flattens
  <2>4. \A k \in 1 .. n : f[k] = IF k = 1 THEN seqs[k] ELSE f[k - 1] \o seqs[k]
    BY <2>2 DEF Flattens
  <2> DEFINE Wrong == {k \in 1 .. n : ~(IsSeq(f[k]) /\ ToSet(f[k]) = Upto(k))}
  <2>5. Wrong = {}
    <3> SUFFICES ASSUME Wrong # {} PROVE FALSE
      OBVIOUS
    <3>1. PICK k \in Wrong : \A m \in Wrong : k <= m
      <4>1. Wrong \in SUBSET Nat
        BY <1>1
      <4> HIDE DEF Wrong
      <4>2. QED
        BY <4>1, LeastExists
    <3>2. k \in 1 .. n /\ IsSeq(seqs[k])
      BY <1>1
    <3>3. CASE k = 1
      <4>1. f[k] = seqs[k] /\ 1 .. k = {k}
        BY <2>4, <3>2, <3>3
      <4>2. Upto(k) = ToSet(seqs[k])
        BY <4>1
      <4>3. QED
        BY <3>1, <3>2, <4>1, <4>2
    <3>4. CASE k # 1
      <4>1. k - 1 \in 1 .. n /\ k - 1 < k /\ 1 .. k = (1 .. k - 1) \cup {k}
        BY <1>1, <3>2, <3>4
      <4>2. IsSeq(f[k - 1]) /\ ToSet(f[k - 1]) = Upto(k - 1)
        BY <1>1, <3>1, <3>2, <4>1
      <4>3. f[k] = f[k - 1] \o seqs[k]
        BY <2>4, <3>2, <3>4
      <4>4. IsSeq(f[k]) /\ ToSet(f[k]) = Upto(k - 1) \cup ToSet(seqs[k])
        BY <3>2, <4>2, <4>3, ConcatIsSeq
      <4>5. Upto(k) = Upto(k - 1) \cup ToSet(seqs[k])
        BY <4>1
      <4>6. QED
        BY <3>1, <4>4, <4>5
    <3>5. QED
      BY <3>3, <3>4
  <2>6. IsSeq(f[n]) /\ ToSet(f[n]) = Upto(n)
    <3>1. n \in 1 .. n
      BY <1>1, <1>3
    <3>2. QED
      BY <2>5, <3>1
  <2>7. QED
    BY <1>1, <2>3, <2>6
<1>4. QED
  BY <1>2, <1>3

(* The same, for a function on 1 .. n.                                      *)
LEMMA FlattenFunction ==
  ASSUME NEW n \in Nat, NEW f, f = [i \in 1 .. n |-> f[i]], \A i \in 1 .. n : IsSeq(f[i])
  PROVE  /\ IsSeq(FlattenSeq(f))
         /\ ToSet(FlattenSeq(f)) = UNION {ToSet(f[i]) : i \in 1 .. n}
<1>1. f \in [1 .. n -> {f[i] : i \in 1 .. n}]
  OBVIOUS
<1>2. IsSeq(f) /\ DOMAIN f = 1 .. n
  BY <1>1, FunctionIsSeq
<1>3. QED
  BY <1>2, FlattenIsSeq

(* Flattening goes from one concatenation to the next, from the empty one.  *)
Flattenings(S, n, seqs) ==
  {h \in [0 .. n -> Seq(S)] :
     /\ h[0] = <<>> /\ h[n] = FlattenSeq(seqs)
     /\ \A k \in 1 .. n : h[k] = h[k - 1] \o seqs[k]}

LEMMA FlattenSteps ==
  ASSUME NEW S, NEW n \in Nat, NEW seqs \in [1 .. n -> Seq(S)]
  PROVE  Flattenings(S, n, seqs) # {}
<1>1. Len(seqs) = n /\ (n = 0 => seqs = <<>>)
  <2>1. seqs \in Seq(Seq(S)) /\ Len(seqs) = n
    OBVIOUS
  <2>2. QED
    BY <2>1, EmptySeq
<1>2. PICK f : Flattens(seqs, n, f) /\ (n # 0 => FlattenSeq(seqs) = f[n])
  <2>1. PICK f : f = CHOOSE g : Flattens(seqs, n, g)
    OBVIOUS
  <2>2. Flattens(seqs, n, f)
    BY <2>1, FlattenExists
  <2>3. n # 0 => FlattenSeq(seqs) = f[n]
    BY <1>1, <2>1 DEF FlattenSeq, Flattens
  <2>4. QED
    BY <2>2, <2>3
<1>3. \A k \in 1 .. n : f[k] = IF k = 1 THEN seqs[k] ELSE f[k - 1] \o seqs[k]
  BY <1>2 DEF Flattens
<1> DEFINE h == [k \in 0 .. n |-> IF k = 0 THEN <<>> ELSE f[k]]
<1>4. ASSUME NEW k \in 1 .. n PROVE h[k] = h[k - 1] \o seqs[k]
  <2>1. CASE k = 1
    <3>1. h[k] = seqs[1] /\ h[k - 1] = <<>>
      BY <1>3, <2>1
    <3>2. <<>> \o seqs[1] = seqs[1]
      BY <2>1, ConcatEmptySeq
    <3>3. QED
      BY <2>1, <3>1, <3>2
  <2>2. CASE k # 1
    <3>1. k - 1 \in 0 .. n /\ k - 1 # 0 /\ k # 0 /\ k \in 0 .. n
      BY <2>2
    <3>2. QED
      BY <1>3, <2>2, <3>1
  <2>3. QED
    BY <2>1, <2>2
<1>5. h[0] = <<>> /\ h[n] = FlattenSeq(seqs)
  <2>1. n = 0 => FlattenSeq(seqs) = <<>>
    BY <1>1 DEF FlattenSeq
  <2>2. 0 \in 0 .. n /\ n \in 0 .. n
    OBVIOUS
  <2>3. QED
    BY <1>2, <2>1, <2>2
<1> DEFINE Wrong == {k \in 0 .. n : h[k] \notin Seq(S)}
<1>6. Wrong = {}
  <2> SUFFICES ASSUME Wrong # {} PROVE FALSE
    OBVIOUS
  <2>1. PICK k \in Wrong : \A m \in Wrong : k <= m
    <3>1. Wrong \in SUBSET Nat
      OBVIOUS
    <3> HIDE DEF Wrong
    <3>2. QED
      BY <3>1, LeastExists
  <2> HIDE DEF h
  <2>2. k # 0
    <3>1. <<>> \in Seq(S)
      OBVIOUS
    <3>2. 0 \notin Wrong
      BY <1>5, <3>1
    <3>3. QED
      BY <2>1, <3>2
  <2>3. k \in 1 .. n /\ k - 1 \in 0 .. n /\ ~(k <= k - 1)
    BY <2>2
  <2>4. h[k - 1] \in Seq(S) /\ seqs[k] \in Seq(S)
    BY <2>1, <2>3
  <2>5. h[k] \in Seq(S)
    BY <1>4, <2>3, <2>4, ConcatProperties
  <2>6. QED
    BY <2>1, <2>5
<1>7. h \in [0 .. n -> Seq(S)]
  BY <1>6
<1> HIDE DEF h
<1>8. h \in Flattenings(S, n, seqs)
  BY <1>4, <1>5, <1>7 DEF Flattenings
<1>9. QED
  BY <1>8

-----------------------------------------------------------------------------
(* Functions on 1 .. n whose value at j is made from the values after j. *)

(* What body[j] makes of a function is decided by its values after j.       *)
Makers(n, V) == [1 .. n -> [[1 .. n -> V] -> V]]
AgreeAfter(n, j, f, g) == \A k \in 1 .. n : k > j => f[k] = g[k]
LooksAhead(n, V, body) ==
  \A j \in 1 .. n : \A f, g \in [1 .. n -> V] :
    AgreeAfter(n, j, f, g) => body[j][f] = body[j][g]
IsMade(n, V, body) == \E f \in [1 .. n -> V] : \A j \in 1 .. n : f[j] = body[j][f]

(* Then there is such a function, whatever body makes.                      *)
LEMMA RecursionFromTheEnd ==
  ASSUME NEW n \in Nat, NEW V, NEW v \in V,
         NEW body \in Makers(n, V), LooksAhead(n, V, body)
  PROVE  IsMade(n, V, body)
<1> USE DEF Makers, AgreeAfter, LooksAhead, IsMade
<1> DEFINE Settled(m, f) == \A j \in 1 .. n : j > n - m => f[j] = body[j][f]
           Lacks == {m \in 0 .. n : ~\E f \in [1 .. n -> V] : Settled(m, f)}
<1>1. Lacks = {}
  <2> SUFFICES ASSUME Lacks # {} PROVE FALSE
    OBVIOUS
  <2>1. PICK m \in Lacks : \A k \in Lacks : m <= k
    <3>1. Lacks \in SUBSET Nat
      OBVIOUS
    <3> HIDE DEF Lacks
    <3>2. QED
      BY <3>1, LeastExists
  <2>2. m \in 1 .. n
    <3>1. [j \in 1 .. n |-> v] \in [1 .. n -> V]
      OBVIOUS
    <3>2. \A j \in 1 .. n : ~(j > n - 0)
      OBVIOUS
    <3>3. 0 \notin Lacks
      BY <3>1, <3>2
    <3>4. QED
      BY <3>3, <2>1
  <2>3. m - 1 \in 0 .. n /\ m - 1 < m
    BY <2>2
  <2>4. m - 1 \notin Lacks
    <3>1. \A k \in Lacks : k \in 0 .. n
      OBVIOUS
    <3> HIDE DEF Lacks
    <3>2. ~(m <= m - 1)
      BY <2>2
    <3>3. QED
      BY <2>1, <3>2
  <2>5. PICK f \in [1 .. n -> V] : Settled(m - 1, f)
    BY <2>3, <2>4
  <2> DEFINE last == n - m + 1
             g == [f EXCEPT ![last] = body[last][f]]
  <2>6. last \in 1 .. n
    BY <2>2
  <2>7. g \in [1 .. n -> V]
    BY <2>6
  <2>8. \A j \in 1 .. n : j >= last => body[j][f] = body[j][g]
    <3> TAKE j \in 1 .. n
    <3> HAVE j >= last
    <3>1. \A k \in 1 .. n : k > j => f[k] = g[k]
      BY <2>6
    <3> HIDE DEF g
    <3>2. QED
      BY <2>7, <3>1
  <2>9. Settled(m, g)
    <3> SUFFICES ASSUME NEW j \in 1 .. n, j > n - m PROVE g[j] = body[j][g]
      OBVIOUS
    <3>1. g[j] = body[j][f]
      <4>1. CASE j = last
        BY <4>1, <2>6
      <4>2. CASE j # last
        <5>1. j > n - (m - 1) /\ j \in 1 .. n
          BY <4>2, <2>2
        <5>2. g[j] = f[j]
          BY <4>2
        <5>3. QED
          BY <5>1, <5>2, <2>5
      <4>3. QED
        BY <4>1, <4>2
    <3>2. j >= last
      BY <2>2
    <3> HIDE DEF g, last
    <3>3. QED
      BY <3>1, <3>2, <2>8
  <2> HIDE DEF g, Settled
  <2>10. QED
    BY <2>1, <2>7, <2>9
<1>2. n \in 0 .. n
  OBVIOUS
<1>3. PICK f \in [1 .. n -> V] : Settled(n, f)
  BY <1>1, <1>2
<1>4. \A j \in 1 .. n : f[j] = body[j][f]
  BY <1>3
<1>5. QED
  BY <1>4

(* What holds of j whenever it holds of every number after j holds of all.  *)
LEMMA InductionFromTheEnd ==
  ASSUME NEW n \in Nat, NEW Holds \in SUBSET (1 .. n),
         \A j \in 1 .. n : (\A k \in 1 .. n : k > j => k \in Holds) => j \in Holds
  PROVE  Holds = 1 .. n
<1> DEFINE Lacks == {m \in 0 .. n : n - m \in 1 .. n /\ n - m \notin Holds}
<1>1. Lacks = {}
  <2> SUFFICES ASSUME Lacks # {} PROVE FALSE
    OBVIOUS
  <2>1. PICK m \in Lacks : \A k \in Lacks : m <= k
    <3>1. Lacks \in SUBSET Nat
      OBVIOUS
    <3> HIDE DEF Lacks
    <3>2. QED
      BY <3>1, LeastExists
  <2>2. \A k \in 1 .. n : k > n - m => k \in Holds
    <3> TAKE k \in 1 .. n
    <3> HAVE k > n - m
    <3>1. n - k \in 0 .. n /\ n - (n - k) = k /\ ~(m <= n - k)
      OBVIOUS
    <3>2. n - k \notin Lacks
      BY <2>1, <3>1
    <3>3. QED
      BY <3>1, <3>2
  <2>3. n - m \in Holds
    BY <2>2
  <2>4. QED
    BY <2>3
<1>2. \A j \in 1 .. n : j \in Holds
  <2> TAKE j \in 1 .. n
  <2>1. n - j \in 0 .. n /\ n - (n - j) = j
    OBVIOUS
  <2>2. n - j \notin Lacks
    BY <1>1
  <2>3. QED
    BY <2>1, <2>2
<1>3. QED
  BY <1>2

-----------------------------------------------------------------------------
(* Concatenations of concatenations, and repeated steps. *)

(* Flattening gives a sequence of the elements of the parts, ...            *)
LEMMA FlattenIs ==
  ASSUME NEW S, NEW seqs \in Seq(Seq(S))
  PROVE  FlattenSeq(seqs) \in Seq(S)
<1>1. PICK n : n = Len(seqs)
  OBVIOUS
<1>2. n \in Nat /\ seqs \in [1 .. n -> Seq(S)]
  BY <1>1, LenProperties
<1>3. PICK h : h \in Flattenings(S, n, seqs)
  BY <1>2, FlattenSteps
<1>4. h \in [0 .. n -> Seq(S)] /\ h[n] = FlattenSeq(seqs) /\ n \in 0 .. n
  BY <1>2, <1>3 DEF Flattenings
<1>5. QED
  BY <1>4

(* ... from no part nothing, from one part that part, ...                   *)
LEMMA FlattenShort ==
  ASSUME NEW S
  PROVE  FlattenSeq(<<>>) = <<>> /\ \A s \in Seq(S) : FlattenSeq(<<s>>) = s
<1>1. FlattenSeq(<<>>) = <<>>
  BY DEF FlattenSeq
<1>2. ASSUME NEW s \in Seq(S) PROVE FlattenSeq(<<s>>) = s
  <2>1. <<s>> \in [1 .. 1 -> Seq(S)] /\ <<s>>[1] = s
    OBVIOUS
  <2>2. PICK h : h \in Flattenings(S, 1, <<s>>)
    BY <2>1, FlattenSteps
  <2>3. /\ h[0] = <<>> /\ h[1] = FlattenSeq(<<s>>)
        /\ \A k \in 1 .. 1 : h[k] = h[k - 1] \o <<s>>[k]
    BY <2>2 DEF Flattenings
  <2>4. 1 \in 1 .. 1 /\ 1 - 1 = 0
    OBVIOUS
  <2>5. h[1] = <<>> \o s
    BY <2>1, <2>3, <2>4
  <2>6. QED
    BY <2>3, <2>5, ConcatEmptySeq
<1>3. QED
  BY <1>1, <1>2

(* A sequence is its first element and the rest of it.                      *)
LEMMA HeadFirst ==
  ASSUME NEW S, NEW r \in Seq(S), r # <<>>
  PROVE  Head(r) \in S /\ Tail(r) \in Seq(S) /\ r = <<Head(r)>> \o Tail(r)
<1>1. PICK n : n = Len(r)
  OBVIOUS
<1>2. Head(r) \in S /\ Tail(r) \in Seq(S) /\ Head(r) = r[1] /\ Tail(r) = SubSeq(r, 2, n)
  BY <1>1, HeadTailProperties, TailIsSubSeq
<1>3. 1 \in 1 .. Len(r) /\ n \in 1 .. Len(r) /\ 1 + 1 = 2
  BY <1>1, EmptySeq, LenProperties
<1>4. SubSeq(r, 1, n) = <<r[1]>> \o SubSeq(r, 1 + 1, n)
  BY <1>3, SubSeqRecursiveFirst
<1>5. SubSeq(r, 1, n) = r
  BY <1>1, SubSeqFull
<1>6. QED
  BY <1>2, <1>3, <1>4, <1>5

(* ... and what comes before its last element, and that element.            *)
LEMMA LastAfterFront ==
  ASSUME NEW S, NEW r \in Seq(S), r # <<>>
  PROVE  Front(r) \in Seq(S) /\ Last(r) \in S /\ r = Front(r) \o <<Last(r)>>
<1>1. PICK n : n = Len(r)
  OBVIOUS
<1>2. n \in Nat /\ n # 0
  BY <1>1, EmptySeq, LenProperties
<1>3. 1 \in 1 .. Len(r) /\ n \in 1 .. Len(r)
  BY <1>1, <1>2
<1>4. SubSeq(r, 1, n) = SubSeq(r, 1, n - 1) \o <<r[n]>>
  BY <1>3, SubSeqRecursiveSecond
<1>5. SubSeq(r, 1, n) = r
  BY <1>1, SubSeqFull
<1>6. r[n] \in S
  BY <1>3, ElementOfSeq
<1>7. SubSeq(r, 1, n - 1) \in Seq(S)
  <2>1. 1 \in Int /\ n - 1 \in Int /\ \A i \in 1 .. n - 1 : i \in 1 .. Len(r)
    BY <1>1, <1>2
  <2>2. \A i \in 1 .. n - 1 : r[i] \in S
    BY <2>1, ElementOfSeq
  <2>3. QED
    BY <2>1, <2>2, SubSeqProperties
<1>8. QED
  BY <1>1, <1>4, <1>5, <1>6, <1>7 DEF Front, Last

(* Concatenation is associative.                                            *)
Regroups(S) == \A x, y, z \in Seq(S) : (x \o y) \o z = x \o (y \o z)
LEMMA ConcatRegroups ==
  ASSUME NEW S
  PROVE  Regroups(S)
BY ConcatAssociative DEF Regroups

(* ... and from some parts and some more the two results in a row.          *)
LEMMA FlattenConcat ==
  ASSUME NEW S, NEW a \in Seq(Seq(S)), NEW b \in Seq(Seq(S))
  PROVE  FlattenSeq(a \o b) = FlattenSeq(a) \o FlattenSeq(b)
<1>1. PICK m : m = Len(a)
  OBVIOUS
<1>2. PICK n : n = Len(b)
  OBVIOUS
<1>3. PICK c : c = a \o b
  OBVIOUS
<1>4. /\ m \in Nat /\ n \in Nat
      /\ a \in [1 .. m -> Seq(S)] /\ b \in [1 .. n -> Seq(S)]
  BY <1>1, <1>2, LenProperties
<1>5. /\ c \in Seq(Seq(S)) /\ Len(c) = m + n
      /\ \A i \in 1 .. m + n : c[i] = IF i <= m THEN a[i] ELSE b[i - m]
  BY <1>1, <1>2, <1>3, ConcatProperties
<1>6. c \in [1 .. m + n -> Seq(S)] /\ m + n \in Nat
  BY <1>4, <1>5, LenProperties
<1>7. PICK f : f \in Flattenings(S, m, a)
  BY <1>4, FlattenSteps
<1>8. PICK g : g \in Flattenings(S, n, b)
  BY <1>4, FlattenSteps
<1>9. PICK h : h \in Flattenings(S, m + n, c)
  BY <1>6, FlattenSteps
<1>10. /\ f \in [0 .. m -> Seq(S)] /\ f[0] = <<>> /\ f[m] = FlattenSeq(a)
       /\ \A k \in 1 .. m : f[k] = f[k - 1] \o a[k]
  BY <1>7 DEF Flattenings
<1>11. /\ g \in [0 .. n -> Seq(S)] /\ g[0] = <<>> /\ g[n] = FlattenSeq(b)
       /\ \A k \in 1 .. n : g[k] = g[k - 1] \o b[k]
  BY <1>8 DEF Flattenings
<1>12. /\ h[0] = <<>> /\ h[m + n] = FlattenSeq(c)
       /\ \A k \in 1 .. m + n : h[k] = h[k - 1] \o c[k]
  BY <1>9 DEF Flattenings
<1> DEFINE First == {k \in 0 .. m : h[k] = f[k]}
<1>13. 0 \in First
  BY <1>4, <1>10, <1>12
<1>14. ASSUME NEW k \in 1 .. m, k - 1 \in First PROVE k \in First
  <2>1. k \in 1 .. m + n /\ k <= m /\ k \in 0 .. m
    BY <1>4
  <2>2. c[k] = a[k]
    BY <1>5, <2>1
  <2>3. QED
    BY <1>10, <1>12, <1>14, <2>1, <2>2
<1> HIDE DEF First
<1>15. m \in First
  <2>1. m \in 0 .. m
    BY <1>4
  <2>2. QED
    BY <1>4, <1>13, <1>14, <2>1, InductionUpTo
<1> DEFINE Second == {k \in 0 .. n : h[m + k] = f[m] \o g[k]}
<1>16. f[m] \in Seq(S) /\ \A k \in 0 .. n : g[k] \in Seq(S)
  <2>1. m \in 0 .. m
    BY <1>4
  <2>2. QED
    BY <1>10, <1>11, <2>1
<1>17. 0 \in Second
  <2>1. 0 \in 0 .. n /\ m + 0 = m
    BY <1>4
  <2>2. f[m] \o <<>> = f[m]
    BY <1>16, ConcatEmptySeq
  <2>3. QED
    BY <1>11, <1>15, <2>1, <2>2 DEF First
<1>18. ASSUME NEW k \in 1 .. n, k - 1 \in Second PROVE k \in Second
  <2>1. /\ m + k \in 1 .. m + n /\ ~(m + k <= m) /\ k \in 0 .. n /\ k - 1 \in 0 .. n
        /\ (m + k) - 1 = m + (k - 1) /\ (m + k) - m = k
    BY <1>4
  <2>2. c[m + k] = b[k]
    BY <1>5, <2>1
  <2>3. h[m + k] = (f[m] \o g[k - 1]) \o b[k]
    BY <1>12, <1>18, <2>1, <2>2
  <2>4. b[k] \in Seq(S) /\ g[k - 1] \in Seq(S)
    <3>1. b[k] \in Seq(S)
      BY <1>4
    <3>2. g[k - 1] \in Seq(S)
      BY <1>16, <2>1
    <3>3. QED
      BY <3>1, <3>2
  <2>5. \A x, y, z \in Seq(S) : (x \o y) \o z = x \o (y \o z)
    BY ConcatRegroups DEF Regroups
  <2>6. h[m + k] = f[m] \o (g[k - 1] \o b[k])
    BY <1>16, <2>3, <2>4, <2>5
  <2>7. QED
    BY <1>11, <2>1, <2>6
<1> HIDE DEF Second
<1>19. n \in Second
  <2>1. n \in 0 .. n
    BY <1>4
  <2>2. QED
    BY <1>4, <1>17, <1>18, <2>1, InductionUpTo
<1>20. QED
  BY <1>3, <1>10, <1>11, <1>12, <1>19 DEF Second

(* A sequence is the concatenation of its elements.                         *)
LEMMA FlattenSingles ==
  ASSUME NEW S, NEW n \in Nat, NEW s \in [1 .. n -> S]
  PROVE  FlattenSeq([i \in 1 .. n |-> <<s[i]>>]) = s
<1> DEFINE singles == [i \in 1 .. n |-> <<s[i]>>]
<1>1. singles \in [1 .. n -> Seq(S)]
  OBVIOUS
<1>2. \A i \in 1 .. n : singles[i] = <<s[i]>>
  OBVIOUS
<1>3. s \in Seq(S) /\ Len(s) = n
  OBVIOUS
<1> HIDE DEF singles
<1>4. PICK h : h \in Flattenings(S, n, singles)
  BY <1>1, FlattenSteps
<1>5. /\ h[0] = <<>> /\ h[n] = FlattenSeq(singles)
      /\ \A k \in 1 .. n : h[k] = h[k - 1] \o singles[k]
  BY <1>4 DEF Flattenings
<1> DEFINE Holds == {k \in 0 .. n : h[k] = SubSeq(s, 1, k)}
<1>6. 0 \in Holds
  <2>1. SubSeq(s, 1, 0) = <<>>
    <3>1. 1 \in Int /\ 0 \in Int /\ 0 < 1
      OBVIOUS
    <3>2. QED
      BY <3>1, SubSeqEmpty
  <2>2. 0 \in 0 .. n /\ h[0] = SubSeq(s, 1, 0)
    BY <1>5, <2>1
  <2>3. QED
    BY <2>2
<1>7. ASSUME NEW k \in 1 .. n, k - 1 \in Holds PROVE k \in Holds
  <2>1. 1 \in 1 .. Len(s) /\ k \in 1 .. Len(s)
    BY <1>3
  <2>2. SubSeq(s, 1, k) = SubSeq(s, 1, k - 1) \o <<s[k]>>
    BY <1>3, <2>1, SubSeqRecursiveSecond
  <2>3. k \in 0 .. n
    OBVIOUS
  <2>4. QED
    BY <1>2, <1>5, <1>7, <2>2, <2>3
<1> HIDE DEF Holds
<1>8. n \in Holds
  <2>1. n \in 0 .. n
    OBVIOUS
  <2>2. QED
    BY <1>6, <1>7, <2>1, InductionUpTo
<1>9. SubSeq(s, 1, n) = s
  BY <1>3, SubSeqFull
<1>10. QED
  BY <1>5, <1>8, <1>9 DEF Holds, singles

(* From any value one can go n steps, whatever the steps make of a value.   *)
Iterations(n, V, v, step) ==
  {h \in [0 .. n -> V] : h[0] = v /\ \A k \in 1 .. n : h[k] = step[k][h[k - 1]]}

LEMMA IterationExists ==
  ASSUME NEW n \in Nat, NEW V, NEW v \in V, NEW step \in [1 .. n -> [V -> V]]
  PROVE  Iterations(n, V, v, step) # {}
<1> DEFINE Holds == {m \in 0 .. n : Iterations(m, V, v, step) # {}}
<1>1. 0 \in Holds
  <2>1. [k \in 0 .. 0 |-> v] \in Iterations(0, V, v, step)
    BY DEF Iterations
  <2>2. QED
    BY <2>1
<1>2. ASSUME NEW m \in 1 .. n, m - 1 \in Holds PROVE m \in Holds
  <2>1. PICK f : f \in Iterations(m - 1, V, v, step)
    BY <1>2
  <2>2. /\ f \in [0 .. m - 1 -> V] /\ f[0] = v
        /\ \A k \in 1 .. m - 1 : f[k] = step[k][f[k - 1]]
    BY <2>1 DEF Iterations
  <2>3. m - 1 \in 0 .. m - 1 /\ f[m - 1] \in V /\ step[m] \in [V -> V]
    BY <2>2
  <2> DEFINE g == [k \in 0 .. m |-> IF k < m THEN f[k] ELSE step[m][f[m - 1]]]
  <2>4. g \in [0 .. m -> V] /\ g[0] = v
    <3>1. ASSUME NEW k \in 0 .. m PROVE (IF k < m THEN f[k] ELSE step[m][f[m - 1]]) \in V
      <4>1. k < m => k \in 0 .. m - 1
        OBVIOUS
      <4>2. QED
        BY <2>2, <2>3, <4>1
    <3>2. 0 \in 0 .. m /\ 0 < m
      OBVIOUS
    <3>3. QED
      BY <2>2, <3>1, <3>2
  <2>5. ASSUME NEW k \in 1 .. m PROVE g[k] = step[k][g[k - 1]]
    <3>1. k - 1 \in 0 .. m /\ k - 1 < m /\ g[k - 1] = f[k - 1]
      OBVIOUS
    <3>2. CASE k < m
      BY <2>2, <3>1, <3>2
    <3>3. CASE k = m
      BY <3>1, <3>3
    <3>4. QED
      BY <3>2, <3>3
  <2> HIDE DEF g
  <2>6. g \in Iterations(m, V, v, step)
    BY <2>4, <2>5 DEF Iterations
  <2>7. m \in 0 .. n
    OBVIOUS
  <2>8. QED
    BY <2>6, <2>7
<1> HIDE DEF Holds
<1>3. n \in Holds
  <2>1. n \in 0 .. n
    OBVIOUS
  <2>2. QED
    BY <1>1, <1>2, <2>1, InductionUpTo
<1>4. QED
  BY <1>3 DEF Holds
=============================================================================
