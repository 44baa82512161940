---------------------------- MODULE ParserProofs ----------------------------
(***************************************************************************)
(* Machine-checked proofs about Parser, for every token sequence and every *)
(* nesting limit: the position and the stack of calls, the groups that are *)
(* open at once, and the work.                                             *)
(***************************************************************************)
EXTENDS Parser, DataProofs, FiniteSetTheorems

-----------------------------------------------------------------------------
(* The invariant. *)

(* A frame has the locals of its function.                                  *)
Shape(f) ==
  /\ f.depth \in Nat
  /\ \/ /\ f.fn = "script"
        /\ f = [fn |-> "script", depth |-> f.depth, stop |-> f.stop, pipes |-> f.pipes]
     \/ /\ f.fn = "pipeline" /\ IsSeq(f.cmds)
        /\ f = [fn |-> "pipeline", depth |-> f.depth, cmds |-> f.cmds]
     \/ f.fn = "command" /\ f = [fn |-> "command", depth |-> f.depth]
     \/ /\ f.fn = "group" /\ f.close \in {"rparen", "rbrace"}
        /\ f = [fn |-> "group", depth |-> f.depth, close |-> f.close]
     \/ /\ f.fn = "function"
        /\ f = [fn |-> "function", depth |-> f.depth, name |-> f.name]
     \/ /\ f.fn = "simple" /\ f.saw \in BOOLEAN
        /\ f = [fn |-> "simple", depth |-> f.depth, assigns |-> f.assigns, words |-> f.words,
                redirs |-> f.redirs, saw |-> f.saw]

(* What a caller awaits runs at its own level, or one below it.             *)
Within(f) == f.depth + (IF f.fn \in {"group", "function"} THEN 1 ELSE 0)
Linked(callee, caller) == callee.fn \in Callees(caller.fn) /\ callee.depth = Within(caller)

(* The frames from the running one down to that of the whole input.  What a *)
(* script awaits was called after the level had been looked at.             *)
Stacked(s) ==
  /\ IsSeq(s)
  /\ \A i \in DOMAIN s :
       /\ Shape(s[i])
       /\ IF i = Len(s) THEN s[i].fn = "script" /\ s[i].depth = 0
          ELSE Linked(s[i], s[i + 1])
       /\ i > 1 /\ s[i].fn = "script" => s[i].depth <= MaxNest
       /\ \A j \in DOMAIN s : i < j => Within(s[j]) <= s[i].depth

StackInv ==
  /\ toks \in Input
  /\ at \in 1 .. Len(toks) + 1
  /\ Stacked(calls)
  /\ outcome # {} => calls = <<>> /\ returned = {}

(* A consumed token pays for four steps.  What may be owed besides depends  *)
(* on the point the running call has come to; a level of groups and         *)
(* functions has paid for one step in advance.                              *)
Due(f, result) ==
  CASE f.fn = "script"   -> IF result = {} THEN 0 ELSE IF Get(result) = <<>> THEN 5 ELSE 2
    [] f.fn = "pipeline" -> IF result # {} /\ Get(result) = {} THEN 4 ELSE 1
    [] f.fn = "command"  -> 2
    [] f.fn = "group"    -> 2
    [] f.fn = "function" -> IF Get(result) = {} THEN 3 ELSE 0
    [] f.fn = "simple"   -> IF f.saw THEN 0 ELSE 3
Owing ==
  IF outcome # {} THEN 6 ELSE IF calls = <<>> THEN 3 ELSE Due(Top, returned) - Top.depth
WorkInv == steps \in Nat /\ steps <= 4 * (at - 1) + Owing

-----------------------------------------------------------------------------
(* The stack. *)

(* One element in front of a sequence.                                      *)
LEMMA InFront ==
  ASSUME NEW s, IsSeq(s), NEW f
  PROVE  /\ IsSeq(<<f>> \o s) /\ <<f>> \o s # <<>>
         /\ Len(<<f>> \o s) = Len(s) + 1
         /\ (<<f>> \o s)[1] = f /\ \A i \in 1 .. Len(s) : (<<f>> \o s)[i + 1] = s[i]
         /\ Head(<<f>> \o s) = f /\ Tail(<<f>> \o s) = s
         /\ \A g : <<g, f>> \o s = <<g>> \o (<<f>> \o s)
<1> DEFINE S == ToSet(s) \cup {f}
<1>1. s \in Seq(S) /\ <<f>> \in Seq(S)
  BY DEF IsSeq
<1>2. IsSeq(<<f>> \o s)
  BY ConcatIsSeq, ShortSeqs
<1>3. \A g : <<g, f>> \o s = <<g>> \o (<<f>> \o s)
  <2> TAKE g
  <2>1. <<g, f>> \in Seq(S \cup {g}) /\ <<g>> \in Seq(S \cup {g}) /\ s \in Seq(S \cup {g})
        /\ <<f>> \in Seq(S \cup {g})
    BY <1>1
  <2>2. QED
    BY <2>1
<1>4. QED
  BY <1>1, <1>2, <1>3

LEMMA BehindFirst ==
  ASSUME NEW s, IsSeq(s), s # <<>>
  PROVE  /\ Len(s) \in Nat /\ Len(s) >= 1 /\ DOMAIN s = 1 .. Len(s)
         /\ IsSeq(Tail(s)) /\ Len(Tail(s)) = Len(s) - 1 /\ Head(s) = s[1]
         /\ DOMAIN Tail(s) = 1 .. Len(s) - 1
         /\ \A i \in 1 .. Len(s) - 1 : Tail(s)[i] = s[i + 1]
<1>1. s \in Seq(ToSet(s)) /\ Len(s) \in Nat /\ Len(s) # 0
  BY EmptySeq DEF IsSeq
<1>2. QED
  BY <1>1, HeadTailProperties, HeadAndTail DEF IsSeq

LEMMA TailStacked ==
  ASSUME NEW s, Stacked(s), s # <<>>
  PROVE  Stacked(Tail(s))
<1> DEFINE n == Len(s)
           t == Tail(s)
<1>1. /\ n \in Nat /\ n >= 1 /\ DOMAIN s = 1 .. n
      /\ IsSeq(t) /\ Len(t) = n - 1 /\ DOMAIN t = 1 .. n - 1
      /\ \A i \in 1 .. n - 1 : t[i] = s[i + 1]
  BY BehindFirst DEF Stacked
<1> HIDE DEF t
<1>2. ASSUME NEW i \in DOMAIN t
      PROVE  /\ Shape(t[i])
             /\ IF i = Len(t) THEN t[i].fn = "script" /\ t[i].depth = 0
                ELSE Linked(t[i], t[i + 1])
             /\ i > 1 /\ t[i].fn = "script" => t[i].depth <= MaxNest
             /\ \A j \in DOMAIN t : i < j => Within(t[j]) <= t[i].depth
  <2>1. i \in 1 .. n - 1 /\ i + 1 \in DOMAIN s /\ i + 1 > 1 /\ t[i] = s[i + 1]
    BY <1>1
  <2>2. i = Len(t) <=> i + 1 = n
    BY <1>1
  <2>3. i # Len(t) => t[i + 1] = s[(i + 1) + 1]
    BY <1>1, <2>1
  <2>4. \A j \in DOMAIN t : i < j => i + 1 < j + 1 /\ j + 1 \in DOMAIN s /\ t[j] = s[j + 1]
    BY <1>1
  <2>5. QED
    BY <2>1, <2>2, <2>3, <2>4 DEF Stacked
<1>3. QED
  BY <1>1, <1>2 DEF Stacked, t

(* What the running call rests on.                                          *)
Rests(f, s) ==
  IF s = <<>> THEN f.fn = "script" /\ f.depth = 0
  ELSE Linked(f, Head(s)) /\ (Head(s).fn = "script" => Head(s).depth <= MaxNest)

LEMMA TopStacked ==
  ASSUME NEW s, Stacked(s), s # <<>>
  PROVE  Shape(Head(s)) /\ Stacked(Tail(s)) /\ Rests(Head(s), Tail(s))
<1>1. /\ Len(s) \in Nat /\ Len(s) >= 1 /\ DOMAIN s = 1 .. Len(s)
      /\ IsSeq(Tail(s)) /\ Len(Tail(s)) = Len(s) - 1 /\ Head(s) = s[1]
      /\ \A i \in 1 .. Len(s) - 1 : Tail(s)[i] = s[i + 1]
  BY BehindFirst DEF Stacked
<1>2. Stacked(Tail(s))
  BY TailStacked
<1>3. CASE Tail(s) = <<>>
  <2>1. Len(s) = 1
    <3>1. Len(s) - 1 = 0
      BY <1>1, <1>3
    <3>2. \A n \in Nat : n - 1 = 0 => n = 1
      OBVIOUS
    <3>3. QED
      BY <1>1, <3>1, <3>2
  <2>2. QED
    BY <1>1, <1>2, <1>3, <2>1 DEF Stacked, Rests
<1>4. CASE Tail(s) # <<>>
  <2>1. Len(s) - 1 >= 1 /\ Head(Tail(s)) = Tail(s)[1]
    BY <1>1, <1>4, BehindFirst
  <2>2. Head(Tail(s)) = s[2] /\ 2 \in DOMAIN s /\ 1 # Len(s)
    BY <1>1, <2>1
  <2>3. Linked(s[1], s[2]) /\ Shape(s[1]) /\ (s[2].fn = "script" => s[2].depth <= MaxNest)
    BY <1>1, <2>2 DEF Stacked
  <2>4. QED
    BY <1>1, <1>2, <1>4, <2>2, <2>3 DEF Rests
<1>5. QED
  BY <1>3, <1>4

LEMMA PushStacked ==
  ASSUME NEW s, Stacked(s), NEW f, Shape(f), Rests(f, s)
  PROVE  Stacked(<<f>> \o s)
<1> DEFINE n == Len(s)
           t == <<f>> \o s
<1>1. /\ n \in Nat /\ DOMAIN s = 1 .. n
      /\ IsSeq(t) /\ Len(t) = n + 1 /\ DOMAIN t = 1 .. n + 1
      /\ t[1] = f /\ \A i \in 1 .. n : t[i + 1] = s[i]
  BY InFront DEF Stacked, IsSeq
<1>2. s # <<>> => n >= 1 /\ Head(s) = s[1]
  BY BehindFirst DEF Stacked
<1>3. n = 0 <=> s = <<>>
  BY EmptySeq DEF Stacked, IsSeq
<1> HIDE DEF t
<1>4. \A i \in DOMAIN s : Within(s[i]) <= f.depth
  <2> TAKE i \in DOMAIN s
  <2>1. s # <<>> /\ Linked(f, s[1]) /\ 1 \in DOMAIN s
    BY <1>1, <1>2, <1>3 DEF Rests
  <2>2. f.depth = Within(s[1])
    BY <2>1 DEF Linked
  <2>3. CASE i = 1
    <3>1. Within(s[1]) \in Nat
      BY <2>1 DEF Stacked, Shape, Within
    <3>2. QED
      BY <2>2, <2>3, <3>1
  <2>4. CASE i # 1
    <3>1. Within(s[i]) <= s[1].depth
      BY <1>1, <2>1, <2>4 DEF Stacked
    <3>2. s[1].depth \in Nat /\ s[i].depth \in Nat
      BY <2>1 DEF Stacked, Shape
    <3>3. s[1].depth <= Within(s[1]) /\ Within(s[1]) \in Nat /\ Within(s[i]) \in Nat
      BY <3>2 DEF Within
    <3>4. QED
      BY <2>2, <3>1, <3>2, <3>3
  <2>5. QED
    BY <2>3, <2>4
<1>5. ASSUME NEW i \in DOMAIN t
      PROVE  /\ Shape(t[i])
             /\ IF i = Len(t) THEN t[i].fn = "script" /\ t[i].depth = 0
                ELSE Linked(t[i], t[i + 1])
             /\ i > 1 /\ t[i].fn = "script" => t[i].depth <= MaxNest
             /\ \A j \in DOMAIN t : i < j => Within(t[j]) <= t[i].depth
  <2>1. \A j \in DOMAIN t : j # 1 => j - 1 \in DOMAIN s /\ t[j] = s[j - 1]
    <3> TAKE j \in DOMAIN t
    <3>1. j # 1 => j - 1 \in 1 .. n /\ (j - 1) + 1 = j
      BY <1>1
    <3>2. QED
      BY <1>1, <3>1
  <2>2. CASE i = 1
    <3>1. CASE s = <<>>
      BY <1>1, <1>3, <2>2, <3>1 DEF Rests
    <3>2. CASE s # <<>>
      <4>1. t[1 + 1] = s[1] /\ Len(t) # 1
        BY <1>1, <1>2, <3>2
      <4>2. Linked(t[i], t[i + 1])
        BY <1>1, <1>2, <2>2, <3>2, <4>1 DEF Rests
      <4>3. QED
        BY <1>1, <1>4, <2>1, <2>2, <4>1, <4>2
    <3>3. QED
      BY <3>1, <3>2
  <2>3. CASE i # 1
    <3> DEFINE k == i - 1
    <3>1. k \in DOMAIN s /\ t[i] = s[k] /\ (i = Len(t) <=> k = n)
      BY <1>1, <2>1, <2>3
    <3>2. i # Len(t) => k + 1 \in 1 .. n /\ t[i + 1] = s[k + 1]
      BY <1>1, <2>3
    <3>3. \A j \in DOMAIN t : i < j => j - 1 \in DOMAIN s /\ k < j - 1 /\ t[j] = s[j - 1]
      BY <1>1, <2>1, <2>3
    <3>4. s[k].fn = "script" => s[k].depth <= MaxNest
      <4>1. CASE k = 1
        BY <1>1, <1>2, <1>3, <3>1, <4>1 DEF Rests
      <4>2. CASE k # 1
        BY <1>1, <3>1, <4>2 DEF Stacked
      <4>3. QED
        BY <4>1, <4>2
    <3> HIDE DEF k
    <3>5. QED
      BY <3>1, <3>2, <3>3, <3>4 DEF Stacked
  <2>4. QED
    BY <2>2, <2>3
<1>6. QED
  BY <1>1, <1>5 DEF Stacked, t

(* What the functions call, and at what level.                              *)
ForCommand == {"command", "group", "function", "simple"}

LEMMA CalleesOf ==
  /\ Callees("script") = {"pipeline"} /\ Callees("group") = {"script"}
  /\ Callees("pipeline") = ForCommand /\ Callees("function") = ForCommand
  /\ Callees("command") = {} /\ Callees("simple") = {}
BY DEF Callees, ForCommand

LEMMA LinkedOf ==
  ASSUME NEW f, f.depth \in Nat, NEW callee
  PROVE  /\ f.fn = "script" => (Linked(callee, f) <=> callee.fn = "pipeline" /\ callee.depth = f.depth)
         /\ f.fn = "group" => (Linked(callee, f) <=> callee.fn = "script" /\ callee.depth = f.depth + 1)
         /\ f.fn = "pipeline" => (Linked(callee, f) <=> callee.fn \in ForCommand /\ callee.depth = f.depth)
         /\ f.fn = "function" => (Linked(callee, f) <=> callee.fn \in ForCommand /\ callee.depth = f.depth + 1)
<1>1. f.depth + 0 = f.depth
  OBVIOUS
<1>2. f.fn \in {"script", "pipeline"} => Within(f) = f.depth
  BY <1>1 DEF Within
<1>3. f.fn \in {"group", "function"} => Within(f) = f.depth + 1
  BY DEF Within
<1>4. QED
  BY <1>2, <1>3, CalleesOf DEF Linked

(* A frame in the place of another one for the same call.                   *)
LEMMA ReplaceStacked ==
  ASSUME NEW s, Stacked(s), s # <<>>, NEW f, Shape(f), f.depth = Head(s).depth,
         f.fn = Head(s).fn \/ (Head(s).fn \in ForCommand /\ f.fn \in ForCommand)
  PROVE  Stacked(<<f>> \o Tail(s))
<1>1. Stacked(Tail(s)) /\ Rests(Head(s), Tail(s))
  BY TopStacked
<1>2. Rests(f, Tail(s))
  BY <1>1 DEF Rests, Linked, Callees, ForCommand
<1>3. QED
  BY <1>1, <1>2, PushStacked

-----------------------------------------------------------------------------
(* The position. *)

LEMMA TokenFacts ==
  ASSUME toks \in Input
  PROVE  /\ Len(toks) \in Nat /\ DOMAIN toks = 1 .. Len(toks)
         /\ \A i \in Nat : KindAt(i) # "end" => i \in 1 .. Len(toks)
         /\ KindAt(Len(toks) + 1) = "end"
<1>1. toks \in Seq(TokenType)
  BY InputAssumption
<1>2. Len(toks) \in Nat /\ DOMAIN toks = 1 .. Len(toks)
  BY <1>1
<1>3. QED
  BY <1>2 DEF KindAt

(* skip_newlines goes on, and not beyond the end.                           *)
LEMMA NewlinesForward ==
  ASSUME toks \in Input, NEW i \in 1 .. Len(toks) + 1
  PROVE  AfterNewlines(i) \in i .. Len(toks) + 1
<1> DEFINE S == {k \in i .. Len(toks) + 1 : KindAt(k) # "newline"}
<1>1. Len(toks) \in Nat /\ KindAt(Len(toks) + 1) = "end"
  BY TokenFacts
<1>2. S \in SUBSET Nat /\ S # {} /\ S \subseteq i .. Len(toks) + 1
  <2>1. Len(toks) + 1 \in S
    BY <1>1
  <2>2. QED
    BY <1>1, <2>1
<1>3. AfterNewlines(i) = Min(S)
  BY DEF AfterNewlines
<1> HIDE DEF S
<1>4. \E m \in S : \A x \in S : m <= x
  BY <1>2, LeastExists
<1>5. Min(S) \in S
  BY <1>4 DEF Min
<1>6. QED
  BY <1>2, <1>3, <1>5

-----------------------------------------------------------------------------
(* The ways a step can end keep the stack. *)

LEMMA Returned ==
  ASSUME Stacked(calls), calls # <<>>, NEW value, Return(value)
  PROVE  Stacked(calls')
BY TopStacked DEF Return

LEMMA Failed ==
  ASSUME Fail
  PROVE  Stacked(calls')
BY ShortSeqs DEF Fail, Stacked, ToSet

LEMMA Continued ==
  ASSUME Stacked(calls), calls # <<>>, NEW f, Continue(f), Shape(f), f.depth = Top.depth,
         f.fn = Top.fn \/ (Top.fn \in ForCommand /\ f.fn \in ForCommand)
  PROVE  Stacked(calls')
BY ReplaceStacked DEF Continue, Top

LEMMA Called ==
  ASSUME Stacked(calls), calls # <<>>, NEW f, NEW callee, Call(callee, f),
         Shape(f), f.depth = Top.depth,
         f.fn = Top.fn \/ (Top.fn \in ForCommand /\ f.fn \in ForCommand),
         Shape(callee), Linked(callee, f), f.fn = "script" => f.depth <= MaxNest
  PROVE  Stacked(calls')
<1>1. Stacked(<<f>> \o Tail(calls)) /\ IsSeq(Tail(calls))
  BY ReplaceStacked, TopStacked DEF Top, Stacked
<1>2. <<f>> \o Tail(calls) # <<>> /\ Head(<<f>> \o Tail(calls)) = f
      /\ <<callee, f>> \o Tail(calls) = <<callee>> \o (<<f>> \o Tail(calls))
  BY <1>1, InFront
<1>3. Rests(callee, <<f>> \o Tail(calls))
  BY <1>2 DEF Rests
<1>4. QED
  BY <1>1, <1>2, <1>3, PushStacked DEF Call

(* The frames the functions start with and go on as.                        *)
LEMMA ScriptFrame ==
  ASSUME NEW depth \in Nat, NEW stop
  PROVE  Shape(ScriptCall(depth, stop)) /\ ScriptCall(depth, stop).fn = "script"
         /\ ScriptCall(depth, stop).depth = depth
BY DEF ScriptCall, Shape

LEMMA FunctionFrame ==
  ASSUME NEW depth \in Nat, NEW name
  PROVE  Shape(Function(depth, name)) /\ Function(depth, name).fn = "function"
         /\ Function(depth, name).depth = depth
BY DEF Function, Shape

LEMMA NewFrames ==
  ASSUME NEW depth \in Nat
  PROVE  /\ Shape(PipelineCall(depth)) /\ PipelineCall(depth).fn = "pipeline"
            /\ PipelineCall(depth).depth = depth
         /\ Shape(CommandCall(depth)) /\ CommandCall(depth).fn = "command"
            /\ CommandCall(depth).depth = depth
         /\ Shape(SimpleCall(depth)) /\ SimpleCall(depth).fn = "simple"
            /\ SimpleCall(depth).depth = depth /\ SimpleCall(depth).saw = FALSE
         /\ \A close \in {"rparen", "rbrace"} :
              Shape(Group(depth, close)) /\ Group(depth, close).fn = "group"
              /\ Group(depth, close).depth = depth
<1>1. Shape(PipelineCall(depth)) /\ PipelineCall(depth).fn = "pipeline"
      /\ PipelineCall(depth).depth = depth
  BY ShortSeqs DEF PipelineCall, Shape
<1>2. Shape(CommandCall(depth)) /\ CommandCall(depth).fn = "command"
      /\ CommandCall(depth).depth = depth
  BY DEF CommandCall, Shape
<1>3. Shape(SimpleCall(depth)) /\ SimpleCall(depth).fn = "simple"
      /\ SimpleCall(depth).depth = depth /\ SimpleCall(depth).saw = FALSE
  BY DEF SimpleCall, Shape
<1>4. \A close \in {"rparen", "rbrace"} :
        Shape(Group(depth, close)) /\ Group(depth, close).fn = "group"
        /\ Group(depth, close).depth = depth
  BY DEF Group, Shape
<1>5. QED
  BY <1>1, <1>2, <1>3, <1>4

LEMMA SimpleShape ==
  ASSUME NEW depth \in Nat, NEW saw \in BOOLEAN
  PROVE  \A assigns, words, redirs :
           LET f == [fn |-> "simple", depth |-> depth, assigns |-> assigns, words |-> words,
                     redirs |-> redirs, saw |-> saw]
           IN  Shape(f) /\ f.fn = "simple" /\ f.depth = depth /\ f.saw = saw
BY DEF Shape

LEMMA ChangedFrames ==
  ASSUME NEW f, Shape(f)
  PROVE  /\ f.fn = "script" => \A done :
              LET g == [f EXCEPT !.pipes = done]
              IN  Shape(g) /\ g.fn = "script" /\ g.depth = f.depth
         /\ f.fn = "pipeline" => \A cmds : IsSeq(cmds) =>
              LET g == [f EXCEPT !.cmds = cmds]
              IN  Shape(g) /\ g.fn = "pipeline" /\ g.depth = f.depth
BY DEF Shape

LEMMA SawFrame ==
  ASSUME NEW f, Shape(f), f.fn = "simple", NEW seen \in BOOLEAN
  PROVE  LET g == [f EXCEPT !.saw = seen]
         IN  Shape(g) /\ g.fn = "simple" /\ g.depth = f.depth /\ g.saw = seen
<1>1. f = [fn |-> "simple", depth |-> f.depth, assigns |-> f.assigns, words |-> f.words,
           redirs |-> f.redirs, saw |-> f.saw]
  BY DEF Shape
<1>2. [f EXCEPT !.saw = seen]
        = [fn |-> "simple", depth |-> f.depth, assigns |-> f.assigns, words |-> f.words,
           redirs |-> f.redirs, saw |-> seen]
  BY <1>1
<1>3. f.depth \in Nat
  BY DEF Shape
<1>4. QED
  BY <1>2, <1>3, SimpleShape

LEMMA CollectingFrame ==
  ASSUME NEW f, Shape(f), f.fn = "simple", NEW value,
         NEW g \in {[f EXCEPT !.assigns = value], [f EXCEPT !.words = value],
                    [f EXCEPT !.redirs = value]}
  PROVE  Shape(g) /\ g.fn = "simple" /\ g.depth = f.depth
<1>1. f = [fn |-> "simple", depth |-> f.depth, assigns |-> f.assigns, words |-> f.words,
           redirs |-> f.redirs, saw |-> f.saw]
  BY DEF Shape
<1>2. PICK assigns, words, redirs :
        g = [fn |-> "simple", depth |-> f.depth, assigns |-> assigns, words |-> words,
             redirs |-> redirs, saw |-> f.saw]
  <2>1. [f EXCEPT !.assigns = value]
          = [fn |-> "simple", depth |-> f.depth, assigns |-> value, words |-> f.words,
             redirs |-> f.redirs, saw |-> f.saw]
    BY <1>1
  <2>2. [f EXCEPT !.words = value]
          = [fn |-> "simple", depth |-> f.depth, assigns |-> f.assigns, words |-> value,
             redirs |-> f.redirs, saw |-> f.saw]
    BY <1>1
  <2>3. [f EXCEPT !.redirs = value]
          = [fn |-> "simple", depth |-> f.depth, assigns |-> f.assigns, words |-> f.words,
             redirs |-> value, saw |-> f.saw]
    BY <1>1
  <2>4. QED
    BY <2>1, <2>2, <2>3
<1>3. f.depth \in Nat /\ f.saw \in BOOLEAN
  BY DEF Shape
<1>4. QED
  BY <1>2, <1>3, SimpleShape

LEMMA TakenFrame ==
  ASSUME NEW f, Shape(f), f.fn = "simple"
  PROVE  LET g == [f EXCEPT !.saw = TRUE]
         IN  Shape(g) /\ g.fn = "simple" /\ g.depth = f.depth /\ g.saw = TRUE
<1>1. \A seen \in BOOLEAN :
        LET g == [f EXCEPT !.saw = seen]
        IN  Shape(g) /\ g.fn = "simple" /\ g.depth = f.depth /\ g.saw = seen
  BY SawFrame
<1>2. TRUE \in BOOLEAN
  OBVIOUS
<1>3. QED
  BY <1>1, <1>2, Zenon

-----------------------------------------------------------------------------
(* The stack and the position. *)

(* What can be said of the running call.                                    *)
LEMMA TopFacts ==
  ASSUME StackInv, calls # <<>>
  PROVE  /\ Shape(Top) /\ Stacked(calls) /\ Stacked(Tail(calls)) /\ Rests(Top, Tail(calls))
         /\ outcome = {} /\ Top.depth \in Nat /\ IsSeq(Tail(calls))
         /\ at \in Nat /\ at >= 1 /\ at <= Len(toks) + 1
         /\ Len(toks) \in Nat
         /\ \A i \in Nat : KindAt(i) # "end" => i <= Len(toks)
<1>1. Shape(Top) /\ Stacked(Tail(calls)) /\ Rests(Top, Tail(calls)) /\ Stacked(calls)
  BY TopStacked DEF StackInv, Top
<1>2. Len(toks) \in Nat /\ \A i \in Nat : KindAt(i) # "end" => i <= Len(toks)
  BY TokenFacts DEF StackInv
<1>3. Top.depth \in Nat
  BY <1>1 DEF Shape
<1>4. IsSeq(Tail(calls))
  BY <1>1 DEF Stacked
<1>5. outcome = {} /\ at \in Nat /\ at >= 1 /\ at <= Len(toks) + 1
  BY <1>2 DEF StackInv
<1>6. QED
  BY <1>1, <1>2, <1>3, <1>4, <1>5

(* A step that leaves the stack in order and the position in range.         *)
LEMMA StackStep ==
  ASSUME StackInv, calls # <<>>, Stacked(calls'), at' \in 1 .. Len(toks) + 1, Counted,
         outcome' = outcome \/ (calls' = <<>> /\ returned' = {})
  PROVE  StackInv'
BY TopFacts DEF StackInv, Counted

(* Positions a step may go to.                                              *)
LEMMA Forward ==
  ASSUME StackInv, calls # <<>>
  PROVE  /\ at \in 1 .. Len(toks) + 1
         /\ AfterNewlines(at) \in at .. Len(toks) + 1
         /\ AfterNewlines(at) \in 1 .. Len(toks) + 1
         /\ KindAt(at) # "end" =>
              /\ at + 1 \in 1 .. Len(toks) + 1
              /\ AfterNewlines(at + 1) \in at + 1 .. Len(toks) + 1
              /\ AfterNewlines(at + 1) \in 1 .. Len(toks) + 1
         /\ KindAt(at + 1) # "end" => at + 2 \in 1 .. Len(toks) + 1
         /\ KindAt(at + 2) # "end" =>
              /\ AfterNewlines(at + 3) \in at + 3 .. Len(toks) + 1
              /\ AfterNewlines(at + 3) \in 1 .. Len(toks) + 1
<1>1. /\ at \in Nat /\ at >= 1 /\ at <= Len(toks) + 1 /\ Len(toks) \in Nat
      /\ \A i \in Nat : KindAt(i) # "end" => i <= Len(toks)
      /\ toks \in Input
  BY TopFacts DEF StackInv
<1>2. \A i \in 1 .. Len(toks) + 1 : AfterNewlines(i) \in i .. Len(toks) + 1
  BY <1>1, NewlinesForward
<1>3. AfterNewlines(at) \in at .. Len(toks) + 1 /\ at \in 1 .. Len(toks) + 1
  BY <1>1, <1>2
<1>4. ASSUME KindAt(at) # "end"
      PROVE  /\ at + 1 \in 1 .. Len(toks) + 1
             /\ AfterNewlines(at + 1) \in at + 1 .. Len(toks) + 1
  <2>1. at + 1 \in 1 .. Len(toks) + 1
    BY <1>1, <1>4
  <2>2. QED
    BY <1>2, <2>1
<1>5. KindAt(at + 1) # "end" => at + 2 \in 1 .. Len(toks) + 1
  <2>1. at + 1 \in Nat /\ at + 2 >= 1 /\ at + 2 \in Nat
    BY <1>1
  <2>2. KindAt(at + 1) # "end" => at + 1 <= Len(toks)
    BY <1>1, <2>1
  <2>3. QED
    BY <1>1, <2>1, <2>2
<1>6. ASSUME KindAt(at + 2) # "end"
      PROVE  AfterNewlines(at + 3) \in at + 3 .. Len(toks) + 1
  <2>1. at + 2 \in Nat
    BY <1>1
  <2>2. at + 2 <= Len(toks)
    BY <1>1, <1>6, <2>1
  <2>3. at + 3 \in 1 .. Len(toks) + 1
    BY <1>1, <2>2
  <2>4. QED
    BY <1>2, <2>3
<1>7. QED
  <2>1. \A i \in Nat : i >= 1 => i .. Len(toks) + 1 \subseteq 1 .. Len(toks) + 1
    BY <1>1
  <2>2. at + 1 \in Nat /\ at + 1 >= 1 /\ at + 3 \in Nat /\ at + 3 >= 1
    BY <1>1
  <2>3. QED
    BY <1>1, <1>3, <1>4, <1>5, <1>6, <2>1, <2>2

(* parse_script                                                             *)
LEMMA ScriptKeepsStack ==
  ASSUME StackInv, ScriptHead \/ ScriptPipeline
  PROVE  StackInv'
<1>1. calls # <<>> /\ Top.fn = "script" /\ Counted
  BY DEF ScriptHead, ScriptPipeline, Running, Resumed
<1>2. Shape(Top) /\ Stacked(calls) /\ Top.depth \in Nat /\ outcome = {}
  BY <1>1, TopFacts
<1>3. CASE ScriptHead
  <2>1. at' \in 1 .. Len(toks) + 1
    BY <1>1, <1>3, Forward DEF ScriptHead
  <2>2. CASE Top.depth > MaxNest /\ Fail
    BY <1>1, <2>1, <2>2, Failed, StackStep DEF Fail
  <2>3. CASE Return(Top.pipes)
    BY <1>1, <1>2, <2>1, <2>3, Returned, StackStep DEF Return
  <2>4. CASE Top.depth <= MaxNest /\ Call(PipelineCall(Top.depth), Top)
    <3>1. Shape(PipelineCall(Top.depth)) /\ Linked(PipelineCall(Top.depth), Top)
      <4>1. Shape(PipelineCall(Top.depth)) /\ PipelineCall(Top.depth).fn = "pipeline"
            /\ PipelineCall(Top.depth).depth = Top.depth
        BY <1>2, NewFrames
      <4>2. QED
        BY <1>1, <1>2, <4>1, LinkedOf
    <3>2. Stacked(calls')
      BY <1>1, <1>2, <2>4, <3>1, Called
    <3>3. QED
      BY <1>1, <2>1, <2>4, <3>2, StackStep DEF Call
  <2>5. QED
    BY <1>3, <2>2, <2>3, <2>4 DEF ScriptHead
<1>4. CASE ScriptPipeline
  <2> DEFINE done == Append(Top.pipes, Get(returned))
  <2>1. at' \in 1 .. Len(toks) + 1
    BY <1>1, <1>4, Forward DEF ScriptPipeline, Separator
  <2>2. CASE Fail
    BY <1>1, <2>1, <2>2, Failed, StackStep DEF Fail
  <2>3. CASE Return(done)
    BY <1>1, <1>2, <2>1, <2>3, Returned, StackStep DEF Return
  <2>4. CASE Continue([Top EXCEPT !.pipes = done])
    <3>1. /\ Shape([Top EXCEPT !.pipes = done])
          /\ [Top EXCEPT !.pipes = done].fn = Top.fn /\ [Top EXCEPT !.pipes = done].depth = Top.depth
      BY <1>1, <1>2, ChangedFrames
    <3>2. Stacked(calls')
      BY <1>1, <1>2, <2>4, <3>1, Continued
    <3>3. QED
      BY <1>1, <2>1, <2>4, <3>2, StackStep DEF Continue
  <2>5. QED
    BY <1>4, <2>2, <2>3, <2>4 DEF ScriptPipeline
<1>5. QED
  BY <1>3, <1>4

(* parse_pipeline                                                           *)
LEMMA PipelineKeepsStack ==
  ASSUME StackInv, PipelineStage \/ PipelineCommand
  PROVE  StackInv'
<1>1. calls # <<>> /\ Top.fn = "pipeline" /\ Counted
  BY DEF PipelineStage, PipelineCommand, Running, Resumed
<1>2. Shape(Top) /\ Stacked(calls) /\ Top.depth \in Nat /\ outcome = {}
  BY <1>1, TopFacts
<1>3. CASE PipelineStage
  <2>1. at' \in 1 .. Len(toks) + 1
    BY <1>1, <1>3, Forward DEF PipelineStage
  <2>2. Call(CommandCall(Top.depth), Top)
    BY <1>3 DEF PipelineStage
  <2>3. Shape(CommandCall(Top.depth)) /\ Linked(CommandCall(Top.depth), Top)
    <3>1. Shape(CommandCall(Top.depth)) /\ CommandCall(Top.depth).fn = "command"
          /\ CommandCall(Top.depth).depth = Top.depth
      BY <1>2, NewFrames
    <3>2. QED
      BY <1>1, <1>2, <3>1, LinkedOf DEF ForCommand
  <2>4. Stacked(calls')
    BY <1>1, <1>2, <2>2, <2>3, Called
  <2>5. QED
    BY <1>1, <2>1, <2>2, <2>4, StackStep DEF Call
<1>4. CASE PipelineCommand
  <2> DEFINE cmds == Top.cmds \o (IF Get(returned) = {} THEN <<>> ELSE <<Get(Get(returned))>>)
  <2>1. at' \in 1 .. Len(toks) + 1
    BY <1>1, <1>4, Forward DEF PipelineCommand
  <2>2. CASE Fail
    BY <1>1, <2>1, <2>2, Failed, StackStep DEF Fail
  <2>3. ASSUME NEW value, Return(value) PROVE StackInv'
    BY <1>1, <1>2, <2>1, <2>3, Returned, StackStep DEF Return
  <2>4. CASE Continue([Top EXCEPT !.cmds = cmds])
    <3>1. IsSeq(cmds)
      <4>1. IsSeq(Top.cmds)
        BY <1>1, <1>2 DEF Shape
      <4>2. QED
        BY <4>1, ShortSeqs, ConcatIsSeq
    <3> HIDE DEF cmds
    <3>2. /\ Shape([Top EXCEPT !.cmds = cmds])
          /\ [Top EXCEPT !.cmds = cmds].fn = Top.fn /\ [Top EXCEPT !.cmds = cmds].depth = Top.depth
      BY <1>1, <1>2, <3>1, ChangedFrames
    <3>3. Stacked(calls')
      BY <1>1, <1>2, <2>4, <3>2, Continued
    <3>4. QED
      BY <1>1, <2>1, <2>4, <3>3, StackStep DEF Continue
  <2>5. QED
    BY <1>4, <2>2, <2>3, <2>4 DEF PipelineCommand
<1>5. QED
  BY <1>3, <1>4

(* parse_command                                                            *)
LEMMA CommandKeepsStack ==
  ASSUME StackInv, OpenGroup \/ StartSimple
  PROVE  StackInv'
<1>1. calls # <<>> /\ Top.fn = "command" /\ Counted
  BY DEF OpenGroup, StartSimple, Running
<1>2. Shape(Top) /\ Stacked(calls) /\ Top.depth \in Nat /\ outcome = {}
  BY <1>1, TopFacts
<1>3. CASE OpenGroup
  <2> DEFINE close  == Closing(KindAt(at))
             callee == ScriptCall(Top.depth + 1, {"end", close})
             group  == Group(Top.depth, close)
  <2>1. at' \in 1 .. Len(toks) + 1
    <3>1. KindAt(at) # "end" /\ at' = at + 1
      BY <1>3 DEF OpenGroup
    <3>2. QED
      BY <1>1, <3>1, Forward
  <2>2. Call(callee, group)
    BY <1>3 DEF OpenGroup
  <2>3. close \in {"rparen", "rbrace"}
    BY DEF Closing
  <2>4. Shape(group) /\ group.fn = "group" /\ group.depth = Top.depth
    BY <1>2, <2>3, NewFrames
  <2>5. Shape(callee) /\ callee.fn = "script" /\ callee.depth = Top.depth + 1
    <3>1. Top.depth + 1 \in Nat
      BY <1>2
    <3>2. QED
      BY <3>1, ScriptFrame
  <2> HIDE DEF callee, group
  <2>6. Linked(callee, group)
    BY <1>2, <2>4, <2>5, LinkedOf
  <2>7. Stacked(calls')
    BY <1>1, <1>2, <2>2, <2>4, <2>5, <2>6, Called DEF ForCommand
  <2>8. QED
    BY <1>1, <2>1, <2>2, <2>7, StackStep DEF Call
<1>4. CASE StartSimple
  <2>1. at' \in 1 .. Len(toks) + 1 /\ Continue(SimpleCall(Top.depth))
    BY <1>1, <1>4, Forward DEF StartSimple
  <2>2. Shape(SimpleCall(Top.depth)) /\ SimpleCall(Top.depth).fn = "simple"
        /\ SimpleCall(Top.depth).depth = Top.depth
    BY <1>2, NewFrames
  <2>3. Stacked(calls')
    BY <1>1, <1>2, <2>1, <2>2, Continued DEF ForCommand
  <2>4. QED
    BY <1>1, <2>1, <2>3, StackStep DEF Continue
<1>5. QED
  BY <1>3, <1>4

(* A call ends: a group, the body of a function, the command.               *)
LEMMA EndKeepsStack ==
  ASSUME StackInv, CloseGroup \/ FunctionBody \/ EndSimple
  PROVE  StackInv'
<1>1. calls # <<>> /\ Counted
  BY DEF CloseGroup, FunctionBody, EndSimple, Running, Resumed
<1>2. Shape(Top) /\ Stacked(calls) /\ outcome = {}
  BY <1>1, TopFacts
<1>3. at' \in 1 .. Len(toks) + 1
  <2>1. CASE CloseGroup
    <3>1. Top.close # "end"
      BY <1>2, <2>1 DEF CloseGroup, Resumed, Shape
    <3>2. at' = at \/ (KindAt(at) # "end" /\ at' = at + 1)
      BY <2>1, <3>1 DEF CloseGroup
    <3>3. QED
      BY <1>1, <3>2, Forward
  <2>2. CASE FunctionBody \/ EndSimple
    BY <1>1, <2>2, Forward DEF FunctionBody, EndSimple
  <2>3. QED
    BY <2>1, <2>2
<1>4. Fail \/ \E value : Return(value)
  BY DEF CloseGroup, FunctionBody, EndSimple
<1>5. CASE Fail
  BY <1>1, <1>3, <1>5, Failed, StackStep DEF Fail
<1>6. ASSUME NEW value, Return(value) PROVE StackInv'
  BY <1>1, <1>2, <1>3, <1>6, Returned, StackStep DEF Return
<1>7. QED
  BY <1>4, <1>5, <1>6

(* parse_simple: a function definition                                      *)
LEMMA HeaderKeepsStack ==
  ASSUME StackInv, FunctionHeader
  PROVE  StackInv'
<1>1. calls # <<>> /\ Top.fn = "simple" /\ Counted /\ KindAt(at + 2) = "rparen"
  BY DEF FunctionHeader, AtWord, AtHeader, Running
<1>2. Shape(Top) /\ Stacked(calls) /\ Top.depth \in Nat /\ outcome = {}
  BY <1>1, TopFacts
<1> DEFINE callee == CommandCall(Top.depth + 1)
           frame  == Function(Top.depth, Get(Literal(toks[at].word)))
<1>3. (Fail /\ at' = at) \/ (Call(callee, frame) /\ at' = AfterNewlines(at + 3))
  BY DEF FunctionHeader
<1>4. at' \in 1 .. Len(toks) + 1
  BY <1>1, <1>3, Forward
<1>5. CASE Fail
  BY <1>1, <1>4, <1>5, Failed, StackStep DEF Fail
<1>6. CASE Call(callee, frame)
  <2>1. Shape(frame) /\ frame.fn = "function" /\ frame.depth = Top.depth
    <3>1. Top.depth \in Nat
      BY <1>2
    <3>2. QED
      BY <3>1, FunctionFrame
  <2>2. Shape(callee) /\ callee.fn = "command" /\ callee.depth = Top.depth + 1
    <3>1. Top.depth + 1 \in Nat
      BY <1>2
    <3>2. QED
      BY <3>1, NewFrames
  <2> HIDE DEF callee, frame
  <2>3. Linked(callee, frame)
    BY <1>2, <2>1, <2>2, LinkedOf DEF ForCommand
  <2>4. Stacked(calls')
    BY <1>1, <1>2, <1>6, <2>1, <2>2, <2>3, Called DEF ForCommand
  <2>5. QED
    BY <1>1, <1>4, <1>6, <2>4, StackStep DEF Call
<1>7. QED
  BY <1>3, <1>5, <1>6

(* The frame the command goes on with when a token has been taken.          *)
LEMMA TakenOn ==
  ASSUME NEW f, Shape(f), f.fn = "simple", NEW g, Taken(g),
         \/ g = f
         \/ \E value : g \in {[f EXCEPT !.assigns = value], [f EXCEPT !.words = value],
                              [f EXCEPT !.redirs = value]}
  PROVE  \E frame : /\ Continue(frame) /\ Shape(frame) /\ frame.fn = "simple"
                    /\ frame.depth = f.depth /\ frame.saw = TRUE
<1>1. Shape(g) /\ g.fn = "simple" /\ g.depth = f.depth
  <2>1. \A value : \A h \in {[f EXCEPT !.assigns = value], [f EXCEPT !.words = value],
                             [f EXCEPT !.redirs = value]} :
          Shape(h) /\ h.fn = "simple" /\ h.depth = f.depth
    BY CollectingFrame
  <2>2. QED
    BY <2>1
<1>2. /\ Shape([g EXCEPT !.saw = TRUE]) /\ [g EXCEPT !.saw = TRUE].fn = "simple"
      /\ [g EXCEPT !.saw = TRUE].depth = f.depth /\ [g EXCEPT !.saw = TRUE].saw = TRUE
  BY <1>1, TakenFrame
<1>3. Continue([g EXCEPT !.saw = TRUE])
  BY DEF Taken
<1>4. QED
  BY <1>2, <1>3

Taking == SkipReserved \/ TakeAssignment \/ TakeWord \/ TakeRedirect

LEMMA TakingFacts ==
  ASSUME StackInv, Taking
  PROVE  /\ calls # <<>> /\ Top.fn = "simple" /\ returned = {} /\ Counted
         /\ KindAt(at) # "end" /\ at' \in {at + 1, at + 2} /\ at' \in 1 .. Len(toks) + 1
         /\ \/ Fail
            \/ \E frame : /\ Continue(frame) /\ Shape(frame) /\ frame.fn = "simple"
                          /\ frame.depth = Top.depth /\ frame.saw = TRUE
<1>1. /\ calls # <<>> /\ Top.fn = "simple" /\ returned = {} /\ Counted
      /\ KindAt(at) # "end"
  BY DEF Taking, SkipReserved, TakeAssignment, TakeWord, TakeRedirect, AtWord, Running
<1>2. Shape(Top)
  BY <1>1, TopFacts
<1>3. at' = at + 1 \/ (KindAt(at + 1) # "end" /\ at' = at + 2)
  BY DEF Taking, SkipReserved, TakeAssignment, TakeWord, TakeRedirect
<1>4. at' \in {at + 1, at + 2} /\ at' \in 1 .. Len(toks) + 1
  BY <1>1, <1>3, Forward
<1>5. \/ Fail
      \/ Taken(Top)
      \/ \E value : \/ Taken([Top EXCEPT !.assigns = value])
                    \/ Taken([Top EXCEPT !.words = value])
                    \/ Taken([Top EXCEPT !.redirs = value])
  <2>1. CASE SkipReserved
    BY <2>1 DEF SkipReserved
  <2>2. CASE TakeAssignment
    BY <2>2 DEF TakeAssignment
  <2>3. CASE TakeWord
    BY <2>3 DEF TakeWord
  <2>4. CASE TakeRedirect
    BY <2>4 DEF TakeRedirect
  <2>5. QED
    BY <2>1, <2>2, <2>3, <2>4 DEF Taking
<1>6. CASE Taken(Top)
  BY <1>1, <1>2, <1>4, <1>6, TakenOn
<1>7. ASSUME NEW value, NEW g \in {[Top EXCEPT !.assigns = value], [Top EXCEPT !.words = value],
                                   [Top EXCEPT !.redirs = value]}, Taken(g)
      PROVE  \E frame : /\ Continue(frame) /\ Shape(frame) /\ frame.fn = "simple"
                        /\ frame.depth = Top.depth /\ frame.saw = TRUE
  BY <1>1, <1>2, <1>7, TakenOn
<1>8. QED
  BY <1>1, <1>4, <1>5, <1>6, <1>7

(* parse_simple: a token of the command is taken                            *)
LEMMA TakingKeepsStack ==
  ASSUME StackInv, Taking
  PROVE  StackInv'
<1>1. /\ calls # <<>> /\ Top.fn = "simple" /\ Counted /\ at' \in 1 .. Len(toks) + 1
      /\ Stacked(calls)
  BY TakingFacts, TopFacts
<1>2. CASE Fail
  BY <1>1, <1>2, Failed, StackStep DEF Fail
<1>3. ASSUME NEW frame, Continue(frame), Shape(frame), frame.fn = "simple",
             frame.depth = Top.depth
      PROVE  StackInv'
  <2>1. Stacked(calls')
    BY <1>1, <1>3, Continued
  <2>2. QED
    BY <1>1, <1>3, <2>1, StackStep DEF Continue
<1>4. QED
  BY <1>2, <1>3, TakingFacts

LEMMA StackNext ==
  ASSUME StackInv, [Next]_vars
  PROVE  StackInv'
<1>1. CASE ScriptHead \/ ScriptPipeline
  BY <1>1, ScriptKeepsStack
<1>2. CASE PipelineStage \/ PipelineCommand
  BY <1>2, PipelineKeepsStack
<1>3. CASE OpenGroup \/ StartSimple
  BY <1>3, CommandKeepsStack
<1>4. CASE CloseGroup \/ FunctionBody \/ EndSimple
  BY <1>4, EndKeepsStack
<1>5. CASE FunctionHeader
  BY <1>5, HeaderKeepsStack
<1>6. CASE SkipReserved \/ TakeAssignment \/ TakeWord \/ TakeRedirect
  BY <1>6, TakingKeepsStack DEF Taking
<1>7. CASE Finish
  BY <1>7 DEF Finish, Counted, StackInv
<1>8. CASE UNCHANGED vars
  BY <1>8 DEF StackInv, vars
<1>9. QED
  BY <1>1, <1>2, <1>3, <1>4, <1>5, <1>6, <1>7, <1>8 DEF Next, Step, Done

LEMMA StackInit ==
  ASSUME Init
  PROVE  StackInv
<1>1. Stacked(<<>>)
  BY ShortSeqs DEF Stacked, ToSet
<1> DEFINE f == ScriptCall(0, {"end"})
<1>2. Shape(f) /\ f.fn = "script" /\ f.depth = 0
  <2>1. 0 \in Nat
    OBVIOUS
  <2>2. QED
    BY <2>1, ScriptFrame
<1> HIDE DEF f
<1>3. Stacked(<<f>> \o <<>>)
  BY <1>1, <1>2, PushStacked DEF Rests
<1>4. <<f>> \o <<>> = <<f>>
  <2>1. <<f>> \in Seq({f})
    OBVIOUS
  <2>2. QED
    BY <2>1, ConcatEmptySeq
<1>5. toks \in Input /\ Len(toks) \in Nat /\ at = 1 /\ outcome = {}
  BY TokenFacts DEF Init
<1>6. at \in 1 .. Len(toks) + 1
  BY <1>5
<1>7. calls = <<f>>
  BY DEF Init, f
<1>8. QED
  BY <1>3, <1>4, <1>5, <1>6, <1>7 DEF StackInv

LEMMA StackType ==
  ASSUME StackInv
  PROVE  TypeOK
<1>1. ASSUME NEW i \in DOMAIN calls
      PROVE  /\ calls[i].depth \in Nat
             /\ IF i = Len(calls) THEN calls[i].fn = "script"
                ELSE calls[i].fn \in Callees(calls[i + 1].fn)
  BY DEF StackInv, Stacked, Shape, Linked
<1>2. QED
  BY <1>1 DEF TypeOK, StackInv

(* Type correctness, for every token sequence and every nesting limit: the  *)
(* parser never leaves its input, and its calls in progress always form a   *)
(* chain that its functions can make (parser.rs).                           *)
THEOREM TypeCorrect == Spec => []TypeOK
<1>1. Init => StackInv
  BY StackInit
<1>2. StackInv /\ [Next]_vars => StackInv'
  BY StackNext
<1>3. StackInv => TypeOK
  BY StackType
<1>4. QED
  BY <1>1, <1>2, <1>3, PTL DEF Spec

-----------------------------------------------------------------------------
(* The open groups.  A group is one level above every group it is in, and   *)
(* the script between two groups had its level looked at; so the groups     *)
(* below the first script in a call have different levels under the limit,  *)
(* and above it there is at most one.                                       *)

DeepGroups == {i \in OpenGroups : i >= 3}

LEMMA DeepGroupsBounded ==
  ASSUME StackInv
  PROVE  IsFiniteSet(DeepGroups) /\ Cardinality(DeepGroups) <= MaxNest
<1>1. /\ Len(calls) \in Nat /\ DOMAIN calls = 1 .. Len(calls)
      /\ DeepGroups \subseteq DOMAIN calls
  BY DEF StackInv, Stacked, IsSeq, DeepGroups, OpenGroups
<1>2. MaxNest \in Nat
  BY MaxNestAssumption
<1> DEFINE level == [i \in DeepGroups |-> calls[i].depth]
<1>3. ASSUME NEW i \in DeepGroups
      PROVE  calls[i].depth \in 0 .. MaxNest - 1
  <2>1. i \in DOMAIN calls /\ i >= 3 /\ calls[i].fn = "group" /\ calls[i].depth \in Nat
    BY DEF DeepGroups, OpenGroups, StackInv, Stacked, Shape
  <2> DEFINE k == i - 1
  <2>2. k \in DOMAIN calls /\ k > 1 /\ k # Len(calls) /\ k + 1 = i
    BY <1>1, <2>1
  <2>3. calls[k].depth \in Nat
    BY <2>2 DEF StackInv, Stacked, Shape
  <2>4. Linked(calls[k], calls[i]) /\ (calls[k].fn = "script" => calls[k].depth <= MaxNest)
    BY <2>2 DEF StackInv, Stacked
  <2> HIDE DEF k
  <2>5. calls[k].fn = "script" /\ calls[k].depth = calls[i].depth + 1
    BY <2>1, <2>4, LinkedOf
  <2>6. QED
    BY <1>2, <2>1, <2>3, <2>4, <2>5
<1>4. ASSUME NEW i \in DeepGroups, NEW j \in DeepGroups, i < j
      PROVE  calls[i].depth # calls[j].depth
  <2>1. /\ i \in DOMAIN calls /\ j \in DOMAIN calls /\ calls[j].fn = "group"
        /\ calls[i].depth \in Nat /\ calls[j].depth \in Nat
    BY DEF DeepGroups, OpenGroups, StackInv, Stacked, Shape
  <2>2. calls[j].depth + 1 <= calls[i].depth
    BY <1>4, <2>1 DEF StackInv, Stacked, Within
  <2>3. QED
    BY <2>1, <2>2
<1>5. level \in Injection(DeepGroups, 0 .. MaxNest - 1)
  <2>1. level \in [DeepGroups -> 0 .. MaxNest - 1]
    BY <1>3
  <2>2. ASSUME NEW i \in DeepGroups, NEW j \in DeepGroups, level[i] = level[j]
        PROVE  i = j
    <3>1. i \in Nat /\ j \in Nat
      BY <1>1
    <3>2. ~(i < j) /\ ~(j < i)
      BY <1>4, <2>2
    <3>3. QED
      BY <3>1, <3>2
  <2>3. QED
    BY <2>1, <2>2 DEF Injection, IsInjective
<1>6. IsFiniteSet(0 .. MaxNest - 1) /\ Cardinality(0 .. MaxNest - 1) = MaxNest
  <2>1. 0 \in Int /\ MaxNest - 1 \in Int
    BY <1>2
  <2>2. /\ IsFiniteSet(0 .. MaxNest - 1)
        /\ Cardinality(0 .. MaxNest - 1) =
             IF 0 > MaxNest - 1 THEN 0 ELSE (MaxNest - 1) - 0 + 1
    BY <2>1, FS_Interval
  <2>3. QED
    BY <1>2, <2>2
<1>7. QED
  BY <1>5, <1>6, FS_Injection

LEMMA FirstGroup ==
  ASSUME StackInv
  PROVE  \E k : OpenGroups \subseteq DeepGroups \cup {k}
<1>1. /\ Len(calls) \in Nat /\ DOMAIN calls = 1 .. Len(calls)
      /\ OpenGroups \subseteq DOMAIN calls
  BY DEF StackInv, Stacked, IsSeq, OpenGroups
<1>2. \A i \in OpenGroups : i \in DeepGroups \/ i = 1 \/ i = 2
  BY <1>1 DEF DeepGroups
<1>3. ~(1 \in OpenGroups /\ 2 \in OpenGroups)
  <2> SUFFICES ASSUME 1 \in OpenGroups, 2 \in OpenGroups PROVE FALSE
    OBVIOUS
  <2>1. /\ 1 \in DOMAIN calls /\ 1 # Len(calls) /\ 1 + 1 = 2
        /\ calls[1].fn = "group" /\ calls[2].fn = "group"
    BY <1>1 DEF OpenGroups
  <2>2. Linked(calls[1], calls[2])
    BY <2>1 DEF StackInv, Stacked
  <2>3. QED
    BY <2>1, <2>2, CalleesOf DEF Linked
<1>4. CASE 1 \in OpenGroups
  BY <1>2, <1>3, <1>4
<1>5. CASE 1 \notin OpenGroups
  BY <1>2, <1>5
<1>6. QED
  BY <1>4, <1>5

LEMMA StackBoundsGroups ==
  ASSUME StackInv
  PROVE  GroupsBounded
<1>1. IsFiniteSet(DeepGroups) /\ Cardinality(DeepGroups) <= MaxNest
  BY DeepGroupsBounded
<1>2. PICK k : OpenGroups \subseteq DeepGroups \cup {k}
  BY FirstGroup
<1> DEFINE T == DeepGroups \cup {k}
<1>3. Cardinality(DeepGroups) \in Nat /\ MaxNest \in Nat
  BY <1>1, FS_CardinalityType, MaxNestAssumption
<1>4. IsFiniteSet(T) /\ Cardinality(T) <= MaxNest + 1 /\ Cardinality(T) \in Nat
  <2>1. /\ IsFiniteSet(T)
        /\ Cardinality(T) = IF k \in DeepGroups THEN Cardinality(DeepGroups)
                            ELSE Cardinality(DeepGroups) + 1
    BY <1>1, FS_AddElement
  <2>2. QED
    BY <1>1, <1>3, <2>1
<1> HIDE DEF T
<1>5. OpenGroups \in SUBSET T
  BY <1>2 DEF T
<1>6. IsFiniteSet(OpenGroups) /\ Cardinality(OpenGroups) <= Cardinality(T)
  BY <1>4, <1>5, FS_Subset
<1>7. Cardinality(OpenGroups) \in Nat
  BY <1>6, FS_CardinalityType
<1>8. QED
  BY <1>3, <1>4, <1>6, <1>7 DEF GroupsBounded

(* MAX_NEST_DEPTH is what bounds the groups that are open at once, whatever *)
(* the tokens and the limit: one more than the limit, because the level is  *)
(* looked at only inside the group (parse_script).                          *)
THEOREM GroupsBoundedAlways == Spec => []GroupsBounded
<1>1. Init => StackInv
  BY StackInit
<1>2. StackInv /\ [Next]_vars => StackInv'
  BY StackNext
<1>3. StackInv => GroupsBounded
  BY StackBoundsGroups
<1>4. QED
  BY <1>1, <1>2, <1>3, PTL DEF Spec

-----------------------------------------------------------------------------
(* The work. *)

LEMMA DueOf ==
  ASSUME NEW f, NEW result
  PROVE  /\ f.fn = "script" => Due(f, result) =
              IF result = {} THEN 0 ELSE IF Get(result) = <<>> THEN 5 ELSE 2
         /\ f.fn = "pipeline" => Due(f, result) =
              IF result # {} /\ Get(result) = {} THEN 4 ELSE 1
         /\ f.fn \in {"command", "group"} => Due(f, result) = 2
         /\ f.fn = "function" => Due(f, result) = IF Get(result) = {} THEN 3 ELSE 0
         /\ f.fn = "simple" => Due(f, result) = IF f.saw THEN 0 ELSE 3
BY DEF Due

LEMMA DueBounded ==
  ASSUME NEW f, Shape(f), NEW result
  PROVE  Due(f, result) \in 0 .. 5
<1>1. f.fn \in {"script", "pipeline", "command", "group", "function", "simple"}
  BY DEF Shape
<1>2. QED
  BY <1>1, DueOf

(* What the running call owes before a step and after it, its level left    *)
(* aside, and the tokens that the step consumes.                            *)
Owes(n)     == Owing = n - Top.depth
Leaves(n)   == Owing' = n - Top.depth
Consumes(n) == at' \in Nat /\ at + n <= at'

(* What is owed before a step of the running call, and after each of the    *)
(* ways the step can end.                                                   *)
LEMMA OwingNow ==
  ASSUME StackInv, calls # <<>>
  PROVE  Owes(Due(Top, returned))
BY TopFacts DEF Owing, Owes

LEMMA OwingOnFail ==
  ASSUME Fail
  PROVE  Owing' = 6
BY DEF Fail, Owing

LEMMA OwingOnContinue ==
  ASSUME StackInv, calls # <<>>, NEW f, Continue(f), f.depth = Top.depth
  PROVE  Leaves(Due(f, {}))
<1>1. outcome' = {} /\ returned' = {} /\ IsSeq(Tail(calls))
  BY TopFacts DEF Continue
<1>2. calls' # <<>> /\ Head(calls') = f
  BY <1>1, InFront DEF Continue
<1>3. QED
  BY <1>1, <1>2 DEF Owing, Top, Leaves

LEMMA OwingOnCall ==
  ASSUME StackInv, calls # <<>>, NEW f, NEW callee, Call(callee, f),
         Due(callee, {}) \in Int, NEW deeper \in Nat, callee.depth = Top.depth + deeper
  PROVE  Leaves(Due(callee, {}) - deeper)
<1>1. outcome' = {} /\ returned' = {} /\ IsSeq(Tail(calls))
  BY TopFacts DEF Call
<1>2. IsSeq(<<f>> \o Tail(calls))
      /\ <<callee, f>> \o Tail(calls) = <<callee>> \o (<<f>> \o Tail(calls))
  BY <1>1, InFront
<1>3. calls' # <<>> /\ Head(calls') = callee
  BY <1>2, InFront DEF Call
<1>4. Owing' = Due(callee, {}) - (Top.depth + deeper)
  BY <1>1, <1>3 DEF Owing, Top
<1>5. QED
  BY <1>4, TopFacts DEF Leaves

(* What the caller owes once it has the value.                              *)
DueOnReturn(fn, value) ==
  IF fn = "script" THEN 3
  ELSE IF fn = "pipeline" THEN IF value = <<>> THEN 5 ELSE 2
  ELSE IF value = {} THEN 4 ELSE 1

LEMMA OwingOnReturn ==
  ASSUME StackInv, calls # <<>>, NEW value, Return(value)
  PROVE  Leaves(DueOnReturn(Top.fn, value))
<1> SUFFICES Owing' = DueOnReturn(Top.fn, value) - Top.depth
  BY DEF Leaves
<1> DEFINE rest == Tail(calls)
           caller == Head(rest)
<1>1. /\ outcome' = {} /\ returned' = {value} /\ calls' = rest
      /\ Rests(Top, rest) /\ Stacked(rest) /\ Top.depth \in Nat
  BY TopFacts DEF Return
<1>2. {value} # {} /\ Get({value}) = value
  BY GetMember
<1>3. CASE rest = <<>>
  <2>1. Top.fn = "script" /\ Top.depth = 0
    BY <1>1, <1>3 DEF Rests
  <2>2. QED
    BY <1>1, <1>3, <2>1 DEF Owing, DueOnReturn
<1>4. CASE rest # <<>>
  <2>1. Linked(Top, caller) /\ Shape(caller) /\ caller.depth \in Nat
    BY <1>1, <1>4, TopStacked DEF Rests, Shape
  <2>2. Owing' = Due(caller, {value}) - caller.depth
    BY <1>1, <1>4 DEF Owing, Top
  <2>3. caller.fn \in {"script", "pipeline", "command", "group", "function", "simple"}
    BY <2>1 DEF Shape
  <2> HIDE DEF caller, rest
  <2>4. CASE caller.fn = "script"
    <3>1. Top.fn = "pipeline" /\ Top.depth = caller.depth
      BY <2>1, <2>4, LinkedOf
    <3>2. Due(caller, {value}) = IF value = <<>> THEN 5 ELSE 2
      BY <1>2, <2>4, DueOf
    <3>3. QED
      BY <2>2, <3>1, <3>2 DEF DueOnReturn
  <2>5. CASE caller.fn = "group"
    <3>1. Top.fn = "script" /\ Top.depth = caller.depth + 1
      BY <2>1, <2>5, LinkedOf
    <3>2. Due(caller, {value}) = 2
      BY <2>5, DueOf
    <3>3. QED
      BY <2>1, <2>2, <3>1, <3>2 DEF DueOnReturn
  <2>6. CASE caller.fn = "pipeline"
    <3>1. Top.fn \in ForCommand /\ Top.depth = caller.depth
      BY <2>1, <2>6, LinkedOf
    <3>2. Due(caller, {value}) = IF value = {} THEN 4 ELSE 1
      BY <1>2, <2>6, DueOf
    <3>3. QED
      BY <2>2, <3>1, <3>2 DEF DueOnReturn, ForCommand
  <2>7. CASE caller.fn = "function"
    <3>1. Top.fn \in ForCommand /\ Top.depth = caller.depth + 1
      BY <2>1, <2>7, LinkedOf
    <3>2. Due(caller, {value}) = IF value = {} THEN 3 ELSE 0
      BY <1>2, <2>7, DueOf
    <3>3. DueOnReturn(Top.fn, value) = IF value = {} THEN 4 ELSE 1
      BY <3>1 DEF DueOnReturn, ForCommand
    <3>4. QED
      BY <2>1, <2>2, <3>1, <3>2, <3>3
  <2>8. CASE caller.fn \in {"command", "simple"}
    BY <2>1, <2>8, CalleesOf DEF Linked
  <2>9. QED
    BY <2>3, <2>4, <2>5, <2>6, <2>7, <2>8
<1>5. QED
  BY <1>3, <1>4

(* A step that is paid for.                                                 *)
LEMMA Payment ==
  ASSUME NEW before \in Int, NEW after \in Int, NEW depth \in Nat, NEW gone \in Nat,
         NEW i \in Nat, NEW j \in Nat, NEW done \in Nat,
         done <= 4 * (i - 1) + (before - depth), i + gone <= j,
         before + 1 <= 4 * gone + after
  PROVE  done + 1 <= 4 * (j - 1) + (after - depth)
<1>1. done + 1 <= 4 * (i - 1) + (before + 1 - depth)
  OBVIOUS
<1>2. 4 * (i - 1) + (before + 1 - depth) <= 4 * (i - 1) + (4 * gone + after - depth)
  OBVIOUS
<1>3. 4 * (i - 1) + (4 * gone + after - depth) <= 4 * (j - 1) + (after - depth)
  OBVIOUS
<1>4. QED
  BY <1>1, <1>2, <1>3

LEMMA PaidStep ==
  ASSUME StackInv, WorkInv, calls # <<>>, Counted,
         NEW before \in Int, NEW after \in Int, NEW gone \in Nat,
         Owes(before), Leaves(after), Consumes(gone), before + 1 <= 4 * gone + after
  PROVE  WorkInv'
<1>1. /\ at \in Nat /\ Top.depth \in Nat /\ steps' = steps + 1 /\ steps \in Nat
      /\ at' \in Nat /\ at + gone <= at'
  BY TopFacts DEF WorkInv, Counted, Consumes
<1>2. steps <= 4 * (at - 1) + (before - Top.depth)
  BY DEF WorkInv, Owes
<1>3. steps + 1 <= 4 * (at' - 1) + (after - Top.depth)
  BY <1>1, <1>2, Payment
<1>4. steps' \in Nat /\ steps' <= 4 * (at' - 1) + Owing'
  BY <1>1, <1>3 DEF Leaves
<1>5. QED
  BY <1>4 DEF WorkInv

(* A failure is always paid for.                                            *)
LEMMA FailPaid ==
  ASSUME StackInv, WorkInv, calls # <<>>, Counted, Fail, Consumes(0)
  PROVE  WorkInv'
<1> DEFINE due == Due(Top, returned)
           after == 6 + Top.depth
<1>1. due \in 0 .. 5 /\ Top.depth \in Nat
  BY TopFacts, DueBounded
<1>2. Owes(due)
  BY OwingNow
<1>3. Leaves(after)
  <2>1. after - Top.depth = 6
    BY <1>1
  <2>2. QED
    BY <2>1, OwingOnFail DEF Leaves
<1>4. due \in Int /\ after \in Int /\ 0 \in Nat /\ due + 1 <= 4 * 0 + after
  BY <1>1
<1> HIDE DEF due, after
<1>5. QED
  BY <1>2, <1>3, <1>4, PaidStep

(* parse_script                                                             *)
LEMMA ScriptPaid ==
  ASSUME StackInv, WorkInv, ScriptHead \/ ScriptPipeline
  PROVE  WorkInv'
<1>1. calls # <<>> /\ Top.fn = "script" /\ Counted
  BY DEF ScriptHead, ScriptPipeline, Running, Resumed
<1>2. /\ Shape(Top) /\ Top.depth \in Nat /\ at \in Nat /\ Len(toks) \in Nat
      /\ Owes(Due(Top, returned))
  BY <1>1, TopFacts, OwingNow
<1>3. CASE ScriptHead
  <2>1. Consumes(0)
    <3>1. at' \in at .. Len(toks) + 1
      BY <1>1, <1>3, Forward DEF ScriptHead
    <3>2. QED
      BY <1>2, <3>1 DEF Consumes
  <2>2. Owes(0)
    <3>1. Due(Top, returned) = 0
      BY <1>1, <1>3, DueOf DEF ScriptHead, Running
    <3>2. QED
      BY <1>2, <3>1
  <2>3. CASE Fail
    BY <1>1, <2>1, <2>3, FailPaid
  <2>4. CASE Return(Top.pipes)
    <3>1. Leaves(3)
      BY <1>1, <2>4, OwingOnReturn DEF DueOnReturn
    <3>2. QED
      BY <1>1, <2>1, <2>2, <3>1, PaidStep
  <2>5. CASE Call(PipelineCall(Top.depth), Top)
    <3>1. PipelineCall(Top.depth).fn = "pipeline"
          /\ PipelineCall(Top.depth).depth = Top.depth + 0
      <4>1. Top.depth + 0 = Top.depth
        BY <1>2
      <4>2. QED
        BY <1>2, <4>1, NewFrames
    <3>2. Due(PipelineCall(Top.depth), {}) = 1
      BY <3>1, DueOf
    <3>3. Leaves(1 - 0)
      BY <1>1, <2>5, <3>1, <3>2, OwingOnCall
    <3>4. QED
      BY <1>1, <2>1, <2>2, <3>3, PaidStep
  <2>6. QED
    BY <1>3, <2>3, <2>4, <2>5 DEF ScriptHead
<1>4. CASE ScriptPipeline
  <2> DEFINE pipe == Get(returned)
             done == Append(Top.pipes, pipe)
             on   == [Top EXCEPT !.pipes = done]
  <2>1. /\ returned # {}
        /\ \/ Fail /\ at' = at
           \/ pipe # <<>> /\ Continue(on) /\ at' = at + 1
           \/ pipe # <<>> /\ Return(done) /\ at' = at
    BY <1>4 DEF ScriptPipeline, Resumed
  <2>2. at' = at + 1 => Consumes(1)
    BY <1>2 DEF Consumes
  <2>3. at' = at => Consumes(0)
    BY <1>2 DEF Consumes
  <2>4. pipe # <<>> => Owes(2)
    <3>1. pipe # <<>> => Due(Top, returned) = 2
      BY <1>1, <2>1, DueOf
    <3>2. QED
      BY <1>2, <3>1
  <2> HIDE DEF pipe
  <2>5. CASE Fail /\ at' = at
    BY <1>1, <2>3, <2>5, FailPaid
  <2>6. CASE pipe # <<>> /\ Continue(on) /\ at' = at + 1
    <3>1. on.fn = "script" /\ on.depth = Top.depth
      BY <1>1, <1>2, ChangedFrames
    <3> HIDE DEF on
    <3>2. Due(on, {}) = 0
      BY <3>1, DueOf
    <3>3. Leaves(0)
      BY <1>1, <2>6, <3>1, <3>2, OwingOnContinue
    <3>4. QED
      BY <1>1, <2>2, <2>4, <2>6, <3>3, PaidStep
  <2>7. CASE pipe # <<>> /\ Return(done) /\ at' = at
    <3>1. Leaves(3)
      BY <1>1, <2>7, OwingOnReturn DEF DueOnReturn
    <3>2. QED
      BY <1>1, <2>3, <2>4, <2>7, <3>1, PaidStep
  <2>8. QED
    BY <2>1, <2>5, <2>6, <2>7
<1>5. QED
  BY <1>3, <1>4

(* parse_pipeline                                                           *)
LEMMA PipelinePaid ==
  ASSUME StackInv, WorkInv, PipelineStage \/ PipelineCommand
  PROVE  WorkInv'
<1>1. calls # <<>> /\ Top.fn = "pipeline" /\ Counted
  BY DEF PipelineStage, PipelineCommand, Running, Resumed
<1>2. /\ Shape(Top) /\ Top.depth \in Nat /\ at \in Nat /\ Len(toks) \in Nat
      /\ Owes(Due(Top, returned))
  BY <1>1, TopFacts, OwingNow
<1>3. CASE PipelineStage
  <2>1. Consumes(0) /\ Call(CommandCall(Top.depth), Top)
    BY <1>2, <1>3 DEF PipelineStage, Consumes
  <2>2. Owes(1)
    <3>1. Due(Top, returned) = 1
      BY <1>1, <1>3, DueOf DEF PipelineStage, Running
    <3>2. QED
      BY <1>2, <3>1
  <2>3. CommandCall(Top.depth).fn = "command" /\ CommandCall(Top.depth).depth = Top.depth + 0
    <3>1. Top.depth + 0 = Top.depth
      BY <1>2
    <3>2. QED
      BY <1>2, <3>1, NewFrames
  <2>4. Due(CommandCall(Top.depth), {}) = 2
    BY <2>3, DueOf
  <2>5. Leaves(2 - 0)
    BY <1>1, <2>1, <2>3, <2>4, OwingOnCall
  <2>6. QED
    BY <1>1, <2>1, <2>2, <2>5, PaidStep
<1>4. CASE PipelineCommand
  <2> DEFINE option == Get(returned)
             cmds   == Top.cmds \o (IF option = {} THEN <<>> ELSE <<Get(option)>>)
             on     == [Top EXCEPT !.cmds = cmds]
  <2>1. IsSeq(cmds) /\ (option # {} => cmds # <<>>)
    <3>1. IsSeq(Top.cmds)
      BY <1>1, <1>2 DEF Shape
    <3>2. IsSeq(cmds)
      BY <3>1, ShortSeqs, ConcatIsSeq
    <3>3. ASSUME option # {} PROVE ToSet(cmds) # {}
      <4>1. ToSet(cmds) = ToSet(Top.cmds) \cup ToSet(<<Get(option)>>)
        BY <3>1, <3>3, ShortSeqs, ConcatIsSeq
      <4>2. ToSet(<<Get(option)>>) = {Get(option)}
        BY ShortSeqs
      <4>3. QED
        BY <4>1, <4>2
    <3> HIDE DEF cmds
    <3>4. QED
      BY <3>2, <3>3, ShortSeqs
  <2>2. /\ returned # {}
        /\ \/ Fail /\ at' = at
           \/ option = {} /\ Return(<<>>) /\ at' = at
           \/ /\ option # {} /\ KindAt(at) # "end"
              /\ Continue(on) /\ at' = AfterNewlines(at + 1)
           \/ option # {} /\ Return(cmds) /\ at' = at
    BY <1>4 DEF PipelineCommand, Resumed
  <2>3. at' = at => Consumes(0)
    BY <1>2 DEF Consumes
  <2>4. (option = {} => Owes(4)) /\ (option # {} => Owes(1))
    <3>1. Due(Top, returned) = IF option = {} THEN 4 ELSE 1
      BY <1>1, <2>2, DueOf
    <3>2. QED
      BY <1>2, <3>1
  <2> HIDE DEF option, cmds
  <2>5. CASE Fail /\ at' = at
    BY <1>1, <2>3, <2>5, FailPaid
  <2>6. CASE option = {} /\ Return(<<>>) /\ at' = at
    <3>1. Leaves(DueOnReturn("pipeline", <<>>))
      BY <1>1, <2>6, OwingOnReturn
    <3>2. Leaves(5)
      BY <3>1 DEF DueOnReturn
    <3>3. QED
      BY <1>1, <2>3, <2>4, <2>6, <3>2, PaidStep
  <2>7. CASE /\ option # {} /\ KindAt(at) # "end"
             /\ Continue(on) /\ at' = AfterNewlines(at + 1)
    <3>1. on.fn = "pipeline" /\ on.depth = Top.depth
      BY <1>1, <1>2, <2>1, ChangedFrames
    <3> HIDE DEF on
    <3>2. Due(on, {}) = 1
      BY <3>1, DueOf
    <3>3. Leaves(1)
      BY <1>1, <2>7, <3>1, <3>2, OwingOnContinue
    <3>4. at' \in at + 1 .. Len(toks) + 1
      BY <1>1, <2>7, Forward
    <3>5. Consumes(1)
      BY <1>2, <3>4 DEF Consumes
    <3>6. QED
      BY <1>1, <2>4, <2>7, <3>3, <3>5, PaidStep
  <2>8. CASE option # {} /\ Return(cmds) /\ at' = at
    <3>1. Leaves(DueOnReturn("pipeline", cmds))
      BY <1>1, <2>8, OwingOnReturn
    <3>2. Leaves(2)
      BY <2>1, <2>8, <3>1 DEF DueOnReturn
    <3>3. QED
      BY <1>1, <2>3, <2>4, <2>8, <3>2, PaidStep
  <2>9. QED
    BY <2>2, <2>5, <2>6, <2>7, <2>8
<1>5. QED
  BY <1>3, <1>4

(* parse_command                                                            *)
LEMMA CommandPaid ==
  ASSUME StackInv, WorkInv, OpenGroup \/ StartSimple
  PROVE  WorkInv'
<1>1. calls # <<>> /\ Top.fn = "command" /\ Counted
  BY DEF OpenGroup, StartSimple, Running
<1>2. Shape(Top) /\ Top.depth \in Nat /\ at \in Nat /\ Owes(Due(Top, returned))
  BY <1>1, TopFacts, OwingNow
<1>3. Owes(2)
  <2>1. Due(Top, returned) = 2
    BY <1>1, DueOf
  <2>2. QED
    BY <1>2, <2>1
<1>4. CASE OpenGroup
  <2> DEFINE callee == ScriptCall(Top.depth + 1, {"end", Closing(KindAt(at))})
             group  == Group(Top.depth, Closing(KindAt(at)))
  <2>1. Call(callee, group) /\ Consumes(1)
    BY <1>2, <1>4 DEF OpenGroup, Consumes
  <2>2. callee.fn = "script" /\ callee.depth = Top.depth + 1
    <3>1. Top.depth + 1 \in Nat
      BY <1>2
    <3>2. QED
      BY <3>1, ScriptFrame
  <2> HIDE DEF callee, group
  <2>3. Due(callee, {}) = 0
    BY <2>2, DueOf
  <2>4. Leaves(0 - 1)
    BY <1>1, <2>1, <2>2, <2>3, OwingOnCall
  <2>5. QED
    BY <1>1, <1>3, <2>1, <2>4, PaidStep
<1>5. CASE StartSimple
  <2>1. Continue(SimpleCall(Top.depth)) /\ Consumes(0)
    BY <1>2, <1>5 DEF StartSimple, Consumes
  <2>2. SimpleCall(Top.depth).fn = "simple" /\ SimpleCall(Top.depth).depth = Top.depth
        /\ SimpleCall(Top.depth).saw = FALSE
    BY <1>2, NewFrames
  <2>3. Due(SimpleCall(Top.depth), {}) = 3
    BY <2>2, DueOf
  <2>4. Leaves(3)
    BY <1>1, <2>1, <2>2, <2>3, OwingOnContinue
  <2>5. QED
    BY <1>1, <1>3, <2>1, <2>4, PaidStep
<1>6. QED
  BY <1>4, <1>5

(* A call ends: a group, the body of a function, the command.               *)
LEMMA EndPaid ==
  ASSUME StackInv, WorkInv, CloseGroup \/ FunctionBody \/ EndSimple
  PROVE  WorkInv'
<1>1. calls # <<>> /\ Counted
  BY DEF CloseGroup, FunctionBody, EndSimple, Running, Resumed
<1>2. Shape(Top) /\ Top.depth \in Nat /\ at \in Nat /\ Owes(Due(Top, returned))
  BY <1>1, TopFacts, OwingNow
<1>3. at' \in {at, at + 1}
  BY DEF CloseGroup, FunctionBody, EndSimple
<1>4. Consumes(0) /\ (at' = at + 1 => Consumes(1))
  BY <1>2, <1>3 DEF Consumes
<1>5. CASE Fail
  BY <1>1, <1>4, <1>5, FailPaid
<1>6. CASE CloseGroup
  <2>1. ASSUME NEW value, Return({value}), at' = at + 1, Top.fn = "group"
        PROVE  WorkInv'
    <3>1. Leaves(1)
      BY <1>1, <2>1, OwingOnReturn DEF DueOnReturn
    <3>2. Due(Top, returned) = 2
      BY <2>1, DueOf
    <3>3. Owes(2)
      BY <1>2, <3>2
    <3>4. QED
      BY <1>1, <1>4, <2>1, <3>1, <3>3, PaidStep
  <2>2. QED
    BY <1>5, <1>6, <2>1 DEF CloseGroup, Resumed
<1>7. CASE FunctionBody
  <2>1. ASSUME NEW value, Return({value}), Top.fn = "function", Get(returned) # {}
        PROVE  WorkInv'
    <3>1. Leaves(1)
      BY <1>1, <2>1, OwingOnReturn DEF DueOnReturn
    <3>2. Due(Top, returned) = 0
      BY <2>1, DueOf
    <3>3. Owes(0)
      BY <1>2, <3>2
    <3>4. QED
      BY <1>1, <1>4, <3>1, <3>3, PaidStep
  <2>2. QED
    BY <1>5, <1>7, <2>1 DEF FunctionBody, Resumed
<1>8. CASE EndSimple
  <2>1. Top.fn = "simple"
    BY <1>8 DEF EndSimple, Running
  <2>2. Due(Top, returned) = IF Top.saw THEN 0 ELSE 3
    BY <2>1, DueOf
  <2>3. ASSUME NEW value, Return({value}), Top.saw PROVE WorkInv'
    <3>1. Leaves(1)
      BY <1>1, <2>1, <2>3, OwingOnReturn DEF DueOnReturn
    <3>2. Owes(0)
      BY <1>2, <2>2, <2>3
    <3>3. QED
      BY <1>1, <1>4, <3>1, <3>2, PaidStep
  <2>4. ASSUME Return({}), ~Top.saw PROVE WorkInv'
    <3>1. Leaves(4)
      BY <1>1, <2>1, <2>4, OwingOnReturn DEF DueOnReturn
    <3>2. Owes(3)
      BY <1>2, <2>2, <2>4
    <3>3. QED
      BY <1>1, <1>4, <3>1, <3>2, PaidStep
  <2>5. QED
    BY <1>8, <2>3, <2>4 DEF EndSimple
<1>9. QED
  BY <1>6, <1>7, <1>8

(* parse_simple: a function definition                                      *)
LEMMA HeaderPaid ==
  ASSUME StackInv, WorkInv, FunctionHeader
  PROVE  WorkInv'
<1>1. calls # <<>> /\ Top.fn = "simple" /\ Counted /\ KindAt(at + 2) = "rparen"
  BY DEF FunctionHeader, AtWord, AtHeader, Running
<1>2. Top.depth \in Nat /\ at \in Nat /\ Len(toks) \in Nat /\ Owes(Due(Top, returned))
  BY <1>1, TopFacts, OwingNow
<1> DEFINE callee == CommandCall(Top.depth + 1)
           frame  == Function(Top.depth, Get(Literal(toks[at].word)))
<1>3. (Fail /\ at' = at) \/ (Call(callee, frame) /\ at' = AfterNewlines(at + 3))
  BY DEF FunctionHeader
<1>4. CASE Fail /\ at' = at
  <2>1. Consumes(0)
    BY <1>2, <1>4 DEF Consumes
  <2>2. QED
    BY <1>1, <1>4, <2>1, FailPaid
<1>5. CASE Call(callee, frame) /\ at' = AfterNewlines(at + 3)
  <2>1. callee.fn = "command" /\ callee.depth = Top.depth + 1
    <3>1. Top.depth + 1 \in Nat
      BY <1>2
    <3>2. QED
      BY <3>1, NewFrames
  <2> HIDE DEF callee, frame
  <2>2. Due(callee, {}) = 2
    BY <2>1, DueOf
  <2>3. Leaves(2 - 1)
    BY <1>1, <1>5, <2>1, <2>2, OwingOnCall
  <2>4. at' \in at + 3 .. Len(toks) + 1
    BY <1>1, <1>5, Forward
  <2>5. Consumes(3)
    BY <1>2, <2>4 DEF Consumes
  <2>6. Owes(0) \/ Owes(3)
    <3>1. Due(Top, returned) = 0 \/ Due(Top, returned) = 3
      BY <1>1, DueOf
    <3>2. QED
      BY <1>2, <3>1
  <2>7. QED
    BY <1>1, <2>3, <2>5, <2>6, PaidStep
<1>6. QED
  BY <1>3, <1>4, <1>5

(* parse_simple: a token of the command is taken                            *)
LEMMA TakingPaid ==
  ASSUME StackInv, WorkInv, Taking
  PROVE  WorkInv'
<1>1. /\ calls # <<>> /\ Top.fn = "simple" /\ Counted
      /\ at' \in {at + 1, at + 2} /\ at \in Nat /\ Owes(Due(Top, returned))
  BY TakingFacts, TopFacts, OwingNow
<1>2. Consumes(1) /\ Consumes(0)
  BY <1>1 DEF Consumes
<1>3. Owes(0) \/ Owes(3)
  <2>1. Due(Top, returned) = 0 \/ Due(Top, returned) = 3
    BY <1>1, DueOf
  <2>2. QED
    BY <1>1, <2>1
<1>4. CASE Fail
  BY <1>1, <1>2, <1>4, FailPaid
<1>5. ASSUME NEW frame, Continue(frame), frame.fn = "simple", frame.depth = Top.depth,
             frame.saw = TRUE
      PROVE  WorkInv'
  <2>1. Due(frame, {}) = 0
    BY <1>5, DueOf
  <2>2. Leaves(0)
    BY <1>1, <1>5, <2>1, OwingOnContinue
  <2>3. QED
    BY <1>1, <1>2, <1>3, <2>2, PaidStep
<1>6. QED
  BY <1>4, <1>5, TakingFacts

(* parse: the outermost script has been parsed.                             *)
LEMMA FinishPaid ==
  ASSUME StackInv, WorkInv, Finish
  PROVE  WorkInv'
<1>1. at \in Nat /\ steps \in Nat /\ at' = at /\ steps' = steps + 1
  BY TokenFacts DEF StackInv, WorkInv, Finish, Counted
<1>2. Owing = 3 /\ Owing' = 6
  BY DEF Finish, StackInv, Owing
<1>3. QED
  BY <1>1, <1>2 DEF WorkInv

LEMMA WorkNext ==
  ASSUME StackInv, WorkInv, [Next]_vars
  PROVE  WorkInv'
<1>1. CASE ScriptHead \/ ScriptPipeline
  BY <1>1, ScriptPaid
<1>2. CASE PipelineStage \/ PipelineCommand
  BY <1>2, PipelinePaid
<1>3. CASE OpenGroup \/ StartSimple
  BY <1>3, CommandPaid
<1>4. CASE CloseGroup \/ FunctionBody \/ EndSimple
  BY <1>4, EndPaid
<1>5. CASE FunctionHeader
  BY <1>5, HeaderPaid
<1>6. CASE SkipReserved \/ TakeAssignment \/ TakeWord \/ TakeRedirect
  BY <1>6, TakingPaid DEF Taking
<1>7. CASE Finish
  BY <1>7, FinishPaid
<1>8. CASE UNCHANGED vars
  BY <1>8 DEF WorkInv, Owing, Top, vars
<1>9. QED
  BY <1>1, <1>2, <1>3, <1>4, <1>5, <1>6, <1>7, <1>8 DEF Next, Step, Done

LEMMA WorkInit ==
  ASSUME Init
  PROVE  WorkInv
<1> DEFINE f == ScriptCall(0, {"end"})
<1>1. f.fn = "script" /\ f.depth = 0
  <2>1. 0 \in Nat
    OBVIOUS
  <2>2. QED
    BY <2>1, ScriptFrame
<1> HIDE DEF f
<1>2. calls = <<f>> /\ returned = {} /\ outcome = {} /\ at = 1 /\ steps = 0
  BY DEF Init, f
<1>3. calls # <<>> /\ Top = f
  BY <1>2 DEF Top
<1>4. Due(f, {}) = 0
  BY <1>1, DueOf
<1>5. Owing = 0
  BY <1>1, <1>2, <1>3, <1>4 DEF Owing
<1>6. QED
  BY <1>2, <1>5 DEF WorkInv

LEMMA WorkBounded ==
  ASSUME StackInv, WorkInv
  PROVE  LinearWork
<1>1. at \in Nat /\ at <= Len(toks) + 1 /\ Len(toks) \in Nat /\ steps \in Nat
  BY TokenFacts DEF StackInv, WorkInv
<1>2. Owing \in Int /\ Owing <= 6
  <2>1. CASE outcome # {} \/ calls = <<>>
    BY <2>1 DEF Owing
  <2>2. CASE outcome = {} /\ calls # <<>>
    <3>1. Due(Top, returned) \in 0 .. 5 /\ Top.depth \in Nat
      BY <2>2, TopFacts, DueBounded
    <3>2. Owing = Due(Top, returned) - Top.depth
      BY <2>2 DEF Owing
    <3>3. QED
      BY <3>1, <3>2
  <2>3. QED
    BY <2>1, <2>2
<1>3. steps <= 4 * (at - 1) + Owing
  BY DEF WorkInv
<1>4. QED
  BY <1>1, <1>2, <1>3 DEF LinearWork

(* SPEC.md section 7: the parser does work linear in its input, whatever    *)
(* the tokens: every step is paid for by a token that is never looked at    *)
(* again, so no input makes it go back or go on for ever (parser.rs).       *)
THEOREM LinearWorkAlways == Spec => []LinearWork
<1>1. Init => StackInv /\ WorkInv
  BY StackInit, WorkInit
<1>2. StackInv /\ WorkInv /\ [Next]_vars => StackInv' /\ WorkInv'
  BY StackNext, WorkNext
<1>3. StackInv /\ WorkInv => LinearWork
  BY WorkBounded
<1>4. QED
  BY <1>1, <1>2, <1>3, PTL DEF Spec
=============================================================================
