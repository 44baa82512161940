------------------------------- MODULE Parser -------------------------------
(***************************************************************************)
(* The recursive-descent parser (parser.rs): from the tokens of a command  *)
(* to its syntax tree.                                                     *)
(*                                                                         *)
(* The call stack is the sequence calls of frames, the running call first; *)
(* a frame keeps the locals of its function that outlive a call.  returned *)
(* is the value of the call that has just ended, for its caller to take.   *)
(*                                                                         *)
(* A token is [tok |-> "word", word], [tok |-> "redir", op], or [tok |-> k]*)
(* with k one of the other kinds.                                          *)
(***************************************************************************)
EXTENDS Syntax

CONSTANTS
  Input,   \* the token sequences handed to the parser
  MaxNest  \* limits::MAX_NEST_DEPTH

ASSUME MaxNestAssumption == MaxNest \in Nat

(* lexer.rs: enum Tok *)
TokenType ==
  [tok : {"word"}, word : WordType] \cup [tok : {"redir"}, op : STRING]
    \cup [tok : {"pipe", "and_if", "or_if", "semi", "amp", "newline", "lparen", "rparen",
                 "lbrace", "rbrace"}]
ASSUME InputAssumption == Input \subseteq Seq(TokenType)

VARIABLES
  toks,      \* P::t
  at,        \* P::i, counted from 1
  calls,     \* the calls in progress
  returned,  \* {} or {value}
  outcome,   \* {} while parsing, then {<<"ok", script>>} or {<<"error">>}
  steps      \* history: actions taken

vars == <<toks, at, calls, returned, outcome, steps>>

(* P::peek and P::at_separator, and the position P::skip_newlines stops at. *)
KindAt(i) == IF i \in DOMAIN toks THEN toks[i].tok ELSE "end"
Separator == {"semi", "amp", "newline", "and_if", "or_if"}
AfterNewlines(i) ==
  Min({k \in i .. Len(toks) + 1 : KindAt(k) # "newline"})

(* Frames, one constructor for each function and each point in it that      *)
(* awaits a call.                                                           *)
ScriptCall(depth, stop) == [fn |-> "script", depth |-> depth, stop |-> stop, pipes |-> <<>>]
PipelineCall(depth) == [fn |-> "pipeline", depth |-> depth, cmds |-> <<>>]
CommandCall(depth)  == [fn |-> "command", depth |-> depth]
Group(depth, close) == [fn |-> "group", depth |-> depth, close |-> close]
Function(depth, name) == [fn |-> "function", depth |-> depth, name |-> name]
SimpleCall(depth) ==
  [fn |-> "simple", depth |-> depth, assigns |-> <<>>, words |-> <<>>, redirs |-> <<>>,
   saw |-> FALSE]

Init ==
  /\ toks \in Input
  /\ at = 1
  /\ calls = <<ScriptCall(0, {"end"})>> /\ returned = {}
  /\ outcome = {} /\ steps = 0

Top == Head(calls)
Running(fn) == calls # <<>> /\ Top.fn = fn /\ returned = {}
Resumed(fn) == calls # <<>> /\ Top.fn = fn /\ returned # {}

(* The ways a step can end: the running call goes on as frame, makes a call *)
(* and awaits it as frame, returns, or fails, which `?` hands through every *)
(* caller.                                                                  *)
Continue(frame) ==
  /\ calls' = <<frame>> \o Tail(calls)
  /\ returned' = {} /\ UNCHANGED outcome
Call(callee, frame) ==
  /\ calls' = <<callee, frame>> \o Tail(calls)
  /\ returned' = {} /\ UNCHANGED outcome
Return(value) ==
  /\ calls' = Tail(calls)
  /\ returned' = {value} /\ UNCHANGED outcome
Fail ==
  /\ calls' = <<>> /\ returned' = {}
  /\ outcome' = {<<"error">>}
Counted == steps' = steps + 1 /\ UNCHANGED toks

(* parse_script: the checks at the head of its loop. *)
ScriptHead ==
  /\ Running("script")
  /\ at' = AfterNewlines(at)
  /\ \/ Top.depth > MaxNest /\ Fail
     \/ /\ Top.depth <= MaxNest
        /\ IF KindAt(at') \in Top.stop THEN Return(Top.pipes)
           ELSE Call(PipelineCall(Top.depth), Top)
  /\ Counted

(* parse_script: a pipeline has been parsed. *)
ScriptPipeline ==
  /\ Resumed("script")
  /\ LET pipe == Get(returned)
         done == Append(Top.pipes, pipe)
     IN  \/ pipe = <<>> /\ Fail /\ UNCHANGED at
         \/ /\ pipe # <<>> /\ KindAt(at) \in Separator
            /\ Continue([Top EXCEPT !.pipes = done]) /\ at' = at + 1
         \/ /\ pipe # <<>> /\ KindAt(at) \notin Separator
            /\ IF KindAt(at) \in Top.stop THEN Return(done) ELSE Fail
            /\ UNCHANGED at
  /\ Counted

(* parse_pipeline *)
PipelineStage ==
  /\ Running("pipeline")
  /\ Call(CommandCall(Top.depth), Top)
  /\ UNCHANGED at /\ Counted

(* Mutant of PipelineCommand: a pipe that nothing follows is accepted. *)
PipelineCommandOpen ==
  /\ Resumed("pipeline")
  /\ LET option == Get(returned)
         cmds   == Top.cmds \o (IF option = {} THEN <<>> ELSE <<Get(option)>>)
     IN  IF option # {} /\ KindAt(at) = "pipe"
         THEN Continue([Top EXCEPT !.cmds = cmds]) /\ at' = AfterNewlines(at + 1)
         ELSE Return(cmds) /\ UNCHANGED at
  /\ Counted

PipelineCommand ==
  /\ Resumed("pipeline")
  /\ LET option == Get(returned)
         cmds   == Top.cmds \o (IF option = {} THEN <<>> ELSE <<Get(option)>>)
     IN  \/ /\ option = {}
            /\ IF cmds = <<>> THEN Return(<<>>) ELSE Fail
            /\ UNCHANGED at
         \/ /\ option # {} /\ KindAt(at) = "pipe"
            /\ Continue([Top EXCEPT !.cmds = cmds]) /\ at' = AfterNewlines(at + 1)
         \/ /\ option # {} /\ KindAt(at) # "pipe"
            /\ Return(cmds) /\ UNCHANGED at
  /\ Counted

(* parse_command *)
Closing(open) == IF open = "lparen" THEN "rparen" ELSE "rbrace"
(* Mutant of OpenGroup: the group is parsed at the level it stands on. *)
OpenGroupLevel ==
  /\ Running("command")
  /\ KindAt(at) \in {"lparen", "lbrace"}
  /\ LET close == Closing(KindAt(at))
     IN  Call(ScriptCall(Top.depth, {"end", close}), Group(Top.depth, close))
  /\ at' = at + 1 /\ Counted

OpenGroup ==
  /\ Running("command")
  /\ KindAt(at) \in {"lparen", "lbrace"}
  /\ LET close == Closing(KindAt(at))
     IN  Call(ScriptCall(Top.depth + 1, {"end", close}), Group(Top.depth, close))
  /\ at' = at + 1 /\ Counted

(* Mutant of CloseGroup: the end of the input closes every group. *)
CloseGroupAtEnd ==
  /\ Resumed("group")
  /\ IF KindAt(at) \in {Top.close, "end"}
     THEN Return({[cmd |-> "nested", body |-> Get(returned)]}) /\ at' = at + 1
     ELSE Fail /\ UNCHANGED at
  /\ Counted

CloseGroup ==
  /\ Resumed("group")
  /\ IF KindAt(at) = Top.close
     THEN Return({[cmd |-> "nested", body |-> Get(returned)]}) /\ at' = at + 1
     ELSE Fail /\ UNCHANGED at
  /\ Counted

StartSimple ==
  /\ Running("command")
  /\ KindAt(at) \notin {"lparen", "lbrace"}
  /\ Continue(SimpleCall(Top.depth))
  /\ UNCHANGED at /\ Counted

(* parse_simple: one turn of its loop, by the token it looks at.  Nothing   *)
(* but an argument is looked for once the command has its name.             *)
AtWord == Running("simple") /\ KindAt(at) = "word"
AtHeader ==
  Top.words = <<>> /\ KindAt(at + 1) = "lparen" /\ KindAt(at + 2) = "rparen"
Taken(frame) == Continue([frame EXCEPT !.saw = TRUE])

(* A function definition: what was collected before its name is let go.     *)
FunctionHeader ==
  /\ AtWord /\ AtHeader
  /\ LET name == Literal(toks[at].word)
     IN  IF name = {} THEN Fail /\ UNCHANGED at
         ELSE /\ Call(CommandCall(Top.depth + 1), Function(Top.depth, Get(name)))
              /\ at' = AfterNewlines(at + 3)
  /\ Counted

FunctionBody ==
  /\ Resumed("function")
  /\ LET option == Get(returned)
         body == IF Get(option).cmd = "nested" THEN Get(option).body
                 ELSE <<<<Get(option)>>>>
     IN  IF option = {} THEN Fail
         ELSE Return({[cmd |-> "func", name |-> Top.name, body |-> body]})
  /\ UNCHANGED at /\ Counted

(* Mutant of SkipReserved: the word is not consumed. *)
SkipReservedStays ==
  /\ AtWord /\ ~AtHeader
  /\ Top.words = <<>> /\ IsReserved(toks[at].word)
  /\ Taken(Top)
  /\ UNCHANGED at /\ Counted

(* if, then, do, ... : what follows is the command. *)
SkipReserved ==
  /\ AtWord /\ ~AtHeader
  /\ Top.words = <<>> /\ IsReserved(toks[at].word)
  /\ Taken(Top)
  /\ at' = at + 1 /\ Counted

TakeAssignment ==
  /\ AtWord /\ ~AtHeader
  /\ Top.words = <<>> /\ ~IsReserved(toks[at].word)
  /\ \E a \in TrySplitAssignment(toks[at].word) :
       Taken([Top EXCEPT !.assigns = Append(@, a)])
  /\ at' = at + 1 /\ Counted

TakeWord ==
  /\ AtWord /\ ~AtHeader
  /\ \/ Top.words # <<>>
     \/ ~IsReserved(toks[at].word) /\ TrySplitAssignment(toks[at].word) = {}
  /\ Taken([Top EXCEPT !.words = Append(@, toks[at].word)])
  /\ at' = at + 1 /\ Counted

TakeRedirect ==
  /\ Running("simple") /\ KindAt(at) = "redir"
  /\ IF KindAt(at + 1) = "word"
     THEN /\ Taken([Top EXCEPT !.redirs =
                      Append(@, [op |-> toks[at].op, target |-> toks[at + 1].word])])
          /\ at' = at + 2
     ELSE Fail /\ at' = at + 1
  /\ Counted

EndSimple ==
  /\ Running("simple") /\ KindAt(at) \notin {"word", "redir"}
  /\ Return(IF ~Top.saw THEN {}
            ELSE {[cmd |-> "simple", assigns |-> Top.assigns, words |-> Top.words,
                   redirs |-> Top.redirs]})
  /\ UNCHANGED at /\ Counted

(* parse: the outermost script has been parsed. *)
Finish ==
  /\ calls = <<>> /\ returned # {}
  /\ outcome' = {IF at <= Len(toks) THEN <<"error">> ELSE <<"ok", Get(returned)>>}
  /\ returned' = {}
  /\ UNCHANGED <<at, calls>> /\ Counted

Step ==
  \/ ScriptHead \/ ScriptPipeline \/ PipelineStage \/ PipelineCommand
  \/ OpenGroup \/ CloseGroup \/ StartSimple
  \/ FunctionHeader \/ FunctionBody
  \/ SkipReserved \/ TakeAssignment \/ TakeWord \/ TakeRedirect \/ EndSimple
  \/ Finish

Done == outcome # {} /\ UNCHANGED vars

Next == Step \/ Done

Spec == Init /\ [][Next]_vars

-----------------------------------------------------------------------------

(* What can be running above a caller. *)
Callees(fn) ==
  CASE fn = "script"   -> {"pipeline"}
    [] fn = "group"    -> {"script"}
    [] fn \in {"pipeline", "function"} ->
         {"command", "group", "function", "simple"}
    [] OTHER -> {}

(* The calls in progress form a chain the functions can really make, from   *)
(* the script of the whole input up, and the position never leaves the      *)
(* input by more than its end.                                              *)
TypeOK ==
  /\ at \in 1 .. Len(toks) + 1
  /\ \A i \in DOMAIN calls :
       /\ calls[i].depth \in Nat
       /\ IF i = Len(calls) THEN calls[i].fn = "script"
          ELSE calls[i].fn \in Callees(calls[i + 1].fn)
  /\ outcome # {} => calls = <<>> /\ returned = {}

(* The groups the parser is inside of at once (MAX_NEST_DEPTH): one more    *)
(* than it accepts, because the level is looked at once the group is open.  *)
OpenGroups == {i \in DOMAIN calls : calls[i].fn = "group"}
GroupsBounded == Cardinality(OpenGroups) <= MaxNest + 1

(* The parser is linear in the length of its input, whatever the input      *)
(* (SPEC.md section 7): it never goes back, and it ends.                    *)
LinearWork == steps <= 4 * Len(toks) + 8

(* SPEC.md section 7: parsing is depth-bounded.  A level of groups is three *)
(* calls deep, and one more call finds out that there are too many.         *)
RecursionBounded == Len(calls) <= 3 * (MaxNest + 1) + 1
=============================================================================
