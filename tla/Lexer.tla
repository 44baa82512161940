-------------------------------- MODULE Lexer --------------------------------
(***************************************************************************)
(* The tokenizer (lexer.rs): one pass over the characters of a command, a  *)
(* word in the making, and the tokens so far.                              *)
(*                                                                         *)
(* A token is [tok |-> "word", word], [tok |-> "redir", fd, op] with fd an *)
(* option, or [tok |-> k] with k the kind of an operator.  The readers of  *)
(* expansions answer {} where the source answers an error, and otherwise   *)
(* {<<what was read, the position after>>}.                                *)
(***************************************************************************)
EXTENDS Syntax

CONSTANTS
  Input,         \* the commands handed to the tokenizer
  MaxCmdBytes,   \* limits::MAX_CMD_BYTES; the characters are ASCII
  MaxTokens,     \* limits::MAX_TOKENS
  MaxFd          \* the largest i32

ASSUME LimitAssumption == {MaxCmdBytes, MaxTokens, MaxFd} \subseteq Nat

VARIABLES
  input,     \* [src, meant]: the command, and the tokens it spells, as an option
  i,         \* the position, counted from 1
  buf,       \* WordBuf: the word in the making
  inside,    \* between double quotes, in lex_double_quoted
  toks,      \* the tokens so far
  outcome    \* {} while tokenizing, then {"ok"} or {"error"}

vars == <<input, i, buf, inside, toks, outcome>>

NewBuf == [segs |-> <<>>, cur |-> "", started |-> FALSE, quoted |-> FALSE]

Init ==
  /\ input \in Input
  /\ i = 1 /\ buf = NewBuf /\ inside = FALSE
  /\ toks = <<>> /\ outcome = {}

src == input.src
Char(k) == CharAt(src, k)
Between(j, k) == SubSeq(src, j, k - 1)
(* A TLA+ string cannot spell the backtick; this character stands for it. *)
Tick == "^"
Blank == {" ", "\t", "\n", "\r"}

-----------------------------------------------------------------------------
(* Reading expansions.                                                      *)

(* The end of a single- or double-quoted string inside a substitution, its  *)
(* first character at j. *)
QuotedEnd(j, quote) ==
  LET close[k \in 1 .. Len(src) + 2] ==
        CASE k > Len(src)    -> {}
          [] Char(k) = quote -> {k + 1}
          [] Char(k) = "\\" /\ quote = "\"" /\ k < Len(src) -> close[k + 2]
          [] OTHER           -> close[k + 1]
  IN  close[j]

(* read_paren_sub: the body of a substitution is kept as it is written. *)
ParenSub(start) ==
  LET close[j \in 1 .. Len(src) + 2, depth \in 1 .. Len(src) + 1] ==
        CASE j > Len(src)     -> {}
          [] Char(j) = "\\" /\ j < Len(src) -> close[j + 2, depth]
          [] Char(j) \in {"'", "\""} ->
               UNION {close[k, depth] : k \in QuotedEnd(j + 1, Char(j))}
          [] Char(j) = "("    -> close[j + 1, depth + 1]
          [] Char(j) = ")"    -> IF depth = 1 THEN {j} ELSE close[j + 1, depth - 1]
          [] OTHER            -> close[j + 1, depth]
  IN  {<<Between(start, j), j + 1>> : j \in close[start, 1]}

(* read_backtick: a backslash keeps the next character from ending it. *)
Backtick(start) ==
  LET rest[j \in 1 .. Len(src) + 2] ==
        CASE j > Len(src)  -> {}
          [] Char(j) = Tick -> {<<"", j + 1>>}
          [] Char(j) = "\\" /\ j < Len(src) -> {<<Char(j + 1) \o r[1], r[2]>> : r \in rest[j + 2]}
          [] OTHER         -> {<<Char(j) \o r[1], r[2]>> : r \in rest[j + 1]}
  IN  rest[start]

(* The )) of an arithmetic expansion: the first two that leave no           *)
(* parenthesis open. *)
Arithmetic(start) ==
  LET Count(paren, j) == Cardinality({k \in start .. j : Char(k) = paren})
      ends == {j \in start .. Len(src) :
                 Char(j) = ")" /\ Char(j + 1) = ")" /\ Count(")", j) = Count("(", j) + 1}
  IN  IF ends = {} THEN {} ELSE {Min(ends) + 2}

NameRest(start) ==
  Min({k \in start .. Len(src) + 1 : Char(k) \notin NameStart \cup Digit})

(* lex_dollar: whether the $ at position k starts an expansion, and which. *)
Expands(k) ==
  Char(k + 1) \in {"(", "{", "?", "$", "!", "@", "*", "#"} \cup NameStart \cup Digit
Expansion(k, quoted) ==
  LET next == Char(k + 1)
      Var(name, j) == <<[seg |-> "var", name |-> name, quoted |-> quoted], j>>
  IN  CASE next = "(" /\ Char(k + 2) = "(" ->
             {<<[seg |-> "arith"], j>> : j \in Arithmetic(k + 3)}
        [] next = "(" /\ Char(k + 2) # "(" ->
             {<<[seg |-> "cmdsub", src |-> s[1], quoted |-> quoted], s[2]>> : s \in ParenSub(k + 2)}
        [] next = "{" ->
             LET ends == {j \in k + 2 .. Len(src) : Char(j) = "}"}
             IN  IF ends = {} THEN {} ELSE {Var(Between(k + 2, Min(ends)), Min(ends) + 1)}
        [] next \in NameStart -> {Var(Between(k + 1, NameRest(k + 1)), NameRest(k + 1))}
        [] OTHER -> {Var(next, k + 2)}

-----------------------------------------------------------------------------
(* The word in the making, and the ways a step can end.                     *)

PushText(text) == [buf EXCEPT !.cur = @ \o text, !.started = TRUE]
FlushLit(b) ==
  IF b.cur = "" THEN b
  ELSE [b EXCEPT !.segs = Append(@, [seg |-> "lit", text |-> b.cur]), !.cur = ""]
PushSeg(seg) == [FlushLit(buf) EXCEPT !.segs = Append(@, seg), !.started = TRUE]

Going(mode) == outcome = {} /\ inside = mode /\ Len(src) <= MaxCmdBytes /\ i <= Len(src)
On(chars) == Going(FALSE) /\ Char(i) \in chars

Fail == outcome' = {"error"} /\ UNCHANGED <<input, i, buf, inside, toks>>

(* The word goes on as b. *)
Extend(b, next) == buf' = b /\ i' = next /\ UNCHANGED <<input, inside, toks, outcome>>

(* An expansion that was read, or was not. *)
ExtendBy(read) ==
  IF read = {} THEN Fail ELSE Extend(PushSeg(Get(read)[1]), Get(read)[2])

(* flush_word!, then the tokens ts. *)
Words(b) ==
  IF b.started THEN <<[tok |-> "word",
                       word |-> [segs |-> FlushLit(b).segs, quoted |-> b.quoted]]>>
  ELSE <<>>
Emit(b, ts, next) ==
  IF b.started /\ Len(toks) + 1 > MaxTokens THEN Fail
  ELSE /\ toks' = toks \o Words(b) \o ts
       /\ buf' = NewBuf /\ i' = next
       /\ UNCHANGED <<input, inside, outcome>>
Operator(kind, next) == Emit(buf, <<[tok |-> kind]>>, next)

-----------------------------------------------------------------------------
(* Outside double quotes, the branches of the loop in tokenize.             *)

Oversized ==
  /\ outcome = {} /\ Len(src) > MaxCmdBytes
  /\ Fail

(* Mutant of Comment: # starts a comment anywhere. *)
CommentAnywhere ==
  /\ On({"#"})
  /\ Extend(buf, Min({k \in i .. Len(src) + 1 : Char(k) \in {"\n", ""}}))

(* Only at the start of a word. *)
Comment ==
  /\ On({"#"}) /\ ~buf.started
  /\ Extend(buf, Min({k \in i .. Len(src) + 1 : Char(k) \in {"\n", ""}}))

EndWord ==
  /\ On(Blank)
  /\ IF Char(i) = "\n" THEN Operator("newline", i + 1) ELSE Emit(buf, <<>>, i + 1)

(* A line continuation; any other character after \ stands for itself. *)
Backslash ==
  /\ On({"\\"})
  /\ CASE Char(i + 1) = "\n" -> Extend(buf, i + 2)
       [] Char(i + 1) = ""   -> Fail
       [] OTHER              -> Extend([PushText(Char(i + 1)) EXCEPT !.quoted = TRUE], i + 2)

SingleQuoted ==
  /\ On({"'"})
  /\ LET ends == {k \in i + 1 .. Len(src) : Char(k) = "'"}
     IN  IF ends = {} THEN Fail
         ELSE Extend([PushText(Between(i + 1, Min(ends))) EXCEPT !.quoted = TRUE], Min(ends) + 1)

(* Mutant of OpenDouble: an empty string starts no word. *)
OpenDoubleUnstarted ==
  /\ On({"\""})
  /\ inside' = TRUE /\ i' = i + 1
  /\ UNCHANGED <<input, buf, toks, outcome>>

OpenDouble ==
  /\ On({"\""})
  /\ inside' = TRUE /\ buf' = [buf EXCEPT !.started = TRUE] /\ i' = i + 1
  /\ UNCHANGED <<input, toks, outcome>>

(* A backtick and $, outside double quotes or between them. *)
BacktickSub ==
  /\ Going(inside) /\ Char(i) = Tick
  /\ ExtendBy({<<[seg |-> "cmdsub", src |-> s[1], quoted |-> inside], s[2]>> : s \in Backtick(i + 1)})

(* Mutant of Dollar: a $ that stands for itself is not stepped over. *)
DollarStays ==
  /\ Going(inside) /\ Char(i) = "$"
  /\ IF Expands(i) THEN ExtendBy(Expansion(i, inside)) ELSE Extend(PushText("$"), i)

Dollar ==
  /\ Going(inside) /\ Char(i) = "$"
  /\ IF Expands(i) THEN ExtendBy(Expansion(i, inside)) ELSE Extend(PushText("$"), i + 1)

(* <( and >( start a word, not a redirection. *)
ProcSub ==
  /\ On({"<", ">"}) /\ Char(i + 1) = "("
  /\ ExtendBy({<<[seg |-> "procsub", src |-> s[1]], s[2]>> : s \in ParenSub(i + 2)})

(* take_fd: the word in the making as a file descriptor. *)
Number(text) ==
  FoldLeft(LAMBDA n, k :
             IF n > MaxFd THEN n
             ELSE 10 * n + Min(Occurrences(CharAt(text, k), "0123456789")) - 1,
           0, [k \in 1 .. Len(text) |-> k])
TakeFd ==
  IF buf.segs = <<>> /\ buf.cur # "" /\ ~buf.quoted /\ CharSet(buf.cur) \subseteq Digit
  THEN {n \in {Number(buf.cur)} : n <= MaxFd}
  ELSE {}

(* read_redir_op: the longest operator there is at position k. *)
RedirOps ==
  {<<">>", "append">>, <<">&", "dupout">>, <<">|", "clobber">>, <<">", "out">>,
   <<"<<<", "herestring">>, <<"<<", "heredoc">>, <<"<&", "dupin">>, <<"<>", "readwrite">>,
   <<"<", "in">>}
RedirAt(k) ==
  LET there == {r \in RedirOps : StartsWith(Drop(src, k - 1), r[1])}
  IN  CHOOSE r \in there : \A other \in there : Len(other[1]) <= Len(r[1])

Redirection ==
  /\ On({"<", ">"}) /\ Char(i + 1) # "("
  /\ LET redir == RedirAt(i)
     IN  Emit(IF TakeFd = {} THEN buf ELSE NewBuf,
              <<[tok |-> "redir", fd |-> TakeFd, op |-> redir[2]]>>, i + Len(redir[1]))

(* &> and &>>, &&, & *)
Ampersand ==
  /\ On({"&"})
  /\ CASE Char(i + 1) = ">" -> Emit(buf, <<[tok |-> "redir", fd |-> {}, op |-> "dupout"]>>,
                                    IF Char(i + 2) = ">" THEN i + 3 ELSE i + 2)
       [] Char(i + 1) = "&" -> Operator("and_if", i + 2)
       [] OTHER             -> Operator("amp", i + 1)

(* || , |, ;, ( and ) *)
Control ==
  /\ On({"|", ";", "(", ")"})
  /\ IF Char(i) = "|" /\ Char(i + 1) = "|" THEN Operator("or_if", i + 2)
     ELSE Operator(CASE Char(i) = "|" -> "pipe"   [] Char(i) = ";" -> "semi"
                     [] Char(i) = "(" -> "lparen" [] Char(i) = ")" -> "rparen", i + 1)

(* { and } are operators only where they stand alone; otherwise, as any     *)
(* other character, they are part of a word. *)
StandsAlone ==
  /\ ~buf.started
  /\ \/ Char(i) = "{" /\ Char(i + 1) \in Blank
     \/ Char(i) = "}" /\ Char(i + 1) \in Blank \cup {"", ";", "&", ")", "|"}
Brace ==
  /\ Going(FALSE) /\ StandsAlone
  /\ Operator(IF Char(i) = "{" THEN "lbrace" ELSE "rbrace", i + 1)

Special == Blank \cup {"\\", "'", "\"", Tick, "$", "<", ">", "&", "|", ";", "(", ")"}
PlainChar ==
  /\ Going(FALSE)
  /\ Char(i) \notin Special /\ ~StandsAlone
  /\ ~(Char(i) = "#" /\ ~buf.started)
  /\ Extend(PushText(Char(i)), i + 1)

Finish ==
  /\ outcome = {} /\ ~inside /\ Len(src) <= MaxCmdBytes /\ i > Len(src)
  /\ IF buf.started /\ Len(toks) + 1 > MaxTokens THEN Fail
     ELSE /\ toks' = toks \o Words(buf) /\ outcome' = {"ok"}
          /\ UNCHANGED <<input, i, buf, inside>>

-----------------------------------------------------------------------------
(* Between double quotes, the branches of the loop in lex_double_quoted.    *)

CloseDouble ==
  /\ Going(TRUE) /\ Char(i) = "\""
  /\ inside' = FALSE /\ buf' = [buf EXCEPT !.quoted = TRUE] /\ i' = i + 1
  /\ UNCHANGED <<input, toks, outcome>>

(* A backslash escapes only a few characters, and a newline away. *)
DoubleEscape ==
  /\ Going(TRUE) /\ Char(i) = "\\"
  /\ CASE Char(i + 1) = ""   -> Fail
       [] Char(i + 1) = "\n" -> Extend(buf, i + 2)
       [] Char(i + 1) \in {"\"", "\\", "$", Tick} -> Extend(PushText(Char(i + 1)), i + 2)
       [] OTHER              -> Extend(PushText("\\"), i + 1)

DoubleChar ==
  /\ Going(TRUE) /\ Char(i) \notin {"\"", "\\", Tick, "$"}
  /\ Extend(PushText(Char(i)), i + 1)

UnterminatedDouble ==
  /\ outcome = {} /\ inside /\ i > Len(src)
  /\ Fail

Step ==
  \/ Oversized \/ Comment \/ EndWord \/ Backslash \/ SingleQuoted \/ OpenDouble
  \/ BacktickSub \/ Dollar \/ ProcSub \/ Redirection \/ Ampersand \/ Control
  \/ Brace \/ PlainChar \/ Finish
  \/ CloseDouble \/ DoubleEscape \/ DoubleChar \/ UnterminatedDouble

Done == outcome # {} /\ UNCHANGED vars

Next == Step \/ Done

Spec == Init /\ [][Next]_vars

-----------------------------------------------------------------------------

(* The pass goes over the command once, from left to right, and a word that *)
(* has not been started is empty: nothing is taken for the next word.       *)
TypeOK ==
  /\ i \in 1 .. Len(src) + 1
  /\ ~buf.started => buf = NewBuf
  /\ inside => buf.started
  /\ \A k \in DOMAIN toks : toks[k].tok = "word" =>
       \A s \in ToSet(toks[k].word.segs) : s.seg = "lit" => s.text # ""

(* However the words of a command are spelled (quotes of either kind,       *)
(* backslashes, empty quotes and line continuations in the middle), with    *)
(* whatever operators, redirections, comments and white space between, the  *)
(* tokens are those the spelling stands for: what is quoted is never an     *)
(* operator, and what is not quoted is never hidden.                        *)
TokenizesWhatWasWritten ==
  \A meant \in input.meant : outcome # {} => outcome = {"ok"} /\ toks = meant

(* The tokenizer is a single pass, linear in its input: every step moves on *)
(* (or is the last one), and no token is ever taken back.                   *)
MovesOn ==
  [][/\ i' > i \/ outcome' # {}
     /\ IsPrefix(toks, toks')]_vars

(* limits.rs: MAX_TOKENS is the maximum of tokens produced for one command. *)
TokensBounded == outcome = {"ok"} => Len(toks) <= MaxTokens
=============================================================================
