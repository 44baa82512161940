---------------------------- MODULE ParserGrammar ----------------------------
(***************************************************************************)
(* The grammar the parser is for, and the claim that it parses it.         *)
(*                                                                         *)
(*   script     : newline* [ pipeline [ separator script ] ]               *)
(*   pipeline   : command ( "|" newline* command )*                        *)
(*   command    : "(" script ")"  |  "{" script "}"                        *)
(*              | definition  |  simple                                    *)
(*   definition : prefix* NAME "(" ")" newline* command                    *)
(*   simple     : prefix* [ word ( word | redirect )* ]   (not empty)      *)
(*   prefix     : reserved  |  assignment  |  redirect                     *)
(*                                                                         *)
(* The tree of a definition keeps nothing of its prefix.                   *)
(*                                                                         *)
(* Each operator gives all <<tree, j>> such that the tokens from i up to,  *)
(* not including, j derive the tree: a choice is a union, and nothing is   *)
(* said of the order in which a parser tries or looks ahead.  A level is   *)
(* the number of groups and definitions around the tokens.                 *)
(***************************************************************************)
EXTENDS Parser

NewlinesFrom(i) == {j \in i .. Len(toks) + 1 : \A k \in i .. j - 1 : KindAt(k) = "newline"}

IsWordAt(i) == KindAt(i) = "word"
ReservedAt(i) == IsWordAt(i) /\ IsReserved(toks[i].word)
AssignmentsAt(i) ==
  IF IsWordAt(i) /\ ~ReservedAt(i) THEN TrySplitAssignment(toks[i].word) ELSE {}
RedirectsAt(i) ==
  IF KindAt(i) = "redir" /\ IsWordAt(i + 1)
  THEN {[op |-> toks[i].op, target |-> toks[i + 1].word]} ELSE {}

(* A simple command with one more piece in front of what follows it. *)
Empty == [cmd |-> "simple", assigns |-> <<>>, words |-> <<>>, redirs |-> <<>>]
Assigned(a, c) == [c EXCEPT !.assigns = <<a>> \o @]
Redirected(r, c) == [c EXCEPT !.redirs = <<r>> \o @]
Worded(w, c) == [c EXCEPT !.words = <<w>> \o @]

RECURSIVE Arguments(_)
Arguments(i) ==
  {<<Empty, i>>}
    \cup UNION {{<<Redirected(r, p[1]), p[2]>> : p \in Arguments(i + 2)} : r \in RedirectsAt(i)}
    \cup IF IsWordAt(i)
         THEN {<<Worded(toks[i].word, p[1]), p[2]>> : p \in Arguments(i + 1)} ELSE {}

RECURSIVE Prefixed(_)
Prefixed(i) ==
  {<<Empty, i>>}
    \cup (IF ReservedAt(i) THEN Prefixed(i + 1) ELSE {})
    \cup UNION {{<<Assigned(a, p[1]), p[2]>> : p \in Prefixed(i + 1)} : a \in AssignmentsAt(i)}
    \cup UNION {{<<Redirected(r, p[1]), p[2]>> : p \in Prefixed(i + 2)} : r \in RedirectsAt(i)}
    \cup IF IsWordAt(i) /\ ~ReservedAt(i) /\ AssignmentsAt(i) = {}
         THEN {<<Worded(toks[i].word, p[1]), p[2]>> : p \in Arguments(i + 1)} ELSE {}

Simples(i) == {p \in Prefixed(i) : p[2] > i}

BodyOf(command) == IF command.cmd = "nested" THEN command.body ELSE <<<<command>>>>

RECURSIVE Scripts(_, _), Pipelines(_, _), Commands(_, _), Definitions(_, _)
Definitions(i, level) ==
  (IF ReservedAt(i) \/ AssignmentsAt(i) # {} THEN Definitions(i + 1, level) ELSE {})
    \cup (IF RedirectsAt(i) # {} THEN Definitions(i + 2, level) ELSE {})
    \cup IF IsWordAt(i) /\ KindAt(i + 1) = "lparen" /\ KindAt(i + 2) = "rparen"
         THEN UNION {{<<[cmd |-> "func", name |-> name, body |-> BodyOf(p[1])], p[2]>> :
                        p \in UNION {Commands(j, level + 1) : j \in NewlinesFrom(i + 3)}}
                     : name \in Literal(toks[i].word)}
         ELSE {}
Groups(i, level, open, close) ==
  IF KindAt(i) # open \/ level >= MaxNest THEN {}
  ELSE {<<[cmd |-> "nested", body |-> p[1]], p[2] + 1>> :
          p \in {q \in Scripts(i + 1, level + 1) : KindAt(q[2]) = close}}
Commands(i, level) ==
  Groups(i, level, "lparen", "rparen") \cup Groups(i, level, "lbrace", "rbrace")
    \cup Definitions(i, level) \cup Simples(i)
Pipelines(i, level) ==
  LET Piped(p) ==
        IF KindAt(p[2]) # "pipe" THEN {}
        ELSE {<<<<p[1]>> \o rest[1], rest[2]>> :
                rest \in UNION {Pipelines(j, level) : j \in NewlinesFrom(p[2] + 1)}}
  IN  UNION {{<<<<p[1]>>, p[2]>>} \cup Piped(p) : p \in Commands(i, level)}
Scripts(i, level) ==
  LET Separated(p) ==
        IF KindAt(p[2]) \notin Separator THEN {}
        ELSE {<<<<p[1]>> \o rest[1], rest[2]>> : rest \in Scripts(p[2] + 1, level)}
  IN  {<<<<>>, j>> : j \in NewlinesFrom(i)}
        \cup UNION {{<<<<p[1]>>, p[2]>>} \cup Separated(p) :
                      p \in UNION {Pipelines(j, level) : j \in NewlinesFrom(i)}}

(* The trees of the whole input. *)
Trees == {p[1] : p \in {q \in Scripts(1, 0) : q[2] = Len(toks) + 1}}

(* The parser accepts the inputs the grammar derives, up to the nesting     *)
(* limit, and no other; and the tree it builds is the only one there is.    *)
ParsesTheGrammar ==
  \A result \in outcome :
    Trees = IF result[1] = "ok" THEN {result[2]} ELSE {}
=============================================================================
