------------------------------ MODULE MCLexer ------------------------------
(* Instance of Lexer: commands made by spelling tokens in the ways a shell  *)
(* allows, and arbitrary short strings.                                     *)
EXTENDS Lexer

(* A piece of a word: how it is written, the segments it stands for, and    *)
(* whether it counts as quoted.                                             *)
Piece(text, segs, quoted) == [text |-> text, segs |-> segs, quoted |-> quoted]
Lit(c) == <<[seg |-> "lit", text |-> c]>>

(* The ways to quote a character. *)
InDouble(c) == IF c \in {"\"", "\\", "$", Tick} THEN "\\" \o c ELSE c
Quoted(c) ==
  {Piece(text, Lit(c), TRUE) :
     text \in {"\"" \o InDouble(c) \o "\"", "\\" \o c}
              \cup (IF c = "'" THEN {} ELSE {"'" \o c \o "'"})}
Texts ==
  UNION {Quoted(c) : c \in {"a", "1", ";", "(", ")", "'", "\"", "$", "#", " ", "\\", "{", "&",
                            ">", "|", Tick}}
    \cup {Piece("a", Lit("a"), FALSE), Piece("a#", Lit("a#"), FALSE), Piece("{a,a}", Lit("{a,a}"), FALSE),
          Piece("}a", Lit("}a"), FALSE), Piece("''", <<>>, TRUE), Piece("\"\"", <<>>, TRUE),
          Piece("\"\\a\"", Lit("\\a"), TRUE), Piece("\"a\\\na\"", Lit("aa"), TRUE)}

(* Expansions, outside and inside double quotes. *)
Inside(p) ==
  Piece("\"" \o p.text \o "\"",
        <<[p.segs[1] EXCEPT !.quoted = TRUE]>>, TRUE)
Var(text, name) == Piece(text, <<[seg |-> "var", name |-> name, quoted |-> FALSE]>>, FALSE)
CmdSub(text, body) == Piece(text, <<[seg |-> "cmdsub", src |-> body, quoted |-> FALSE]>>, FALSE)
Bodies ==
  {"", "a", "(a)", "a ')'", "a \")\"", "a \\)", "a \"\\\")\"", "$(a)", "a \"$(a)\"", "a '\"'"}
Expansions ==
  {Var("${X}", "X"), Var("$?", "?"), Var("$1", "1"), CmdSub(Tick \o "a" \o Tick, "a"),
   CmdSub(Tick \o "\\" \o Tick \o "a\\" \o Tick \o Tick, Tick \o "a" \o Tick)}
    \cup {CmdSub("$(" \o body \o ")", body) : body \in Bodies \ {"(a)"}}
    \cup {CmdSub("$( (a))", " (a)")}
Pieces ==
  Texts \cup Expansions \cup {Inside(p) : p \in Expansions}
    \cup {Piece(text, <<[seg |-> "arith"]>>, FALSE) : text \in {"$((1))", "$((1+(1)))"}}
    \cup {Piece("<(" \o body \o ")", <<[seg |-> "procsub", src |-> body]>>, FALSE) : body \in Bodies}

(* A word of one piece or two, with a line continuation between or not. *)
Merged(s, t) ==
  IF s # <<>> /\ t # <<>> /\ s[1].seg = "lit" /\ t[1].seg = "lit"
  THEN Lit(s[1].text \o t[1].text) ELSE s \o t
WordToken(segs, quoted) == [tok |-> "word", word |-> [segs |-> segs, quoted |-> quoted]]
Item(text, tokens) == [text |-> text, tokens |-> tokens]
OneWord(p) == Item(p.text, <<WordToken(p.segs, p.quoted)>>)
TwoPieces(p, q, between) ==
  Item(p.text \o between \o q.text, <<WordToken(Merged(p.segs, q.segs), p.quoted \/ q.quoted)>>)

(* Operators and redirections. *)
Operators ==
  {Item(o[1], <<[tok |-> o[2]]>>) : o \in
     {<<";", "semi">>, <<"&", "amp">>, <<"&&", "and_if">>, <<"|", "pipe">>, <<"||", "or_if">>,
      <<"\n", "newline">>, <<"(", "lparen">>, <<")", "rparen">>}}
Redir(fd, op) == [tok |-> "redir", fd |-> fd, op |-> op]
Redirections ==
  {Item(r[1], <<Redir({}, r[2])>>) : r \in RedirOps \cup {<<"&>", "dupout">>, <<"&>>", "dupout">>}}
Apart ==
  {Item("2>", <<Redir({2}, "out")>>), Item("0<&", <<Redir({0}, "dupin")>>),
   Item("12>", <<WordToken(Lit("12"), FALSE), Redir({}, "out")>>),
   Item("2 >", <<WordToken(Lit("2"), FALSE), Redir({}, "out")>>),
   Item("'2'>", <<WordToken(Lit("2"), TRUE), Redir({}, "out")>>),
   Item("{ ", <<[tok |-> "lbrace"]>>), Item("}", <<[tok |-> "rbrace"]>>),
   Item("# a;'\n", <<[tok |-> "newline"]>>), Item("$", <<WordToken(Lit("$"), FALSE)>>),
   Item("$X", <<WordToken(<<[seg |-> "var", name |-> "X", quoted |-> FALSE]>>, FALSE)>>)}

Joined2(x, blank, y) == Item(x.text \o blank \o y.text, x.tokens \o y.tokens)
Spelled(x) == [src |-> x.text, meant |-> {x.tokens}]
FewWords ==
  {OneWord(p) : p \in {Piece("a", Lit("a"), FALSE), Piece("';'", Lit(";"), TRUE),
                       Piece("\">\"", Lit(">"), TRUE), Piece("\\(", Lit("("), TRUE),
                       CmdSub("$(a)", "a"), Piece("a#", Lit("a#"), FALSE)}}

FewPieces == {p \in Pieces : p.text \in {"a", "''", "\"$\"", "';'", "\\\"", "${X}", "\"$(a ')')\"", "$((1))"}}

Repeated(text, n) == Concat([k \in 1 .. n |-> text])

MCInput ==
  {Spelled(OneWord(p)) : p \in Pieces}
    \cup {Spelled(TwoPieces(p, q, between)) :
            p \in Pieces, q \in FewPieces, between \in {"", "\\\n"}}
    \cup {Spelled(TwoPieces(p, q, "")) : p \in FewPieces, q \in Pieces}
    \cup {Spelled(Joined2(Joined2(w, b1, op), b2, v)) :
            w, v \in FewWords, op \in Operators \cup Redirections, b1, b2 \in {"", " "}}
    \cup {Spelled(Joined2(x, " ", y)) : x, y \in Apart \cup FewWords \cup Operators}
    \cup {[src |-> text, meant |-> {}] : text \in
            {Repeated("a ", MaxTokens + 2), Repeated("a ", MaxTokens) \o "a;",
             Repeated("0", MaxCmdBytes), Repeated("0", MaxCmdBytes + 1)}
              \cup LET chars == {"a", "'", "\"", "\\", "$", "(", ")", "{", "}", Tick, ">", "&", ""}
                   IN  {c \o d \o e : c, d, e \in chars}}

(* Many operators, and no word among them. *)
MCOperators == {[src |-> ";;;;;;;;", meant |-> {}]}
=============================================================================
