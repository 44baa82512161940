---------------------------- MODULE MCParseSource ----------------------------
(***************************************************************************)
(* Instance of ParseSource: the inputs of the tokenizer, and the commands  *)
(* of MCCommands, separated, surrounded and broken off in several ways.    *)
(***************************************************************************)
EXTENDS ParseSource, MCLexer

C == INSTANCE MCCommands

Read(script) == [src |-> script.text, meant |-> {}, parse |-> {<<"ok", script.tree>>}]
Unread(text) == [src |-> text, meant |-> {}, parse |-> {<<"error">>}]

MCSourceInput ==
  LET few == C!Binding
      all == C!Binding \cup C!Carrying
  IN  {[src |-> x.src, meant |-> x.meant, parse |-> {}] : x \in MCInput}
        \cup {Read(s) : s \in C!Combined \cup C!Found}
        \cup {Read(C!Then(s, sign, t)) :
                s, t \in few, sign \in {";", "\n", " && ", " || ", " & ", "\n\n# ;'\n"}}
        \cup {Read(C!Run(C!Subshell(s))) : s \in all}
        \cup {Read(C!Run(C!Group(C!Then(s, "\n", s)))) : s \in few}
        \cup {Read([s EXCEPT !.text = before \o @ \o after]) :
                s \in few, before \in {"", "\n"}, after \in {";", " &\n"}}
        \cup {Unread(s.text \o rest) : s \in all, rest \in {" |", "; ;", " >", " (", " )", " '", "; { "}}
        \cup {Unread(SubSeq(s.text, 1, Len(s.text) - 1)) :
                s \in {t \in all : CharAt(t.text, Len(t.text)) \in {"'", "\"", ")", "}"}}}
        \cup {Unread(C!Groups(MaxNest + 1).text), Read(C!Groups(MaxNest)),
              Unread(C!Broken.text), Unread(C!Long(MaxCmdBytes + 1))}
=============================================================================
