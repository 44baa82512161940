------------------------------ MODULE MCParser ------------------------------
(* Instance of Parser: the commands made of a few pieces, each a token or   *)
(* the first tokens of a function definition.                               *)
EXTENDS ParserGrammar

Lit(text) == [segs |-> <<[seg |-> "lit", text |-> text]>>, quoted |-> FALSE]
Dynamic == [segs |-> <<[seg |-> "var", name |-> "X", quoted |-> FALSE]>>, quoted |-> FALSE]
Word(w) == [tok |-> "word", word |-> w]
Kind(k) == [tok |-> k]

Pieces ==
  {<<Word(Lit(text))>> : text \in {"a", "if", "X=1"}}
    \cup {<<Kind(k)>> : k \in {"semi", "newline", "pipe", "lparen", "rparen", "lbrace", "rbrace"}}
    \cup {<<[tok |-> "redir", op |-> "out"]>>,
          <<Word(Lit("f")), Kind("lparen"), Kind("rparen")>>,
          <<Word(Dynamic), Kind("lparen"), Kind("rparen")>>}

Fewer ==
  {<<Word(Lit("a"))>>, <<Word(Lit("f")), Kind("lparen"), Kind("rparen")>>}
    \cup {<<Kind(k)>> : k \in {"semi", "pipe", "lparen", "rparen"}}

(* Up to four pieces, or five out of a few. *)
MCInput ==
  LET upTo3 == {p \o q \o r : p, q, r \in Pieces \cup {<<>>}}
  IN  {p \o q : p \in Pieces \cup {<<>>}, q \in upTo3}
        \cup {p \o q \o r \o s \o t : p, q, r, s, t \in Fewer}

(* One function definition as the body of another, and so on. *)
OneDefinition == <<Word(Lit("f")), Kind("lparen"), Kind("rparen")>>
MCChain ==
  LET chain[n \in 0 .. 8] == IF n = 0 THEN <<Word(Lit("a"))>> ELSE OneDefinition \o chain[n - 1]
  IN  {chain[n] : n \in 0 .. 8}
=============================================================================
