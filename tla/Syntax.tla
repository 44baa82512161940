------------------------------- MODULE Syntax -------------------------------
(***************************************************************************)
(* Words and the syntax tree of a command (the types of lexer.rs and       *)
(* parser.rs).                                                             *)
(*                                                                         *)
(*   segment   [seg |-> "lit", text], [seg |-> "var", name, quoted],       *)
(*             [seg |-> "cmdsub", src, quoted], [seg |-> "arith"],         *)
(*             [seg |-> "procsub", src]                                    *)
(*   word      [segs |-> <<segment, ...>>, quoted]                         *)
(*   redirect  [op, target |-> word]                                       *)
(*   command   [cmd |-> "simple", assigns |-> <<[name, value |-> word]>>,  *)
(*                                words, redirs],                          *)
(*             [cmd |-> "nested", body |-> script],                        *)
(*             [cmd |-> "func", name, body |-> script]                     *)
(*   pipeline  <<command, ...>>                                            *)
(*   script    <<pipeline, ...>>                                           *)
(***************************************************************************)
EXTENDS Tables, Options

(* The types WordSeg and Word, Command and Script, over a set of bodies.    *)
SegmentType ==
  [seg : {"lit"}, text : STRING] \cup [seg : {"var"}, name : STRING, quoted : BOOLEAN]
    \cup [seg : {"cmdsub"}, src : STRING, quoted : BOOLEAN] \cup [seg : {"arith"}]
    \cup [seg : {"procsub"}, src : STRING]
WordType == [segs : Seq(SegmentType), quoted : BOOLEAN]
CommandType(bodies) ==
  [cmd : {"simple"}, assigns : Seq([name : STRING, value : WordType]), words : Seq(WordType),
   redirs : Seq([op : STRING, target : WordType])]
    \cup [cmd : {"nested"}, body : bodies] \cup [cmd : {"func"}, name : STRING, body : bodies]
ScriptType(bodies) == Seq(Seq(CommandType(bodies)))

(* Word::literal *)
IsLiteral(word) == \A i \in DOMAIN word.segs : word.segs[i].seg = "lit"
LiteralOf(word) == Concat([i \in DOMAIN word.segs |-> word.segs[i].text])
Literal(word) == IF IsLiteral(word) THEN {LiteralOf(word)} ELSE {}

(* tables::is_reserved_word *)
ReservedWords ==
  {"if", "then", "else", "elif", "fi", "do", "done", "while", "until", "for",
   "case", "esac", "in", "function", "select", "time", "!"}
IsReserved(word) == Literal(word) \cap ReservedWords # {}

(* try_split_assignment: the name and the value of a word NAME=value *)
NameStart == CharSet("abcdefghijklmnopqrstuvwxyzABCDEFGHIJKLMNOPQRSTUVWXYZ_")
IsName(text) ==
  /\ CharAt(text, 1) \in NameStart
  /\ CharSet(text) \subseteq NameStart \cup Digit
Assignment(word, eq) ==
  LET text == word.segs[1].text
      rest == Drop(text, eq)
  IN  [name  |-> SubSeq(text, 1, eq - 1),
       value |-> [word EXCEPT !.segs =
                    (IF rest = "" THEN <<>> ELSE <<[seg |-> "lit", text |-> rest]>>)
                      \o Tail(@)]]
TrySplitAssignment(word) ==
  LET equals == IF word.segs = <<>> \/ word.segs[1].seg # "lit" THEN {}
                ELSE Occurrences("=", word.segs[1].text)
  IN  IF equals = {} THEN {}
      ELSE {a \in {Assignment(word, Min(equals))} : IsName(a.name)}
=============================================================================
