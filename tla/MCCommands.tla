----------------------------- MODULE MCCommands -----------------------------
(***************************************************************************)
(* Commands, each written from its syntax tree.  The walk is checked on    *)
(* their trees and parse_source on their texts, so that what the walk takes *)
(* for the parser is what the tokenizer and the parser make together.      *)
(***************************************************************************)
EXTENDS Syntax

(* A word: how it is written, and what it stands for.                       *)
Written(text, segs, quoted) == [text |-> text, word |-> [segs |-> segs, quoted |-> quoted]]
LitSeg(text) == [seg |-> "lit", text |-> text]
Plain(text)  == Written(text, <<LitSeg(text)>>, FALSE)
Single(text) == Written("'" \o text \o "'", <<LitSeg(text)>>, TRUE)
Escaped(text) ==
  Concat([k \in 1 .. Len(text) |->
            (IF CharAt(text, k) \in {"\"", "\\", "$"} THEN "\\" ELSE "") \o CharAt(text, k)])
Double(text) == Written("\"" \o Escaped(text) \o "\"", <<LitSeg(text)>>, TRUE)
VarSeg(name, quoted) == [seg |-> "var", name |-> name, quoted |-> quoted]
Var(name)    == Written("$" \o name, <<VarSeg(name, FALSE)>>, FALSE)
Braced(name) == Written("${" \o name \o "}", <<VarSeg(name, FALSE)>>, FALSE)
DoubleVar(name) == Written("\"$" \o name \o "\"", <<VarSeg(name, TRUE)>>, TRUE)
Sub(script) ==
  Written("$(" \o script.text \o ")",
          <<[seg |-> "cmdsub", src |-> script.text, quoted |-> FALSE]>>, FALSE)
Proc(script) ==
  Written("<(" \o script.text \o ")", <<[seg |-> "procsub", src |-> script.text]>>, FALSE)
Glued(v, w) ==
  Written(v.text \o w.text, v.word.segs \o w.word.segs, v.word.quoted \/ w.word.quoted)

(* The parts of a simple command, in the order in which they are written.   *)
Arg(w)         == [text |-> w.text, part |-> "words", item |-> w.word]
Let(name, w)   == [text |-> name \o "=" \o w.text, part |-> "assigns",
                   item |-> [name |-> name, value |-> w.word]]
To(sign, op, w) == [text |-> sign \o w.text, part |-> "redirs",
                    item |-> [op |-> op, target |-> w.word]]
Args(text) == [k \in DOMAIN Fields(text) |-> Arg(Plain(Fields(text)[k]))]

Texts(seq) == [k \in DOMAIN seq |-> seq[k].text]
Items(parts, kind) ==
  LET those == SelectSeq(parts, LAMBDA p : p.part = kind)
  IN  [k \in DOMAIN those |-> those[k].item]
Simple(parts) ==
  [text |-> Joined(Texts(parts)),
   tree |-> [cmd |-> "simple", assigns |-> Items(parts, "assigns"),
             words |-> Items(parts, "words"), redirs |-> Items(parts, "redirs")]]
Group(script) ==
  [text |-> "{ " \o script.text \o "; }", tree |-> [cmd |-> "nested", body |-> script.tree]]
Subshell(script) ==
  [text |-> "(" \o script.text \o ")", tree |-> [cmd |-> "nested", body |-> script.tree]]
FunctionDef(name, script) ==
  [text |-> name \o "(){ " \o script.text \o "; }",
   tree |-> [cmd |-> "func", name |-> name, body |-> script.tree]]

(* Scripts: a command, two commands in a pipeline, two scripts in a row.    *)
Run(command) == [text |-> command.text, tree |-> <<<<command.tree>>>>]
Pipe(script, command) ==
  [text |-> script.text \o " | " \o command.text,
   tree |-> <<Append(script.tree[1], command.tree)>>]
Then(first, sign, second) ==
  [text |-> first.text \o sign \o second.text, tree |-> first.tree \o second.tree]
Line(text) == Run(Simple(Args(text)))

-----------------------------------------------------------------------------
(* Texts that are found in other texts.                                     *)

Fetch    == Line("curl -o f")
RunF     == Line("sh f")
Deep(n) ==
  LET deep[k \in 0 .. n] ==
        IF k = 0 THEN Line("rm -rf /")
        ELSE Run(Simple(Args("sh -c") \o <<Arg(IF k = 1 THEN Single(deep[k - 1].text)
                                               ELSE Double(deep[k - 1].text))>>))
  IN  deep[n]
Groups(n) ==
  LET groups[k \in 0 .. n] == IF k = 0 THEN Line("ls") ELSE Run(Group(groups[k - 1]))
  IN  groups[n]
EchoX  == Line("echo -x")
EchoSh == Run(Simple(Args("echo sh") \o <<Arg(Glued(Sub(EchoX), Plain("y")))>>))
Again  == Run(Simple(Args("sh -c") \o <<Arg(DoubleVar("X"))>>))
JustX  == Run(Simple(<<Arg(DoubleVar("X"))>>))
FetchInto == Run(Simple(Args("curl url") \o <<To(">", "out", Plain("f"))>>))
Nothing == [text |-> "", tree |-> <<>>]

Found ==
  {Nothing, Fetch, RunF, EchoX, EchoSh, Again, JustX, FetchInto, Line("echo sh"), Line("curl url"),
   Line("sh"), Line("-c"), Line("hello")}
    \cup {Deep(n) : n \in 0 .. 2}

(* Texts that are no command: an operator with nothing before it, and more  *)
(* characters than are read.                                                *)
Broken == [text |-> ";", tree |-> <<>>]
Long(n) == Concat([k \in 1 .. n |-> "0"])

(* The base64 of Fetch, and a text of its alphabet that encodes nothing.    *)
Encoded == "Y3VybCAtbyBm"
Undecodable == "AAAAAAAAA"

-----------------------------------------------------------------------------
(* Each statement stands for one way a command can carry another, bind a    *)
(* name, or taint a path.  Those of the first kind are combined in threes.  *)

Binding ==
  {Run(Simple(<<Arg(Var("X")), Arg(Plain("-c")), Arg(Single(Fetch.text))>>)),
   Run(Simple(<<Let("X", Plain("sh"))>>)),
   Run(Simple(<<Let("X", Var("U"))>>)),
   FetchInto, RunF, Line("f"), Run(Group(FetchInto))}

Carrying ==
  {Run(Simple(<<Let("X", Sub(Fetch))>>)),
   Run(Simple(<<Let("X", Sub(Line("echo sh"))), Arg(Var("X")), Arg(Plain("f"))>>)),
   Run(Simple(<<Let("Y", Single("sh f")), Let("X", Var("Y"))>>)),
   Run(Simple(<<Arg(Var("U"))>>)),
   Run(Simple(<<Arg(Plain("eval")), Arg(Var("U")), Arg(Single(Fetch.text))>>)),
   Then(Run(Simple(<<Arg(Plain("eval")), Arg(Single(Fetch.text))>>)), "; ", Line("f")),
   Run(Simple(<<Arg(Glued(Glued(Plain("rm"), Braced("IFS")),
                          Glued(Glued(Plain("-rf"), Braced("IFS")), Plain("/"))))>>)),
   Run(Simple(<<Arg(Glued(Sub(EchoSh), Plain("f")))>>)),
   Run(Simple(<<Arg(Plain("sh")), Arg(Proc(Line("curl url")))>>)),
   Run(Simple(<<Arg(Plain("sh")), Arg(Proc(Broken))>>)),
   Run(Simple(<<Arg(Plain("ls")), To(">", "out", Sub(RunF))>>)),
   Run(Simple(<<Arg(Plain("echo")), Arg(Single(Fetch.text)), To(">>", "append", Plain(".bashrc"))>>)),
   Run(Simple(<<Arg(Plain("bash")), To("<<<", "herestring", Single(Fetch.text))>>)),
   Run(Simple(<<Arg(Plain("python")), To("<<<", "herestring", Var("U"))>>)),
   Deep(3), Groups(3),
   Line("sudo -u root env A=B sh f"), Line("sudo"),
   Line("timeout 5 env -- sudo rm -rf /"), Line("env A=B sudo -- timeout 5 nohup rm -rf /"),
   Line("sudo -n -u -g -g wheel -- /usr/bin/env -i A=B C= nice -19 rm -rf /"),
   Line("env -- A=B pkexec --user root timeout -k1 -- 5 rm -rf /"),
   Line("nice -n 10 rm -rf /"),
   Run(Simple(Args("python -c") \o <<Arg(Double("os.system('sh f')"))>>)),
   Pipe(Run(Simple(<<Arg(Plain("echo")), Arg(Single("* * * * * sh f"))>>)), Simple(Args("crontab"))),
   Run(FunctionDef("b", Pipe(Line("b"), Simple(Args("b"))))),
   Run(FunctionDef("g", Pipe(Line("g"), Group(Groups(2))))),
   Then(Run(Simple(<<Let("X", Single(Again.text))>>)), "; ", Again),
   Then(Run(Simple(<<Let("X", Single(" sh\t-c "))>>)), "; ",
        Run(Simple(<<Arg(Var("X")), Arg(Single(Fetch.text))>>))),
   Then(Run(Simple(<<Let("X", Single("rm "))>>)), "; ",
        Run(Simple(<<Arg(Glued(Braced("X"), Plain("-rf"))), Arg(Glued(DoubleVar("X"), Plain("f"))),
                     Arg(Glued(Glued(Plain("/"), Braced("X")), Braced("X")))>>))),
   Then(Run(Simple(<<Let("X", Single("rm "))>>)), "; ",
        Then(Run(Simple(<<Let("Y", Var("X")), Let("Z", Glued(Braced("Y"), Plain("-rf")))>>)), "; ",
             Run(Simple(<<Arg(Var("Z")), Arg(Plain("/"))>>)))),
   Then(Run(Simple(<<Let("X", Written("", <<>>, FALSE))>>)), "; ",
        Run(Simple(<<Arg(Var("X")), Arg(DoubleVar("X")), Arg(Glued(Braced("X"), Plain("f"))),
                     To(">", "out", Glued(Braced("X"), Braced("IFS")))>>))),
   Run(Simple(Args("rm -r") \o <<Arg(Var("U"))>>)),
   Line("aria2c -o f --output=g -o"), Line("g")}
    \cup {Pipe(Pipe(Line("echo " \o text), Simple(Args("base64 -d"))), Simple(Args("sh"))) :
            text \in {"aGVsbG8=", Encoded, Undecodable}}

Combined ==
  Binding \cup Carrying
    \cup {Then(s, "; ", t) : s \in Binding, t \in Carrying}
    \cup {Then(s, "; ", t) : s \in Carrying, t \in Binding}
    \cup {Then(s, "; ", Then(t, "; ", u)) : s, t, u \in Binding}
=============================================================================
