-------------------------------- MODULE Walk --------------------------------
(***************************************************************************)
(* The advanced tier's analysis of one command (policy.rs, analyze): a     *)
(* depth-first walk over the parsed command and over every text it finds   *)
(* that will run in its turn.  The bindings, the taint set and the findings*)
(* are threaded through the whole walk, so the order of the calls matters. *)
(*                                                                         *)
(* The call stack is the sequence todo of calls still to be made, the next *)
(* one first; an action takes the first call off and puts the calls it     *)
(* makes in its place.  The findings are kept as the set of rules that     *)
(* fired: module Findings shows that neither their order nor their number  *)
(* changes the answer.                                                     *)
(***************************************************************************)
EXTENDS Shell, Rules

CONSTANTS
  Command,            \* the command strings submitted
  TooLong(_),         \* cmd.len() > MAX_CMD_BYTES
  LooksLikeBase64(_), \* b64::looks_like_base64
  Decode(_)           \* b64::decode: {} when it fails, else {plain}

VARIABLES
  cmd,      \* the command analyzed
  env,      \* Ctx::env
  tainted,  \* Ctx::tainted
  fired,    \* the rules added to the findings
  todo,     \* the calls still to be made
  verdict,  \* {} until analyze has returned, then {rule}
  opened,   \* history: the texts and scripts the walk has gone into
  refused,  \* history: those it has turned away
  judged,   \* history: the commands whose name was looked at
  followed, \* history: the pairs of them in which the second came later
  bindings  \* history: the variables of a shell (ShellAfter)

ctx == <<env, tainted>>
history == <<judged, followed, bindings>>
vars == <<cmd, env, tainted, fired, todo, verdict, opened, refused, history>>

(* Calls of the walk's functions. *)
Nested(src, depth)   == [call |-> "analyze_nested", src |-> src, depth |-> depth]
Body(script, depth)  == [call |-> "walk_script", script |-> script, depth |-> depth]
Stages(pipe, depth)  == [call |-> "walk_pipeline", pipe |-> pipe, depth |-> depth]
Together(stages, depth) ==
  [call |-> "pipeline_rules", stages |-> stages, depth |-> depth]
Define(func, depth)  == [call |-> "define", func |-> func, depth |-> depth]
(* command_rules, in three parts that calls of analyze_nested separate *)
Inspect(rc, depth)   == [call |-> "command_rules", rc |-> rc, depth |-> depth]
ByName(rc, depth)    == [call |-> "by_name", rc |-> rc, depth |-> depth]
Execute(rc, depth)   == [call |-> "execute", rc |-> rc, depth |-> depth]

NestedCalls(texts, depth) == [i \in DOMAIN texts |-> Nested(texts[i], depth)]
OptionalCall(option, depth) ==
  IF option = {} THEN <<>> ELSE <<Nested(Get(option), depth)>>

(* Marks of the history variables. *)
TextMark(src)    == <<"text", src>>
BodyMark(script) == <<"body", script>>

(* Ctx::new *)
InitEnv == [n \in {"IFS", "HOME"} |-> IF n = "IFS" THEN " " ELSE "~"]

Init ==
  /\ cmd \in Command
  /\ env = InitEnv /\ tainted = {}
  /\ fired = {} /\ verdict = {}
  /\ todo = <<[call |-> "analyze", depth |-> 0]>>
  /\ opened = {} /\ refused = {} /\ judged = {} /\ followed = {}
  /\ bindings = InitEnv

(* The next call is name; calls take its place and rules join the findings. *)
Calling(name) == todo # <<>> /\ Head(todo).call = name
Effect(calls, rules) == [calls |-> calls, rules |-> rules]
Return(effect) ==
  /\ todo' = effect.calls \o Tail(todo)
  /\ fired' = fired \cup effect.rules
  /\ UNCHANGED <<cmd, verdict>>

(* A body is gone into, or it is turned away with a finding.                *)
GoInto(mark, calls) ==
  /\ Return(Effect(calls, {}))
  /\ opened' = opened \cup {mark} /\ UNCHANGED refused

(* Mutant of TurnAway: a body is turned away without a finding. *)
TurnAwaySilently(mark, rule) ==
  /\ Return(Effect(<<>>, {}))
  /\ refused' = refused \cup {mark} /\ UNCHANGED opened

TurnAway(mark, rule) ==
  /\ Return(Effect(<<>>, {rule}))
  /\ refused' = refused \cup {mark} /\ UNCHANGED opened

(* analyze: a command that is too long or cannot be parsed is answered      *)
(* without a walk.                                                          *)
Analyze ==
  /\ Calling("analyze")
  /\ IF TooLong(cmd) \/ Parse(cmd) = {}
     THEN TurnAway(TextMark(cmd), IF TooLong(cmd) THEN Obfuscation ELSE ParseError)
     ELSE GoInto(TextMark(cmd), <<Body(Get(Parse(cmd)), 0)>>)
  /\ UNCHANGED <<ctx, history>>

(* f.resolve() *)
Worst(rules) ==
  CHOOSE r \in rules : \A s \in rules : ~Outranks(VerdictOf(s, NoMatch), VerdictOf(r, NoMatch))

Answer ==
  /\ todo = <<>> /\ verdict = {}
  /\ verdict' = {IF fired = {} THEN OkRule ELSE Worst(fired)}
  /\ UNCHANGED <<cmd, ctx, fired, todo, opened, refused, history>>

PipelineCalls(script, depth) == [i \in DOMAIN script |-> Stages(script[i], depth)]

(* Mutant: a body is gone into at any depth. *)
WalkScriptAnyDepth ==
  /\ Calling("walk_script")
  /\ GoInto(BodyMark(Head(todo).script), PipelineCalls(Head(todo).script, Head(todo).depth))
  /\ UNCHANGED <<ctx, history>>

WalkScript ==
  /\ Calling("walk_script")
  /\ LET script == Head(todo).script
         depth  == Head(todo).depth
     IN  IF depth > MaxDepth THEN TurnAway(BodyMark(script), Obfuscation)
         ELSE GoInto(BodyMark(script), PipelineCalls(script, depth))
  /\ UNCHANGED <<ctx, history>>

(* The environment after the assignments of the first n commands of a       *)
(* pipeline; a stage is resolved under those of its predecessors and its    *)
(* own.                                                                     *)
EnvAfter(pipe, n, depth) ==
  LET after[k \in 0 .. Len(pipe)] ==
        IF k = 0 THEN env
        ELSE IF pipe[k].cmd = "simple" THEN ApplyAssignments(pipe[k], after[k - 1], depth)
        ELSE after[k - 1]
  IN  after[n]

ResolvedStages(pipe, depth) ==
  [i \in DOMAIN pipe |->
     IF pipe[i].cmd = "simple" THEN {Resolve(pipe[i], EnvAfter(pipe, i, depth), depth)}
     ELSE {}]

(* Names and values are texts, the one for what the walk cannot know, too.  *)
Anything == "?"
ASSUME ValueAssumption == {Anything, "~", "IFS", "HOME"} \subseteq STRING

(* The variables of a shell after the same assignments, under the same name *)
(* for whatever the walk cannot know: a variable that was never set, what a *)
(* command other than an echo prints.  An assigned value is not split.      *)
ShellValue(word, shell, depth) ==
  LET known == [i \in DOMAIN word.segs |->
                  Pieces(word.segs[i], shell, Substituted(shell)[depth])]
  IN  Concat([i \in DOMAIN known |-> IF known[i] = {} THEN Anything ELSE Get(known[i]).text])
ShellAssigns(command, shell, depth) ==
  LET after[k \in 0 .. Len(command.assigns)] ==
        IF k = 0 THEN shell
        ELSE LET s      == after[k - 1]
                 assign == command.assigns[k]
             IN  Bind(s, assign.name, ShellValue(assign.value, s, depth))
  IN  after[Len(command.assigns)]
ShellAfter(pipe, depth) ==
  LET after[k \in 0 .. Len(pipe)] ==
        IF k = 0 THEN bindings
        ELSE IF pipe[k].cmd = "simple" THEN ShellAssigns(pipe[k], after[k - 1], depth)
        ELSE after[k - 1]
  IN  after[Len(pipe)]

(* walk_pipeline: every simple stage is resolved before any rule looks at   *)
(* the pipeline.                                                            *)
StageCalls(pipe, stages, depth) ==
  LET Call(i) ==
        CASE pipe[i].cmd = "simple" -> Inspect(Get(stages[i]), depth)
          [] pipe[i].cmd = "nested" -> Body(pipe[i].body, depth + 1)
          [] pipe[i].cmd = "func"   -> Define(pipe[i], depth)
  IN  <<Together(stages, depth)>> \o [i \in DOMAIN pipe |-> Call(i)]
ResolvePipeline(pipe, depth) ==
  Effect(StageCalls(pipe, ResolvedStages(pipe, depth), depth), {})

WalkPipeline ==
  /\ Calling("walk_pipeline")
  /\ Return(ResolvePipeline(Head(todo).pipe, Head(todo).depth))
  /\ env' = EnvAfter(Head(todo).pipe, Len(Head(todo).pipe), Head(todo).depth)
  /\ bindings' = ShellAfter(Head(todo).pipe, Head(todo).depth)
  /\ UNCHANGED <<tainted, opened, refused, judged, followed>>

(* pipeline_rules: the encoded text a decoding pipeline feeds to an         *)
(* interpreter, the jobs a pipeline installs, and the rules.                *)
EncodedTexts(stages) ==
  When(DecodesIntoInterpreter(stages),
       {text \in LeadingText(stages) : LooksLikeBase64(text)})
OpaqueTexts(stages) == {text \in EncodedTexts(stages) : Decode(text) = {}}
PipelineEffect(stages, depth) ==
  LET decoded == UNION {Decode(text) : text \in EncodedTexts(stages)}
      jobs    == When(InstallsJobs(stages),
                      {StripCronSchedule(text) : text \in LeadingText(stages)})
  IN  Effect(OptionalCall(decoded, depth + 1) \o OptionalCall(jobs, depth + 1),
             PipelineRules(stages)
               \cup When(OpaqueTexts(stages) # {}, {Obfuscation}))

JudgePipeline ==
  /\ Calling("pipeline_rules")
  /\ Return(PipelineEffect(Head(todo).stages, Head(todo).depth))
  /\ refused' = refused \cup {TextMark(text) : text \in OpaqueTexts(Head(todo).stages)}
  /\ UNCHANGED <<ctx, opened, history>>

(* is_fork_bomb *)
IsForkBomb(name, body) ==
  \E i \in DOMAIN body :
    Cardinality({k \in DOMAIN body[i] :
      /\ body[i][k].cmd = "simple" /\ body[i][k].words # <<>>
      /\ Literal(body[i][k].words[1]) = {name}}) >= 2

DefineFunction ==
  /\ Calling("define")
  /\ LET func == Head(todo).func
     IN  Return(Effect(<<Body(func.body, Head(todo).depth + 1)>>,
                       When(IsForkBomb(func.name, func.body), {ForkBomb})))
  /\ UNCHANGED <<ctx, opened, refused, history>>

GoIntoText(src, depth) ==
  IF depth > MaxDepth \/ Parse(src) = {} THEN TurnAway(TextMark(src), Obfuscation)
  ELSE GoInto(TextMark(src), <<Body(Get(Parse(src)), depth)>>)

(* Mutant: a nested text is walked with a context of its own. *)
AnalyzeNestedFresh ==
  /\ Calling("analyze_nested")
  /\ GoIntoText(Head(todo).src, Head(todo).depth)
  /\ env' = InitEnv /\ tainted' = {}
  /\ UNCHANGED history

(* analyze_nested *)
AnalyzeNested ==
  /\ Calling("analyze_nested")
  /\ GoIntoText(Head(todo).src, Head(todo).depth)
  /\ UNCHANGED <<ctx, history>>

(* command_rules up to the expansion of the command name: redirects, the    *)
(* text written to a startup file, and the substitution bodies.             *)
StartupText(rc) ==
  LET text == EchoedText(rc.argv)
      IsStartup(r) == r.ok /\ r.op \in Writes /\ IsPersistencePath(r.target)
  IN  FlattenSeq([i \in DOMAIN rc.redirs |->
                    OneIf(text # {} /\ IsStartup(rc.redirs[i]), Get(text))])

(* Mutant: a command that is only assignments and redirects is let go       *)
(* before its substitutions are analyzed.                                   *)
InspectEffectNamed(rc, depth) ==
  Effect((IF rc.argv = <<>> THEN <<>> ELSE NestedCalls(StartupText(rc) \o rc.subs, depth + 1))
           \o <<ByName(rc, depth)>>,
         UNION {RedirectRules(rc.redirs[i]) : i \in DOMAIN rc.redirs})

InspectEffect(rc, depth) ==
  Effect(NestedCalls(StartupText(rc) \o rc.subs, depth + 1) \o <<ByName(rc, depth)>>,
         UNION {RedirectRules(rc.redirs[i]) : i \in DOMAIN rc.redirs})

CommandRules ==
  /\ Calling("command_rules")
  /\ Return(InspectEffect(Head(todo).rc, Head(todo).depth))
  /\ UNCHANGED <<ctx, opened, refused, history>>

(* The rules for the name behind the wrappers, and eval's payload. *)
NameEffect(rc, depth) ==
  LET u == Unwrap(rc.argv)
      c == Invocation(Get(u.name), u.args, rc.argUnresolved)
      payload    == Joined(u.args)
      escalation == When(u.privileged # {}, {PrivilegeEscalation})
  IN  IF rc.argv = <<>> THEN Effect(<<>>, {})
      ELSE IF rc.nameUnresolved THEN Effect(<<>>, {Obfuscation})
      ELSE IF u.name = {} THEN Effect(<<>>, escalation)
      ELSE Effect(OptionalCall(When(c.name = "eval" /\ payload # "", {payload}), depth + 1)
                    \o <<Execute(rc, depth)>>,
                  escalation \cup SocketRules(c.name, rc.redirs) \cup NameRules(c))

MatchName ==
  /\ Calling("by_name")
  /\ Return(NameEffect(Head(todo).rc, Head(todo).depth))
  /\ judged' = judged \cup {Head(todo).rc}
  /\ followed' = followed \cup (judged \X {Head(todo).rc})
  /\ UNCHANGED <<ctx, opened, refused, bindings>>

(* The paths a downloader writes: the values of its output options and its  *)
(* output redirects.                                                        *)
OutputPaths(args) ==
  LET TakesNext(i) == args[i] \in {"-o", "-O", "--output"} /\ i < Len(args)
      read[i \in 1 .. Len(args) + 2] ==
        IF i > Len(args) THEN {}
        ELSE IF TakesNext(i) THEN {args[i + 1]} \cup read[i + 2]
        ELSE When(StartsWith(args[i], "--output="), {Drop(args[i], 9)}) \cup read[i + 1]
  IN  read[1]
Downloads(rc) ==
  LET u == Unwrap(rc.argv)
      written == {i \in DOMAIN rc.redirs :
                    rc.redirs[i].ok /\ rc.redirs[i].op \in {"out", "append", "clobber"}}
  IN  When(u.name \cap Downloaders # {},
           OutputPaths(u.args) \cup {rc.redirs[i].target : i \in written})

(* The files a command runs: its first word, and an interpreter's operands. *)
Runs(rc) ==
  LET u == Unwrap(rc.argv)
      operands == UNION {ToSet(OperandPaths(n, u.args)) : n \in u.name \cap Interpreters}
  IN  {rc.argv[1]} \cup operands

(* A process substitution an interpreter is given to run. *)
FirstName(script) ==
  LET named == SelectSeq(script[1], LAMBDA c : LiteralName(c) # {})
  IN  IF script = <<>> \/ named = <<>> THEN {} ELSE LiteralName(named[1])
AllNames(script) ==
  UNION {UNION {LiteralName(script[i][k]) : k \in DOMAIN script[i]} : i \in DOMAIN script}
ProcSubRules(src) ==
  LET first == UNION {FirstName(script) : script \in Parse(src)}
      names == UNION {AllNames(script) : script \in Parse(src)}
  IN  When(names \cap Downloaders # {}, {RemoteExec})
        \cup When(first = {}, {Obfuscation})

(* The texts an interpreter is given to run: the program on its command line *)
(* and, a shell, its here-strings.                                          *)
HereStrings(rc) == {i \in DOMAIN rc.redirs : rc.redirs[i].op = "herestring"}
ProgramTexts(rc) ==
  LET u    == Unwrap(rc.argv)
      name == Get(u.name)
      shell    == name \in ShellInterpreters
      payload  == ProgramPayload(u.args)
      programs == IF name \notin Interpreters \/ payload = {} THEN <<>>
                  ELSE IF shell THEN <<Get(payload)>>
                  ELSE EmbeddedShell(Get(payload))
      scripts  == [i \in DOMAIN rc.redirs |->
                     OneIf(shell /\ i \in HereStrings(rc) /\ rc.redirs[i].ok,
                           rc.redirs[i].target)]
  IN  programs \o FlattenSeq(scripts)

ExecuteRules(rc, taint) ==
  LET u == Unwrap(rc.argv)
  IN  When(Runs(rc) \cap taint # {}, {RemoteExec})
        \cup When(u.name \cap Interpreters # {},
               (UNION {ProcSubRules(rc.procSubs[i]) : i \in DOMAIN rc.procSubs})
                 \cup When(\E i \in HereStrings(rc) : ~rc.redirs[i].ok,
                          {Obfuscation}))

(* Mutant: the text an interpreter runs is walked at the interpreter's own   *)
(* depth.                                                                    *)
ExecuteEffectLevel(rc, taint, depth) ==
  Effect(NestedCalls(ProgramTexts(rc), depth), ExecuteRules(rc, taint))

(* The rest of command_rules: taint, and what interpreters are given. *)
ExecuteEffect(rc, taint, depth) ==
  Effect(NestedCalls(ProgramTexts(rc), depth + 1), ExecuteRules(rc, taint))

ExecuteCommand ==
  /\ Calling("execute")
  /\ tainted' = tainted \cup Downloads(Head(todo).rc)
  /\ Return(ExecuteEffect(Head(todo).rc, tainted', Head(todo).depth))
  /\ UNCHANGED <<env, opened, refused, history>>

Step ==
  \/ Analyze \/ Answer
  \/ WalkScript \/ WalkPipeline \/ JudgePipeline \/ DefineFunction \/ AnalyzeNested
  \/ CommandRules \/ MatchName \/ ExecuteCommand

Done == verdict # {} /\ UNCHANGED vars

Next == Step \/ Done

Spec == Init /\ [][Next]_vars

(* analyze is one sequential computation, so it takes a step while it has   *)
(* one to take.  This is WF_vars(Step) with ENABLED <<Step>>_vars written   *)
(* as verdict = {}: the two are equal, because each call on the stack has   *)
(* its action and no action puts back the call it takes off.                *)
Fairness == []<>(verdict # {}) \/ []<><<Step>>_vars
FairSpec == Spec /\ Fairness

-----------------------------------------------------------------------------

(* The rules a call of Findings::add in the walk may name. *)
Finding == Rule \ {OkRule}

(* What is found is a rule other than OK, and however deep the command      *)
(* nests groups, substitutions, inline programs and encoded payloads, no    *)
(* call is made for more than one level below the deepest body gone into    *)
(* (the checks of walk_script and analyze_nested).                          *)
TypeOK ==
  /\ cmd \in Command
  /\ fired \subseteq Finding
  /\ verdict \in {{}} \cup {{r} : r \in Rule}
  /\ \A i \in DOMAIN todo : todo[i].depth \in 0 .. MaxDepth + 1

(* Fail closed: a command with a body the walk did not go into, for         *)
(* whatever reason, is never answered ALLOW (SPEC.md section 3).            *)
FailClosed ==
  \A r \in verdict : refused # {} => Severity(r) # Allow

(* Everything in a script that the shell would run when it runs the script: *)
(* groups, function bodies, and the substitution bodies of every word, every*)
(* assigned value and every redirection target.                             *)
WordsOf(command) ==
  ToSet(command.words) \cup {command.assigns[i].value : i \in DOMAIN command.assigns}
    \cup {command.redirs[i].target : i \in DOMAIN command.redirs}
Owed(script) ==
  UNION {UNION {
    LET command == script[i][k]
    IN  IF command.cmd # "simple" THEN {BodyMark(command.body)}
        ELSE UNION {{TextMark(word.segs[s].src) :
                       s \in {t \in DOMAIN word.segs :
                                word.segs[t].seg \in {"cmdsub", "procsub"}}}
                    : word \in WordsOf(command)}
    : k \in DOMAIN script[i]} : i \in DOMAIN script}

(* By the time the command is answered, everything owed by a body the walk  *)
(* went into has been gone into or has been turned away.                    *)
NothingUnvisited ==
  verdict # {} =>
    \A mark \in opened :
      IF mark[1] = "text" THEN BodyMark(Get(Parse(mark[2]))) \in opened
      ELSE Owed(mark[2]) \subseteq opened \cup refused

(* The commands that got past the checks on their name. *)
Executed ==
  {rc \in judged : rc.argv # <<>> /\ ~rc.nameUnresolved /\ Unwrap(rc.argv).name # {}}

(* A file one command downloads and a later one runs is remote execution,   *)
(* whatever stands between the two and however deep each of them is nested. *)
DownloadThenRun ==
  verdict # {} =>
    \A first, second \in Executed :
      /\ <<first, second>> \in followed
      /\ Downloads(first) \cap Runs(second) # {}
      => RemoteExec \in fired

(* A name the walk believes to know has the value a shell would give it: a  *)
(* binding to something unknown, or to several fields, replaces the older   *)
(* one (apply_assignments).  The walk may lack a binding but never keeps an *)
(* old one.  The two may differ in white space: expand splits an assigned   *)
(* value into fields, which a shell does not.                               *)
BindingsAreCurrent ==
  \A name \in DOMAIN env :
    name \in DOMAIN bindings /\ Bare(env[name]) = Bare(bindings[name])

(* The fields of a word: what stands between the white space that an        *)
(* unquoted expansion brought in, wherever the segments begin and end; and  *)
(* one empty field if there is none and something was quoted.               *)
FieldsOf(word, shell, depth) ==
  LET Known(seg) == Pieces(seg, shell, Substituted(shell)[depth])
      Marked(piece) == [k \in 1 .. Len(piece.text) |->
                          LET c == CharAt(piece.text, k)
                          IN  [char |-> c, cut |-> piece.split /\ c \in FieldSep]]
      chars == FlattenSeq([i \in DOMAIN word.segs |->
                             FlattenSeq(SetToSeq({Marked(p) : p \in Known(word.segs[i])}))])
      Cut(k) == k \notin DOMAIN chars \/ chars[k].cut
      starts == SetToSortSeq({k \in DOMAIN chars : Cut(k - 1) /\ ~Cut(k)}, <)
      Field(a) == LET stop == Min({b \in a .. Len(chars) + 1 : Cut(b)})
                  IN  Concat([k \in 1 .. stop - a |-> chars[a + k - 1].char])
  IN  IF starts = <<>> /\ word.quoted THEN <<"">> ELSE [n \in DOMAIN starts |-> Field(starts[n])]

(* Every stage of a pipeline gets the arguments and the targets that a shell*)
(* would make of its words: an expansion is split at white space, glued to  *)
(* what stands next to it, and gone if it is empty (expand, resolve).  Here *)
(* for stages after which no variable is set before the pipeline runs.      *)
FieldsAsInAShell ==
  [][Calling("walk_pipeline") =>
       LET pipe   == Head(todo).pipe
           FieldsIn(words) == [k \in DOMAIN words |-> FieldsOf(words[k], env', Head(todo).depth)]
           Lasting(i) == /\ pipe[i].cmd = "simple"
                         /\ \A k \in i + 1 .. Len(pipe) :
                              pipe[k].cmd = "simple" => pipe[k].assigns = <<>>
       IN  \A i \in {k \in DOMAIN pipe : Lasting(k)} :
             \A rc \in Head(todo').stages[i] :
               LET targets == FieldsIn([k \in DOMAIN pipe[i].redirs |-> pipe[i].redirs[k].target])
               IN  /\ rc.argv = FlattenSeq(FieldsIn(pipe[i].words))
                   /\ [k \in DOMAIN rc.redirs |-> rc.redirs[k].target]
                        = [k \in DOMAIN targets |-> Joined(targets[k])]]_vars

(* The words a .. b - 1 are options, each in one word but for ValueOptions,  *)
(* whose value is the word that follows, whatever it looks like.            *)
OptionWords(argv, a, b) ==
  \E values \in SUBSET (a .. b - 1) : \A i \in a .. b :
    IF i > a /\ argv[i - 1] \in ValueOptions /\ i - 1 \notin values
    THEN i \in values
    ELSE i \notin values /\ (i < b => IsOption(argv[i]) /\ argv[i] # "--")

(* The words a .. k - 1 are what a wrapper takes before the command at k:   *)
(* the settings of env, the duration of timeout, nothing for the others.    *)
OperandWords(argv, wrapper, a, k) ==
  IF wrapper = "env" THEN \A i \in a .. k - 1 : Mentions(argv[i], "=")
  ELSE IF wrapper = "timeout" THEN k = a + 1 /\ CharAt(argv[a], 1) \in Digit
  ELSE k = a

(* A wrapper at at, its options, perhaps a "--", and its operands stand     *)
(* before k, where a command or another wrapper begins.                     *)
IsWrapping(argv, at, k) ==
  /\ k > at /\ ~IsOption(argv[k]) /\ ~Mentions(argv[k], "=")
  /\ IsWrapper(Basename(argv[at]))
  /\ \E b \in at + 1 .. k :
       LET a == IF argv[b] = "--" THEN b + 1 ELSE b
       IN  /\ OptionWords(argv, at + 1, b)
           /\ IsOption(argv[b]) => argv[b] = "--"
           /\ a <= k /\ OperandWords(argv, Basename(argv[at]), a, k)

(* The commands that up to MaxWrappers wrappers of this form lead to: where *)
(* each begins, and which wrappers stand before it.                         *)
Behind(argv) ==
  LET behind[n \in 0 .. MaxWrappers] ==
        IF n = 0 THEN {[at |-> 1, wrappers |-> {}]}
        ELSE LET before == behind[n - 1]
             IN  before \cup
                   {[at |-> p[2], wrappers |-> p[1].wrappers \cup {Basename(argv[p[1].at])}] :
                      p \in {q \in before \X DOMAIN argv : IsWrapping(argv, q[1].at, q[2])}}
  IN  {c \in behind[MaxWrappers] :
         c.at \in DOMAIN argv /\ ~IsWrapper(Basename(argv[c.at]))}

(* A command behind wrappers is answered as the command it is, and as a     *)
(* privileged one if any of them is a privilege wrapper, whatever options,  *)
(* values, settings and other wrappers stand between the two, as far as     *)
(* unwrap_command knows their form.  It does not know the value of any      *)
(* option but ValueOptions when that is a word of its own, nor the operands *)
(* of wrappers other than env and timeout, and gives up after MaxWrappers:  *)
(* of nice -n 10 rm -rf / it takes 10 for the command, and so does Behind.  *)
WrappersSeenThrough ==
  verdict # {} =>
    \A rc \in {j \in judged : ~j.nameUnresolved} : \A c \in Behind(rc.argv) :
      /\ NameRules(Invocation(Basename(rc.argv[c.at]), Drop(rc.argv, c.at), rc.argUnresolved))
           \subseteq fired
      /\ c.wrappers \cap PrivWrappers # {} => PrivilegeEscalation \in fired

(* Every command is answered. *)
Terminates == <>(verdict # {})
=============================================================================
