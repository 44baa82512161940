-------------------------------- MODULE Argv --------------------------------
(***************************************************************************)
(* How the analyzer reads an argument vector: wrappers, flags, operands and*)
(* inline programs (policy.rs).  An argument vector is a sequence of       *)
(* strings.                                                                *)
(***************************************************************************)
EXTENDS Tables, Options

CONSTANT
  MaxWrappers  \* the bound of the loop in unwrap_command

ASSUME MaxWrappersAssumption == MaxWrappers \in Nat

IsOption(arg) == StartsWith(arg, "-")

(* The options of wrappers that are known to take the next word as value.   *)
ValueOptions == {"-u", "--user", "-g", "--group", "-U"}

(* Mutant of AfterOptions: the closing "--" is not taken off. *)
AfterOptionsDashes(argv, from) ==
  LET skip[i \in 1 .. Len(argv) + 2] ==
        IF i <= Len(argv) /\ IsOption(argv[i]) /\ argv[i] # "--"
        THEN skip[i + IF argv[i] \in ValueOptions THEN 2 ELSE 1]
        ELSE i
  IN  skip[from]

(* The index after a wrapper's options, the value some of them take and a   *)
(* closing "--".                                                            *)
AfterOptions(argv, from) ==
  LET skip[i \in 1 .. Len(argv) + 2] ==
        IF i <= Len(argv) /\ IsOption(argv[i]) /\ argv[i] # "--"
        THEN skip[i + IF argv[i] \in ValueOptions THEN 2 ELSE 1]
        ELSE i
      next == skip[from]
  IN  IF next <= Len(argv) /\ argv[next] = "--" THEN next + 1 ELSE next

(* The index after the VAR=value operands of env and the duration of        *)
(* timeout.                                                                 *)
AfterSettings(argv, wrapper, from) ==
  LET others == {i \in from .. Len(argv) : ~Mentions(argv[i], "=")}
  IN  IF wrapper = "env" THEN Min(others \cup {Max({from, Len(argv) + 1})})
      ELSE IF wrapper = "timeout" /\ from <= Len(argv) /\ CharAt(argv[from], 1) \in Digit
      THEN from + 1
      ELSE from

IsWrapper(name) == name \in Wrappers \cup {"pkexec"}

(* unwrap_command: what is left of argv once the wrappers in front of it    *)
(* are taken off, and the last privilege wrapper among them.                *)
Unwrap(argv) ==
  LET strip[n \in 0 .. MaxWrappers] ==
        IF n = 0 THEN [at |-> 1, privileged |-> {}]
        ELSE LET u    == strip[n - 1]
                 name == Basename(argv[u.at])
             IN  IF u.at > Len(argv) \/ ~IsWrapper(name) THEN u
                 ELSE [at |-> AfterSettings(argv, name, AfterOptions(argv, u.at + 1)),
                       privileged |-> IF name \in PrivWrappers THEN {name}
                                      ELSE u.privileged]
      end == strip[MaxWrappers]
  IN  [name |-> IF end.at > Len(argv) THEN {} ELSE {Basename(argv[end.at])},
       args |-> SubSeq(argv, end.at + 1, Len(argv)),
       privileged |-> end.privileged]

(* flags_of: the flags before "--" *)
BeforeDashes(args) ==
  {args[i] : i \in {k \in DOMAIN args : \A j \in 1 .. k : args[j] # "--"}}
LongFlags(args) ==
  {Drop(a, 2) : a \in {b \in BeforeDashes(args) : StartsWith(b, "--")}}
ShortFlags(args) ==
  UNION {CharSet(Drop(a, 1)) :
           a \in {b \in BeforeDashes(args) : IsOption(b) /\ ~StartsWith(b, "--")}}

(* operand_paths *)
OperandPaths(name, args) ==
  LET message == name = "git" /\ args # <<>>
                 /\ args[1] \in {"commit", "tag", "merge", "notes", "stash"}
      TakesValue(a) ==
        \/ message /\ a \in {"-m", "--message", "-F", "--file"}
        \/ name = "find" /\ a \in FindValueFlags
      from[i \in 1 .. Len(args) + 2] ==
        IF i > Len(args) THEN <<>>
        ELSE IF IsOption(args[i])
        THEN from[i + IF TakesValue(args[i]) THEN 2 ELSE 1]
        ELSE <<args[i]>> \o from[i + 1]
      all == from[1]
  IN  IF name \in DataCommands THEN <<>>
      ELSE IF name \in PatternFirst /\ all # <<>> THEN Tail(all) ELSE all

(* is_decode_flag *)
IsDecodeFlag(a) ==
  \/ a \in {"-d", "-D", "--decode"}
  \/ IsOption(a) /\ ~StartsWith(a, "--") /\ Mentions(a, "d")

(* program_payload: the argument after the first flag that introduces one *)
IsProgramFlag(a) ==
  \/ a \in ProgramFlags
  \/ /\ IsOption(a) /\ ~StartsWith(a, "--") /\ Len(a) > 1
     /\ CharAt(a, Len(a)) \in {"c", "e"}
ProgramPayload(args) ==
  LET flags == {i \in DOMAIN args : IsProgramFlag(args[i])}
  IN  IF flags = {} \/ Min(flags) = Len(args) THEN {}
      ELSE {args[Min(flags) + 1]}

(* literal_command_payload: the text an echo or printf emits *)
EchoedText(argv) ==
  LET u     == Unwrap(argv)
      words == SelectSeq(u.args, LAMBDA a : ~IsOption(a))
  IN  IF u.name \in {{"echo"}, {"printf"}} /\ words # <<>> THEN {Joined(words)} ELSE {}

(* strip_cron_schedule *)
IsScheduleField(f) == f # "" /\ CharSet(f) \subseteq Digit \cup {"*", ",", "-", "/"}
StripCronSchedule(payload) ==
  LET line   == TrimStart(payload)
      fields == Fields(line)
      breaks == {i \in 1 .. Len(line) : CharAt(line, i) \in FieldSep}
  IN  IF StartsWith(line, "@")
      THEN IF breaks = {} THEN "" ELSE TrimStart(Drop(line, Min(breaks) - 1))
      ELSE IF Len(fields) >= 6 /\ \A i \in 1 .. 5 : IsScheduleField(fields[i])
      THEN Joined(SubSeq(fields, 6, Len(fields)))
      ELSE payload

(* extract_embedded_shell and read_quoted: the quoted string after each     *)
(* call that runs a shell command.                                          *)
ShellCalls ==
  <<"os.system(", "os.popen(", "subprocess.call(", "subprocess.run(",
    "subprocess.Popen(", "subprocess.check_output(", "commands.getoutput(",
    "exec(", "execSync(", "spawnSync(", "child_process.exec(",
    "child_process.execSync(", "system(", "qx(", "popen(", "IO.popen(",
    "Kernel.system(">>

ReadQuoted(s) ==
  LET read[i \in 2 .. Len(s) + 2] ==
        IF i > Len(s) THEN {}
        ELSE IF CharAt(s, i) = "\\"
        THEN {CharAt(s, i + 1) \o rest : rest \in read[i + 2]}
        ELSE IF CharAt(s, i) = CharAt(s, 1) THEN {""}
        ELSE {CharAt(s, i) \o rest : rest \in read[i + 1]}
  IN  IF CharAt(s, 1) \in {"'", "\""} THEN read[2] ELSE {}

EmbeddedShell(payload) ==
  LET At(i) == {c \in DOMAIN ShellCalls : i \in Occurrences(ShellCalls[c], payload)}
      Found(c) ==
        FlattenSeq([i \in 1 .. Len(payload) |->
          IF c \in At(i)
          THEN LET text == ReadQuoted(Drop(payload, i + Len(ShellCalls[c]) - 1))
               IN  IF text = {} THEN <<>> ELSE <<Get(text)>>
          ELSE <<>>])
  IN  FlattenSeq([c \in DOMAIN ShellCalls |-> Found(c)])
=============================================================================
