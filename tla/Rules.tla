-------------------------------- MODULE Rules --------------------------------
(***************************************************************************)
(* The rules that look at one command, or at the stages of one pipeline    *)
(* (policy.rs).  Each operator gives the set of rules the corresponding    *)
(* part of the code adds to the findings; a justification text is left out.*)
(*                                                                         *)
(* A resolved command (struct RCmd) is a record                            *)
(*   [argv, nameUnresolved, argUnresolved, redirs |-> <<[op, target, ok]>>,*)
(*    procSubs, subs].                                                     *)
(***************************************************************************)
EXTENDS Argv, Verdicts

When(condition, rules) == IF condition THEN rules ELSE {}

(* What the rules of command_rules are told of a command: its name and      *)
(* arguments behind the wrappers, its flags and its operands.               *)
Invocation(name, args, argUnresolved) ==
  [name |-> name, args |-> args, argUnresolved |-> argUnresolved,
   short |-> ShortFlags(args), long |-> LongFlags(args),
   operands |-> OperandPaths(name, args)]

SomeArg(c, Test(_)) == \E i \in DOMAIN c.args : Test(c.args[i])
SomeOperand(c, Test(_)) == \E i \in DOMAIN c.operands : Test(c.operands[i])
Recursive(c) == c.short \cap {"r", "R"} # {} \/ "recursive" \in c.long

Writes == {"out", "append", "clobber", "dupout"}

(* A redirect that writes, whatever the command. *)
RedirectRules(redir) ==
  When(redir.ok /\ redir.op \in Writes,
       When(IsBlockDevice(redir.target), {DeviceOverwrite})
         \cup When(IsSystemWriteTarget(redir.target), {SystemFileWrite})
         \cup When(IsHistoryPath(redir.target), {HistoryTamper})
         \cup When(IsPersistencePath(redir.target), {Persistence}))

(* An interpreter whose stdio is a network socket. *)
SocketRules(name, redirs) ==
  When(/\ name \in Interpreters
       /\ \E i \in DOMAIN redirs : redirs[i].ok /\ IsNetworkDevice(redirs[i].target),
       {ReverseShell})

FileRules(c) ==
  LET Destroyed(p) == IsProtectedPath(p) \/ IsSystemPath(p)
      Raw(p)       == IsBlockDevice(p) \/ IsProtectedPath(p)
      DdTarget(a)  == StartsWith(a, "of=") /\ Raw(Drop(a, 3))
      Erases(a)    == a \in {"-delete", "-exec", "-execdir", "-ok"}
  IN  CASE c.name = "rm" ->
             When(Recursive(c), When(c.argUnresolved, {Obfuscation})
                                  \cup When(SomeOperand(c, Destroyed), {FsDestructive}))
        [] c.name = "dd" -> When(SomeArg(c, DdTarget), {FsDestructive})
        [] c.name = "shred" -> When(SomeOperand(c, Raw), {FsDestructive})
        [] c.name = "find" ->
             When(SomeArg(c, Erases) /\ SomeOperand(c, Destroyed), {FsDestructive})
        [] c.name = "chmod" ->
             When(SomeOperand(c, IsProtectedPath), {PermissionWeakening})
        [] c.name \in {"chown", "chgrp"} ->
             When(Recursive(c) /\ SomeOperand(c, IsProtectedPath), {PermissionWeakening})
        [] c.name \in {"mv", "cp", "install", "truncate", "tee", "ln", "rsync"} ->
             When(SomeOperand(c, IsSystemWriteTarget), {SystemFileWrite})
               \cup When(SomeOperand(c, IsHistoryPath), {HistoryTamper})
               \cup When(SomeOperand(c, LAMBDA p : IsPersistencePath(p) /\ ~IsHistoryPath(p)),
                         {Persistence})
        [] StartsWith(c.name, "mkfs") -> {FsDestructive}
        [] OTHER -> {}

HostRules(c) ==
  CASE c.name = "su" -> {PrivilegeEscalation}
    [] c.name = "history" -> When(c.short \cap {"c", "w", "d"} # {}, {HistoryTamper})
    [] c.name \in {"unset", "export"} ->
         When(SomeArg(c, LAMBDA a : StartsWith(a, "HISTFILE")), {HistoryTamper})
    [] c.name \in {"shutdown", "reboot", "halt", "poweroff"} -> {SystemPower}
    [] c.name \in {"init", "telinit"} ->
         When(SomeOperand(c, LAMBDA o : o \in {"0", "6"}), {SystemPower})
    [] c.name \in {"nc", "ncat", "netcat", "socat"} ->
         IF c.short \cap {"e", "c"} # {} \/ SomeArg(c, LAMBDA a : StartsWith(a, "EXEC:"))
         THEN {ReverseShell}
         ELSE When("l" \in c.short \/ "listen" \in c.long, {NetworkListener})
    [] c.name \in {"crontab", "at", "batch"} -> {Persistence}
    [] OTHER -> {}

(* The first argument that is not a flag. *)
Subcommand(c) ==
  LET words == SelectSeq(c.args, LAMBDA a : ~IsOption(a))
  IN  IF words = <<>> THEN {} ELSE {words[1]}

(* git_rules *)
GitRules(c) ==
  LET sub == Subcommand(c)
  IN  When(/\ c.name = "git"
           /\ \/ /\ sub = {"push"}
                 /\ c.long \cap {"force", "force-with-lease"} # {} \/ "f" \in c.short
              \/ sub = {"reset"} /\ "hard" \in c.long
              \/ sub = {"clean"} /\ ("f" \in c.short \/ "force" \in c.long)
              \/ sub = {"branch"} /\ "D" \in c.short,
           {GitDestructive})

PackageRules(c) ==
  When(c.name \in PackageManagers /\ Subcommand(c) \cap PackageMutations # {},
       {PkgInstall})

(* service_rules *)
ServiceRules(c) ==
  LET SomeOf(words) == SomeOperand(c, LAMBDA o : o \in words)
      Says(text)    == SomeArg(c, LAMBDA a : Mentions(a, text))
      disrupts ==
        CASE c.name \in {"systemctl", "service", "sv", "rc-service", "launchctl"} ->
               SomeOf({"stop", "disable", "mask", "kill", "unload", "poweroff", "halt"})
          [] c.name \in {"killall", "pkill", "swapoff"} -> TRUE
          [] c.name \in {"iptables", "ip6tables", "nft"} ->
               \/ c.short \cap {"F", "X", "P"} # {} \/ "flush" \in c.long
               \/ c.operands # <<>> /\ c.operands[1] = "flush"
          [] c.name = "ufw" -> SomeOf({"disable", "reset"})
          [] c.name = "firewall-cmd" -> Says("remove") \/ Says("panic-off")
          [] c.name = "mount" -> Says("remount")
          [] c.name = "umount" ->
               SomeOperand(c, LAMBDA p : IsProtectedPath(p) \/ IsSystemPath(p))
          [] c.name = "sysctl" -> "w" \in c.short \/ Says("=")
          [] OTHER -> FALSE
  IN  When(disrupts, {ServiceDisruption})

(* container_rules: the argument after a mount flag is that flag's value    *)
(* and is not looked at as a flag of its own.                               *)
ContainerRules(c) ==
  LET args == c.args
      TakesNext(i) == args[i] \in {"-v", "--volume", "--mount"} /\ i < Len(args)
      read[i \in 1 .. Len(args) + 2] ==
        IF i > Len(args) THEN {}
        ELSE {i} \cup read[i + IF TakesNext(i) THEN 2 ELSE 1]
      flags  == {args[i] : i \in read[1]}
      HostPart(spec) == SubSeq(spec, 1, Min(Occurrences(":", spec) \cup {Len(spec) + 1}) - 1)
      mounts == {HostPart(args[i + 1]) : i \in {k \in read[1] : TakesNext(k)}}
                  \cup {HostPart(Drop(a, 9)) : a \in {b \in flags : StartsWith(b, "--volume=")}}
      Escapes(src) == IsProtectedPath(src)
      Weakens(src) ==
        /\ ~Escapes(src)
        /\ \/ Mentions(src, "docker.sock") \/ Mentions(src, "containerd.sock")
           \/ IsSystemPath(src)
  IN  When(/\ c.name \in ContainerRuntimes
           /\ SomeArg(c, LAMBDA a : a \in {"run", "create", "exec", "start"}),
           When("--privileged" \in flags \/ \E src \in mounts : Escapes(src),
                {ContainerEscape})
             \cup When(\/ flags \cap {"--pid=host", "--network=host", "--net=host",
                                      "--ipc=host"} # {}
                       \/ \E a \in flags : StartsWith(a, "--cap-add")
                       \/ \E src \in mounts : Weakens(src),
                       {ContainerPrivilege}))

(* The match on the command name in command_rules. *)
NameRules(c) ==
  FileRules(c) \cup HostRules(c) \cup GitRules(c) \cup PackageRules(c)
    \cup ServiceRules(c) \cup ContainerRules(c)

(***************************************************************************)
(* pipeline_rules.  A stage is {} for a nested command or a function, else *)
(* {rc}.                                                                   *)
(***************************************************************************)
NamedStages(stages) ==
  {i \in DOMAIN stages : \E rc \in stages[i] : Unwrap(rc.argv).name # {}}
StageName(stages, i) == Get(Unwrap(Get(stages[i]).argv).name)
StageArgs(stages, i) == Unwrap(Get(stages[i]).argv).args
StagesOf(stages, names) == {i \in NamedStages(stages) : StageName(stages, i) \in names}
DecodingStages(stages) ==
  {i \in StagesOf(stages, {"base64"}) :
     \E k \in DOMAIN StageArgs(stages, i) : IsDecodeFlag(StageArgs(stages, i)[k])}

(* The first interpreter stands behind the first source. *)
PipesInto(sources, sinks) ==
  sources # {} /\ sinks # {} /\ Min(sinks) > Min(sources)

DecodesIntoInterpreter(stages) ==
  PipesInto(DecodingStages(stages), StagesOf(stages, Interpreters))
InstallsJobs(stages) == StagesOf(stages, {"crontab"}) # {}

(* literal_pipeline_payload *)
LeadingText(stages) ==
  IF stages = <<>> THEN {} ELSE UNION {EchoedText(rc.argv) : rc \in stages[1]}

DumpsEnvironment(stages) ==
  \E i \in DOMAIN stages : \E rc \in stages[i] :
    Len(rc.argv) = 1 /\ Basename(rc.argv[1]) \in {"env", "printenv"}

PipelineRules(stages) ==
  LET redirs(i) == LET r == Get(stages[i]).redirs IN {r[k] : k \in DOMAIN r}
      operands(i) ==
        LET o == OperandPaths(StageName(stages, i), StageArgs(stages, i))
        IN  {o[k] : k \in DOMAIN o}
      known == UNION {{r \in redirs(i) : r.ok} : i \in NamedStages(stages)}
      paths == UNION {operands(i) : i \in NamedStages(stages)}
      networkSink == \/ StagesOf(stages, NetworkSinks) # {}
                     \/ \E r \in known : IsNetworkDevice(r.target)
      credentials == \/ \E p \in paths : IsCredentialPath(p)
                     \/ \E r \in known : r.op \in {"in", "herestring"}
                                           /\ IsCredentialPath(r.target)
      credentialDir == \E p \in paths : ~IsCredentialPath(p) /\ IsCredentialDir(p)
  IN  When(\/ PipesInto(StagesOf(stages, Downloaders), StagesOf(stages, Interpreters))
           \/ DecodesIntoInterpreter(stages), {RemoteExec})
        \cup When(networkSink /\ (credentials \/ credentialDir \/ DumpsEnvironment(stages)),
                  {Exfiltration})
        \cup When(~networkSink /\ credentials, {CredentialAccess})
        \cup When(InstallsJobs(stages), {Persistence})
=============================================================================
