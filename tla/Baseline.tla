------------------------------ MODULE Baseline ------------------------------
(***************************************************************************)
(* The baseline tier (baseline.rs): needles looked for in the lower-cased  *)
(* text of the command.  A bare download is let go, which takes a second   *)
(* look at the command without the needles of remote execution.            *)
(***************************************************************************)
EXTENDS Verdicts, Text

CONSTANT Command  \* the command strings submitted

VARIABLES
  cmd,     \* the command analyzed
  stage,   \* what analyze does next
  best,    \* the findings: {} for none, {v} for the best of them
  verdict  \* {} until analyze has returned, then {v}

vars == <<cmd, stage, best, verdict>>

(* PATTERNS, in the order of the table *)
Patterns == <<
  <<"rm -rf /", FsDestructive>>, <<"rm -fr /", FsDestructive>>, <<"rm -rf ~", FsDestructive>>,
  <<"rm -rf $home", FsDestructive>>, <<"rm -rf /*", FsDestructive>>, <<"mkfs", FsDestructive>>,
  <<"dd if=", FsDestructive>>, <<"shred ", FsDestructive>>,
  <<"curl", RemoteExec>>, <<"wget", RemoteExec>>,
  <<"/dev/tcp/", ReverseShell>>, <<"nc -e", ReverseShell>>,
  <<":(){", ForkBomb>>,
  <<"sudo", PrivilegeEscalation>>, <<"su -", PrivilegeEscalation>>,
  <<"chmod 777", PermissionWeakening>>, <<"chmod -r 777", PermissionWeakening>>,
  <<"chown -r", PermissionWeakening>>,
  <<"id_rsa", CredentialAccess>>, <<"/etc/shadow", CredentialAccess>>,
  <<".ssh/", CredentialAccess>>,
  <<"history -c", HistoryTamper>>, <<"unset histfile", HistoryTamper>>,
  <<"shutdown", SystemPower>>, <<"reboot", SystemPower>>, <<"poweroff", SystemPower>>,
  <<"apt-get install", PkgInstall>>, <<"apt-get remove", PkgInstall>>,
  <<"apt install", PkgInstall>>, <<"yum install", PkgInstall>>,
  <<"pip install", PkgInstall>>, <<"npm install", PkgInstall>>,
  <<"git push --force", GitDestructive>>, <<"git push -f", GitDestructive>>,
  <<"git reset --hard", GitDestructive>>, <<"git clean -f", GitDestructive>>,
  <<"nc -l", NetworkListener>>, <<"netcat -l", NetworkListener>> >>

(* DEVICE_PATTERNS, each of which stands for one rule *)
DevicePatterns ==
  LET needles == <<"> /dev/sd", ">/dev/sd", "> /dev/nvme", ">/dev/nvme">>
  IN  [k \in DOMAIN needles |-> <<needles[k], DeviceOverwrite>>]

Needles == Patterns \o DevicePatterns

(* to_ascii_lowercase *)
UpperCase == "ABCDEFGHIJKLMNOPQRSTUVWXYZ"
LowerCase == "abcdefghijklmnopqrstuvwxyz"
Capital(c) == Occurrences(c, UpperCase)
Lower(text) ==
  Concat([k \in 1 .. Len(text) |->
            LET c == CharAt(text, k)
            IN  IF Capital(c) = {} THEN c ELSE CharAt(LowerCase, Min(Capital(c)))])

(* looks_like_pipe_to_shell *)
Sinks == {"| sh", "|sh", "| bash", "|bash", "| zsh", "|zsh", "| python", "|python"}
LooksLikePipeToShell(lower) == \E sink \in Sinks : Mentions(lower, sink)

(* Mutant: every finding is kept. *)
AddAlways(findings, v) == findings \cup {v}

(* Findings::add *)
Add(findings, v) == IF Replaces(v, findings) THEN {v} ELSE findings

(* One look at the command, at the needles of some rules. *)
Matched(lower, rules) ==
  LET found == SelectSeq(Needles, LAMBDA n : n[2] \in rules /\ Mentions(lower, n[1]))
  IN  FoldLeft(LAMBDA findings, n : Add(findings, VerdictOf(n[2], n[1])), {}, found)

Init ==
  /\ cmd \in Command
  /\ stage = "match" /\ best = {} /\ verdict = {}

MatchAll ==
  /\ stage = "match" /\ stage' = "resolve"
  /\ best' = Matched(Lower(cmd), Rule)
  /\ UNCHANGED <<cmd, verdict>>

(* resolve, and the early return when nothing was found *)
Resolve ==
  /\ stage' = "done"
  /\ verdict' = IF best = {} THEN {AllowVerdict} ELSE best
  /\ UNCHANGED <<cmd, best>>

BareDownload ==
  (\E v \in best : v.rule = RemoteExec) /\ ~LooksLikePipeToShell(Lower(cmd))

(* Mutant: a bare download is answered at once. *)
DowngradeToAllow ==
  /\ stage = "resolve" /\ BareDownload
  /\ stage' = "second" /\ best' = {}
  /\ UNCHANGED <<cmd, verdict>>

(* The second look, for whatever remote execution outranked. *)
Downgrade ==
  /\ stage = "resolve" /\ BareDownload
  /\ stage' = "second"
  /\ best' = Matched(Lower(cmd), Rule \ {RemoteExec})
  /\ UNCHANGED <<cmd, verdict>>

Answer == (stage = "resolve" /\ ~BareDownload) /\ Resolve
AnswerAgain == stage = "second" /\ Resolve
Done == stage = "done" /\ UNCHANGED vars

Next == MatchAll \/ Downgrade \/ Answer \/ AnswerAgain \/ Done

Spec == Init /\ [][Next]_vars

-----------------------------------------------------------------------------

(* At most one finding is held, and what is held or answered is a verdict   *)
(* on one of the needles.                                                   *)
TypeOK ==
  LET verdicts == {VerdictOf(n[2], n[1]) : n \in ToSet(Needles)}
  IN  /\ cmd \in Command
      /\ stage \in {"match", "resolve", "second", "done"}
      /\ best \in {{}} \cup {{v} : v \in verdicts}
      /\ verdict \in {{}} \cup {{v} : v \in verdicts \cup {AllowVerdict}}

(* A needle stands somewhere in the command, in capitals or not.            *)
SameLetter(c, d) == c = d \/ \E k \in 1 .. 26 : c = CharAt(UpperCase, k) /\ d = CharAt(LowerCase, k)
Stands(needle) ==
  \E at \in 0 .. Len(cmd) - Len(needle) :
    \A k \in 1 .. Len(needle) : SameLetter(CharAt(cmd, at + k), CharAt(needle, k))

(* The answer is the worst of the rules with a needle in the command, with  *)
(* the first such needle as its justification.  A download that nothing runs*)
(* does not count, and does not hide the rules that it outranks: only a     *)
(* command in which no other needle stands is allowed (analyze).            *)
AnswersTheWorst ==
  LET piped    == \E sink \in Sinks : Stands(sink)
      found    == {k \in DOMAIN Needles :
                     Stands(Needles[k][1]) /\ (Needles[k][2] = RemoteExec => piped)}
      finding(k) == VerdictOf(Needles[k][2], Needles[k][1])
      worst    == {k \in found : \A m \in found \ {k} :
                     ~Outranks(finding(m), finding(k)) /\ (Needles[m][2] = Needles[k][2] => k < m)}
  IN  verdict # {} =>
        verdict = IF found = {} THEN {AllowVerdict} ELSE {finding(k) : k \in worst}
=============================================================================
