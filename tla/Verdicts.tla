------------------------------ MODULE Verdicts ------------------------------
(***************************************************************************)
(* The decision lattice and the rule identifiers of agentgate              *)
(* (agentgate-core/src/lib.rs).  Both enumerations derive their order from *)
(* the position of the variant, so a variant is modelled by its            *)
(* discriminant.                                                           *)
(***************************************************************************)
EXTENDS Naturals

(* enum Decision: Allow < Ask < Deny *)
Allow == 0
Ask   == 1
Deny  == 2
Decision == Allow .. Deny

(* enum Rule: the declaration order is the tie-break order *)
ForkBomb            == 0
ReverseShell        == 1
RemoteExec          == 2
FsDestructive       == 3
DeviceOverwrite     == 4
SystemFileWrite     == 5
Exfiltration        == 6
ContainerEscape     == 7
CredentialAccess    == 8
PrivilegeEscalation == 9
PermissionWeakening == 10
Persistence         == 11
ServiceDisruption   == 12
ContainerPrivilege  == 13
HistoryTamper       == 14
SystemPower         == 15
PkgInstall          == 16
GitDestructive      == 17
NetworkListener     == 18
Obfuscation         == 19
MalformedInput      == 20
ParseError          == 21
OkRule              == 22
Rule == ForkBomb .. OkRule

(* Mutant of Severity: the catch-all arm of the match answers Allow. *)
SeverityDefaultAllow(rule) ==
  IF rule \in {ForkBomb, ReverseShell, RemoteExec, FsDestructive,
               DeviceOverwrite, SystemFileWrite, Exfiltration, ContainerEscape}
  THEN Deny
  ELSE IF rule \in CredentialAccess .. ParseError \ {PkgInstall, Obfuscation}
       THEN Ask ELSE Allow

(* Rule::severity *)
Severity(rule) ==
  IF rule \in {ForkBomb, ReverseShell, RemoteExec, FsDestructive,
               DeviceOverwrite, SystemFileWrite, Exfiltration, ContainerEscape}
  THEN Deny
  ELSE IF rule = OkRule THEN Allow ELSE Ask

(* Verdict::of and Verdict::allow; NoMatch is the detail "no rule matched" *)
VerdictOf(rule, detail) ==
  [decision |-> Severity(rule), rule |-> rule, detail |-> detail]

NoMatch == "no rule matched"
AllowVerdict == VerdictOf(OkRule, NoMatch)

(* The comparison Findings::add makes between a candidate and the best so   *)
(* far: greater severity, or equal severity and lower discriminant.         *)
Outranks(v, w) ==
  \/ v.decision > w.decision
  \/ v.decision = w.decision /\ v.rule < w.rule

(* Mutant of Replaces: no tie-break. *)
ReplacesBySeverityOnly(candidate, current) ==
  \A cur \in current : candidate.decision > cur.decision

(* The decision add takes on a candidate verdict. *)
Replaces(candidate, current) ==
  \A cur \in current : Outranks(candidate, cur)
=============================================================================
