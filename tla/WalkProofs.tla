----------------------------- MODULE WalkProofs -----------------------------
(***************************************************************************)
(* Machine-checked proofs about Walk, for every command, every parser and  *)
(* decoder and every depth limit.  What the individual rules look for is   *)
(* not used: of each group of rules only the identifiers it can name.      *)
(***************************************************************************)
EXTENDS Walk, FiniteSetTheorems, DataProofs

-----------------------------------------------------------------------------
(* What the rules can add to the findings. *)

(* The findings are all the identifiers but the last. *)
LEMMA FindingNumbers == Finding = 0 .. 21
BY DEF Finding, Rule, ForkBomb, OkRule

(* A redirect adds findings only. *)
LEMMA RedirectFindings ==
  ASSUME NEW redir
  PROVE  RedirectRules(redir) \subseteq Finding
BY FindingNumbers
   DEF RedirectRules, When, DeviceOverwrite, SystemFileWrite, HistoryTamper,
       Persistence

(* So do the rules on the name of a command ... *)
LEMMA FileFindings ==
  ASSUME NEW c
  PROVE  FileRules(c) \subseteq Finding
BY FindingNumbers
   DEF FileRules, When, SomeArg, SomeOperand, SystemFileWrite, HistoryTamper,
       Persistence, Obfuscation, FsDestructive, PermissionWeakening

(* What the rules on host tools (su, shutdown, nc, crontab ...) add are      *)
(* findings.                                                                *)
LEMMA HostFindings ==
  ASSUME NEW c
  PROVE  HostRules(c) \subseteq Finding
BY FindingNumbers
   DEF HostRules, When, SomeArg, SomeOperand, PrivilegeEscalation,
       HistoryTamper, SystemPower, ReverseShell, NetworkListener, Persistence

(* What the rules on container tools add are findings.                      *)
LEMMA ContainerFindings ==
  ASSUME NEW c
  PROVE  ContainerRules(c) \subseteq Finding
BY FindingNumbers
   DEF ContainerRules, When, SomeArg, SomeOperand, ContainerEscape,
       ContainerPrivilege

(* The families of by-name rules together add findings only.                *)
LEMMA NameFindings ==
  ASSUME NEW c
  PROVE  NameRules(c) \subseteq Finding
<1>1. GitRules(c) \subseteq Finding
  BY FindingNumbers DEF GitRules, When, GitDestructive
<1>2. PackageRules(c) \subseteq Finding
  BY FindingNumbers DEF PackageRules, When, PkgInstall
<1>3. ServiceRules(c) \subseteq Finding
  BY FindingNumbers DEF ServiceRules, When, SomeArg, SomeOperand, ServiceDisruption
<1>4. QED
  BY <1>1, <1>2, <1>3, FileFindings, HostFindings, ContainerFindings DEF NameRules

(* ... and the rules on the stages of a pipeline. *)
LEMMA PipelineFindings ==
  ASSUME NEW stages, NEW depth
  PROVE  PipelineEffect(stages, depth).rules \subseteq Finding
<1>1. PipelineRules(stages) \subseteq Finding
  BY FindingNumbers
     DEF PipelineRules, When, RemoteExec, Exfiltration, CredentialAccess, Persistence
<1>2. QED
  BY <1>1, FindingNumbers DEF PipelineEffect, Effect, When, Obfuscation

(* The three parts of command_rules add findings only. *)
LEMMA InspectFindings ==
  ASSUME NEW rc, NEW depth
  PROVE  InspectEffect(rc, depth).rules \subseteq Finding
BY RedirectFindings DEF InspectEffect, Effect

(* The step that matches the name adds findings only, the socket            *)
(* redirection's included.                                                  *)
LEMMA ByNameFindings ==
  ASSUME NEW rc, NEW depth
  PROVE  NameEffect(rc, depth).rules \subseteq Finding
<1>1. \A name, redirs : SocketRules(name, redirs) \subseteq Finding
  BY FindingNumbers DEF SocketRules, When, ReverseShell
<1>2. Obfuscation \in Finding /\ PrivilegeEscalation \in Finding
  BY FindingNumbers DEF Obfuscation, PrivilegeEscalation
<1>3. QED
  BY <1>1, <1>2, NameFindings DEF NameEffect, Effect, When

(* The step that looks at what the command executes adds findings only.     *)
LEMMA ExecuteFindings ==
  ASSUME NEW rc, NEW taint, NEW depth
  PROVE  ExecuteEffect(rc, taint, depth).rules \subseteq Finding
<1>1. \A src : ProcSubRules(src) \subseteq Finding
  BY FindingNumbers DEF ProcSubRules, When, RemoteExec, Obfuscation
<1>2. RemoteExec \in Finding /\ Obfuscation \in Finding
  BY FindingNumbers DEF RemoteExec, Obfuscation
<1>3. UNION {ProcSubRules(rc.procSubs[i]) : i \in DOMAIN rc.procSubs} \subseteq Finding
  BY <1>1
<1>4. ExecuteRules(rc, taint) \subseteq Finding
  BY <1>2, <1>3 DEF ExecuteRules, When
<1>5. QED
  BY <1>4 DEF ExecuteEffect, Effect

-----------------------------------------------------------------------------
(* Findings::resolve takes the worst finding. *)

(* Severities never grow along the declaration order, and a finding is never *)
(* ALLOW.                                                                    *)
LEMMA FindingSeverity ==
  /\ \A r \in Finding : Severity(r) \in {Ask, Deny}
  /\ \A r, s \in Finding : r <= s => Severity(s) <= Severity(r)
BY FindingNumbers
   DEF Severity, Ask, Deny, Allow, OkRule, ForkBomb, ReverseShell, RemoteExec,
       FsDestructive, DeviceOverwrite, SystemFileWrite, Exfiltration, ContainerEscape

(* The comparison of Findings::add, for two verdicts with the same text.     *)
LEMMA OutranksByRule ==
  ASSUME NEW r, NEW s
  PROVE  Outranks(VerdictOf(s, NoMatch), VerdictOf(r, NoMatch))
           <=> Severity(s) > Severity(r) \/ (Severity(s) = Severity(r) /\ s < r)
BY DEF Outranks, VerdictOf

(* So among findings there is one that no other outranks.                    *)
LEMMA WorstIsFinding ==
  ASSUME NEW S \in SUBSET Finding, S # {}
  PROVE  /\ Worst(S) \in S
         /\ \A s \in S : Severity(s) <= Severity(Worst(S))
<1>1. PICK m \in S : \A x \in S : m <= x
  <2>1. S \in SUBSET Nat
    BY FindingNumbers
  <2>2. QED
    BY <2>1, LeastExists
<1>2. \A s \in S : ~Outranks(VerdictOf(s, NoMatch), VerdictOf(m, NoMatch))
  <2>1. SUFFICES ASSUME NEW s \in S
                 PROVE  ~(Severity(s) > Severity(m) \/ (Severity(s) = Severity(m) /\ s < m))
    BY OutranksByRule
  <2>2. s \in Finding /\ m \in Finding /\ m <= s /\ Severity(s) <= Severity(m)
    BY <1>1, FindingSeverity
  <2>3. s \in Nat /\ m \in Nat /\ Severity(s) \in Nat /\ Severity(m) \in Nat
    BY <2>2, FindingNumbers, FindingSeverity DEF Ask, Deny
  <2>4. QED
    BY <2>2, <2>3
<1>3. /\ Worst(S) \in S
      /\ \A s \in S : ~Outranks(VerdictOf(s, NoMatch), VerdictOf(Worst(S), NoMatch))
  BY <1>2 DEF Worst
<1>4. \A s \in S : ~(Severity(s) > Severity(Worst(S)))
  BY <1>3, OutranksByRule
<1>5. \A s \in S : Severity(s) \in Nat
  BY FindingSeverity DEF Ask, Deny
<1>6. QED
  BY <1>3, <1>4, <1>5

-----------------------------------------------------------------------------
(* The invariant. *)

(* A body turned away has left a finding. *)
RefusalFound == refused # {} => fired \cap {Obfuscation, ParseError} # {}

(* The answer is the worst finding, or OK when there is none.                *)
AnswerIsWorst ==
  verdict # {} =>
    /\ todo = <<>>
    /\ verdict = {IF fired = {} THEN OkRule ELSE Worst(fired)}

Inv == fired \subseteq Finding /\ RefusalFound /\ AnswerIsWorst

(* A walk starts with no finding, no refusal and no answer.                 *)
LEMMA InvInit == Init => Inv
BY DEF Init, Inv, RefusalFound, AnswerIsWorst

(* A call that adds findings only, and one whenever it turns a body away,    *)
(* keeps the invariant.                                                      *)
LEMMA ReturnKeepsInv ==
  ASSUME Inv, todo # <<>>, NEW effect, Return(effect),
         effect.rules \subseteq Finding,
         refused' # refused => effect.rules \cap {Obfuscation, ParseError} # {}
  PROVE  Inv'
BY DEF Inv, RefusalFound, AnswerIsWorst, Return

(* Going into a body and turning one away keep it.                          *)
LEMMA Gone ==
  ASSUME Inv, todo # <<>>, NEW mark, NEW calls, GoInto(mark, calls)
  PROVE  Inv'
BY ReturnKeepsInv DEF GoInto, Effect

LEMMA Turned ==
  ASSUME Inv, todo # <<>>, NEW mark, NEW rule \in {Obfuscation, ParseError},
         TurnAway(mark, rule)
  PROVE  Inv'
<1>1. /\ {rule} \subseteq Finding
      /\ Effect(<<>>, {rule}).rules = {rule}
  BY FindingNumbers DEF Obfuscation, ParseError, Effect
<1>2. QED
  BY <1>1, ReturnKeepsInv DEF TurnAway

(* Every call of the walk keeps the invariant.                              *)
LEMMA InvNext ==
  ASSUME Inv, [Next]_vars
  PROVE  Inv'
<1>1. /\ {Obfuscation} \subseteq Finding
      /\ {ParseError} \subseteq Finding
      /\ {ForkBomb} \subseteq Finding
  BY FindingNumbers DEF Obfuscation, ParseError, ForkBomb
<1>2. \A calls, rules : Effect(calls, rules).rules = rules
  BY DEF Effect
<1>3. CASE Analyze
  <2>1. CASE TooLong(cmd) \/ Parse(cmd) = {}
    <3>1. PICK rule \in {Obfuscation, ParseError} : TurnAway(TextMark(cmd), rule)
      BY <1>3, <2>1 DEF Analyze
    <3>2. todo # <<>>
      BY <1>3 DEF Analyze, Calling
    <3>3. QED
      BY <3>1, <3>2, Turned
  <2>2. CASE ~(TooLong(cmd) \/ Parse(cmd) = {})
    BY <1>3, <2>2, Gone DEF Analyze, Calling
  <2>3. QED
    BY <2>1, <2>2
<1>4. CASE Answer
  BY <1>4 DEF Answer, Inv, RefusalFound, AnswerIsWorst
<1>5. CASE WalkScript
  BY <1>5, Turned, Gone DEF WalkScript, Calling
<1>6. CASE WalkPipeline
  <2>1. ResolvePipeline(Head(todo).pipe, Head(todo).depth).rules = {}
    BY <1>2 DEF ResolvePipeline
  <2>2. QED
    BY <1>6, <2>1, ReturnKeepsInv DEF WalkPipeline, Calling
<1>7. CASE JudgePipeline
  <2> DEFINE effect == PipelineEffect(Head(todo).stages, Head(todo).depth)
  <2>1. refused' # refused => OpaqueTexts(Head(todo).stages) # {}
    BY <1>7 DEF JudgePipeline
  <2>2. OpaqueTexts(Head(todo).stages) # {} => Obfuscation \in effect.rules
    BY <1>2 DEF PipelineEffect, When
  <2>3. effect.rules \subseteq Finding
    BY PipelineFindings
  <2>4. todo # <<>> /\ Return(effect)
    BY <1>7 DEF JudgePipeline, Calling
  <2>5. QED
    BY <2>1, <2>2, <2>3, <2>4, ReturnKeepsInv
<1>8. CASE DefineFunction
  <2>1. PICK calls, cond : Return(Effect(calls, When(cond, {ForkBomb})))
    BY <1>8 DEF DefineFunction
  <2>2. When(cond, {ForkBomb}) \subseteq Finding
    BY <1>1 DEF When
  <2>3. todo # <<>> /\ refused' = refused
    BY <1>8 DEF DefineFunction, Calling
  <2>4. QED
    BY <1>2, <2>1, <2>2, <2>3, ReturnKeepsInv
<1>9. CASE AnalyzeNested
  BY <1>9, Turned, Gone DEF AnalyzeNested, GoIntoText, Calling
<1>10. CASE CommandRules
  BY <1>10, InspectFindings, ReturnKeepsInv DEF CommandRules, Calling
<1>11. CASE MatchName
  BY <1>11, ByNameFindings, ReturnKeepsInv DEF MatchName, Calling
<1>12. CASE ExecuteCommand
  BY <1>12, ExecuteFindings, ReturnKeepsInv DEF ExecuteCommand, Calling
<1>13. CASE UNCHANGED vars
  BY <1>13 DEF vars, Inv, RefusalFound, AnswerIsWorst
<1>14. QED
  BY <1>3, <1>4, <1>5, <1>6, <1>7, <1>8, <1>9, <1>10, <1>11, <1>12, <1>13
     DEF Next, Step, Done

-----------------------------------------------------------------------------

(* In every reachable state the findings are findings, a refused body has   *)
(* left one of its own, and a finished walk answers its worst finding.      *)
THEOREM InvInvariant == Spec => []Inv
<1>1. Init => Inv
  BY InvInit
<1>2. Inv /\ [Next]_vars => Inv'
  BY InvNext
<1>3. QED
  BY <1>1, <1>2, PTL DEF Spec

(* Whatever the parser refuses or the depth limit cuts off, at any level,    *)
(* the command that carried it is not answered ALLOW.                        *)
THEOREM FailClosedAlways == Spec => []FailClosed
<1>1. ASSUME Inv PROVE FailClosed
  <2>1. SUFFICES ASSUME NEW r \in verdict, refused # {}
                 PROVE  Severity(r) # Allow
    BY DEF FailClosed
  <2>2. fired \subseteq Finding /\ fired # {} /\ r = Worst(fired)
    BY <1>1, <2>1 DEF Inv, RefusalFound, AnswerIsWorst
  <2>3. r \in Finding
    BY <2>2, WorstIsFinding
  <2>4. QED
    BY <2>3, FindingSeverity DEF Allow, Ask, Deny
<1>2. Inv => FailClosed
  BY <1>1
<1>3. QED
  BY <1>2, InvInvariant, PTL

(* An answer is at least as severe as every finding of the walk, and ALLOW   *)
(* is the answer of a walk that found nothing.                               *)
SeverestAnswer ==
  \A r \in verdict :
    /\ \A s \in fired : Severity(s) <= Severity(r)
    /\ Severity(r) = Allow <=> fired = {}

(* The walk never answers below its severest finding, and ALLOW is never    *)
(* the answer of a walk that found something.                               *)
THEOREM SeverestAnswerAlways == Spec => []SeverestAnswer
<1>1. ASSUME Inv PROVE SeverestAnswer
  <2>1. SUFFICES ASSUME NEW r \in verdict
                 PROVE  /\ \A s \in fired : Severity(s) <= Severity(r)
                        /\ Severity(r) = Allow <=> fired = {}
    BY DEF SeverestAnswer
  <2>2. CASE fired = {}
    <3>1. r = OkRule
      BY <1>1, <2>1, <2>2 DEF Inv, AnswerIsWorst
    <3>2. QED
      BY <2>2, <3>1
         DEF Severity, OkRule, ForkBomb, ReverseShell, RemoteExec, FsDestructive,
             DeviceOverwrite, SystemFileWrite, Exfiltration, ContainerEscape
  <2>3. CASE fired # {}
    <3>1. fired \subseteq Finding /\ r = Worst(fired)
      BY <1>1, <2>1, <2>3 DEF Inv, AnswerIsWorst
    <3>2. r \in Finding /\ \A s \in fired : Severity(s) <= Severity(r)
      BY <2>3, <3>1, WorstIsFinding
    <3>3. QED
      BY <2>3, <3>2, FindingSeverity DEF Allow, Ask, Deny
  <2>4. QED
    BY <2>2, <2>3
<1>2. Inv => SeverestAnswer
  BY <1>1
<1>3. QED
  BY <1>2, InvInvariant, PTL

-----------------------------------------------------------------------------
(* The calls on the stack. *)

(* What the parser returns is a syntax tree (the type of parse_source), on  *)
(* whatever text it is called.                                              *)
ParserTyped == \A src : Parse(src) \subseteq Script

(* The length of a text.                                                    *)
LEMMA TextLength == \A text : Len(text) \in Nat
OBVIOUS

(* A body is looked at one level below the deepest one that is gone into;   *)
(* every other call is made from within a body that was.                    *)
CallTyped(c) ==
  /\ c.depth \in 0 .. MaxDepth + 1
  /\ c.call \notin {"analyze_nested", "walk_script"} => c.depth <= MaxDepth
  /\ c.call = "walk_script" => c.script \in Script
  /\ c.call = "walk_pipeline" => c.pipe \in Seq(CommandType(Script))
  /\ c.call = "define" => c.func.body \in Script
  /\ c.call \in {"command_rules", "by_name", "execute"} =>
       IsSeq(c.rc.argv) /\ IsSeq(c.rc.redirs) /\ IsSeq(c.rc.subs)

AllTyped(calls) == IsSeq(calls) /\ \A c \in ToSet(calls) : CallTyped(c)

(* Concatenations of typed calls are typed, and so are single ones.         *)
LEMMA TypedConcat ==
  ASSUME NEW s, NEW t, AllTyped(s), AllTyped(t)
  PROVE  AllTyped(s \o t)
BY ConcatIsSeq DEF AllTyped

LEMMA TypedOne ==
  ASSUME NEW c, CallTyped(c)
  PROVE  AllTyped(<<c>>)
BY ShortSeqs DEF AllTyped

(* The words of a command, and the bodies in them.                          *)
BodiesOf(word, kinds) ==
  {word.segs[k].src : k \in {t \in DOMAIN word.segs : word.segs[t].seg \in kinds}}

LEMMA BodiesIsSeq ==
  ASSUME NEW words \in Seq(WordType), NEW kinds
  PROVE  /\ IsSeq(Bodies(words, kinds))
         /\ ToSet(Bodies(words, kinds)) = UNION {BodiesOf(word, kinds) : word \in ToSet(words)}
<1> DEFINE Each(segs) == [k \in DOMAIN segs |-> OneIf(segs[k].seg \in kinds, segs[k].src)]
           Flat == [i \in DOMAIN words |-> FlattenSeq(Each(words[i].segs))]
<1>1. ASSUME NEW i \in DOMAIN words
      PROVE  IsSeq(Flat[i]) /\ ToSet(Flat[i]) = BodiesOf(words[i], kinds)
  <2> DEFINE segs == words[i].segs
             n    == Len(segs)
             f    == Each(segs)
  <2>1. n \in Nat /\ DOMAIN segs = 1 .. n
    <3>1. words[i] \in WordType
      OBVIOUS
    <3>2. segs \in Seq(SegmentType)
      BY <3>1 DEF WordType
    <3>3. QED
      BY <3>2
  <2>2. f = [k \in 1 .. n |-> f[k]]
    BY <2>1
  <2>3. \A k \in 1 .. n : /\ IsSeq(f[k])
                          /\ ToSet(f[k]) = IF segs[k].seg \in kinds THEN {segs[k].src} ELSE {}
    BY <2>1, ShortSeqs DEF OneIf
  <2> HIDE DEF f
  <2>4. /\ IsSeq(FlattenSeq(f))
        /\ ToSet(FlattenSeq(f)) = UNION {ToSet(f[k]) : k \in 1 .. n}
    BY <2>1, <2>2, <2>3, FlattenFunction
  <2>5. UNION {ToSet(f[k]) : k \in 1 .. n} = BodiesOf(words[i], kinds)
    BY <2>1, <2>3 DEF BodiesOf
  <2>6. Flat[i] = FlattenSeq(f)
    BY DEF f
  <2>7. QED
    BY <2>4, <2>5, <2>6
<1>2. Len(words) \in Nat /\ DOMAIN words = 1 .. Len(words)
  OBVIOUS
<1>3. Flat = [i \in 1 .. Len(words) |-> Flat[i]]
  BY <1>2
<1>4. Bodies(words, kinds) = FlattenSeq(Flat)
  BY DEF Bodies
<1> HIDE DEF Flat
<1>5. /\ IsSeq(FlattenSeq(Flat))
      /\ ToSet(FlattenSeq(Flat)) = UNION {ToSet(Flat[i]) : i \in DOMAIN words}
  BY <1>1, <1>2, <1>3, FlattenFunction
<1>6. UNION {ToSet(Flat[i]) : i \in DOMAIN words}
        = UNION {BodiesOf(word, kinds) : word \in ToSet(words)}
  BY <1>1 DEF ToSet
<1>7. QED
  BY <1>4, <1>5, <1>6

(* The parts an expansion is split into: those from position i on, when rest *)
(* are those from the next one on.                                          *)
IsSep(s, i) == i \notin 1 .. Len(s) \/ CharAt(s, i) \in FieldSep
FieldsFrom(s, i, rest) ==
  IF IsSep(s, i) THEN rest
  ELSE IF IsSep(s, i + 1) THEN <<CharAt(s, i)>> \o rest
  ELSE <<CharAt(s, i) \o Head(rest)>> \o Tail(rest)
IsFrom(s, from) ==
  from = [i \in 1 .. Len(s) + 1 |->
            IF i > Len(s) THEN <<>> ELSE FieldsFrom(s, i, from[i + 1])]
IsBack(s, n, back) ==
  back = [k \in 0 .. n |->
            IF k = 0 THEN <<>> ELSE FieldsFrom(s, Len(s) + 1 - k, back[k - 1])]

LEMMA BackExists ==
  ASSUME NEW s, NEW n \in Nat
  PROVE  \E back : IsBack(s, n, back)
<1> DEFINE Holds == {m \in Nat : \E back : IsBack(s, m, back)}
           Next1(k, rest) == FieldsFrom(s, Len(s) + 1 - k, rest)
<1>1. 0 \in Holds
  <2>1. IsBack(s, 0, [k \in 0 .. 0 |-> <<>>])
    BY DEF IsBack
  <2>2. QED
    BY <2>1
<1>2. ASSUME NEW m \in 1 .. n, m - 1 \in Holds PROVE m \in Holds
  <2>1. PICK f : IsBack(s, m - 1, f)
    BY <1>2
  <2> DEFINE g == [k \in 0 .. m |-> IF k < m THEN f[k] ELSE Next1(m, f[m - 1])]
  <2>2. \A k \in 0 .. m - 1 : f[k] = IF k = 0 THEN <<>> ELSE Next1(k, f[k - 1])
    BY <2>1 DEF IsBack
  <2>3. ASSUME NEW k \in 0 .. m PROVE g[k] = IF k = 0 THEN <<>> ELSE Next1(k, g[k - 1])
    <3> HIDE DEF Next1
    <3>1. CASE k < m
      <4>1. k \in 0 .. m - 1 /\ (k # 0 => k - 1 \in 0 .. m /\ k - 1 < m)
        BY <3>1
      <4>2. QED
        BY <2>2, <3>1, <4>1
    <3>2. CASE k = m
      <4>1. k # 0 /\ k - 1 \in 0 .. m /\ k - 1 < m
        BY <3>2
      <4>2. QED
        BY <3>2, <4>1
    <3>3. QED
      BY <3>1, <3>2
  <2>4. IsBack(s, m, g)
    BY <2>3 DEF IsBack
  <2>5. QED
    BY <2>4
<1> HIDE DEF Holds
<1>3. n \in Holds
  BY <1>1, <1>2, InductionUpTo
<1>4. QED
  BY <1>3 DEF Holds

(* Fields, from the end of the text to its beginning.                       *)
LEMMA FieldsSteps ==
  ASSUME NEW s
  PROVE  \E from : /\ Fields(s) = from[1] /\ from[Len(s) + 1] = <<>>
                   /\ \A i \in 1 .. Len(s) : from[i] = FieldsFrom(s, i, from[i + 1])
<1>1. PICK n : n = Len(s)
  OBVIOUS
<1>2. n \in Nat
  BY <1>1, TextLength
<1>3. PICK back : IsBack(s, n, back)
  BY <1>2, BackExists
<1> DEFINE f == [i \in 1 .. n + 1 |-> back[n + 1 - i]]
<1>4. back[0] = <<>> /\ \A k \in 1 .. n : back[k] = FieldsFrom(s, n + 1 - k, back[k - 1])
  BY <1>1, <1>2, <1>3 DEF IsBack
<1>5. ASSUME NEW i \in 1 .. n + 1
      PROVE  f[i] = IF i > n THEN <<>> ELSE FieldsFrom(s, i, f[i + 1])
  <2>1. CASE i = n + 1
    <3>1. n + 1 - i = 0 /\ i > n
      BY <1>2, <2>1
    <3>2. f[i] = back[0]
      BY <3>1
    <3>3. QED
      BY <1>4, <3>1, <3>2
  <2>2. CASE i \in 1 .. n
    <3>1. n + 1 - i \in 1 .. n /\ n + 1 - (n + 1 - i) = i /\ (n + 1 - i) - 1 = n + 1 - (i + 1)
      BY <1>2, <2>2
    <3>2. i + 1 \in 1 .. n + 1 /\ ~(i > n)
      BY <1>2, <2>2
    <3>3. QED
      BY <1>4, <3>1, <3>2
  <2>3. QED
    BY <1>2, <2>1, <2>2
<1>6. IsFrom(s, f)
  <2> HIDE DEF f
  <2>1. f = [i \in 1 .. n + 1 |-> IF i > n THEN <<>> ELSE FieldsFrom(s, i, f[i + 1])]
    <3>1. f = [i \in 1 .. n + 1 |-> f[i]]
      BY DEF f
    <3>2. QED
      BY <1>5, <3>1
  <2>2. QED
    BY <1>1, <2>1 DEF IsFrom
<1>7. PICK from : from = CHOOSE g : IsFrom(s, g)
  OBVIOUS
<1>8. IsFrom(s, from)
  BY <1>6, <1>7
<1>9. Fields(s) = from[1]
  BY <1>7, Zenon DEF Fields, IsFrom, FieldsFrom, IsSep
<1>10. from[Len(s) + 1] = <<>> /\ \A i \in 1 .. Len(s) : from[i] = FieldsFrom(s, i, from[i + 1])
  <2>1. /\ n + 1 \in 1 .. n + 1 /\ n + 1 > n
        /\ \A i \in 1 .. n : i \in 1 .. n + 1 /\ ~(i > n)
    BY <1>2
  <2>2. QED
    BY <1>1, <1>8, <2>1 DEF IsFrom
<1>11. QED
  BY <1>9, <1>10

(* They are a sequence, and not an empty one where a part begins.           *)
LEMMA FieldsIsSeq ==
  ASSUME NEW s
  PROVE  IsSeq(Fields(s))
<1>1. PICK from : /\ Fields(s) = from[1] /\ from[Len(s) + 1] = <<>>
                  /\ \A i \in 1 .. Len(s) : from[i] = FieldsFrom(s, i, from[i + 1])
  BY FieldsSteps
<1>2. PICK n : n = Len(s) + 1
  OBVIOUS
<1>3. n \in Nat /\ n - 1 = Len(s) /\ 1 \in 1 .. n
  BY <1>2, TextLength
<1> DEFINE Fits(i) == IsSeq(from[i]) /\ (~IsSep(s, i) => from[i] # <<>>)
           Holds == {i \in 1 .. n : Fits(i)}
<1>4. ASSUME NEW i \in 1 .. n, \A k \in 1 .. n : k > i => k \in Holds
      PROVE  i \in Holds
  <2>1. CASE i = n
    <3>1. IsSep(s, i)
      BY <1>3, <2>1 DEF IsSep
    <3>2. QED
      BY <1>1, <1>2, <2>1, <3>1, ShortSeqs
  <2>2. CASE i # n
    <3>1. i \in 1 .. Len(s) /\ i + 1 \in 1 .. n /\ i + 1 > i
      BY <1>3, <2>2
    <3>2. Fits(i + 1)
      BY <1>4, <3>1
    <3>3. from[i] = FieldsFrom(s, i, from[i + 1])
      BY <1>1, <3>1
    <3>4. PICK rest : rest = from[i + 1]
      OBVIOUS
    <3>5. ASSUME NEW x, NEW more, IsSeq(more)
          PROVE  IsSeq(<<x>> \o more) /\ <<x>> \o more # <<>>
      <4>1. IsSeq(<<x>> \o more) /\ ToSet(<<x>> \o more) = ToSet(<<x>>) \cup ToSet(more)
        BY <3>5, ConcatIsSeq, ShortSeqs
      <4>2. x \in ToSet(<<x>> \o more)
        BY <4>1, ShortSeqs
      <4>3. QED
        BY <4>1, <4>2, ShortSeqs
    <3>6. CASE IsSep(s, i)
      BY <3>2, <3>3, <3>6 DEF FieldsFrom
    <3>7. CASE ~IsSep(s, i) /\ IsSep(s, i + 1)
      <4>1. from[i] = <<CharAt(s, i)>> \o rest
        BY <3>3, <3>4, <3>7 DEF FieldsFrom
      <4>2. QED
        BY <3>2, <3>4, <3>5, <4>1
    <3>8. CASE ~IsSep(s, i) /\ ~IsSep(s, i + 1)
      <4>1. from[i] = <<CharAt(s, i) \o Head(rest)>> \o Tail(rest)
        BY <3>3, <3>4, <3>8 DEF FieldsFrom
      <4>2. IsSeq(Tail(rest))
        BY <3>2, <3>4, <3>8, HeadAndTail
      <4>3. QED
        BY <3>5, <4>1, <4>2
    <3>9. QED
      BY <3>6, <3>7, <3>8
  <2>3. QED
    BY <2>1, <2>2
<1> HIDE DEF Fits
<1>5. Holds \in SUBSET (1 .. n)
  OBVIOUS
<1> HIDE DEF Holds
<1>6. Holds = 1 .. n
  BY <1>3, <1>4, <1>5, InductionFromTheEnd
<1>7. QED
  BY <1>1, <1>3, <1>6 DEF Holds, Fits

(* What is being split: the fields so far and the one being built. *)
IsSplit(acc) == IsSeq(acc.fields) /\ acc = [fields |-> acc.fields, cur |-> acc.cur]

(* A field can be ended, and a text or the parts of one added to it.        *)
LEMMA SplitsRemain ==
  ASSUME NEW acc, IsSplit(acc), NEW piece
  PROVE  IsSplit(FlushField(acc)) /\ IsSplit(AddPiece(acc, piece))
<1>1. \A a : IsSplit(a) => IsSplit(FlushField(a))
  BY AppendIsSeq DEF IsSplit, FlushField
<1>2. \A a, condition : IsSplit(a) => IsSplit(FlushIf(condition, a))
  BY <1>1 DEF FlushIf
<1>3. \A a, text : IsSplit(a) => IsSplit(Extend(a, text))
  <2>1. ASSUME NEW fields, NEW cur, NEW more
        PROVE  [[fields |-> fields, cur |-> cur] EXCEPT !.cur = more]
                 = [fields |-> fields, cur |-> more]
    OBVIOUS
  <2>2. ASSUME NEW a, IsSplit(a), NEW text
        PROVE  \E more : Extend(a, text) = [fields |-> a.fields, cur |-> more]
    <3> DEFINE more == a.cur \o text
    <3>1. Extend(a, text) = [a EXCEPT !.cur = more]
      BY DEF Extend
    <3> HIDE DEF more
    <3>2. a = [fields |-> a.fields, cur |-> a.cur]
      BY <2>2 DEF IsSplit
    <3>3. QED
      BY <2>1, <3>1, <3>2
  <2>3. QED
    BY <2>2 DEF IsSplit
<1>4. ASSUME NEW a, IsSplit(a), NEW parts, IsSeq(parts)
      PROVE  IsSplit(AddFields(a, parts))
  <2> DEFINE all == a.fields \o <<a.cur \o Head(parts)>> \o Tail(parts)
  <2>1. CASE parts = <<>>
    BY <1>4, <2>1 DEF AddFields
  <2>2. CASE parts # <<>>
    <3>1. IsSeq(Tail(parts)) /\ IsSeq(a.fields) /\ IsSeq(<<a.cur \o Head(parts)>>)
      BY <1>4, <2>2, HeadAndTail, ShortSeqs DEF IsSplit
    <3>2. IsSeq(all)
      BY <3>1, ConcatIsSeq
    <3>3. IsSeq(Front(all))
      BY <3>2, FrontIsSeq
    <3>4. AddFields(a, parts) = [fields |-> Front(all), cur |-> Last(all)]
      BY <2>2 DEF AddFields
    <3> HIDE DEF all
    <3>5. QED
      BY <3>3, <3>4 DEF IsSplit
  <2>3. QED
    BY <2>1, <2>2
<1>5. IsSplit(AddPiece(acc, piece))
  <2>1. IsSeq(Fields(piece.text))
    BY FieldsIsSeq
  <2>2. QED
    BY <1>2, <1>3, <1>4, <2>1 DEF AddPiece
<1>6. QED
  BY <1>1, <1>5

(* split holds what the first 0, 1, ... n of the pieces are split into.     *)
Splits(pieces, n, split) ==
  split = [k \in 0 .. n |-> IF k = 0 THEN NoFields
                             ELSE AddPiece(split[k - 1], pieces[k])]

LEMMA SplitExists ==
  ASSUME NEW pieces, NEW n \in Nat
  PROVE  \E split : Splits(pieces, n, split)
<1> DEFINE Holds == {m \in Nat : \E split : Splits(pieces, m, split)}
<1>1. 0 \in Holds
  <2>1. Splits(pieces, 0, [k \in 0 .. 0 |-> NoFields])
    BY DEF Splits
  <2>2. QED
    BY <2>1
<1>2. ASSUME NEW m \in 1 .. n, m - 1 \in Holds PROVE m \in Holds
  <2>1. PICK f : Splits(pieces, m - 1, f)
    BY <1>2
  <2> DEFINE g == [k \in 0 .. m |-> IF k < m THEN f[k] ELSE AddPiece(f[m - 1], pieces[m])]
  <2>2. ASSUME NEW k \in 0 .. m
        PROVE  g[k] = IF k = 0 THEN NoFields
                      ELSE AddPiece(g[k - 1], pieces[k])
    <3>1. CASE k < m
      <4>1. k \in 0 .. m - 1 /\ (k # 0 => k - 1 \in 0 .. m /\ k - 1 < m)
        BY <3>1
      <4>2. f[k] = IF k = 0 THEN NoFields
                   ELSE AddPiece(f[k - 1], pieces[k])
        BY <2>1, <4>1 DEF Splits
      <4>3. QED
        BY <3>1, <4>1, <4>2
    <3>2. CASE k = m
      <4>1. k # 0 /\ k - 1 \in 0 .. m /\ k - 1 < m
        BY <3>2
      <4>2. QED
        BY <3>2, <4>1
    <3>3. QED
      BY <3>1, <3>2
  <2>3. Splits(pieces, m, g)
    BY <2>2 DEF Splits
  <2>4. QED
    BY <2>3
<1> HIDE DEF Holds
<1>3. n \in Holds
  BY <1>1, <1>2, InductionUpTo
<1>4. QED
  BY <1>3 DEF Holds

(* So the fields that pieces are split into are a sequence ...              *)
LEMMA SplitFieldsIsSeq ==
  ASSUME NEW pieces, IsSeq(pieces)
  PROVE  IsSeq(SplitFields(pieces))
<1> DEFINE n == Len(pieces)
<1>1. n \in Nat
  BY DEF IsSeq
<1>2. PICK f : f = CHOOSE g : Splits(pieces, n, g)
  OBVIOUS
<1>3. Splits(pieces, n, f)
  BY <1>1, <1>2, SplitExists
<1>4. SplitFields(pieces) = FlushField(f[n]).fields
  BY <1>2 DEF SplitFields, Splits
<1> DEFINE Holds == {k \in 0 .. n : IsSplit(f[k])}
<1>5. 0 \in Holds
  <2>1. f[0] = NoFields /\ 0 \in 0 .. n
    BY <1>1, <1>3 DEF Splits
  <2>2. PICK c : NoFields = [fields |-> <<>>, cur |-> c]
    BY Zenon DEF NoFields
  <2>3. IsSplit(NoFields)
    BY <2>2, ShortSeqs DEF IsSplit
  <2>4. QED
    BY <2>1, <2>3
<1>6. ASSUME NEW k \in 1 .. n, k - 1 \in Holds PROVE k \in Holds
  <2>1. k \in 0 .. n /\ f[k] = AddPiece(f[k - 1], pieces[k])
    BY <1>3 DEF Splits
  <2>2. QED
    BY <1>6, <2>1, SplitsRemain
<1> HIDE DEF Holds
<1>7. n \in Holds
  <2>1. n \in 0 .. n
    BY <1>1
  <2> HIDE DEF n
  <2>2. QED
    BY <1>1, <1>5, <1>6, <2>1, InductionUpTo
<1>8. QED
  BY <1>4, <1>7, SplitsRemain DEF Holds, IsSplit

(* ... and so are those of a word.                                          *)
LEMMA ExpandIsSeq ==
  ASSUME NEW word, IsSeq(word.segs), NEW e, NEW depth
  PROVE  IsSeq(Expand(word, e, depth).fields)
<1>1. PICK known : /\ known = [i \in DOMAIN word.segs |-> known[i]]
                   /\ Expand(word, e, depth) = Expansion(known, word.quoted)
  BY DEF Expand, ExpandWith
<1> DEFINE pieces == [i \in DOMAIN known |-> OneIf(known[i] # {}, Get(known[i]))]
           n == Len(word.segs)
<1>2. n \in Nat /\ DOMAIN known = 1 .. n
  BY <1>1 DEF IsSeq
<1>3. pieces = [i \in 1 .. n |-> pieces[i]] /\ \A i \in 1 .. n : IsSeq(pieces[i])
  BY <1>2, ShortSeqs DEF OneIf
<1> HIDE DEF n
<1>4. PICK none : Expansion(known, word.quoted).fields \in {<<none>>, SplitFields(FlattenSeq(pieces))}
  BY Zenon DEF Expansion
<1> HIDE DEF pieces
<1>5. IsSeq(FlattenSeq(pieces))
  BY <1>2, <1>3, FlattenFunction
<1>6. IsSeq(<<none>>) /\ IsSeq(SplitFields(FlattenSeq(pieces)))
  BY <1>5, ShortSeqs, SplitFieldsIsSeq
<1>7. QED
  BY <1>1, <1>4, <1>6

(* A resolved command has the bodies of all its words.                      *)
LEMMA ResolveTyped ==
  ASSUME NEW command \in CommandType(Script), command.cmd = "simple", NEW e, NEW depth
  PROVE  LET rc == Resolve(command, e, depth)
         IN  /\ IsSeq(rc.argv) /\ IsSeq(rc.redirs) /\ IsSeq(rc.subs)
             /\ ToSet(rc.subs) = UNION {BodiesOf(word, {"cmdsub", "procsub"})
                                        : word \in WordsOf(command)}
<1> DEFINE rc == Resolve(command, e, depth)
           values  == [i \in DOMAIN command.assigns |-> command.assigns[i].value]
           targets == [i \in DOMAIN command.redirs |-> command.redirs[i].target]
           words   == command.words \o values \o targets
<1>1. /\ command.words \in Seq(WordType)
      /\ command.assigns \in Seq([name : STRING, value : WordType])
      /\ command.redirs \in Seq([op : STRING, target : WordType])
  BY DEF CommandType
<1>2. values \in Seq(WordType) /\ ToSet(values) = {command.assigns[i].value : i \in DOMAIN command.assigns}
  <2>1. Len(command.assigns) \in Nat /\ DOMAIN command.assigns = 1 .. Len(command.assigns)
    BY <1>1
  <2>2. \A i \in 1 .. Len(command.assigns) : command.assigns[i].value \in WordType
    <3>1. \A i \in DOMAIN command.assigns : command.assigns[i] \in [name : STRING, value : WordType]
      BY <1>1, SeqElements
    <3>2. QED
      BY <2>1, <3>1
  <2>3. values \in [1 .. Len(command.assigns) -> WordType]
    BY <2>1, <2>2
  <2>4. values \in Seq(WordType)
    BY <2>1, <2>3
  <2>5. DOMAIN values = DOMAIN command.assigns
    OBVIOUS
  <2>6. QED
    BY <2>4, <2>5 DEF ToSet
<1>3. targets \in Seq(WordType) /\ ToSet(targets) = {command.redirs[i].target : i \in DOMAIN command.redirs}
  <2>1. Len(command.redirs) \in Nat /\ DOMAIN command.redirs = 1 .. Len(command.redirs)
    BY <1>1
  <2>2. \A i \in 1 .. Len(command.redirs) : command.redirs[i].target \in WordType
    <3>1. \A i \in DOMAIN command.redirs : command.redirs[i] \in [op : STRING, target : WordType]
      BY <1>1, SeqElements
    <3>2. QED
      BY <2>1, <3>1
  <2>3. targets \in [1 .. Len(command.redirs) -> WordType]
    BY <2>1, <2>2
  <2>4. targets \in Seq(WordType)
    BY <2>1, <2>3
  <2>5. DOMAIN targets = DOMAIN command.redirs
    OBVIOUS
  <2>6. QED
    BY <2>4, <2>5 DEF ToSet
<1> HIDE DEF values, targets
<1>4. words \in Seq(WordType)
  BY <1>1, <1>2, <1>3
<1>5. ToSet(words) = WordsOf(command)
  <2>1. /\ IsSeq(command.words) /\ IsSeq(values) /\ IsSeq(targets)
        /\ IsSeq(command.words \o values)
    BY <1>1, <1>2, <1>3, SeqIsSeq, ConcatIsSeq
  <2>2. ToSet(words) = ToSet(command.words) \cup ToSet(values) \cup ToSet(targets)
    BY <2>1, ConcatIsSeq
  <2>3. QED
    BY <1>2, <1>3, <2>2 DEF WordsOf
<1>6. rc.subs = Bodies(words, {"cmdsub", "procsub"})
  BY DEF Resolve, Resolved, values, targets
<1>7. IsSeq(rc.redirs)
  <2> DEFINE redirs == rc.redirs
  <2>1. redirs = [i \in DOMAIN command.redirs |-> redirs[i]] 
    BY DEF Resolve, Resolved
  <2>2. IsSeq(command.redirs)
    BY <1>1, SeqIsSeq
  <2> HIDE DEF redirs
  <2>3. IsSeq(redirs)
    BY <2>1, <2>2, MapIsSeq
  <2>4. QED
    BY <2>3 DEF redirs
<1> HIDE DEF words
<1>8. IsSeq(rc.argv)
  <2> DEFINE f == [i \in DOMAIN command.words |-> Expand(command.words[i], e, depth).fields]
             n == Len(command.words)
  <2>1. rc.argv = FlattenSeq(f)
    BY DEF Resolve, Resolved, ExpandAll
  <2>2. n \in Nat /\ DOMAIN command.words = 1 .. n
    BY <1>1
  <2>3. \A i \in DOMAIN command.words : IsSeq(command.words[i].segs)
    <3>1. ASSUME NEW i \in DOMAIN command.words PROVE IsSeq(command.words[i].segs)
      <4>1. command.words[i] \in WordType
        BY <1>1, SeqElements
      <4>2. command.words[i].segs \in Seq(SegmentType)
        BY <4>1 DEF WordType
      <4>3. QED
        BY <4>2, SeqIsSeq
    <3>2. QED
      BY <3>1
  <2>4. f = [i \in 1 .. n |-> f[i]] /\ \A i \in 1 .. n : IsSeq(f[i])
    BY <2>2, <2>3, ExpandIsSeq
  <2> HIDE DEF f, rc, n
  <2>5. QED
    BY <2>1, <2>2, <2>4, FlattenFunction
<1> HIDE DEF rc
<1>9. QED
  BY <1>4, <1>5, <1>6, <1>7, <1>8, BodiesIsSeq DEF rc

-----------------------------------------------------------------------------
(* The calls a call makes. *)

LEMMA NestedCallsSet ==
  ASSUME NEW texts, IsSeq(texts), NEW depth
  PROVE  /\ IsSeq(NestedCalls(texts, depth))
         /\ ToSet(NestedCalls(texts, depth)) = {Nested(text, depth) : text \in ToSet(texts)}
<1> DEFINE nested == NestedCalls(texts, depth)
<1>1. nested = [i \in DOMAIN texts |-> nested[i]]
  BY DEF NestedCalls
<1>2. \A i \in DOMAIN texts : nested[i] = Nested(texts[i], depth)
  BY DEF NestedCalls
<1> HIDE DEF nested
<1>3. IsSeq(nested) /\ ToSet(nested) = {nested[i] : i \in DOMAIN texts}
  BY <1>1, MapIsSeq
<1>4. {nested[i] : i \in DOMAIN texts} = {Nested(text, depth) : text \in ToSet(texts)}
  BY <1>2 DEF ToSet
<1>5. QED
  BY <1>3, <1>4 DEF nested

LEMMA OptionalCallSet ==
  ASSUME NEW option, NEW depth
  PROVE  /\ IsSeq(OptionalCall(option, depth))
         /\ ToSet(OptionalCall(option, depth)) \subseteq {Nested(Get(option), depth)}
BY ShortSeqs DEF OptionalCall

LEMMA PipelineCallsSet ==
  ASSUME NEW script, IsSeq(script), NEW depth
  PROVE  /\ IsSeq(PipelineCalls(script, depth))
         /\ ToSet(PipelineCalls(script, depth)) = {Stages(script[i], depth) : i \in DOMAIN script}
<1> DEFINE pipes == PipelineCalls(script, depth)
<1>1. pipes = [i \in DOMAIN script |-> pipes[i]]
  BY DEF PipelineCalls
<1>2. \A i \in DOMAIN script : pipes[i] = Stages(script[i], depth)
  BY DEF PipelineCalls
<1> HIDE DEF pipes
<1>3. IsSeq(pipes) /\ ToSet(pipes) = {pipes[i] : i \in DOMAIN script}
  BY <1>1, MapIsSeq
<1>4. QED
  BY <1>2, <1>3 DEF pipes

(* What walk_pipeline does with one command of a pipeline.                  *)
StageCall(pipe, i, depth) ==
  CASE pipe[i].cmd = "simple" -> Inspect(Resolve(pipe[i], EnvAfter(pipe, i, depth), depth), depth)
    [] pipe[i].cmd = "nested" -> Body(pipe[i].body, depth + 1)
    [] pipe[i].cmd = "func"   -> Define(pipe[i], depth)

LEMMA StageCallsSet ==
  ASSUME NEW pipe \in Seq(CommandType(Script)), NEW depth
  PROVE  LET calls == ResolvePipeline(pipe, depth).calls
         IN  /\ IsSeq(calls)
             /\ ToSet(calls) = {Together(ResolvedStages(pipe, depth), depth)}
                                 \cup {StageCall(pipe, i, depth) : i \in DOMAIN pipe}
<1> DEFINE stages == ResolvedStages(pipe, depth)
           Call(i) == CASE pipe[i].cmd = "simple" -> Inspect(Get(stages[i]), depth)
                        [] pipe[i].cmd = "nested" -> Body(pipe[i].body, depth + 1)
                        [] pipe[i].cmd = "func"   -> Define(pipe[i], depth)
           each == [i \in DOMAIN pipe |-> Call(i)]
<1>1. \A x : Get({x}) = x
  BY GetMember
<1>2. \A i \in DOMAIN pipe : pipe[i].cmd = "simple" =>
        stages[i] = {Resolve(pipe[i], EnvAfter(pipe, i, depth), depth)}
  BY DEF ResolvedStages
<1>3. \A i \in DOMAIN pipe : Call(i) = StageCall(pipe, i, depth)
  <2> TAKE i \in DOMAIN pipe
  <2>1. pipe[i] \in CommandType(Script)
    BY SeqElements
  <2>2. \/ pipe[i].cmd = "simple" /\ stages[i] = {Resolve(pipe[i], EnvAfter(pipe, i, depth), depth)}
        \/ pipe[i].cmd = "nested"
        \/ pipe[i].cmd = "func"
    BY <1>2, <2>1 DEF CommandType
  <2> HIDE DEF stages
  <2>3. QED
    BY <1>1, <2>2 DEF StageCall
<1>5. ResolvePipeline(pipe, depth).calls = <<Together(stages, depth)>> \o each
  BY DEF ResolvePipeline, StageCalls, Effect
<1> HIDE DEF Call
<1>4. /\ each = [i \in DOMAIN pipe |-> each[i]]
      /\ \A i \in DOMAIN pipe : each[i] = StageCall(pipe, i, depth)
  BY <1>3
<1> HIDE DEF each, stages
<1>6. IsSeq(each) /\ ToSet(each) = {StageCall(pipe, i, depth) : i \in DOMAIN pipe}
  <2>1. IsSeq(each) /\ ToSet(each) = {each[i] : i \in DOMAIN pipe}
    BY <1>4, MapIsSeq, SeqIsSeq
  <2>2. QED
    BY <1>4, <2>1
<1>7. QED
  BY <1>5, <1>6, ShortSeqs, ConcatIsSeq DEF stages

(* The calls a call makes by way of analyze_nested.                         *)
NestedOnly(calls, depth) ==
  IsSeq(calls) /\ \A c \in ToSet(calls) : \E text : c = Nested(text, depth)

LEMMA NestedOnlyConcat ==
  ASSUME NEW s, NEW t, NEW depth, NestedOnly(s, depth), NestedOnly(t, depth)
  PROVE  NestedOnly(s \o t, depth)
BY ConcatIsSeq DEF NestedOnly

LEMMA PipelineEffectSet ==
  ASSUME NEW stages, NEW depth
  PROVE  NestedOnly(PipelineEffect(stages, depth).calls, depth + 1)
<1>1. \A option : NestedOnly(OptionalCall(option, depth + 1), depth + 1)
  BY OptionalCallSet DEF NestedOnly
<1>2. QED
  BY <1>1, NestedOnlyConcat DEF PipelineEffect, Effect

(* The texts of the redirects of a command are a sequence.                  *)
LEMMA StartupTextIsSeq ==
  ASSUME NEW rc, IsSeq(rc.redirs)
  PROVE  IsSeq(StartupText(rc))
<1> DEFINE Written(i) == OneIf(EchoedText(rc.argv) # {}
                                 /\ rc.redirs[i].ok /\ rc.redirs[i].op \in Writes
                                 /\ IsPersistencePath(rc.redirs[i].target),
                               Get(EchoedText(rc.argv)))
           f == [i \in DOMAIN rc.redirs |-> Written(i)]
           n == Len(rc.redirs)
<1>1. n \in Nat /\ DOMAIN rc.redirs = 1 .. n
  BY DEF IsSeq
<1>2. f = [i \in 1 .. n |-> f[i]] /\ \A i \in 1 .. n : IsSeq(f[i])
  BY <1>1, ShortSeqs DEF OneIf
<1>3. StartupText(rc) = FlattenSeq(f)
  BY DEF StartupText
<1> HIDE DEF f
<1>4. QED
  BY <1>1, <1>2, <1>3, FlattenFunction

LEMMA InspectEffectSet ==
  ASSUME NEW rc, IsSeq(rc.redirs), IsSeq(rc.subs), NEW depth
  PROVE  LET calls == InspectEffect(rc, depth).calls
         IN  /\ IsSeq(calls)
             /\ ToSet(calls) = {Nested(text, depth + 1) : text \in ToSet(StartupText(rc) \o rc.subs)}
                                 \cup {ByName(rc, depth)}
<1>1. IsSeq(StartupText(rc) \o rc.subs)
  BY StartupTextIsSeq, ConcatIsSeq
<1>2. QED
  BY <1>1, NestedCallsSet, ShortSeqs, ConcatIsSeq DEF InspectEffect, Effect

LEMMA NameEffectSet ==
  ASSUME NEW rc, NEW depth
  PROVE  LET calls == NameEffect(rc, depth).calls
         IN  /\ IsSeq(calls)
             /\ \A c \in ToSet(calls) : c = Execute(rc, depth) \/ \E text : c = Nested(text, depth + 1)
<1>1. \A option : /\ IsSeq(OptionalCall(option, depth + 1) \o <<Execute(rc, depth)>>)
                  /\ ToSet(OptionalCall(option, depth + 1) \o <<Execute(rc, depth)>>)
                       \subseteq {Nested(Get(option), depth + 1), Execute(rc, depth)}
  BY OptionalCallSet, ShortSeqs, ConcatIsSeq
<1>2. PICK option :
        NameEffect(rc, depth).calls \in
          {<<>>, OptionalCall(option, depth + 1) \o <<Execute(rc, depth)>>}
  BY DEF NameEffect, Effect
<1>3. QED
  BY <1>1, <1>2, ShortSeqs

(* The shell commands in a program of another language. *)
LEMMA EmbeddedIsSeq ==
  ASSUME NEW payload
  PROVE  IsSeq(EmbeddedShell(payload))
<1> DEFINE At(i) == {c \in DOMAIN ShellCalls : i \in Occurrences(ShellCalls[c], payload)}
           Quoted(c, i) == ReadQuoted(Drop(payload, i + Len(ShellCalls[c]) - 1))
           Texts(c) == [i \in 1 .. Len(payload) |->
                          IF c \in At(i)
                          THEN IF Quoted(c, i) = {} THEN <<>> ELSE <<Get(Quoted(c, i))>>
                          ELSE <<>>]
           f == [c \in DOMAIN ShellCalls |-> FlattenSeq(Texts(c))]
<1>1. EmbeddedShell(payload) = FlattenSeq(f)
  BY DEF EmbeddedShell
<1>2. ASSUME NEW c PROVE IsSeq(FlattenSeq(Texts(c)))
  <2> DEFINE g == Texts(c)
  <2>1. g = [i \in 1 .. Len(payload) |-> g[i]] /\ \A i \in 1 .. Len(payload) : IsSeq(g[i])
    BY ShortSeqs
  <2> HIDE DEF g
  <2>2. IsSeq(FlattenSeq(g))
    BY <2>1, TextLength, FlattenFunction
  <2>3. QED
    BY <2>2 DEF g
<1>3. Len(ShellCalls) \in Nat /\ DOMAIN ShellCalls = 1 .. Len(ShellCalls)
  BY DEF ShellCalls
<1>4. /\ f = [c \in 1 .. Len(ShellCalls) |-> f[c]]
      /\ \A c \in 1 .. Len(ShellCalls) : IsSeq(f[c])
  BY <1>2, <1>3
<1> HIDE DEF f
<1>5. QED
  BY <1>1, <1>3, <1>4, FlattenFunction

LEMMA ProgramTextsIsSeq ==
  ASSUME NEW rc, IsSeq(rc.redirs)
  PROVE  IsSeq(ProgramTexts(rc))
<1> DEFINE shell == Get(Unwrap(rc.argv).name) \in ShellInterpreters
           f == [i \in DOMAIN rc.redirs |->
                   OneIf(shell /\ i \in HereStrings(rc) /\ rc.redirs[i].ok, rc.redirs[i].target)]
           n == Len(rc.redirs)
<1>1. n \in Nat /\ DOMAIN rc.redirs = 1 .. n
  BY DEF IsSeq
<1>2. f = [i \in 1 .. n |-> f[i]] /\ \A i \in 1 .. n : IsSeq(f[i])
  BY <1>1, ShortSeqs DEF OneIf
<1>3. PICK programs :
        IsSeq(programs) /\ ProgramTexts(rc) = programs \o FlattenSeq(f)
  <2>1. \A text : IsSeq(<<>>) /\ IsSeq(<<text>>) /\ IsSeq(EmbeddedShell(text))
    BY ShortSeqs, EmbeddedIsSeq
  <2>2. QED
    BY <2>1 DEF ProgramTexts
<1> HIDE DEF f
<1>4. IsSeq(FlattenSeq(f))
  BY <1>1, <1>2, FlattenFunction
<1>5. QED
  BY <1>3, <1>4, ConcatIsSeq

LEMMA ExecuteEffectSet ==
  ASSUME NEW rc, IsSeq(rc.redirs), NEW taint, NEW depth
  PROVE  NestedOnly(ExecuteEffect(rc, taint, depth).calls, depth + 1)
BY ProgramTextsIsSeq, NestedCallsSet DEF ExecuteEffect, Effect, NestedOnly

-----------------------------------------------------------------------------
(* The calls on the stack stay typed. *)

(* Calls of analyze_nested and walk_script may be one level deeper.         *)
LEMMA DeeperTyped ==
  ASSUME NEW depth \in 0 .. MaxDepth + 1
  PROVE  /\ \A text : CallTyped(Nested(text, depth))
         /\ \A script \in Script : CallTyped(Body(script, depth))
         /\ \A calls : NestedOnly(calls, depth) => AllTyped(calls)
<1>1. \A text : CallTyped(Nested(text, depth))
  BY DEF CallTyped, Nested
<1>2. \A script \in Script : CallTyped(Body(script, depth))
  BY DEF CallTyped, Body
<1>3. QED
  BY <1>1, <1>2 DEF NestedOnly, AllTyped

(* Putting typed calls in the place of the one that is made.                *)
LEMMA TypedReturn ==
  ASSUME AllTyped(todo), todo # <<>>, NEW effect, Return(effect), AllTyped(effect.calls)
  PROVE  AllTyped(todo')
<1>1. AllTyped(Tail(todo))
  BY HeadAndTail DEF AllTyped
<1>2. QED
  BY <1>1, TypedConcat DEF Return

(* The call that is made is typed.                                          *)
LEMMA HeadTyped ==
  ASSUME AllTyped(todo), todo # <<>>
  PROVE  CallTyped(Head(todo))
BY HeadAndTail DEF AllTyped

LEMMA ScriptIsSeq ==
  ASSUME NEW script \in Script
  PROVE  IsSeq(script) /\ \A i \in DOMAIN script : script[i] \in Seq(CommandType(Script))
<1>1. script \in Seq(Seq(CommandType(Script)))
  BY ScriptAssumption DEF ScriptType
<1>2. QED
  BY <1>1, SeqIsSeq, SeqElements

(* The calls walk_script makes, and those walk_pipeline makes.              *)
LEMMA PipelineCallsTyped ==
  ASSUME NEW script \in Script, NEW depth \in 0 .. MaxDepth
  PROVE  AllTyped(PipelineCalls(script, depth))
<1>1. IsSeq(script) /\ \A i \in DOMAIN script : script[i] \in Seq(CommandType(Script))
  BY ScriptIsSeq
<1>2. \A pipe \in Seq(CommandType(Script)) : CallTyped(Stages(pipe, depth))
  BY MaxDepthAssumption DEF CallTyped, Stages
<1>3. QED
  BY <1>1, <1>2, PipelineCallsSet DEF AllTyped

LEMMA StageCallsTyped ==
  ASSUME NEW pipe \in Seq(CommandType(Script)), NEW depth \in 0 .. MaxDepth
  PROVE  AllTyped(ResolvePipeline(pipe, depth).calls)
<1>1. depth \in 0 .. MaxDepth + 1 /\ depth + 1 \in 0 .. MaxDepth + 1 /\ depth <= MaxDepth
  BY MaxDepthAssumption
<1>2. CallTyped(Together(ResolvedStages(pipe, depth), depth))
  BY <1>1 DEF CallTyped, Together
<1>3. ASSUME NEW i \in DOMAIN pipe PROVE CallTyped(StageCall(pipe, i, depth))
  <2> DEFINE rc == Resolve(pipe[i], EnvAfter(pipe, i, depth), depth)
  <2>1. pipe[i] \in CommandType(Script)
    BY SeqElements
  <2>2. CASE pipe[i].cmd = "simple"
    <3>1. StageCall(pipe, i, depth) = Inspect(rc, depth)
      BY <2>2 DEF StageCall
    <3>2. IsSeq(rc.argv) /\ IsSeq(rc.redirs) /\ IsSeq(rc.subs)
      BY <2>1, <2>2, ResolveTyped
    <3> HIDE DEF rc
    <3>3. QED
      BY <1>1, <3>1, <3>2 DEF CallTyped, Inspect
  <2>3. CASE pipe[i].cmd = "nested"
    <3>1. StageCall(pipe, i, depth) = Body(pipe[i].body, depth + 1)
      BY <2>3 DEF StageCall
    <3>2. pipe[i].body \in Script
      BY <2>1, <2>3 DEF CommandType
    <3>3. QED
      BY <1>1, <3>1, <3>2, DeeperTyped
  <2>4. CASE pipe[i].cmd = "func"
    <3>1. StageCall(pipe, i, depth) = Define(pipe[i], depth)
      BY <2>4 DEF StageCall
    <3>2. pipe[i].body \in Script
      BY <2>1, <2>4 DEF CommandType
    <3>3. QED
      BY <1>1, <3>1, <3>2 DEF CallTyped, Define
  <2>5. QED
    BY <2>1, <2>2, <2>3, <2>4 DEF CommandType
<1>4. QED
  BY <1>2, <1>3, StageCallsSet DEF AllTyped

(* Every call of the walk makes typed calls.                                *)
CallReturns == \E effect : todo # <<>> /\ Return(effect) /\ AllTyped(effect.calls)

LEMMA TypedStep ==
  ASSUME ParserTyped, AllTyped(todo), Step, ~Answer
  PROVE  CallReturns
<1> DEFINE call == Head(todo)
<1>1. AllTyped(<<>>)
  BY ShortSeqs DEF AllTyped
<1>2. \A src : Parse(src) # {} => Get(Parse(src)) \in Script
  BY GetMember DEF ParserTyped
<1>3. \A calls, rules : Effect(calls, rules).calls = calls
  BY DEF Effect
<1>4. todo # <<>> =>
        /\ call.depth \in 0 .. MaxDepth + 1 /\ CallTyped(call)
        /\ call.depth <= MaxDepth =>
             call.depth \in 0 .. MaxDepth /\ call.depth + 1 \in 0 .. MaxDepth + 1
  BY HeadTyped, MaxDepthAssumption DEF CallTyped
<1>5. \A mark, rule : todo # <<>> /\ TurnAway(mark, rule) => CallReturns
  BY <1>1, <1>3 DEF TurnAway, CallReturns
<1>6. \A mark, calls : todo # <<>> /\ AllTyped(calls) /\ GoInto(mark, calls) => CallReturns
  BY <1>3 DEF GoInto, CallReturns
<1>7. CASE Analyze
  <2>1. 0 \in 0 .. MaxDepth + 1
    BY MaxDepthAssumption
  <2>2. CASE TooLong(cmd) \/ Parse(cmd) = {}
    BY <1>5, <1>7, <2>2 DEF Analyze, Calling
  <2>3. CASE ~(TooLong(cmd) \/ Parse(cmd) = {})
    <3>1. AllTyped(<<Body(Get(Parse(cmd)), 0)>>)
      BY <1>2, <2>1, <2>3, DeeperTyped, TypedOne
    <3>2. QED
      BY <1>6, <1>7, <2>3, <3>1 DEF Analyze, Calling
  <2>4. QED
    BY <2>2, <2>3
<1>8. CASE WalkScript
  <2>1. CASE call.depth > MaxDepth
    BY <1>5, <1>8, <2>1 DEF WalkScript, Calling
  <2>2. CASE ~(call.depth > MaxDepth)
    <3>1. call.depth \in 0 .. MaxDepth /\ call.script \in Script
      BY <1>4, <1>8, <2>2, MaxDepthAssumption DEF WalkScript, Calling, CallTyped
    <3>2. AllTyped(PipelineCalls(call.script, call.depth))
      BY <3>1, PipelineCallsTyped
    <3>3. QED
      BY <1>6, <1>8, <2>2, <3>2 DEF WalkScript, Calling
  <2>3. QED
    BY <2>1, <2>2
<1>9. CASE WalkPipeline
  <2>1. call.depth \in 0 .. MaxDepth /\ call.pipe \in Seq(CommandType(Script))
    BY <1>4, <1>9 DEF WalkPipeline, Calling, CallTyped
  <2>2. QED
    BY <1>9, <2>1, StageCallsTyped DEF WalkPipeline, Calling, CallReturns
<1>10. CASE JudgePipeline
  <2>1. call.depth + 1 \in 0 .. MaxDepth + 1
    BY <1>4, <1>10 DEF JudgePipeline, Calling, CallTyped
  <2>2. AllTyped(PipelineEffect(call.stages, call.depth).calls)
    BY <2>1, PipelineEffectSet, DeeperTyped
  <2>3. QED
    BY <1>10, <2>2 DEF JudgePipeline, Calling, CallReturns
<1>11. CASE DefineFunction
  <2>1. call.depth + 1 \in 0 .. MaxDepth + 1 /\ call.func.body \in Script
    BY <1>4, <1>11 DEF DefineFunction, Calling, CallTyped
  <2>2. AllTyped(<<Body(call.func.body, call.depth + 1)>>)
    BY <2>1, DeeperTyped, TypedOne
  <2>3. PICK rules : Return(Effect(<<Body(call.func.body, call.depth + 1)>>, rules))
    BY <1>11 DEF DefineFunction
  <2>4. QED
    BY <1>3, <1>11, <2>2, <2>3 DEF DefineFunction, Calling, CallReturns
<1>12. CASE AnalyzeNested
  <2>1. CASE call.depth > MaxDepth \/ Parse(call.src) = {}
    BY <1>5, <1>12, <2>1 DEF AnalyzeNested, GoIntoText, Calling
  <2>2. CASE ~(call.depth > MaxDepth \/ Parse(call.src) = {})
    <3>1. AllTyped(<<Body(Get(Parse(call.src)), call.depth)>>)
      BY <1>2, <1>4, <1>12, <2>2, DeeperTyped, TypedOne DEF AnalyzeNested, Calling
    <3>2. QED
      BY <1>6, <1>12, <2>2, <3>1 DEF AnalyzeNested, GoIntoText, Calling
  <2>3. QED
    BY <2>1, <2>2
<1>13. CASE CommandRules
  <2>1. /\ call.depth \in 0 .. MaxDepth /\ call.depth + 1 \in 0 .. MaxDepth + 1
        /\ IsSeq(call.rc.argv) /\ IsSeq(call.rc.redirs) /\ IsSeq(call.rc.subs)
    BY <1>4, <1>13 DEF CommandRules, Calling, CallTyped
  <2>2. CallTyped(ByName(call.rc, call.depth))
    BY <2>1, MaxDepthAssumption DEF CallTyped, ByName
  <2>3. AllTyped(InspectEffect(call.rc, call.depth).calls)
    BY <2>1, <2>2, InspectEffectSet, DeeperTyped DEF AllTyped
  <2>4. QED
    BY <1>13, <2>3 DEF CommandRules, Calling, CallReturns
<1>14. CASE MatchName
  <2>1. /\ call.depth \in 0 .. MaxDepth /\ call.depth + 1 \in 0 .. MaxDepth + 1
        /\ IsSeq(call.rc.argv) /\ IsSeq(call.rc.redirs) /\ IsSeq(call.rc.subs)
    BY <1>4, <1>14 DEF MatchName, Calling, CallTyped
  <2>2. CallTyped(Execute(call.rc, call.depth))
    BY <2>1, MaxDepthAssumption DEF CallTyped, Execute
  <2>3. AllTyped(NameEffect(call.rc, call.depth).calls)
    BY <2>1, <2>2, NameEffectSet, DeeperTyped DEF AllTyped
  <2>4. QED
    BY <1>14, <2>3 DEF MatchName, Calling, CallReturns
<1>15. CASE ExecuteCommand
  <2>1. call.depth + 1 \in 0 .. MaxDepth + 1 /\ IsSeq(call.rc.redirs)
    BY <1>4, <1>15 DEF ExecuteCommand, Calling, CallTyped
  <2>2. \A taint : AllTyped(ExecuteEffect(call.rc, taint, call.depth).calls)
    BY <2>1, ExecuteEffectSet, DeeperTyped
  <2>3. QED
    BY <1>15, <2>2 DEF ExecuteCommand, Calling, CallReturns
<1>16. QED
  BY <1>7, <1>8, <1>9, <1>10, <1>11, <1>12, <1>13, <1>14, <1>15 DEF Step

LEMMA TypedNext ==
  ASSUME ParserTyped, AllTyped(todo), [Next]_vars
  PROVE  AllTyped(todo')
<1>1. CASE Step /\ ~Answer
  BY <1>1, TypedStep, TypedReturn DEF CallReturns
<1>2. CASE Answer \/ UNCHANGED vars
  BY <1>2 DEF Answer, vars
<1>3. QED
  BY <1>1, <1>2 DEF Next, Done

LEMMA TypedInit == Init => AllTyped(todo)
<1>1. CallTyped([call |-> "analyze", depth |-> 0])
  BY MaxDepthAssumption DEF CallTyped
<1>2. QED
  BY <1>1, TypedOne DEF Init

(* What the walk finds is a rule other than OK, and no call is made for     *)
(* more than one level below the deepest body gone into, however the        *)
(* command nests and whatever the texts it carries parse to.                *)
THEOREM TypeCorrect ==
  ASSUME ParserTyped
  PROVE  Spec => []TypeOK
<1> DEFINE Typed == Inv /\ cmd \in Command /\ AllTyped(todo)
<1>1. Init => Typed
  BY InvInit, TypedInit DEF Init
<1>2. Typed /\ [Next]_vars => Typed'
  <2> SUFFICES ASSUME Typed, [Next]_vars PROVE Typed'
    OBVIOUS
  <2>1. cmd' = cmd
    BY DEF Next, Step, Done, vars, Analyze, Answer, WalkScript, WalkPipeline, JudgePipeline,
           DefineFunction, AnalyzeNested, GoIntoText, CommandRules, MatchName,
           ExecuteCommand, GoInto, TurnAway, Return
  <2>2. QED
    BY <2>1, InvNext, TypedNext
<1>3. Typed => TypeOK
  <2> SUFFICES ASSUME Typed PROVE TypeOK
    OBVIOUS
  <2>1. verdict \in {{}} \cup {{r} : r \in Rule}
    <3>1. verdict # {} => verdict = {IF fired = {} THEN OkRule ELSE Worst(fired)}
      BY DEF Inv, AnswerIsWorst
    <3>2. fired # {} => Worst(fired) \in Finding
      BY WorstIsFinding DEF Inv
    <3>3. OkRule \in Rule
      BY DEF Rule, OkRule, ForkBomb
    <3>4. QED
      BY <3>1, <3>2, <3>3 DEF Finding
  <2>2. \A i \in DOMAIN todo : todo[i].depth \in 0 .. MaxDepth + 1
    BY DEF AllTyped, CallTyped, ToSet
  <2>3. QED
    BY <2>1, <2>2 DEF TypeOK, Inv
<1>4. QED
  BY <1>1, <1>2, <1>3, PTL DEF Spec

-----------------------------------------------------------------------------
(* Nothing unvisited. *)

(* What a command owes, and what a call still to be made will go into or    *)
(* turn away.                                                               *)
OwedBy(command) ==
  IF command.cmd # "simple" THEN {BodyMark(command.body)}
  ELSE UNION {{TextMark(src) : src \in BodiesOf(word, {"cmdsub", "procsub"})}
              : word \in WordsOf(command)}
Promise(c) ==
  CASE c.call = "analyze_nested" -> {TextMark(c.src)}
    [] c.call = "walk_script"    -> {BodyMark(c.script)}
    [] c.call = "walk_pipeline"  -> UNION {OwedBy(c.pipe[k]) : k \in DOMAIN c.pipe}
    [] c.call = "define"         -> {BodyMark(c.func.body)}
    [] c.call = "command_rules"  -> {TextMark(src) : src \in ToSet(c.rc.subs)}
    [] OTHER -> {}
Promised(calls) == UNION {Promise(c) : c \in ToSet(calls)}

(* Everything owed by a body that was gone into is dealt with or promised;  *)
(* the tree of a text is gone into or about to be, at a depth at which it   *)
(* will not be turned away.                                                 *)
Opens(c, script) == c.call = "walk_script" /\ c.script = script /\ c.depth <= MaxDepth
MarkKept(mark) ==
  IF mark[1] = "text"
  THEN \/ BodyMark(Get(Parse(mark[2]))) \in opened
       \/ \E c \in ToSet(todo) : Opens(c, Get(Parse(mark[2])))
  ELSE Owed(mark[2]) \subseteq opened \cup refused \cup Promised(todo)
PromisesKept == \A mark \in opened : MarkKept(mark)

(* The promise of each kind of call.                                        *)
LEMMA PromiseOf ==
  /\ \A src, depth : Promise(Nested(src, depth)) = {TextMark(src)}
  /\ \A script, depth : Promise(Body(script, depth)) = {BodyMark(script)}
  /\ \A pipe, depth : Promise(Stages(pipe, depth)) = UNION {OwedBy(pipe[k]) : k \in DOMAIN pipe}
  /\ \A func, depth : Promise(Define(func, depth)) = {BodyMark(func.body)}
  /\ \A rc, depth : Promise(Inspect(rc, depth)) = {TextMark(src) : src \in ToSet(rc.subs)}
<1>1. \A src, depth : Promise(Nested(src, depth)) = {TextMark(src)}
  BY DEF Promise, Nested
<1>2. \A script, depth : Promise(Body(script, depth)) = {BodyMark(script)}
  BY DEF Promise, Body
<1>3. \A pipe, depth : Promise(Stages(pipe, depth)) = UNION {OwedBy(pipe[k]) : k \in DOMAIN pipe}
  BY DEF Promise, Stages
<1>4. \A func, depth : Promise(Define(func, depth)) = {BodyMark(func.body)}
  BY DEF Promise, Define
<1>5. \A rc, depth : Promise(Inspect(rc, depth)) = {TextMark(src) : src \in ToSet(rc.subs)}
  BY DEF Promise, Inspect
<1>6. QED
  BY <1>1, <1>2, <1>3, <1>4, <1>5

(* What a script owes is what its pipelines do, and what a pipeline owes is *)
(* promised by the calls it makes.                                          *)
LEMMA ScriptPromises ==
  ASSUME NEW script \in Script, NEW depth
  PROVE  Owed(script) \subseteq Promised(PipelineCalls(script, depth))
<1>1. Owed(script) = UNION {UNION {OwedBy(script[i][k]) : k \in DOMAIN script[i]}
                            : i \in DOMAIN script}
  BY DEF Owed, OwedBy, BodiesOf
<1>2. ToSet(PipelineCalls(script, depth)) = {Stages(script[i], depth) : i \in DOMAIN script}
  BY ScriptIsSeq, PipelineCallsSet
<1>3. \A i \in DOMAIN script : Promise(Stages(script[i], depth))
                                 = UNION {OwedBy(script[i][k]) : k \in DOMAIN script[i]}
  BY PromiseOf
<1>4. SUFFICES ASSUME NEW i \in DOMAIN script, NEW mark \in Promise(Stages(script[i], depth))
               PROVE  mark \in Promised(PipelineCalls(script, depth))
  BY <1>1, <1>3
<1>5. QED
  BY <1>2 DEF Promised

LEMMA PipelinePromises ==
  ASSUME NEW pipe \in Seq(CommandType(Script)), NEW depth
  PROVE  Promise(Stages(pipe, depth)) \subseteq Promised(ResolvePipeline(pipe, depth).calls)
<1>1. SUFFICES ASSUME NEW i \in DOMAIN pipe, NEW mark \in OwedBy(pipe[i])
               PROVE  mark \in Promise(StageCall(pipe, i, depth))
  <2> DEFINE calls == ResolvePipeline(pipe, depth).calls
  <2>1. \A k \in DOMAIN pipe : StageCall(pipe, k, depth) \in ToSet(calls)
    BY StageCallsSet
  <2>2. Promise(Stages(pipe, depth)) = UNION {OwedBy(pipe[k]) : k \in DOMAIN pipe}
    BY PromiseOf
  <2> HIDE DEF calls
  <2>3. (\A k \in DOMAIN pipe : OwedBy(pipe[k]) \subseteq Promise(StageCall(pipe, k, depth)))
          => Promise(Stages(pipe, depth)) \subseteq Promised(calls)
    BY <2>1, <2>2 DEF Promised
  <2>4. QED
    BY <2>3 DEF calls
<1>2. pipe[i] \in CommandType(Script)
  BY SeqElements
<1>3. CASE pipe[i].cmd = "simple"
  <2> DEFINE rc == Resolve(pipe[i], EnvAfter(pipe, i, depth), depth)
  <2>1. StageCall(pipe, i, depth) = Inspect(rc, depth)
    BY <1>3 DEF StageCall
  <2>2. ToSet(rc.subs) = UNION {BodiesOf(word, {"cmdsub", "procsub"}) : word \in WordsOf(pipe[i])}
    BY <1>2, <1>3, ResolveTyped
  <2> HIDE DEF rc
  <2>3. PICK word \in WordsOf(pipe[i]) :
          \E src \in BodiesOf(word, {"cmdsub", "procsub"}) : mark = TextMark(src)
    BY <1>1, <1>3 DEF OwedBy
  <2>4. PICK src \in ToSet(rc.subs) : mark = TextMark(src)
    BY <2>2, <2>3
  <2>5. QED
    BY <2>1, <2>4, PromiseOf
<1>4. CASE pipe[i].cmd = "nested"
  BY <1>1, <1>4, PromiseOf DEF StageCall, OwedBy
<1>5. CASE pipe[i].cmd = "func"
  BY <1>1, <1>5, PromiseOf DEF StageCall, OwedBy
<1>6. QED
  BY <1>2, <1>3, <1>4, <1>5 DEF CommandType

(* A mark whose debts are taken over by the calls that go with it.          *)
HandedTo(mark, calls) ==
  IF mark[1] = "text"
  THEN \E c \in ToSet(calls) : Opens(c, Get(Parse(mark[2])))
  ELSE Owed(mark[2]) \subseteq Promised(calls)

(* A call hands over what it promised, and a body gone into what it owes.   *)
LEMMA HandOver ==
  ASSUME PromisesKept, AllTyped(todo), todo # <<>>,
         NEW effect, IsSeq(effect.calls), Return(effect),
         opened \subseteq opened', refused \subseteq refused',
         Promise(Head(todo)) \subseteq opened' \cup refused' \cup Promised(effect.calls),
         Opens(Head(todo), Head(todo).script) => BodyMark(Head(todo).script) \in opened',
         \A mark \in opened' \ opened : HandedTo(mark, effect.calls)
  PROVE  PromisesKept'
<1>1. /\ ToSet(todo) = {Head(todo)} \cup ToSet(Tail(todo))
      /\ ToSet(todo') = ToSet(effect.calls) \cup ToSet(Tail(todo))
  BY HeadAndTail, ConcatIsSeq DEF AllTyped, Return
<1>2. opened \cup refused \cup Promised(todo) \subseteq opened' \cup refused' \cup Promised(todo')
  BY <1>1 DEF Promised
<1>3. Promised(effect.calls) \subseteq Promised(todo')
  BY <1>1 DEF Promised
<1>4. ASSUME NEW mark \in opened' PROVE MarkKept(mark)'
  <2>1. CASE mark \in opened /\ mark[1] = "text"
    <3>1. \/ BodyMark(Get(Parse(mark[2]))) \in opened
          \/ \E c \in ToSet(todo) : Opens(c, Get(Parse(mark[2])))
      BY <2>1 DEF PromisesKept, MarkKept
    <3>2. Opens(Head(todo), Get(Parse(mark[2]))) => BodyMark(Get(Parse(mark[2]))) \in opened'
      BY DEF Opens
    <3>3. \/ BodyMark(Get(Parse(mark[2]))) \in opened'
          \/ \E c \in ToSet(todo') : Opens(c, Get(Parse(mark[2])))
      BY <1>1, <3>1, <3>2
    <3>4. QED
      BY <2>1, <3>3 DEF MarkKept
  <2>2. CASE mark \in opened /\ mark[1] # "text"
    <3>1. Owed(mark[2]) \subseteq opened \cup refused \cup Promised(todo)
      BY <2>2 DEF PromisesKept, MarkKept
    <3>2. QED
      BY <1>2, <2>2, <3>1 DEF MarkKept
  <2>3. CASE mark \notin opened
    <3>1. HandedTo(mark, effect.calls)
      BY <1>4, <2>3
    <3>2. QED
      BY <1>1, <1>3, <3>1 DEF HandedTo, MarkKept
  <2>4. QED
    BY <2>1, <2>2, <2>3
<1>5. QED
  BY <1>4 DEF PromisesKept

(* Every call of the walk keeps the promises.                               *)
LEMMA PromisesNext ==
  ASSUME PromisesKept, AllTyped(todo), [Next]_vars
  PROVE  PromisesKept'
<1> DEFINE call == Head(todo)
<1>1. \A calls, rules : Effect(calls, rules).calls = calls
  BY DEF Effect
<1>2. todo # <<>> => CallTyped(call)
  BY HeadTyped
<1>3. IsSeq(<<>>) /\ Promised(<<>>) = {} /\ \A c : IsSeq(<<c>>) /\ Promised(<<c>>) = Promise(c)
  BY ShortSeqs DEF Promised
<1>4. ASSUME NEW mark, NEW rule, todo # <<>>, TurnAway(mark, rule),
             Promise(call) \subseteq {mark}, ~Opens(call, call.script)
      PROVE  PromisesKept'
  BY <1>1, <1>3, <1>4, HandOver DEF TurnAway
<1>5. ASSUME NEW mark, NEW calls, todo # <<>>, IsSeq(calls), GoInto(mark, calls),
             Promise(call) \subseteq {mark}, HandedTo(mark, calls),
             Opens(call, call.script) => mark = BodyMark(call.script)
      PROVE  PromisesKept'
  BY <1>1, <1>5, HandOver DEF GoInto
<1>6. ASSUME NEW effect, todo # <<>>, Return(effect), IsSeq(effect.calls), opened' = opened,
             refused \subseteq refused', Promise(call) \subseteq Promised(effect.calls),
             call.call # "walk_script"
      PROVE  PromisesKept'
  BY <1>6, HandOver DEF Opens
<1>7. ASSUME NEW src, NEW depth \in 0 .. MaxDepth
      PROVE  HandedTo(TextMark(src), <<Body(Get(Parse(src)), depth)>>)
  <2>1. /\ Body(Get(Parse(src)), depth) \in ToSet(<<Body(Get(Parse(src)), depth)>>)
        /\ Opens(Body(Get(Parse(src)), depth), Get(Parse(src)))
    BY ShortSeqs, MaxDepthAssumption DEF Body, Opens
  <2>2. QED
    BY <2>1 DEF HandedTo, TextMark
<1>8. CASE Analyze
  <2>1. Promise(call) = {} /\ ~Opens(call, call.script)
    BY <1>8 DEF Analyze, Calling, Promise, Opens
  <2>2. CASE TooLong(cmd) \/ Parse(cmd) = {}
    BY <1>4, <1>8, <2>1, <2>2 DEF Analyze, Calling
  <2>3. CASE ~(TooLong(cmd) \/ Parse(cmd) = {})
    <3>1. HandedTo(TextMark(cmd), <<Body(Get(Parse(cmd)), 0)>>)
      BY <1>7, MaxDepthAssumption
    <3>2. QED
      BY <1>3, <1>5, <1>8, <2>1, <2>3, <3>1 DEF Analyze, Calling
  <2>4. QED
    BY <2>2, <2>3
<1>9. CASE Answer
  BY <1>9 DEF Answer, PromisesKept, MarkKept
<1>10. CASE WalkScript
  <2>1. Promise(call) = {BodyMark(call.script)} /\ call.script \in Script /\ todo # <<>>
    BY <1>2, <1>10 DEF WalkScript, Calling, Promise, CallTyped
  <2>2. CASE call.depth > MaxDepth
    <3>1. ~Opens(call, call.script)
      BY <1>2, <2>1, <2>2, MaxDepthAssumption DEF Opens, CallTyped
    <3>2. QED
      BY <1>4, <1>10, <2>1, <2>2, <3>1 DEF WalkScript
  <2>3. CASE ~(call.depth > MaxDepth)
    <3>1. IsSeq(PipelineCalls(call.script, call.depth))
      BY <2>1, ScriptIsSeq, PipelineCallsSet
    <3>2. HandedTo(BodyMark(call.script), PipelineCalls(call.script, call.depth))
      BY <2>1, ScriptPromises DEF HandedTo, BodyMark
    <3>3. QED
      BY <1>5, <1>10, <2>1, <2>3, <3>1, <3>2 DEF WalkScript
  <2>4. QED
    BY <2>2, <2>3
<1>11. CASE WalkPipeline
  <2> DEFINE effect == ResolvePipeline(call.pipe, call.depth)
  <2>1. call.pipe \in Seq(CommandType(Script)) /\ todo # <<>>
    BY <1>2, <1>11 DEF WalkPipeline, Calling, CallTyped
  <2>2. Promise(call) = Promise(Stages(call.pipe, call.depth))
    <3>1. call.call = "walk_pipeline"
      BY <1>11 DEF WalkPipeline, Calling
    <3>2. Promise(call) = UNION {OwedBy(call.pipe[k]) : k \in DOMAIN call.pipe}
      BY <3>1 DEF Promise
    <3> HIDE DEF call
    <3>3. QED
      BY <3>2, PromiseOf
  <2>3. IsSeq(effect.calls) /\ Promise(call) \subseteq Promised(effect.calls)
    BY <2>1, <2>2, StageCallsSet, PipelinePromises
  <2>4. Return(effect) /\ opened' = opened /\ refused' = refused /\ call.call # "walk_script"
    BY <1>11 DEF WalkPipeline, Calling
  <2> HIDE DEF effect
  <2>5. QED
    BY <1>6, <2>1, <2>3, <2>4
<1>12. CASE JudgePipeline
  <2> DEFINE effect == PipelineEffect(call.stages, call.depth)
  <2>1. Promise(call) = {} /\ call.call # "walk_script" /\ todo # <<>>
    BY <1>12 DEF JudgePipeline, Calling, Promise
  <2>2. IsSeq(effect.calls)
    BY PipelineEffectSet DEF NestedOnly
  <2>3. Return(effect) /\ opened' = opened /\ refused \subseteq refused'
    BY <1>12 DEF JudgePipeline
  <2> HIDE DEF effect
  <2>4. QED
    BY <1>6, <2>1, <2>2, <2>3
<1>13. CASE DefineFunction
  <2> DEFINE calls == <<Body(call.func.body, call.depth + 1)>>
  <2>1. PICK rules : Return(Effect(calls, rules))
    BY <1>13 DEF DefineFunction
  <2>2. Promise(call) = {BodyMark(call.func.body)} /\ call.call # "walk_script" /\ todo # <<>>
    BY <1>13 DEF DefineFunction, Calling, Promise
  <2>3. IsSeq(calls) /\ Promised(calls) = {BodyMark(call.func.body)}
    BY <1>3, PromiseOf
  <2>4. opened' = opened /\ refused' = refused
    BY <1>13 DEF DefineFunction
  <2> HIDE DEF calls
  <2>5. QED
    BY <1>1, <1>6, <2>1, <2>2, <2>3, <2>4
<1>14. CASE AnalyzeNested
  <2>1. /\ Promise(call) = {TextMark(call.src)} /\ todo # <<>>
        /\ ~Opens(call, call.script)
    BY <1>14 DEF AnalyzeNested, Calling, Promise, Opens
  <2>2. CASE call.depth > MaxDepth \/ Parse(call.src) = {}
    BY <1>4, <1>14, <2>1, <2>2 DEF AnalyzeNested, GoIntoText
  <2>3. CASE ~(call.depth > MaxDepth \/ Parse(call.src) = {})
    <3>1. call.depth \in 0 .. MaxDepth
      BY <1>2, <2>1, <2>3, MaxDepthAssumption DEF CallTyped
    <3>2. HandedTo(TextMark(call.src), <<Body(Get(Parse(call.src)), call.depth)>>)
      BY <1>7, <3>1
    <3>3. QED
      BY <1>3, <1>5, <1>14, <2>1, <2>3, <3>2 DEF AnalyzeNested, GoIntoText
  <2>4. QED
    BY <2>2, <2>3
<1>15. CASE CommandRules
  <2> DEFINE effect == InspectEffect(call.rc, call.depth)
  <2>1. /\ Promise(call) = {TextMark(src) : src \in ToSet(call.rc.subs)}
        /\ call.call # "walk_script" /\ todo # <<>>
        /\ IsSeq(call.rc.argv) /\ IsSeq(call.rc.redirs) /\ IsSeq(call.rc.subs)
    BY <1>2, <1>15 DEF CommandRules, Calling, Promise, CallTyped
  <2>2. /\ IsSeq(effect.calls)
        /\ \A src \in ToSet(StartupText(call.rc) \o call.rc.subs) :
             Nested(src, call.depth + 1) \in ToSet(effect.calls)
    <3> HIDE DEF call
    <3>1. /\ IsSeq(effect.calls)
          /\ ToSet(effect.calls)
               = {Nested(src, call.depth + 1) : src \in ToSet(StartupText(call.rc) \o call.rc.subs)}
                   \cup {ByName(call.rc, call.depth)}
      BY <2>1, InspectEffectSet
    <3> HIDE DEF effect
    <3>2. QED
      BY <3>1
  <2>3. ToSet(call.rc.subs) \subseteq ToSet(StartupText(call.rc) \o call.rc.subs)
    BY <2>1, StartupTextIsSeq, ConcatIsSeq
  <2>4. Return(effect) /\ opened' = opened /\ refused' = refused
    BY <1>15 DEF CommandRules
  <2> HIDE DEF effect
  <2>5. Promise(call) \subseteq Promised(effect.calls)
    BY <2>1, <2>2, <2>3, PromiseOf DEF Promised
  <2>6. QED
    BY <1>6, <2>1, <2>2, <2>4, <2>5
<1>16. CASE MatchName
  <2>1. Promise(call) = {} /\ call.call # "walk_script" /\ todo # <<>>
    BY <1>16 DEF MatchName, Calling, Promise
  <2>2. IsSeq(NameEffect(call.rc, call.depth).calls)
    BY NameEffectSet
  <2>3. Return(NameEffect(call.rc, call.depth)) /\ opened' = opened /\ refused' = refused
    BY <1>16 DEF MatchName
  <2>4. QED
    BY <1>6, <2>1, <2>2, <2>3
<1>17. CASE ExecuteCommand
  <2>1. Promise(call) = {} /\ call.call # "walk_script" /\ todo # <<>> /\ IsSeq(call.rc.redirs)
    BY <1>2, <1>17 DEF ExecuteCommand, Calling, Promise, CallTyped
  <2>2. \A taint : IsSeq(ExecuteEffect(call.rc, taint, call.depth).calls)
    BY <2>1, ExecuteEffectSet DEF NestedOnly
  <2>3. /\ Return(ExecuteEffect(call.rc, tainted', call.depth))
        /\ opened' = opened /\ refused' = refused
    BY <1>17 DEF ExecuteCommand
  <2>4. QED
    BY <1>6, <2>1, <2>2, <2>3
<1>18. CASE UNCHANGED vars
  BY <1>18 DEF vars, PromisesKept, MarkKept
<1>19. QED
  BY <1>8, <1>9, <1>10, <1>11, <1>12, <1>13, <1>14, <1>15, <1>16, <1>17, <1>18
     DEF Next, Step, Done

(* Whatever the shell would run as part of the command (groups, functions,  *)
(* substitutions in words, assignments and redirection targets, and in the  *)
(* texts that are found in their turn) has been gone into or turned away    *)
(* before the command is answered.                                          *)
THEOREM NothingUnvisitedAlways ==
  ASSUME ParserTyped
  PROVE  Spec => []NothingUnvisited
<1> DEFINE Kept == Inv /\ AllTyped(todo) /\ PromisesKept
<1>1. Init => Kept
  <2>1. Init => PromisesKept
    BY DEF Init, PromisesKept
  <2>2. QED
    BY <2>1, InvInit, TypedInit
<1>2. Kept /\ [Next]_vars => Kept'
  <2> SUFFICES ASSUME Kept, [Next]_vars PROVE Kept'
    OBVIOUS
  <2>1. AllTyped(todo) /\ AllTyped(todo') /\ Inv' /\ PromisesKept'
    BY InvNext, TypedNext, PromisesNext
  <2>2. QED
    BY <2>1
<1>3. Kept => NothingUnvisited
  <2> SUFFICES ASSUME Inv, PromisesKept, verdict # {}, NEW mark \in opened
               PROVE  IF mark[1] = "text" THEN BodyMark(Get(Parse(mark[2]))) \in opened
                      ELSE Owed(mark[2]) \subseteq opened \cup refused
    BY DEF NothingUnvisited
  <2>1. ToSet(todo) = {} /\ Promised(todo) = {}
    BY ShortSeqs DEF Inv, AnswerIsWorst, Promised
  <2>2. QED
    BY <2>1 DEF PromisesKept, MarkKept
<1>4. QED
  BY <1>1, <1>2, <1>3, PTL DEF Spec

-----------------------------------------------------------------------------
(* Download, then run. *)

(* What an executed command downloads is tainted, unless it is just about   *)
(* to be.                                                                   *)
DownloadsTaint ==
  \A rc \in Executed :
    \/ Downloads(rc) \subseteq tainted
    \/ todo # <<>> /\ Head(todo).call = "execute" /\ Head(todo).rc = rc

(* A command that runs what an earlier one downloads is remote execution,   *)
(* unless the taint set is yet to be looked up for it.                      *)
AwaitsTaint(rc) == \E c \in ToSet(todo) : c.call = "execute" /\ c.rc = rc
RunsFound ==
  /\ followed \subseteq judged \X judged
  /\ \A first, second \in Executed :
       /\ <<first, second>> \in followed
       /\ Downloads(first) \cap Runs(second) # {}
       => RemoteExec \in fired \/ AwaitsTaint(second)

TaintInv == AllTyped(todo) /\ DownloadsTaint /\ RunsFound

(* The name behind the wrappers is at most one.                             *)
LEMMA UnwrapName ==
  ASSUME NEW argv, Unwrap(argv).name # {}
  PROVE  Unwrap(argv).name = {Get(Unwrap(argv).name)}
<1>1. PICK name : Unwrap(argv).name = {name}
  BY DEF Unwrap
<1>2. QED
  BY <1>1, GetMember

(* What follows one call in front of the others.                            *)
LEMMA FirstCall ==
  ASSUME NEW c, NEW s, IsSeq(s)
  PROVE  <<c>> \o s # <<>> /\ Head(<<c>> \o s) = c /\ <<>> \o s = s
BY DEF IsSeq

(* The calls a step leaves alone stay, and so do the findings.              *)
LEMMA CallsRemain ==
  ASSUME AllTyped(todo), CallReturns
  PROVE  /\ ToSet(todo) \ {Head(todo)} \subseteq ToSet(todo')
         /\ fired \subseteq fired'
<1>1. PICK effect : Return(effect) /\ AllTyped(effect.calls)
  BY DEF CallReturns
<1>2. /\ ToSet(todo) = {Head(todo)} \cup ToSet(Tail(todo))
      /\ ToSet(todo') = ToSet(effect.calls) \cup ToSet(Tail(todo))
  BY <1>1, HeadAndTail, ConcatIsSeq DEF AllTyped, Return, CallReturns
<1>3. QED
  BY <1>1, <1>2 DEF Return

(* A command that gets past the checks on its name is executed next, or is  *)
(* an eval, which downloads nothing.                                        *)
LEMMA ExecutedNext ==
  ASSUME NEW rc, NEW depth, NEW rest, IsSeq(rest),
         rc.argv # <<>>, ~rc.nameUnresolved, Unwrap(rc.argv).name # {}
  PROVE  LET calls == NameEffect(rc, depth).calls
         IN  /\ Execute(rc, depth) \in ToSet(calls)
             /\ \/ Downloads(rc) = {}
                \/ calls \o rest # <<>> /\ Head(calls \o rest) = Execute(rc, depth)
<1> DEFINE u == Unwrap(rc.argv)
           evals == Get(u.name) = "eval" /\ Joined(u.args) # ""
           calls == NameEffect(rc, depth).calls
<1>1. calls = OptionalCall(When(evals, {Joined(u.args)}), depth + 1) \o <<Execute(rc, depth)>>
  BY DEF NameEffect, Effect, Invocation
<1> HIDE DEF calls
<1>2. Execute(rc, depth) \in ToSet(calls)
  <2>1. \A option : IsSeq(OptionalCall(option, depth + 1))
    BY OptionalCallSet
  <2>2. \A s : IsSeq(s) => ToSet(s \o <<Execute(rc, depth)>>) = ToSet(s) \cup {Execute(rc, depth)}
    BY ShortSeqs, ConcatIsSeq
  <2>3. QED
    BY <1>1, <2>1, <2>2
<1>3. CASE evals
  <2>1. u.name = {"eval"}
    BY <1>3, UnwrapName
  <2>2. u.name \cap Downloaders = {}
    BY <2>1 DEF Downloaders
  <2>3. Downloads(rc) = {}
    BY <2>2 DEF Downloads, When
  <2>4. QED
    BY <1>2, <2>3 DEF calls
<1>4. CASE ~evals
  <2>1. calls = <<Execute(rc, depth)>>
    BY <1>1, <1>4, FirstCall, ShortSeqs DEF OptionalCall, When
  <2>2. QED
    BY <1>2, <2>1, FirstCall DEF calls
<1>5. QED
  BY <1>3, <1>4

(* Every call of the walk keeps the invariant.                              *)
LEMMA TaintNext ==
  ASSUME ParserTyped, TaintInv, [Next]_vars
  PROVE  TaintInv'
<1> USE DEF TaintInv
<1>1. AllTyped(todo') /\ (Step /\ ~Answer => CallReturns)
  BY TypedNext, TypedStep
<1>2. CASE Answer \/ UNCHANGED vars
  <2>1. UNCHANGED <<judged, followed, tainted, todo, fired>>
    BY <1>2 DEF Answer, vars, history, ctx
  <2>2. QED
    BY <1>1, <2>1 DEF DownloadsTaint, RunsFound, AwaitsTaint, Executed
<1>3. CASE Step /\ ~Answer /\ ~MatchName /\ ~ExecuteCommand
  <2>1. UNCHANGED <<judged, followed, tainted>> /\ Head(todo).call # "execute"
    BY <1>3 DEF Step, Analyze, WalkScript, WalkPipeline, JudgePipeline, DefineFunction,
                AnalyzeNested, CommandRules, Calling, ctx, history
  <2>2. \A rc : AwaitsTaint(rc) => AwaitsTaint(rc)'
    BY <1>1, <1>3, <2>1, CallsRemain DEF AwaitsTaint
  <2>3. fired \subseteq fired'
    BY <1>1, <1>3, CallsRemain
  <2>4. QED
    BY <1>1, <2>1, <2>2, <2>3 DEF DownloadsTaint, RunsFound, Executed
<1>4. CASE MatchName
  <2> DEFINE rc == Head(todo).rc
             effect == NameEffect(rc, Head(todo).depth)
  <2>1. /\ todo # <<>> /\ Head(todo).call = "by_name" /\ Return(effect)
        /\ judged' = judged \cup {rc} /\ followed' = followed \cup (judged \X {rc})
        /\ tainted' = tainted
    BY <1>4 DEF MatchName, Calling, ctx
  <2>2. IsSeq(Tail(todo)) /\ IsSeq(effect.calls) /\ todo' = effect.calls \o Tail(todo)
    BY <2>1, HeadAndTail, NameEffectSet DEF AllTyped, Return
  <2>3. ToSet(effect.calls) \subseteq ToSet(todo')
    BY <2>2, ConcatIsSeq
  <2>4. rc \in Executed' =>
          /\ Execute(rc, Head(todo).depth) \in ToSet(todo')
          /\ \/ Downloads(rc) = {}
             \/ todo' # <<>> /\ Head(todo') = Execute(rc, Head(todo).depth)
    BY <2>2, <2>3, ExecutedNext DEF Executed
  <2>5. ~Answer /\ Step
    BY <1>4, <2>1 DEF Step, Answer
  <2>6. /\ fired \subseteq fired'
        /\ \A r : AwaitsTaint(r) => AwaitsTaint(r)'
    BY <1>1, <2>1, <2>5, CallsRemain DEF AwaitsTaint
  <2> HIDE DEF effect, rc
  <2>7. \A r : r \in Executed' <=> r \in Executed \/ (r = rc /\ r \in Executed')
    BY <2>1 DEF Executed
  <2>8. DownloadsTaint'
    BY <2>1, <2>4, <2>7 DEF DownloadsTaint, Execute
  <2>9. ASSUME NEW first \in Executed', NEW second \in Executed', <<first, second>> \in followed',
               Downloads(first) \cap Runs(second) # {}
        PROVE  RemoteExec \in fired' \/ AwaitsTaint(second)'
    <3>1. CASE second = rc
      BY <2>4, <2>9, <3>1 DEF AwaitsTaint, Execute
    <3>2. CASE second # rc
      <4>1. <<first, second>> \in followed
        BY <2>1, <2>9, <3>2
      <4>2. first \in judged /\ second \in judged
        BY <4>1 DEF RunsFound
      <4>3. first \in Executed /\ second \in Executed
        BY <2>9, <4>2 DEF Executed
      <4>4. QED
        BY <2>6, <2>9, <4>1, <4>3 DEF RunsFound
    <3>3. QED
      BY <3>1, <3>2
  <2>10. followed' \subseteq judged' \X judged'
    BY <2>1 DEF RunsFound
  <2>11. QED
    BY <1>1, <2>8, <2>9, <2>10 DEF RunsFound
<1>5. CASE ExecuteCommand
  <2> DEFINE rc == Head(todo).rc
  <2>1. /\ todo # <<>> /\ Head(todo).call = "execute"
        /\ tainted' = tainted \cup Downloads(rc)
        /\ UNCHANGED <<judged, followed>>
        /\ fired' = fired \cup ExecuteRules(rc, tainted')
    BY <1>5 DEF ExecuteCommand, Calling, history, Return, ExecuteEffect, Effect
  <2>2. ~Answer /\ Step
    BY <1>5, <2>1 DEF Step, Answer
  <2>3. \A r : r # rc /\ AwaitsTaint(r) => AwaitsTaint(r)'
    BY <1>1, <2>1, <2>2, CallsRemain DEF AwaitsTaint
  <2>4. Executed' = Executed
    BY <2>1 DEF Executed
  <2>5. \A r \in Executed : Downloads(r) \subseteq tainted'
    BY <2>1 DEF DownloadsTaint
  <2> HIDE DEF rc
  <2>6. ASSUME NEW first \in Executed, NEW second \in Executed, <<first, second>> \in followed,
               Downloads(first) \cap Runs(second) # {}
        PROVE  RemoteExec \in fired' \/ AwaitsTaint(second)'
    <3>1. CASE second = rc
      <4>1. Runs(rc) \cap tainted' # {}
        BY <2>5, <2>6, <3>1
      <4>2. RemoteExec \in ExecuteRules(rc, tainted')
        BY <4>1 DEF ExecuteRules, When
      <4>3. QED
        BY <2>1, <4>2
    <3>2. CASE second # rc
      BY <2>1, <2>3, <2>6, <3>2 DEF RunsFound
    <3>3. QED
      BY <3>1, <3>2
  <2>7. QED
    BY <1>1, <2>1, <2>4, <2>5, <2>6 DEF DownloadsTaint, RunsFound
<1>6. QED
  BY <1>2, <1>3, <1>4, <1>5 DEF Next, Done

(* A file that one command downloads and a later one runs is remote         *)
(* execution, whatever stands between the two and however deep each of them *)
(* is nested.                                                               *)
THEOREM DownloadThenRunAlways ==
  ASSUME ParserTyped
  PROVE  Spec => []DownloadThenRun
<1> DEFINE Both == Inv /\ TaintInv
<1>1. Init => Both
  <2>1. Init => DownloadsTaint /\ RunsFound
    BY DEF Init, DownloadsTaint, RunsFound, Executed
  <2>2. QED
    BY <2>1, InvInit, TypedInit DEF TaintInv
<1>2. Both /\ [Next]_vars => Both'
  <2> SUFFICES ASSUME Both, [Next]_vars PROVE Both'
    OBVIOUS
  <2>1. Inv' /\ TaintInv'
    BY InvNext, TaintNext
  <2>2. QED
    BY <2>1
<1>3. Both => DownloadThenRun
  <2> SUFFICES ASSUME Both, verdict # {} PROVE DownloadThenRun
    BY DEF DownloadThenRun
  <2>1. ToSet(todo) = {}
    BY ShortSeqs DEF Inv, AnswerIsWorst
  <2>2. QED
    BY <2>1 DEF TaintInv, RunsFound, AwaitsTaint, DownloadThenRun
<1>4. QED
  BY <1>1, <1>2, <1>3, PTL DEF Spec

-----------------------------------------------------------------------------
(* Wrappers. *)

(* The options of a wrapper, read from the end.                             *)
OptionLength(arg) == IF arg \in ValueOptions THEN 2 ELSE 1
IsSkipped(argv, i) == i <= Len(argv) /\ IsOption(argv[i]) /\ argv[i] # "--"
SkipAt(argv, f, i) == IF IsSkipped(argv, i) THEN f[i + OptionLength(argv[i])] ELSE i
Skips(argv, f) == f = [i \in 1 .. Len(argv) + 2 |-> SkipAt(argv, f, i)]

LEMMA SkipExists ==
  ASSUME NEW argv, IsSeq(argv)
  PROVE  \E f : Skips(argv, f)
<1> DEFINE n == Len(argv) + 2
           body == [i \in 1 .. n |-> [f \in [1 .. n -> Nat] |-> SkipAt(argv, f, i)]]
<1>1. Len(argv) \in Nat /\ n \in Nat /\ n = Len(argv) + 2
  BY DEF IsSeq
<1>2. \A i \in 1 .. n : IsSkipped(argv, i) =>
        i + OptionLength(argv[i]) \in 1 .. n /\ i + OptionLength(argv[i]) > i
  BY <1>1 DEF IsSkipped, OptionLength
<1>3. \A i \in 1 .. n : \A f \in [1 .. n -> Nat] : body[i][f] = SkipAt(argv, f, i)
  OBVIOUS
<1> HIDE DEF n
<1>4. body \in Makers(n, Nat)
  <2>1. \A i \in 1 .. n : \A f \in [1 .. n -> Nat] : SkipAt(argv, f, i) \in Nat
    BY <1>1, <1>2 DEF SkipAt
  <2>2. QED
    BY <2>1 DEF Makers
<1> HIDE DEF body
<1>5. LooksAhead(n, Nat, body)
  <2>1. ASSUME NEW i \in 1 .. n, NEW f \in [1 .. n -> Nat], NEW g \in [1 .. n -> Nat],
               AgreeAfter(n, i, f, g)
        PROVE  SkipAt(argv, f, i) = SkipAt(argv, g, i)
    BY <1>1, <1>2, <2>1 DEF SkipAt, AgreeAfter
  <2>2. QED
    BY <1>3, <2>1 DEF LooksAhead
<1>6. IsMade(n, Nat, body)
  BY <1>1, <1>4, <1>5, RecursionFromTheEnd
<1>7. PICK f \in [1 .. n -> Nat] : \A i \in 1 .. n : f[i] = body[i][f]
  BY <1>6 DEF IsMade
<1>8. f = [i \in 1 .. n |-> SkipAt(argv, f, i)]
  BY <1>3, <1>7
<1>9. QED
  BY <1>8 DEF Skips, n

(* Option words are skipped, and a closing "--" behind them.                *)
LEMMA OptionsSkipped ==
  ASSUME NEW argv, IsSeq(argv), NEW from \in 1 .. Len(argv), NEW b \in from .. Len(argv),
         OptionWords(argv, from, b), IsOption(argv[b]) => argv[b] = "--"
  PROVE  AfterOptions(argv, from) = IF argv[b] = "--" THEN b + 1 ELSE b
<1>1. PICK f : f = CHOOSE g : Skips(argv, g)
  OBVIOUS
<1>2. Skips(argv, f)
  BY <1>1, SkipExists
<1>3. AfterOptions(argv, from) =
        IF f[from] <= Len(argv) /\ argv[f[from]] = "--" THEN f[from] + 1 ELSE f[from]
  BY <1>1 DEF AfterOptions, Skips, SkipAt, IsSkipped, OptionLength
<1>4. Len(argv) \in Nat
  BY DEF IsSeq
<1>5. \A i \in 1 .. Len(argv) : f[i] = SkipAt(argv, f, i)
  BY <1>2, <1>4 DEF Skips
<1>6. PICK values \in SUBSET (from .. b - 1) : \A i \in from .. b :
        IF i > from /\ argv[i - 1] \in ValueOptions /\ i - 1 \notin values
        THEN i \in values
        ELSE i \notin values /\ (i < b => IsOption(argv[i]) /\ argv[i] # "--")
  BY DEF OptionWords
<1> DEFINE Holds == {m \in 0 .. b - from : \A i \in b - m .. b : i \notin values => f[i] = f[b]}
<1>7. 0 \in Holds
  BY <1>4
<1>8. ASSUME NEW m \in 1 .. b - from, m - 1 \in Holds PROVE m \in Holds
  <2> DEFINE i == b - m
  <2>1. i \in from .. b /\ i < b /\ i \in 1 .. Len(argv) /\ i + 1 \in from .. b
    BY <1>4
  <2>2. \A j \in i + 1 .. b : j \notin values => f[j] = f[b]
    BY <1>8
  <2> HIDE DEF i, Holds
  <2>3. ASSUME i \notin values PROVE f[i] = f[b]
    <3>1. IsSkipped(argv, i)
      BY <1>4, <1>6, <2>1, <2>3 DEF IsSkipped
    <3>2. f[i] = f[i + OptionLength(argv[i])]
      BY <1>5, <2>1, <3>1 DEF SkipAt
    <3>3. CASE argv[i] \in ValueOptions
      <4>1. i + 1 \in values
        <5>1. i + 1 > from /\ i + 1 - 1 = i
          BY <2>1
        <5>2. QED
          BY <1>6, <2>1, <2>3, <3>3, <5>1
      <4>2. i + 1 \in from .. b - 1
        BY <1>6, <4>1
      <4>3. i + 2 \in from .. b /\ i + 2 \in i + 1 .. b /\ i + 2 - 1 = i + 1
        BY <2>1, <4>2
      <4>4. i + 2 \notin values
        <5>1. PICK j \in from .. b : j = i + 2
          BY <4>3
        <5>2. j - 1 = i + 1
          BY <2>1, <5>1
        <5>3. j - 1 \in values
          BY <4>1, <5>2
        <5>4. j \notin values
          BY <1>6, <5>3
        <5>5. QED
          BY <5>1, <5>4
      <4>5. QED
        BY <2>2, <3>2, <3>3, <4>3, <4>4 DEF OptionLength
    <3>4. CASE argv[i] \notin ValueOptions
      <4>1. i + 1 \notin values
        <5>1. i + 1 - 1 = i
          BY <2>1
        <5>2. QED
          BY <1>6, <2>1, <3>4, <5>1
      <4>2. i + 1 \in i + 1 .. b
        BY <2>1
      <4>3. QED
        BY <2>2, <3>2, <3>4, <4>1, <4>2 DEF OptionLength
    <3>5. QED
      BY <3>3, <3>4
  <2>4. \A j \in i .. b : j \notin values => f[j] = f[b]
    <3>1. \A j \in i .. b : j = i \/ j \in i + 1 .. b
      BY <2>1
    <3>2. QED
      BY <2>2, <2>3, <3>1
  <2>5. QED
    BY <2>4 DEF Holds, i
<1> HIDE DEF Holds
<1>9. b - from \in Nat /\ b - from \in 0 .. b - from
  BY <1>4
<1>10. b - from \in Holds
  BY <1>7, <1>8, <1>9, InductionUpTo
<1>11. from \notin values /\ from \in b - (b - from) .. b
  BY <1>4, <1>6
<1>12. f[from] = f[b]
  BY <1>10, <1>11 DEF Holds
<1>13. f[b] = b /\ b <= Len(argv)
  BY <1>4, <1>5 DEF SkipAt, IsSkipped
<1>14. QED
  BY <1>3, <1>12, <1>13

(* The operands of a wrapper are taken off up to what is no setting.        *)
LEMMA SettingsSkipped ==
  ASSUME NEW argv, IsSeq(argv), NEW k \in 1 .. Len(argv), NEW from \in 1 .. k, NEW wrapper,
         OperandWords(argv, wrapper, from, k), ~Mentions(argv[k], "=")
  PROVE  AfterSettings(argv, wrapper, from) = k
<1> DEFINE others == {i \in from .. Len(argv) : ~Mentions(argv[i], "=")}
           end == Max({from, Len(argv) + 1})
<1>1. Len(argv) \in Nat /\ end = Len(argv) + 1
  <2>1. Len(argv) \in Nat
    BY DEF IsSeq
  <2>2. PICK m : m = end
    OBVIOUS
  <2>3. \E x \in {from, Len(argv) + 1} : \A y \in {from, Len(argv) + 1} : x >= y
    BY <2>1
  <2>4. m \in {from, Len(argv) + 1} /\ \A y \in {from, Len(argv) + 1} : m >= y
    BY <2>2, <2>3 DEF Max
  <2>5. QED
    BY <2>1, <2>2, <2>4
<1> HIDE DEF end
<1>2. CASE wrapper = "env"
  <2>1. AfterSettings(argv, wrapper, from) = Min(others \cup {end})
    BY <1>2 DEF AfterSettings, end
  <2>2. \A i \in from .. k - 1 : Mentions(argv[i], "=")
    BY <1>2 DEF OperandWords
  <2>3. k \in others /\ \A i \in others : i \in Nat /\ k <= i
    BY <1>1, <2>2
  <2>4. k \in others \cup {end} /\ \A i \in others \cup {end} : i \in Nat /\ k <= i
    BY <1>1, <2>3
  <2> HIDE DEF others
  <2>5. PICK m : m = Min(others \cup {end})
    OBVIOUS
  <2>6. m \in others \cup {end} /\ \A i \in others \cup {end} : m <= i
    BY <2>4, <2>5 DEF Min
  <2>7. m \in Nat /\ k \in Nat /\ m <= k /\ k <= m
    BY <2>4, <2>6
  <2>8. m = k
    BY <2>7
  <2>9. QED
    BY <2>1, <2>5, <2>8
<1>3. CASE wrapper = "timeout"
  <2>1. k = from + 1 /\ CharAt(argv[from], 1) \in Digit /\ from <= Len(argv)
    BY <1>1, <1>3 DEF OperandWords
  <2>2. QED
    BY <1>3, <2>1 DEF AfterSettings
<1>4. CASE wrapper \notin {"env", "timeout"}
  BY <1>4 DEF OperandWords, AfterSettings
<1>5. QED
  BY <1>2, <1>3, <1>4

(* What unwrap_command takes off in one turn.                               *)
StripStep(argv, u) ==
  LET name == Basename(argv[u.at])
  IN  IF u.at > Len(argv) \/ ~IsWrapper(name) THEN u
      ELSE [at |-> AfterSettings(argv, name, AfterOptions(argv, u.at + 1)),
            privileged |-> IF name \in PrivWrappers THEN {name} ELSE u.privileged]
Strips(argv, n, f) ==
  f = [k \in 0 .. n |-> IF k = 0 THEN [at |-> 1, privileged |-> {}]
                        ELSE StripStep(argv, f[k - 1])]

(* A wrapper that stands at the front is taken off as a whole.              *)
LEMMA WrapperStripped ==
  ASSUME NEW argv, IsSeq(argv), NEW at \in Nat \ {0}, NEW k \in DOMAIN argv,
         IsWrapping(argv, at, k), NEW u, u.at = at
  PROVE  StripStep(argv, u) =
           [at |-> k,
            privileged |-> IF Basename(argv[at]) \in PrivWrappers THEN {Basename(argv[at])}
                           ELSE u.privileged]
<1> DEFINE name == Basename(argv[at])
           end  == AfterSettings(argv, name, AfterOptions(argv, at + 1))
<1>1. Len(argv) \in Nat /\ k \in 1 .. Len(argv)
  BY DEF IsSeq
<1>2. /\ k > at /\ ~IsOption(argv[k]) /\ ~Mentions(argv[k], "=") /\ IsWrapper(name)
      /\ at + 1 \in 1 .. Len(argv)
  BY <1>1 DEF IsWrapping
<1>3. PICK b \in at + 1 .. k :
        LET a == IF argv[b] = "--" THEN b + 1 ELSE b
        IN  /\ OptionWords(argv, at + 1, b)
            /\ IsOption(argv[b]) => argv[b] = "--"
            /\ a <= k /\ OperandWords(argv, name, a, k)
  BY DEF IsWrapping
<1> DEFINE a == IF argv[b] = "--" THEN b + 1 ELSE b
<1> HIDE DEF name
<1>4. AfterOptions(argv, at + 1) = a
  <2>1. b \in at + 1 .. Len(argv)
    BY <1>1
  <2>2. QED
    BY <1>2, <1>3, <2>1, OptionsSkipped
<1>5. end = k
  <2>1. a \in 1 .. k /\ OperandWords(argv, name, a, k)
    BY <1>1, <1>3
  <2> HIDE DEF a
  <2>2. QED
    BY <1>1, <1>2, <1>4, <2>1, SettingsSkipped
<1>6. ~(u.at > Len(argv))
  BY <1>1, <1>2
<1>7. StripStep(argv, u) =
        [at |-> end, privileged |-> IF name \in PrivWrappers THEN {name} ELSE u.privileged]
  BY <1>2, <1>6 DEF StripStep, name
<1> HIDE DEF end
<1>8. QED
  BY <1>5, <1>7 DEF name

(* There is a result after any number of turns.                             *)
LEMMA StripsExist ==
  ASSUME NEW argv, NEW n \in Nat
  PROVE  \E f : Strips(argv, n, f)
<1> DEFINE First == [at |-> 1, privileged |-> {}]
           Holds == {m \in Nat : \E f : Strips(argv, m, f)}
<1>1. 0 \in Holds
  <2>1. Strips(argv, 0, [k \in 0 .. 0 |-> First])
    BY DEF Strips
  <2>2. QED
    BY <2>1
<1>2. ASSUME NEW m \in 1 .. n, m - 1 \in Holds PROVE m \in Holds
  <2>1. PICK f : Strips(argv, m - 1, f)
    BY <1>2
  <2> DEFINE g == [k \in 0 .. m |-> IF k < m THEN f[k] ELSE StripStep(argv, f[m - 1])]
  <2>2. ASSUME NEW k \in 0 .. m
        PROVE  g[k] = IF k = 0 THEN First ELSE StripStep(argv, g[k - 1])
    <3>1. CASE k < m
      <4>1. k \in 0 .. m - 1 /\ (k # 0 => k - 1 \in 0 .. m /\ k - 1 < m)
        BY <3>1
      <4>2. f[k] = IF k = 0 THEN First ELSE StripStep(argv, f[k - 1])
        BY <2>1, <4>1 DEF Strips
      <4> HIDE DEF First
      <4>3. QED
        BY <3>1, <4>1, <4>2
    <3>2. CASE k = m
      <4>1. k # 0 /\ k - 1 \in 0 .. m /\ k - 1 < m
        BY <3>2
      <4> HIDE DEF First
      <4>2. QED
        BY <3>2, <4>1
    <3>3. QED
      BY <3>1, <3>2
  <2>3. Strips(argv, m, g)
    BY <2>2 DEF Strips
  <2>4. QED
    BY <2>3
<1> HIDE DEF Holds
<1>3. n \in Holds
  BY <1>1, <1>2, InductionUpTo
<1>4. QED
  BY <1>3 DEF Holds

(* Unwrap is what is left after MaxWrappers turns.                          *)
LEMMA UnwrapIsStrips ==
  ASSUME NEW argv
  PROVE  \E f : /\ Strips(argv, MaxWrappers, f)
               /\ LET end == f[MaxWrappers]
                  IN  Unwrap(argv) =
                        [name |-> IF end.at > Len(argv) THEN {} ELSE {Basename(argv[end.at])},
                         args |-> SubSeq(argv, end.at + 1, Len(argv)),
                         privileged |-> end.privileged]
<1>1. PICK f : f = CHOOSE g : Strips(argv, MaxWrappers, g)
  OBVIOUS
<1>2. Strips(argv, MaxWrappers, f)
  BY <1>1, StripsExist, MaxWrappersAssumption
<1>3. LET end == f[MaxWrappers]
      IN  Unwrap(argv) =
            [name |-> IF end.at > Len(argv) THEN {} ELSE {Basename(argv[end.at])},
             args |-> SubSeq(argv, end.at + 1, Len(argv)),
             privileged |-> end.privileged]
  BY <1>1 DEF Unwrap, Strips, StripStep
<1>4. QED
  BY <1>2, <1>3

-----------------------------------------------------------------------------
(* A command behind wrappers. *)

(* Behind looks for the commands that up to n wrappers lead to.             *)
First == [at |-> 1, wrappers |-> {}]
Behindward(argv, before) ==
  before \cup
    {[at |-> p[2], wrappers |-> p[1].wrappers \cup {Basename(argv[p[1].at])}] :
       p \in {q \in before \X DOMAIN argv : IsWrapping(argv, q[1].at, q[2])}}
Starts(argv, n, g) ==
  g = [k \in 0 .. n |-> IF k = 0 THEN {First} ELSE Behindward(argv, g[k - 1])]

LEMMA StartsExist ==
  ASSUME NEW argv, NEW n \in Nat
  PROVE  \E f : Starts(argv, n, f)
<1> DEFINE Holds == {m \in Nat : \E f : Starts(argv, m, f)}
<1>1. 0 \in Holds
  <2>1. Starts(argv, 0, [k \in 0 .. 0 |-> {First}])
    BY DEF Starts
  <2>2. QED
    BY <2>1
<1>2. ASSUME NEW m \in 1 .. n, m - 1 \in Holds PROVE m \in Holds
  <2>1. PICK f : Starts(argv, m - 1, f)
    BY <1>2
  <2> DEFINE g == [k \in 0 .. m |-> IF k < m THEN f[k] ELSE Behindward(argv, f[m - 1])]
  <2>2. ASSUME NEW k \in 0 .. m
        PROVE  g[k] = IF k = 0 THEN {First} ELSE Behindward(argv, g[k - 1])
    <3>1. CASE k < m
      <4>1. k \in 0 .. m - 1 /\ (k # 0 => k - 1 \in 0 .. m /\ k - 1 < m)
        BY <3>1
      <4>2. f[k] = IF k = 0 THEN {First} ELSE Behindward(argv, f[k - 1])
        BY <2>1, <4>1 DEF Starts
      <4>3. QED
        BY <3>1, <4>1, <4>2
    <3>2. CASE k = m
      <4>1. k # 0 /\ k - 1 \in 0 .. m /\ k - 1 < m
        BY <3>2
      <4>2. QED
        BY <3>2, <4>1
    <3>3. QED
      BY <3>1, <3>2
  <2>3. Starts(argv, m, g)
    BY <2>2 DEF Starts
  <2>4. QED
    BY <2>3
<1> HIDE DEF Holds
<1>3. n \in Holds
  BY <1>1, <1>2, InductionUpTo
<1>4. QED
  BY <1>3 DEF Holds

(* Some of the first n turns of unwrap_command ends at the command c, and   *)
(* has seen the privilege wrappers before it.                               *)
IsPrivileged(c) == c.wrappers \cap PrivWrappers # {}
IsReached(f, n, c) ==
  \E m \in 0 .. n : f[m].at = c.at /\ (IsPrivileged(c) => f[m].privileged # {})

(* Where Behind lands, unwrap_command comes by.                             *)
LEMMA LandingsReached ==
  ASSUME NEW argv, IsSeq(argv), NEW n \in Nat, NEW f, Strips(argv, n, f),
         NEW g, Starts(argv, n, g)
  PROVE  \A c \in g[n] : c.at \in Nat \ {0} /\ IsReached(f, n, c)
<1> DEFINE Fine(m) == \A c \in g[m] : c.at \in Nat \ {0} /\ IsReached(f, m, c)
           Holds == {m \in 0 .. n : Fine(m)}
<1> HIDE DEF Fine, Holds
<1>1. ASSUME NEW k \in 1 .. n
      PROVE  g[k] = Behindward(argv, g[k - 1]) /\ f[k] = StripStep(argv, f[k - 1])
  <2>1. k \in 0 .. n /\ k # 0
    OBVIOUS
  <2>2. QED
    BY <2>1 DEF Starts, Strips
<1>2. 0 \in Holds
  <2>1. g[0] = {First} /\ f[0] = [at |-> 1, privileged |-> {}] /\ 0 \in 0 .. n
    BY DEF Starts, Strips
  <2>2. First.at = 1 /\ ~IsPrivileged(First)
    BY DEF First, IsPrivileged
  <2>3. IsReached(f, 0, First)
    BY <2>1, <2>2 DEF IsReached
  <2>4. QED
    BY <2>1, <2>2, <2>3 DEF Fine, Holds
<1>3. ASSUME NEW m \in 1 .. n, m - 1 \in Holds PROVE m \in Holds
  <2>1. m \in 0 .. n /\ m - 1 \in 0 .. n /\ g[m] = Behindward(argv, g[m - 1])
    BY <1>1
  <2>2. \A c \in g[m - 1] : c.at \in Nat \ {0} /\ IsReached(f, m - 1, c)
    BY <1>3 DEF Holds, Fine
  <2>3. \A c : IsReached(f, m - 1, c) => IsReached(f, m, c)
    BY DEF IsReached
  <2>4. ASSUME NEW c \in g[m], c \notin g[m - 1]
        PROVE  c.at \in Nat \ {0} /\ IsReached(f, m, c)
    <3>1. PICK p \in g[m - 1] \X DOMAIN argv :
            /\ IsWrapping(argv, p[1].at, p[2])
            /\ c = [at |-> p[2], wrappers |-> p[1].wrappers \cup {Basename(argv[p[1].at])}]
      BY <2>1, <2>4 DEF Behindward
    <3>2. PICK d \in g[m - 1], k \in DOMAIN argv :
            /\ IsWrapping(argv, d.at, k)
            /\ c = [at |-> k, wrappers |-> d.wrappers \cup {Basename(argv[d.at])}]
      BY <3>1
    <3>3. d.at \in Nat \ {0} /\ k \in Nat \ {0}
      <4>1. k \in 1 .. Len(argv) /\ Len(argv) \in Nat
        BY DEF IsSeq
      <4>2. QED
        BY <2>2, <4>1
    <3>4. PICK j \in 0 .. m - 1 :
            f[j].at = d.at /\ (IsPrivileged(d) => f[j].privileged # {})
      BY <2>2 DEF IsReached
    <3>5. j + 1 \in 1 .. n /\ j + 1 \in 0 .. m /\ j + 1 - 1 = j
      BY <2>1
    <3>6. f[j + 1] = StripStep(argv, f[j])
      BY <1>1, <3>5
    <3> DEFINE name == Basename(argv[d.at])
               u == f[j]
    <3>7. f[j + 1] = [at |-> k, privileged |-> IF name \in PrivWrappers THEN {name}
                                               ELSE f[j].privileged]
      <4>1. u.at = d.at
        BY <3>4
      <4> HIDE DEF u
      <4>2. StripStep(argv, u) =
              [at |-> k, privileged |-> IF name \in PrivWrappers THEN {name} ELSE u.privileged]
        BY <3>2, <3>3, <4>1, WrapperStripped
      <4>3. QED
        BY <3>6, <4>2 DEF u
    <3>8. f[j + 1].at = c.at /\ c.at = k
      BY <3>2, <3>7
    <3>9. IsPrivileged(c) => f[j + 1].privileged # {}
      <4>1. IsPrivileged(c) => IsPrivileged(d) \/ name \in PrivWrappers
        BY <3>2 DEF IsPrivileged
      <4> HIDE DEF name
      <4>2. QED
        BY <3>4, <3>7, <4>1
    <3>10. QED
      BY <3>3, <3>5, <3>8, <3>9 DEF IsReached
  <2>5. \A c \in g[m] : c.at \in Nat \ {0} /\ IsReached(f, m, c)
    BY <2>2, <2>3, <2>4
  <2>6. QED
    BY <2>1, <2>5 DEF Holds, Fine
<1>4. n \in Holds
  BY <1>2, <1>3, InductionUpTo
<1>5. QED
  BY <1>4 DEF Holds, Fine

(* So the command that Unwrap finds is the one behind the wrappers.         *)
Unwraps(argv, c) ==
  LET u == Unwrap(argv)
  IN  /\ argv # <<>>
      /\ u.name = {Basename(argv[c.at])} /\ u.args = Drop(argv, c.at)
      /\ IsPrivileged(c) => u.privileged # {}

LEMMA BehindIsUnwrapped ==
  ASSUME NEW argv, IsSeq(argv), NEW c \in Behind(argv)
  PROVE  Unwraps(argv, c)
<1> DEFINE n == MaxWrappers
           k == c.at
<1>1. n \in Nat /\ Len(argv) \in Nat
  BY MaxWrappersAssumption DEF IsSeq
<1>2. PICK g : g = CHOOSE h : Starts(argv, n, h)
  OBVIOUS
<1>3. Starts(argv, n, g)
  BY <1>1, <1>2, StartsExist
<1>4. c \in g[n] /\ k \in DOMAIN argv /\ ~IsWrapper(Basename(argv[k]))
  BY <1>2 DEF Behind, Starts, Behindward, First
<1>5. PICK f :
        /\ Strips(argv, n, f)
        /\ LET end == f[n]
           IN  Unwrap(argv) =
                 [name |-> IF end.at > Len(argv) THEN {} ELSE {Basename(argv[end.at])},
                  args |-> SubSeq(argv, end.at + 1, Len(argv)),
                  privileged |-> end.privileged]
  BY UnwrapIsStrips
<1> HIDE DEF n, k
<1>6. IsReached(f, n, c)
  BY <1>1, <1>3, <1>4, <1>5, LandingsReached
<1>7. k \in 1 .. Len(argv)
  BY <1>4 DEF IsSeq
<1>8. PICK m \in 0 .. n : f[m].at = k /\ (IsPrivileged(c) => f[m].privileged # {})
  BY <1>6 DEF IsReached, k
<1>9. f[n] = f[m]
  <2> DEFINE Holds == (0 .. m - 1) \cup {j \in m .. n : f[j] = f[m]}
  <2>1. 0 \in Holds
    BY <1>1
  <2>2. ASSUME NEW j \in 1 .. n, j - 1 \in Holds PROVE j \in Holds
    <3>1. CASE j <= m
      BY <3>1
    <3>2. CASE ~(j <= m)
      <4>1. j \in m .. n /\ f[j - 1] = f[m]
        BY <1>1, <2>2, <3>2
      <4>2. f[j] = StripStep(argv, f[j - 1])
        <5>1. j \in 0 .. n /\ j # 0
          BY <1>1
        <5>2. QED
          BY <1>5, <5>1 DEF Strips
      <4>3. StripStep(argv, f[m]) = f[m]
        BY <1>4, <1>8 DEF StripStep
      <4>4. QED
        BY <4>1, <4>2, <4>3
    <3>3. QED
      BY <3>1, <3>2
  <2> HIDE DEF Holds
  <2>3. n \in Holds
    BY <1>1, <2>1, <2>2, InductionUpTo
  <2>4. n \notin 0 .. m - 1
    BY <1>1
  <2>5. QED
    BY <2>3, <2>4 DEF Holds
<1>10. ~(k > Len(argv))
  BY <1>1, <1>7
<1>11. PICK args : args = Drop(argv, k)
  OBVIOUS
<1>12. Unwrap(argv) = [name |-> {Basename(argv[k])}, args |-> args,
                       privileged |-> f[m].privileged]
  BY <1>5, <1>8, <1>9, <1>10, <1>11 DEF Drop
<1>13. argv # <<>>
  BY <1>1, <1>7, EmptySeq DEF IsSeq
<1>14. /\ Unwrap(argv).name = {Basename(argv[k])} /\ Unwrap(argv).args = args
       /\ IsPrivileged(c) => Unwrap(argv).privileged # {}
  BY <1>8, <1>12
<1>15. QED
  BY <1>11, <1>13, <1>14 DEF Unwraps, k

(* A command whose name was looked at is a sequence of words, and the rules *)
(* for its name are among those that fired.                                 *)
NameRulesFired ==
  \A rc \in judged : IsSeq(rc.argv) /\ NameEffect(rc, 0).rules \subseteq fired
NamesInv == AllTyped(todo) /\ NameRulesFired

(* The rules do not depend on how deep the command is nested.               *)
LEMMA RulesOfName ==
  ASSUME NEW rc, NEW depth
  PROVE  NameEffect(rc, depth).rules = NameEffect(rc, 0).rules
BY DEF NameEffect, Effect

(* Every call of the walk keeps the invariant.                              *)
LEMMA NamesNext ==
  ASSUME ParserTyped, NamesInv, [Next]_vars
  PROVE  NamesInv'
<1>1. AllTyped(todo) /\ NameRulesFired /\ AllTyped(todo') /\ (Step /\ ~Answer => CallReturns)
  BY TypedNext, TypedStep DEF NamesInv
<1>2. CASE Answer \/ UNCHANGED vars
  <2>1. UNCHANGED <<judged, fired>>
    BY <1>2 DEF Answer, vars, history
  <2>2. QED
    BY <1>1, <2>1 DEF NamesInv, NameRulesFired
<1>3. CASE Step /\ ~Answer /\ ~MatchName
  <2>1. UNCHANGED judged
    BY <1>3 DEF Step, Analyze, WalkScript, WalkPipeline, JudgePipeline, DefineFunction,
                AnalyzeNested, CommandRules, ExecuteCommand, history
  <2>2. fired \subseteq fired'
    BY <1>1, <1>3, CallsRemain
  <2>3. QED
    BY <1>1, <2>1, <2>2 DEF NamesInv, NameRulesFired
<1>4. CASE MatchName
  <2> DEFINE rc == Head(todo).rc
             depth == Head(todo).depth
  <2>1. /\ todo # <<>> /\ Head(todo).call = "by_name"
        /\ fired' = fired \cup NameEffect(rc, depth).rules
        /\ judged' = judged \cup {rc}
    BY <1>4 DEF MatchName, Calling, Return
  <2>2. IsSeq(rc.argv)
    BY <1>1, <2>1, HeadTyped DEF CallTyped
  <2>3. NameEffect(rc, 0).rules \subseteq fired'
    BY <2>1, RulesOfName
  <2> HIDE DEF rc, depth
  <2>4. \A r \in judged' : IsSeq(r.argv) /\ NameEffect(r, 0).rules \subseteq fired'
    BY <1>1, <2>1, <2>2, <2>3 DEF NameRulesFired
  <2>5. QED
    BY <1>1, <2>4 DEF NamesInv, NameRulesFired, NameEffect
<1>5. QED
  BY <1>2, <1>3, <1>4 DEF Next, Done

(* What fires for a command behind wrappers.                                *)
LEMMA BehindFires ==
  ASSUME NEW rc, ~rc.nameUnresolved, NEW c, Unwraps(rc.argv, c)
  PROVE  /\ NameRules(Invocation(Basename(rc.argv[c.at]), Drop(rc.argv, c.at), rc.argUnresolved))
              \subseteq NameEffect(rc, 0).rules
         /\ IsPrivileged(c) => PrivilegeEscalation \in NameEffect(rc, 0).rules
<1> DEFINE u == Unwrap(rc.argv)
           call == Invocation(Get(u.name), u.args, rc.argUnresolved)
<1>1. /\ rc.argv # <<>> /\ u.name = {Basename(rc.argv[c.at])} /\ u.args = Drop(rc.argv, c.at)
      /\ IsPrivileged(c) => u.privileged # {}
  BY DEF Unwraps
<1>2. Get(u.name) = Basename(rc.argv[c.at]) /\ u.name # {}
  BY <1>1, GetMember
<1>3. NameEffect(rc, 0).rules =
        When(u.privileged # {}, {PrivilegeEscalation})
          \cup SocketRules(call.name, rc.redirs) \cup NameRules(call)
  BY <1>1, <1>2 DEF NameEffect, Effect
<1>4. call = Invocation(Basename(rc.argv[c.at]), Drop(rc.argv, c.at), rc.argUnresolved)
  BY <1>1, <1>2
<1> HIDE DEF call, u
<1>5. QED
  BY <1>1, <1>3, <1>4 DEF When

(* A command behind wrappers whose options and operands unwrap_command      *)
(* knows is answered as the command it is, and as a privileged one if any   *)
(* of them is a privilege wrapper, for any words in between, and any number *)
(* of wrappers that it takes off.                                           *)
THEOREM WrappersSeenThroughAlways ==
  ASSUME ParserTyped
  PROVE  Spec => []WrappersSeenThrough
<1>1. Init => NamesInv
  BY TypedInit DEF Init, NamesInv, NameRulesFired
<1>2. NamesInv /\ [Next]_vars => NamesInv'
  BY NamesNext
<1>3. NamesInv => WrappersSeenThrough
  <2> SUFFICES ASSUME NamesInv, NEW rc \in judged, ~rc.nameUnresolved, NEW c \in Behind(rc.argv)
               PROVE  /\ NameRules(Invocation(Basename(rc.argv[c.at]), Drop(rc.argv, c.at),
                                              rc.argUnresolved)) \subseteq fired
                      /\ c.wrappers \cap PrivWrappers # {} => PrivilegeEscalation \in fired
    BY DEF WrappersSeenThrough
  <2>1. IsSeq(rc.argv) /\ NameEffect(rc, 0).rules \subseteq fired
    BY DEF NamesInv, NameRulesFired
  <2>2. Unwraps(rc.argv, c)
    BY <2>1, BehindIsUnwrapped
  <2>3. /\ NameRules(Invocation(Basename(rc.argv[c.at]), Drop(rc.argv, c.at), rc.argUnresolved))
             \subseteq NameEffect(rc, 0).rules
        /\ IsPrivileged(c) => PrivilegeEscalation \in NameEffect(rc, 0).rules
    BY <2>2, BehindFires
  <2>4. QED
    BY <2>1, <2>3 DEF IsPrivileged
<1>4. QED
  BY <1>1, <1>2, <1>3, PTL DEF Spec

-----------------------------------------------------------------------------
(* The bindings are those of a shell, but for white space. *)

(* A TLA+ string is a sequence of characters, of which the provers know     *)
(* nothing.                                                                 *)
Letter == CHOOSE C : STRING \subseteq Seq(C)
StringsAreSequences == STRING \subseteq Seq(Letter)
Writing == Seq(Letter)

NoText == ""
Blank == " "

(* The empty text and the one of a blank.                                   *)
LEMMA ShortTexts ==
  ASSUME StringsAreSequences
  PROVE  NoText \in Writing /\ NoText = <<>> /\ Blank \in Writing /\ Len(Blank) = 1
<1>1. NoText \in STRING /\ Blank \in STRING
  BY SpaceAssumption, Zenon DEF NoText, Blank
<1>2. Len(NoText) = 0 /\ Len(Blank) = 1
  BY SpaceAssumption, Zenon DEF NoText, Blank
<1>3. NoText \in Writing /\ Blank \in Writing
  BY <1>1 DEF StringsAreSequences, Writing
<1>4. \A s \in Writing : Len(s) = 0 => s = <<>>
  BY EmptySeq DEF Writing
<1>5. QED
  BY <1>2, <1>3, <1>4

(* A character is a text of one letter.                                     *)
LEMMA CharIs ==
  ASSUME NEW s \in Writing, NEW i \in 1 .. Len(s)
  PROVE  CharAt(s, i) = <<s[i]>> /\ s[i] \in Letter /\ CharAt(s, i) \in Writing
<1>1. CharAt(s, i) = SubSeq(s, i, i)
  BY Zenon DEF CharAt
<1>2. s[i] \in Letter
  BY ElementOfSeq DEF Writing
<1>3. i \in Int /\ \A k \in i .. i : s[k] \in Letter
  BY <1>2
<1> DEFINE c == SubSeq(s, i, i)
<1>4. c \in Seq(Letter) /\ Len(c) = 1 /\ c[1] = s[i]
  <2>1. /\ c \in Seq(Letter)
        /\ Len(c) = IF i <= i THEN i - i + 1 ELSE 0
        /\ \A k \in 1 .. i - i + 1 : c[k] = s[i + k - 1]
    BY <1>3, SubSeqProperties
  <2> HIDE DEF c
  <2>2. i - i + 1 = 1 /\ i <= i /\ 1 \in 1 .. 1 /\ i + 1 - 1 = i
    OBVIOUS
  <2>3. QED
    BY <2>1, <2>2
<1> HIDE DEF c
<1>5. c = <<s[i]>>
  BY <1>2, <1>4
<1>6. QED
  BY <1>1, <1>2, <1>4, <1>5 DEF Writing, c

(* Flattening writings gives a writing, and an empty one adds nothing.      *)
LEMMA ConcatIs ==
  ASSUME StringsAreSequences, NEW parts \in Seq(Writing)
  PROVE  Concat(parts) = FlattenSeq(parts) /\ FlattenSeq(parts) \in Writing
<1>1. Concat(parts) = FlattenSeq(parts \o <<NoText>>)
  BY Zenon DEF Concat, NoText
<1>2. NoText \in Writing /\ NoText = <<>>
  BY ShortTexts
<1>3. parts \in Seq(Seq(Letter)) /\ <<NoText>> \in Seq(Seq(Letter))
  BY <1>2 DEF Writing
<1>4. FlattenSeq(parts) \in Writing
  BY <1>3, FlattenIs DEF Writing
<1>5. FlattenSeq(parts \o <<NoText>>) = FlattenSeq(parts) \o FlattenSeq(<<NoText>>)
  BY <1>3, FlattenConcat
<1>6. FlattenSeq(<<NoText>>) = NoText
  BY <1>2, FlattenShort DEF Writing
<1>7. FlattenSeq(parts) \o <<>> = FlattenSeq(parts)
  BY <1>4, ConcatEmptySeq DEF Writing
<1>8. QED
  BY <1>1, <1>2, <1>4, <1>5, <1>6, <1>7

(* What is left of a text, character by character.                          *)
Left(s, k) == IF CharAt(s, k) \in FieldSep THEN NoText ELSE CharAt(s, k)
AllLeft(s) == [k \in 1 .. Len(s) |-> Left(s, k)]

(* They are writings, and a text without its white space is them in a row.  *)
LEMMA BareIs ==
  ASSUME StringsAreSequences, NEW s \in Writing
  PROVE  /\ AllLeft(s) \in Seq(Writing) /\ Len(AllLeft(s)) = Len(s)
         /\ Bare(s) = FlattenSeq(AllLeft(s)) /\ Bare(s) \in Writing
<1>1. \A k \in 1 .. Len(s) : Left(s, k) \in Writing
  BY ShortTexts, CharIs DEF Left
<1>2. Len(s) \in Nat
  BY LenProperties DEF Writing
<1>3. AllLeft(s) \in [1 .. Len(s) -> Writing]
  BY <1>1 DEF AllLeft
<1>4. AllLeft(s) \in Seq(Writing) /\ Len(AllLeft(s)) = Len(s)
  BY <1>2, <1>3
<1>5. Bare(s) = Concat(AllLeft(s))
  BY Zenon DEF Bare, AllLeft, Left, NoText
<1>6. QED
  BY <1>4, <1>5, ConcatIs

(* White space goes from a text as it goes from its parts.                  *)
LEMMA BareConcat ==
  ASSUME StringsAreSequences, NEW s \in Writing, NEW t \in Writing
  PROVE  s \o t \in Writing /\ Bare(s \o t) = Bare(s) \o Bare(t)
<1>1. PICK u : u = s \o t
  OBVIOUS
<1>2. /\ u \in Writing /\ Len(u) = Len(s) + Len(t)
      /\ \A i \in 1 .. Len(s) + Len(t) : u[i] = IF i <= Len(s) THEN s[i] ELSE t[i - Len(s)]
  BY <1>1, ConcatProperties DEF Writing
<1>3. Len(s) \in Nat /\ Len(t) \in Nat
  BY LenProperties DEF Writing
<1>4. /\ AllLeft(s) \in Seq(Writing) /\ Len(AllLeft(s)) = Len(s)
      /\ AllLeft(t) \in Seq(Writing) /\ Len(AllLeft(t)) = Len(t)
      /\ AllLeft(u) \in Seq(Writing) /\ Len(AllLeft(u)) = Len(s) + Len(t)
  BY <1>2, BareIs
<1>5. PICK x : x = AllLeft(s)
  OBVIOUS
<1>6. PICK y : y = AllLeft(t)
  OBVIOUS
<1>7. PICK both : both = x \o y
  OBVIOUS
<1>8. x \in Seq(Writing) /\ y \in Seq(Writing) /\ Len(x) = Len(s) /\ Len(y) = Len(t)
  BY <1>4, <1>5, <1>6
<1>9. /\ both \in Seq(Writing) /\ Len(both) = Len(x) + Len(y)
      /\ \A i \in 1 .. Len(x) + Len(y) :
           both[i] = IF i <= Len(x) THEN x[i] ELSE y[i - Len(x)]
  <2> HIDE DEF Writing
  <2>1. x \in Seq(Writing) /\ y \in Seq(Writing)
    BY <1>8
  <2>2. QED
    BY <1>7, <2>1, ConcatProperties
<1>10. /\ both \in Seq(Writing) /\ Len(both) = Len(s) + Len(t)
      /\ \A i \in 1 .. Len(s) + Len(t) :
           both[i] = IF i <= Len(s) THEN AllLeft(s)[i] ELSE AllLeft(t)[i - Len(s)]
  BY <1>5, <1>6, <1>8, <1>9
<1>11. ASSUME NEW i \in 1 .. Len(s) + Len(t) PROVE AllLeft(u)[i] = both[i]
  <2>1. AllLeft(u)[i] = Left(u, i) /\ CharAt(u, i) = <<u[i]>>
    BY <1>2, CharIs DEF AllLeft
  <2>2. CASE i <= Len(s)
    <3>1. i \in 1 .. Len(s) /\ u[i] = s[i]
      BY <1>2, <1>3, <2>2
    <3>2. CharAt(s, i) = <<s[i]>>
      BY <3>1, CharIs
    <3>3. both[i] = Left(s, i)
      BY <1>10, <2>2, <3>1 DEF AllLeft
    <3>4. QED
      BY <2>1, <3>1, <3>2, <3>3 DEF Left
  <2>3. CASE ~(i <= Len(s))
    <3>1. i - Len(s) \in 1 .. Len(t) /\ u[i] = t[i - Len(s)]
      BY <1>2, <1>3, <2>3
    <3>2. CharAt(t, i - Len(s)) = <<t[i - Len(s)]>>
      BY <3>1, CharIs
    <3>3. both[i] = Left(t, i - Len(s))
      BY <1>10, <2>3, <3>1 DEF AllLeft
    <3>4. QED
      BY <2>1, <3>1, <3>2, <3>3 DEF Left
  <2>4. QED
    BY <2>2, <2>3
<1>12. AllLeft(u) = both
  BY <1>4, <1>10, <1>11, SeqEqual
<1>13. FlattenSeq(both) = FlattenSeq(AllLeft(s)) \o FlattenSeq(AllLeft(t))
  BY <1>4, <1>5, <1>6, <1>7, FlattenConcat DEF Writing
<1>14. QED
  BY <1>1, <1>2, <1>12, <1>13, BareIs

(* Nothing is left of the empty text and of a blank.                        *)
LEMMA BareShort ==
  ASSUME StringsAreSequences
  PROVE  Bare(<<>>) = <<>> /\ Bare(NoText) = <<>> /\ Bare(Blank) = <<>>
<1>1. <<>> \in Writing /\ Len(<<>>) = 0
  BY EmptySeq DEF Writing
<1>2. \A s \in Writing : Len(s) = 0 => s = <<>>
  BY EmptySeq DEF Writing
<1>3. Bare(<<>>) = <<>>
  <2>1. AllLeft(<<>>) \in Seq(Writing) /\ Len(AllLeft(<<>>)) = 0
    BY <1>1, BareIs
  <2>2. AllLeft(<<>>) = <<>>
    BY <2>1, EmptySeq
  <2>3. QED
    BY <1>1, <2>2, BareIs, FlattenShort
<1>4. CharAt(Blank, 1) = Blank
  <2>1. CharAt(Blank, 1) = <<Blank[1]>> /\ CharAt(Blank, 1) \in Writing
    BY ShortTexts, CharIs
  <2>2. Blank \in Writing /\ Len(Blank) = 1
    BY ShortTexts
  <2>3. Blank = <<Blank[1]>>
    BY <2>2 DEF Writing
  <2>4. QED
    BY <2>1, <2>3
<1>5. Blank \in FieldSep
  BY Zenon DEF Blank, FieldSep
<1>6. AllLeft(Blank) = <<NoText>>
  <2>1. Len(Blank) = 1
    BY ShortTexts
  <2>2. \A k \in 1 .. 1 : Left(Blank, k) = NoText
    <3>1. \A k \in 1 .. 1 : k = 1
      OBVIOUS
    <3>2. QED
      BY <1>4, <1>5, <3>1 DEF Left
  <2>3. AllLeft(Blank) = [k \in 1 .. 1 |-> NoText]
    BY <2>1, <2>2 DEF AllLeft
  <2>4. QED
    BY <2>3
<1>7. Bare(Blank) = <<>>
  <2>1. FlattenSeq(<<NoText>>) = NoText
    BY ShortTexts, FlattenShort DEF Writing
  <2>2. QED
    BY <1>6, <2>1, ShortTexts, BareIs
<1>8. QED
  BY <1>3, <1>7, ShortTexts

(* A separator leaves nothing.                                              *)
LEMMA BareSeparator ==
  ASSUME StringsAreSequences, NEW s \in Writing, NEW i \in 1 .. Len(s), IsSep(s, i)
  PROVE  Bare(CharAt(s, i)) = <<>>
<1>1. PICK c : c = CharAt(s, i)
  OBVIOUS
<1>2. c = <<s[i]>> /\ c \in Writing /\ c \in FieldSep
  BY <1>1, CharIs DEF IsSep
<1>3. Len(c) = 1
  BY <1>2
<1>4. CharAt(c, 1) = <<c[1]>> /\ c[1] = s[i]
  BY <1>2, <1>3, CharIs
<1>5. AllLeft(c) = [k \in 1 .. 1 |-> NoText]
  <2>1. \A k \in 1 .. 1 : Left(c, k) = NoText
    <3>1. \A k \in 1 .. 1 : k = 1
      OBVIOUS
    <3>2. QED
      BY <1>2, <1>4, <3>1 DEF Left
  <2>2. QED
    BY <1>3, <2>1 DEF AllLeft
<1>6. AllLeft(c) = <<NoText>>
  BY <1>5
<1>7. FlattenSeq(<<NoText>>) = NoText
  BY ShortTexts, FlattenShort DEF Writing
<1>8. QED
  BY <1>1, <1>2, <1>6, <1>7, ShortTexts, BareIs

(* Pieces of writing in a row are flattened one after the other.            *)
LEMMA FlattenFirst ==
  ASSUME NEW x \in Writing, NEW r \in Seq(Writing)
  PROVE  FlattenSeq(<<x>> \o r) = x \o FlattenSeq(r)
<1>1. <<x>> \in Seq(Seq(Letter)) /\ r \in Seq(Seq(Letter))
  BY DEF Writing
<1>2. FlattenSeq(<<x>> \o r) = FlattenSeq(<<x>>) \o FlattenSeq(r)
  BY <1>1, FlattenConcat
<1>3. FlattenSeq(<<x>>) = x
  BY FlattenShort DEF Writing
<1>4. QED
  BY <1>2, <1>3

(* The fields of a text are the text but for white space: those that begin  *)
(* at position i are what follows it.                                       *)
FieldsFit(s, from, i) ==
  /\ from[i] \in Seq(Writing) /\ (~IsSep(s, i) => from[i] # <<>>)
  /\ Bare(FlattenSeq(from[i])) = Bare(SubSeq(s, i, Len(s)))

(* What holds from the next position on holds from position i on.           *)
LEMMA FieldsFitBack ==
  ASSUME StringsAreSequences, NEW s \in Writing, NEW from, NEW i \in 1 .. Len(s),
         from[i] = FieldsFrom(s, i, from[i + 1]), FieldsFit(s, from, i + 1)
  PROVE  FieldsFit(s, from, i)
<1>1. PICK c : c = CharAt(s, i)
  OBVIOUS
<1>2. PICK rest : rest = from[i + 1]
  OBVIOUS
<1>3. PICK text : text = SubSeq(s, i + 1, Len(s))
  OBVIOUS
<1>4. PICK f : f = FlattenSeq(rest)
  OBVIOUS
<1>5. c = <<s[i]>> /\ c \in Writing
  BY <1>1, CharIs
<1>6. text \in Writing
  <2>1. i + 1 \in Int /\ Len(s) \in Int /\ \A k \in i + 1 .. Len(s) : k \in 1 .. Len(s)
    BY LenProperties DEF Writing
  <2>2. \A k \in i + 1 .. Len(s) : s[k] \in Letter
    BY <2>1, ElementOfSeq DEF Writing
  <2>3. QED
    BY <1>3, <2>1, <2>2, SubSeqProperties DEF Writing
<1>7. SubSeq(s, i, Len(s)) = c \o text
  <2>1. Len(s) \in i .. Len(s)
    BY LenProperties DEF Writing
  <2>2. QED
    BY <1>3, <1>5, <2>1, SubSeqRecursiveFirst DEF Writing
<1>8. /\ rest \in Seq(Writing) /\ f \in Writing
      /\ (~IsSep(s, i + 1) => rest # <<>>) /\ Bare(f) = Bare(text)
  BY <1>2, <1>3, <1>4, ConcatIs DEF FieldsFit
<1>9. Bare(SubSeq(s, i, Len(s))) = Bare(c) \o Bare(f)
  <2>1. Bare(c \o text) = Bare(c) \o Bare(text)
    BY <1>5, <1>6, BareConcat
  <2>2. QED
    BY <1>7, <1>8, <2>1
<1>10. CASE IsSep(s, i)
  <2>1. Bare(c) = <<>>
    BY <1>1, <1>10, BareSeparator
  <2>2. <<>> \o Bare(f) = Bare(f)
    BY <1>8, BareIs, ConcatEmptySeq DEF Writing
  <2>3. from[i] = rest
    BY <1>2, <1>10 DEF FieldsFrom
  <2>4. QED
    BY <1>4, <1>8, <1>9, <1>10, <2>1, <2>2, <2>3 DEF FieldsFit
<1>11. ASSUME from[i] \in Seq(Writing), from[i] # <<>>, FlattenSeq(from[i]) = c \o f
       PROVE  FieldsFit(s, from, i)
  <2>1. Bare(c \o f) = Bare(c) \o Bare(f)
    BY <1>5, <1>8, BareConcat
  <2>2. QED
    BY <1>9, <1>11, <2>1 DEF FieldsFit
<1>12. ASSUME NEW x \in Writing, NEW r \in Seq(Writing)
       PROVE  <<x>> \o r \in Seq(Writing) /\ <<x>> \o r # <<>>
  <2>1. <<x>> \in Seq(Writing) /\ Len(<<x>>) = 1 /\ Len(r) \in Nat
    BY LenProperties
  <2>2. <<x>> \o r \in Seq(Writing) /\ Len(<<x>> \o r) = 1 + Len(r)
    BY <2>1, ConcatProperties
  <2>3. QED
    BY <2>1, <2>2
<1>13. CASE ~IsSep(s, i) /\ IsSep(s, i + 1)
  <2>1. from[i] = <<c>> \o rest
    BY <1>1, <1>2, <1>13 DEF FieldsFrom
  <2>2. FlattenSeq(from[i]) = c \o f
    BY <1>4, <1>5, <1>8, <2>1, FlattenFirst
  <2>3. QED
    BY <1>5, <1>8, <1>11, <1>12, <2>1, <2>2
<1>14. CASE ~IsSep(s, i) /\ ~IsSep(s, i + 1)
  <2>1. from[i] = <<c \o Head(rest)>> \o Tail(rest)
    BY <1>1, <1>2, <1>14 DEF FieldsFrom
  <2>2. PICK h : h = Head(rest)
    OBVIOUS
  <2>3. PICK r : r = Tail(rest)
    OBVIOUS
  <2>4. h \in Writing /\ r \in Seq(Writing) /\ rest = <<h>> \o r
    BY <1>8, <1>14, <2>2, <2>3, HeadFirst
  <2>5. c \o h \in Writing
    BY <1>5, <2>4, BareConcat
  <2>6. FlattenSeq(from[i]) = (c \o h) \o FlattenSeq(r)
    BY <2>1, <2>2, <2>3, <2>4, <2>5, FlattenFirst
  <2>7. f = h \o FlattenSeq(r) /\ FlattenSeq(r) \in Writing
    BY <1>4, <2>4, FlattenFirst, ConcatIs
  <2>8. (c \o h) \o FlattenSeq(r) = c \o (h \o FlattenSeq(r))
    <3>1. c \in Seq(Letter) /\ h \in Seq(Letter) /\ FlattenSeq(r) \in Seq(Letter)
      BY <1>5, <2>4, <2>7 DEF Writing
    <3>2. QED
      BY <3>1, ConcatAssociative
  <2>9. QED
    BY <1>11, <1>12, <2>1, <2>2, <2>3, <2>4, <2>5, <2>6, <2>7, <2>8
<1>15. QED
  BY <1>10, <1>13, <1>14

(* So the fields of a text in a row are the text, but for white space.      *)
LEMMA FieldsKeepText ==
  ASSUME StringsAreSequences, NEW s \in Writing
  PROVE  Fields(s) \in Seq(Writing) /\ Bare(FlattenSeq(Fields(s))) = Bare(s)
<1>1. PICK from : /\ Fields(s) = from[1] /\ from[Len(s) + 1] = <<>>
                  /\ \A i \in 1 .. Len(s) : from[i] = FieldsFrom(s, i, from[i + 1])
  BY FieldsSteps
<1>2. PICK n : n = Len(s) + 1
  OBVIOUS
<1>3. n \in Nat /\ n - 1 = Len(s) /\ 1 \in 1 .. n
  BY <1>2, LenProperties DEF Writing
<1> DEFINE Holds == {i \in 1 .. n : FieldsFit(s, from, i)}
<1>4. ASSUME NEW i \in 1 .. n, \A k \in 1 .. n : k > i => k \in Holds
      PROVE  i \in Holds
  <2>1. CASE i = n
    <3>1. IsSep(s, i)
      BY <1>3, <2>1 DEF IsSep
    <3>2. SubSeq(s, i, Len(s)) = <<>>
      <4>1. i \in Int /\ Len(s) \in Int /\ Len(s) < i
        BY <1>3, <2>1
      <4>2. QED
        BY <4>1, SubSeqEmpty
    <3>3. from[i] = <<>> /\ <<>> \in Seq(Writing)
      BY <1>1, <1>2, <2>1
    <3>4. FlattenSeq(<<>>) = <<>>
      BY FlattenShort
    <3>5. QED
      BY <3>1, <3>2, <3>3, <3>4 DEF FieldsFit
  <2>2. CASE i # n
    <3>1. i \in 1 .. Len(s) /\ i + 1 \in 1 .. n /\ i + 1 > i
      BY <1>3, <2>2
    <3>2. FieldsFit(s, from, i + 1)
      BY <1>4, <3>1
    <3>3. from[i] = FieldsFrom(s, i, from[i + 1])
      BY <1>1, <3>1
    <3>4. QED
      BY <3>1, <3>2, <3>3, FieldsFitBack
  <2>3. QED
    BY <2>1, <2>2
<1>5. Holds \in SUBSET (1 .. n)
  OBVIOUS
<1> HIDE DEF Holds
<1>6. Holds = 1 .. n
  BY <1>3, <1>4, <1>5, InductionFromTheEnd
<1>7. SubSeq(s, 1, Len(s)) = s
  BY SubSeqFull DEF Writing
<1>8. QED
  BY <1>1, <1>3, <1>6, <1>7 DEF Holds, FieldsFit

(* ... and so is the last piece after the others.                           *)
LEMMA FlattenLast ==
  ASSUME NEW r \in Seq(Writing), NEW x \in Writing
  PROVE  r \o <<x>> \in Seq(Writing) /\ FlattenSeq(r \o <<x>>) = FlattenSeq(r) \o x
<1>1. <<x>> \in Seq(Seq(Letter)) /\ r \in Seq(Seq(Letter))
  BY DEF Writing
<1>2. FlattenSeq(r \o <<x>>) = FlattenSeq(r) \o FlattenSeq(<<x>>)
  BY <1>1, FlattenConcat
<1>3. FlattenSeq(<<x>>) = x
  BY FlattenShort DEF Writing
<1>4. r \o <<x>> \in Seq(Seq(Letter))
  <2>1. PICK y : y = <<x>>
    OBVIOUS
  <2>2. r \o y \in Seq(Seq(Letter))
    BY <1>1, <2>1, ConcatProperties
  <2>3. QED
    BY <2>1, <2>2
<1>5. QED
  BY <1>2, <1>3, <1>4 DEF Writing

(* What an expansion has gathered: the fields so far and the one being      *)
(* built, in a row.                                                         *)
Gathering == [fields : Seq(Writing), cur : Writing]
Gathered(acc) == FlattenSeq(acc.fields) \o acc.cur

(* It is a writing.                                                         *)
LEMMA GatheredIs ==
  ASSUME StringsAreSequences, NEW acc \in Gathering
  PROVE  Gathered(acc) \in Writing
<1>1. FlattenSeq(acc.fields) \in Writing /\ acc.cur \in Writing
  BY ConcatIs DEF Gathering
<1>2. QED
  BY <1>1, BareConcat DEF Gathered

(* Ending a field loses nothing.                                            *)
LEMMA FlushKeeps ==
  ASSUME StringsAreSequences, NEW acc \in Gathering
  PROVE  /\ FlushField(acc) \in Gathering /\ FlushField(acc).cur = <<>>
         /\ Gathered(FlushField(acc)) = Gathered(acc)
<1>1. FlushField(acc) = IF acc.cur = NoText THEN acc
                        ELSE [fields |-> Append(acc.fields, acc.cur), cur |-> NoText]
  BY Zenon DEF FlushField, NoText
<1>2. CASE acc.cur = NoText
  BY <1>1, <1>2, ShortTexts
<1>3. CASE acc.cur # NoText
  <2>1. PICK f : f = Append(acc.fields, acc.cur)
    OBVIOUS
  <2>2. acc.fields \in Seq(Writing) /\ acc.cur \in Writing
    BY DEF Gathering
  <2>3. f = acc.fields \o <<acc.cur>>
    BY <2>1, <2>2, AppendIsConcat
  <2>4. f \in Seq(Writing) /\ FlattenSeq(f) = FlattenSeq(acc.fields) \o acc.cur
    BY <2>2, <2>3, FlattenLast
  <2>5. FlushField(acc) = [fields |-> f, cur |-> <<>>]
    BY <1>1, <1>3, <2>1, ShortTexts
  <2>6. <<>> \in Writing
    BY DEF Writing
  <2>7. FlattenSeq(f) \o <<>> = FlattenSeq(f)
    BY <2>4, ConcatIs, ConcatEmptySeq DEF Writing
  <2>8. QED
    BY <2>4, <2>5, <2>6, <2>7 DEF Gathering, Gathered
<1>4. QED
  BY <1>2, <1>3

(* Nor does ending it where a condition holds.                              *)
LEMMA FlushIfKeeps ==
  ASSUME StringsAreSequences, NEW acc \in Gathering, NEW condition
  PROVE  /\ FlushIf(condition, acc) \in Gathering
         /\ Gathered(FlushIf(condition, acc)) = Gathered(acc)
BY FlushKeeps DEF FlushIf

(* A text is added as it is, ...                                            *)
LEMMA ExtendAdds ==
  ASSUME StringsAreSequences, NEW acc \in Gathering, NEW text \in Writing
  PROVE  /\ Extend(acc, text) \in Gathering
         /\ Gathered(Extend(acc, text)) = Gathered(acc) \o text
<1>1. PICK more : more = acc.cur \o text
  OBVIOUS
<1>2. acc.cur \in Writing /\ FlattenSeq(acc.fields) \in Writing
  BY ConcatIs DEF Gathering
<1>3. more \in Writing
  BY <1>1, <1>2, BareConcat
<1>4. Extend(acc, text) = [acc EXCEPT !.cur = more]
  BY <1>1 DEF Extend
<1>5. /\ Extend(acc, text) \in Gathering
      /\ Extend(acc, text).fields = acc.fields /\ Extend(acc, text).cur = more
  BY <1>3, <1>4 DEF Gathering
<1>6. (FlattenSeq(acc.fields) \o acc.cur) \o text = FlattenSeq(acc.fields) \o more
  <2>1. PICK f : f = FlattenSeq(acc.fields)
    OBVIOUS
  <2>2. PICK c : c = acc.cur
    OBVIOUS
  <2>3. f \in Writing /\ c \in Writing
    BY <1>2, <2>1, <2>2
  <2>4. (f \o c) \o text = f \o (c \o text)
    <3>1. f \in Seq(Letter) /\ c \in Seq(Letter) /\ text \in Seq(Letter)
      BY <2>3 DEF Writing
    <3>2. QED
      BY <3>1, ConcatAssociative
  <2>5. QED
    BY <1>1, <2>1, <2>2, <2>4
<1>7. QED
  BY <1>5, <1>6 DEF Gathered

(* ... and parts one after the other.                                       *)
LEMMA AddFieldsAdds ==
  ASSUME StringsAreSequences, NEW acc \in Gathering, NEW parts \in Seq(Writing)
  PROVE  /\ AddFields(acc, parts) \in Gathering
         /\ Gathered(AddFields(acc, parts)) = Gathered(acc) \o FlattenSeq(parts)
<1>1. acc.cur \in Writing /\ acc.fields \in Seq(Writing)
  BY DEF Gathering
<1>2. PICK f : f = FlattenSeq(acc.fields)
  OBVIOUS
<1>3. f \in Writing
  BY <1>1, <1>2, ConcatIs
<1>4. CASE parts = <<>>
  <2>1. FlattenSeq(parts) = <<>>
    BY <1>4, FlattenShort
  <2>2. Gathered(acc) \o <<>> = Gathered(acc)
    BY GatheredIs, ConcatEmptySeq DEF Writing
  <2>3. QED
    BY <1>4, <2>1, <2>2 DEF AddFields
<1>5. CASE parts # <<>>
  <2>1. PICK h : h = Head(parts)
    OBVIOUS
  <2>2. PICK t : t = Tail(parts)
    OBVIOUS
  <2>3. h \in Writing /\ t \in Seq(Writing) /\ parts = <<h>> \o t
    BY <1>5, <2>1, <2>2, HeadFirst
  <2>4. PICK x : x = acc.cur \o h
    OBVIOUS
  <2>5. x \in Writing
    BY <1>1, <2>3, <2>4, BareConcat
  <2>6. PICK first : first = acc.fields \o <<x>>
    OBVIOUS
  <2>7. first \in Seq(Writing) /\ FlattenSeq(first) = f \o x
    BY <1>1, <1>2, <2>5, <2>6, FlattenLast
  <2>8. PICK all : all = first \o t
    OBVIOUS
  <2>9. /\ all \in Seq(Writing) /\ all # <<>>
        /\ FlattenSeq(all) = (f \o x) \o FlattenSeq(t)
    <3>1. all \in Seq(Writing) /\ Len(all) = Len(first) + Len(t)
      BY <2>3, <2>7, <2>8, ConcatProperties
    <3>2. Len(first) = Len(acc.fields) + 1
      <4>1. <<x>> \in Seq(Writing) /\ Len(<<x>>) = 1
        BY <2>5
      <4>2. QED
        BY <1>1, <2>6, <4>1, ConcatProperties
    <3>3. Len(acc.fields) \in Nat /\ Len(t) \in Nat
      BY <1>1, <2>3, LenProperties
    <3>4. all # <<>>
      BY <3>1, <3>2, <3>3
    <3>5. FlattenSeq(all) = FlattenSeq(first) \o FlattenSeq(t)
      BY <2>3, <2>7, <2>8, FlattenConcat DEF Writing
    <3>6. QED
      BY <2>7, <3>1, <3>4, <3>5
  <2>10. PICK g : g = FlattenSeq(t)
    OBVIOUS
  <2>11. g \in Writing /\ FlattenSeq(parts) = h \o g
    BY <2>3, <2>10, FlattenFirst, ConcatIs
  <2>12. AddFields(acc, parts) = [fields |-> Front(all), cur |-> Last(all)]
    BY <1>5, <2>1, <2>2, <2>4, <2>6, <2>8, Zenon DEF AddFields
  <2>13. /\ Front(all) \in Seq(Writing) /\ Last(all) \in Writing
         /\ FlattenSeq(all) = FlattenSeq(Front(all)) \o Last(all)
    <3>1. /\ Front(all) \in Seq(Writing) /\ Last(all) \in Writing
          /\ all = Front(all) \o <<Last(all)>>
      BY <2>9, LastAfterFront
    <3>2. QED
      BY <3>1, FlattenLast
  <2>14. /\ AddFields(acc, parts) \in Gathering
         /\ Gathered(AddFields(acc, parts)) = FlattenSeq(all)
    BY <2>12, <2>13 DEF Gathering, Gathered
  <2>15. (f \o x) \o g = (f \o acc.cur) \o (h \o g)
    <3>1. Regroups(Letter)
      BY ConcatRegroups
    <3>2. (f \o x) \o g = ((f \o acc.cur) \o h) \o g
      BY <1>1, <1>3, <2>3, <2>4, <3>1 DEF Regroups, Writing
    <3>3. f \o acc.cur \in Writing
      BY <1>1, <1>3, BareConcat
    <3>4. ((f \o acc.cur) \o h) \o g = (f \o acc.cur) \o (h \o g)
      BY <2>3, <2>11, <3>1, <3>3 DEF Regroups, Writing
    <3>5. QED
      BY <3>2, <3>4
  <2>16. QED
    BY <1>2, <2>9, <2>10, <2>11, <2>14, <2>15 DEF Gathered
<1>6. QED
  BY <1>4, <1>5

(* So a piece adds its text, but for white space.                           *)
PieceType == [text : Writing, split : BOOLEAN]

(* Whether or not the piece is split.                                       *)
LEMMA AddPieceAdds ==
  ASSUME StringsAreSequences, NEW acc \in Gathering, NEW piece \in PieceType
  PROVE  /\ AddPiece(acc, piece) \in Gathering
         /\ Bare(Gathered(AddPiece(acc, piece))) = Bare(Gathered(acc)) \o Bare(piece.text)
<1>1. piece.text \in Writing
  BY DEF PieceType
<1>2. PICK g : g = Gathered(acc)
  OBVIOUS
<1>3. g \in Writing
  BY <1>2, GatheredIs
<1>4. CASE ~piece.split
  <2>1. AddPiece(acc, piece) = Extend(acc, piece.text)
    BY <1>4 DEF AddPiece
  <2>2. AddPiece(acc, piece) \in Gathering /\ Gathered(AddPiece(acc, piece)) = g \o piece.text
    BY <1>1, <1>2, <2>1, ExtendAdds
  <2>3. Bare(g \o piece.text) = Bare(g) \o Bare(piece.text)
    BY <1>1, <1>3, BareConcat
  <2>4. QED
    BY <1>2, <2>2, <2>3
<1>5. CASE piece.split
  <2>1. PICK lead, trail, parts :
          /\ AddPiece(acc, piece) = FlushIf(trail, AddFields(FlushIf(lead, acc), parts))
          /\ parts = Fields(piece.text)
    BY <1>5 DEF AddPiece
  <2>2. parts \in Seq(Writing) /\ Bare(FlattenSeq(parts)) = Bare(piece.text)
    BY <1>1, <2>1, FieldsKeepText
  <2>3. PICK a : a = FlushIf(lead, acc)
    OBVIOUS
  <2>4. a \in Gathering /\ Gathered(a) = g
    BY <1>2, <2>3, FlushIfKeeps
  <2>5. PICK b : b = AddFields(a, parts)
    OBVIOUS
  <2>6. b \in Gathering /\ Gathered(b) = g \o FlattenSeq(parts)
    BY <2>2, <2>4, <2>5, AddFieldsAdds
  <2>7. AddPiece(acc, piece) \in Gathering /\ Gathered(AddPiece(acc, piece)) = Gathered(b)
    BY <2>1, <2>3, <2>5, <2>6, FlushIfKeeps
  <2>8. FlattenSeq(parts) \in Writing
    BY <2>2, ConcatIs
  <2>9. Bare(g \o FlattenSeq(parts)) = Bare(g) \o Bare(FlattenSeq(parts))
    BY <1>3, <2>8, BareConcat
  <2>10. QED
    BY <1>2, <2>2, <2>6, <2>7, <2>9
<1>6. QED
  BY <1>4, <1>5

(* What is left of texts in a row is what is left of each.                  *)
Bares(parts) == [k \in 1 .. Len(parts) |-> Bare(parts[k])]

(* They are writings, one for each part.                                    *)
LEMMA BaresIs ==
  ASSUME StringsAreSequences, NEW parts \in Seq(Writing)
  PROVE  /\ Len(parts) \in Nat /\ \A k \in 1 .. Len(parts) : parts[k] \in Writing
         /\ Bares(parts) \in [1 .. Len(parts) -> Seq(Letter)]
<1>1. Len(parts) \in Nat /\ \A k \in 1 .. Len(parts) : parts[k] \in Writing
  BY LenProperties, ElementOfSeq
<1>2. \A k \in 1 .. Len(parts) : Bare(parts[k]) \in Seq(Letter)
  BY <1>1, BareIs DEF Writing
<1>3. QED
  BY <1>1, <1>2 DEF Bares

(* White space goes from texts in a row as it goes from each of them.       *)
LEMMA BareFlatten ==
  ASSUME StringsAreSequences, NEW parts \in Seq(Writing)
  PROVE  Bare(FlattenSeq(parts)) = FlattenSeq(Bares(parts))
<1>1. PICK n : n = Len(parts)
  OBVIOUS
<1>2. PICK bare : bare = Bares(parts)
  OBVIOUS
<1>3. /\ n \in Nat /\ parts \in [1 .. n -> Seq(Letter)]
      /\ \A k \in 1 .. n : parts[k] \in Writing
  BY <1>1, BaresIs, LenProperties DEF Writing
<1>4. bare \in [1 .. n -> Seq(Letter)] /\ \A k \in 1 .. n : bare[k] = Bare(parts[k])
  BY <1>1, <1>2, BaresIs DEF Bares
<1>5. PICK f : f \in Flattenings(Letter, n, parts)
  BY <1>3, FlattenSteps
<1>6. PICK g : g \in Flattenings(Letter, n, bare)
  BY <1>3, <1>4, FlattenSteps
<1>7. /\ f \in [0 .. n -> Writing] /\ f[0] = <<>> /\ f[n] = FlattenSeq(parts)
      /\ \A k \in 1 .. n : f[k] = f[k - 1] \o parts[k]
  BY <1>5 DEF Flattenings, Writing
<1>8. /\ g[0] = <<>> /\ g[n] = FlattenSeq(bare)
      /\ \A k \in 1 .. n : g[k] = g[k - 1] \o bare[k]
  BY <1>6 DEF Flattenings
<1> DEFINE Holds == {k \in 0 .. n : Bare(f[k]) = g[k]}
<1>9. 0 \in Holds
  <2>1. 0 \in 0 .. n
    BY <1>3
  <2>2. QED
    BY <1>7, <1>8, <2>1, BareShort
<1>10. ASSUME NEW k \in 1 .. n, k - 1 \in Holds PROVE k \in Holds
  <2>1. k \in 0 .. n /\ k - 1 \in 0 .. n
    BY <1>3
  <2>2. f[k - 1] \in Writing
    BY <1>7, <2>1
  <2>3. Bare(f[k - 1] \o parts[k]) = Bare(f[k - 1]) \o Bare(parts[k])
    BY <1>3, <2>2, BareConcat
  <2>4. QED
    BY <1>4, <1>7, <1>8, <1>10, <2>1, <2>3
<1> HIDE DEF Holds
<1>11. n \in Holds
  <2>1. n \in 0 .. n
    BY <1>3
  <2>2. QED
    BY <1>3, <1>9, <1>10, <2>1, InductionUpTo
<1>12. QED
  BY <1>2, <1>7, <1>8, <1>11 DEF Holds

(* Splitting pieces into fields loses nothing but white space.              *)
BareTexts(pieces) == [k \in 1 .. Len(pieces) |-> Bare(pieces[k].text)]

(* The fields of the pieces in a row are their texts in a row.              *)
LEMMA SplitFieldsKeepText ==
  ASSUME StringsAreSequences, NEW pieces \in Seq(PieceType)
  PROVE  /\ SplitFields(pieces) \in Seq(Writing)
         /\ Bare(FlattenSeq(SplitFields(pieces))) = FlattenSeq(BareTexts(pieces))
<1>1. PICK n : n = Len(pieces)
  OBVIOUS
<1>2. n \in Nat /\ \A k \in 1 .. n : pieces[k] \in PieceType
  BY <1>1, LenProperties, ElementOfSeq
<1>3. PICK f : f = CHOOSE g : Splits(pieces, n, g)
  OBVIOUS
<1>4. Splits(pieces, n, f)
  BY <1>2, <1>3, SplitExists
<1>5. SplitFields(pieces) = FlushField(f[n]).fields
  BY <1>1, <1>3 DEF SplitFields, Splits
<1>6. PICK bare : bare = BareTexts(pieces)
  OBVIOUS
<1>7. bare \in [1 .. n -> Seq(Letter)] /\ \A k \in 1 .. n : bare[k] = Bare(pieces[k].text)
  <2>1. \A k \in 1 .. n : pieces[k].text \in Writing
    BY <1>2 DEF PieceType
  <2>2. \A k \in 1 .. n : Bare(pieces[k].text) \in Seq(Letter)
    BY <2>1, BareIs DEF Writing
  <2>3. QED
    BY <1>1, <1>6, <2>2 DEF BareTexts
<1>8. PICK g : g \in Flattenings(Letter, n, bare)
  BY <1>2, <1>7, FlattenSteps
<1>9. /\ g[0] = <<>> /\ g[n] = FlattenSeq(bare)
      /\ \A k \in 1 .. n : g[k] = g[k - 1] \o bare[k]
  BY <1>8 DEF Flattenings
<1>10. f[0] = NoFields /\ \A k \in 1 .. n : f[k] = AddPiece(f[k - 1], pieces[k])
  <2>1. 0 \in 0 .. n
    BY <1>2
  <2>2. f[0] = NoFields
    BY <1>4, <2>1 DEF Splits
  <2>3. ASSUME NEW k \in 1 .. n PROVE f[k] = AddPiece(f[k - 1], pieces[k])
    <3>1. k \in 0 .. n /\ k # 0
      OBVIOUS
    <3>2. QED
      BY <1>4, <3>1 DEF Splits
  <2>4. QED
    BY <2>2, <2>3
<1> DEFINE Fits(k) == f[k] \in Gathering /\ Bare(Gathered(f[k])) = g[k]
           Holds == {k \in 0 .. n : Fits(k)}
<1>11. Fits(0)
  <2>1. NoFields = [fields |-> <<>>, cur |-> NoText]
    BY Zenon DEF NoFields, NoText
  <2>2. NoFields \in Gathering /\ NoFields.fields = <<>> /\ NoFields.cur = <<>>
    BY <2>1, ShortTexts DEF Gathering
  <2>3. FlattenSeq(<<>>) = <<>> /\ <<>> \o <<>> = <<>>
    BY FlattenShort
  <2>4. Gathered(NoFields) = <<>>
    BY <2>2, <2>3 DEF Gathered
  <2>5. QED
    BY <1>9, <1>10, <2>2, <2>4, BareShort
<1>12. ASSUME NEW k \in 1 .. n, Fits(k - 1) PROVE Fits(k)
  BY <1>2, <1>7, <1>9, <1>10, <1>12, AddPieceAdds
<1> HIDE DEF Fits
<1>13. n \in Holds
  <2>1. n \in 0 .. n /\ 0 \in 0 .. n
    BY <1>2
  <2>2. 0 \in Holds
    BY <1>11, <2>1
  <2>3. ASSUME NEW k \in 1 .. n, k - 1 \in Holds PROVE k \in Holds
    <3>1. k \in 0 .. n
      OBVIOUS
    <3>2. QED
      BY <1>12, <2>3, <3>1
  <2> HIDE DEF Holds
  <2>4. QED
    BY <1>2, <2>1, <2>2, <2>3, InductionUpTo
<1>14. f[n] \in Gathering /\ Bare(Gathered(f[n])) = FlattenSeq(bare)
  BY <1>9, <1>13 DEF Fits
<1>15. PICK last : last = FlushField(f[n])
  OBVIOUS
<1>16. last \in Gathering /\ last.cur = <<>> /\ Gathered(last) = Gathered(f[n])
  BY <1>14, <1>15, FlushKeeps
<1>17. last.fields \in Seq(Writing)
  BY <1>16 DEF Gathering
<1>18. FlattenSeq(last.fields) \o <<>> = FlattenSeq(last.fields)
  BY <1>17, ConcatIs, ConcatEmptySeq DEF Writing
<1>19. QED
  BY <1>5, <1>6, <1>14, <1>15, <1>16, <1>17, <1>18 DEF Gathered

(* A word all of whose pieces are known is expanded to their texts, but for *)
(* white space.                                                             *)
Known(n, known) ==
  /\ known = [i \in 1 .. n |-> known[i]]
  /\ \A i \in 1 .. n : known[i] # {} /\ known[i] \subseteq PieceType
KnownTexts(n, known) == [i \in 1 .. n |-> Bare(Get(known[i]).text)]

(* The empty field of a quoted word adds nothing.                           *)
LEMMA ExpansionKeepsText ==
  ASSUME StringsAreSequences, NEW n \in Nat, NEW known, Known(n, known), NEW quoted
  PROVE  /\ Expansion(known, quoted).fields \in Seq(Writing)
         /\ Bare(FlattenSeq(Expansion(known, quoted).fields)) = FlattenSeq(KnownTexts(n, known))
<1>1. DOMAIN known = 1 .. n
  BY DEF Known
<1>2. PICK p : p = [i \in 1 .. n |-> Get(known[i])]
  OBVIOUS
<1>3. p \in [1 .. n -> PieceType] /\ \A i \in 1 .. n : p[i] = Get(known[i])
  <2>1. \A i \in 1 .. n : Get(known[i]) \in PieceType
    BY GetMember DEF Known
  <2>2. QED
    BY <1>2, <2>1
<1>4. p \in Seq(PieceType) /\ Len(p) = n
  BY <1>3
<1>5. PICK singles : singles = [i \in DOMAIN known |-> OneIf(known[i] # {}, Get(known[i]))]
  OBVIOUS
<1>6. singles = [i \in 1 .. n |-> <<p[i]>>]
  <2>1. \A i \in 1 .. n : OneIf(known[i] # {}, Get(known[i])) = <<p[i]>>
    BY <1>3 DEF OneIf, Known
  <2>2. QED
    BY <1>1, <1>5, <2>1
<1>7. FlattenSeq(singles) = p
  BY <1>3, <1>6, FlattenSingles
<1>8. BareTexts(p) = KnownTexts(n, known)
  BY <1>3, <1>4 DEF BareTexts, KnownTexts
<1>9. PICK fields : fields = SplitFields(p)
  OBVIOUS
<1>10. fields \in Seq(Writing) /\ Bare(FlattenSeq(fields)) = FlattenSeq(KnownTexts(n, known))
  BY <1>4, <1>8, <1>9, SplitFieldsKeepText
<1>11. PICK e : e = Expansion(known, quoted).fields
  OBVIOUS
<1>12. \A f : f = SplitFields(FlattenSeq(singles)) =>
         e = IF quoted /\ f = <<>> THEN <<NoText>> ELSE f
  BY <1>5, <1>11, Zenon DEF Expansion, NoText
<1>13. SplitFields(FlattenSeq(singles)) = fields
  BY <1>7, <1>9
<1>14. (e = <<NoText>> /\ fields = <<>>) \/ e = fields
  BY <1>12, <1>13, Zenon
<1>15. <<NoText>> \in Seq(Writing) /\ FlattenSeq(<<NoText>>) = <<>> /\ FlattenSeq(<<>>) = <<>>
  <2>1. NoText \in Writing /\ NoText = <<>>
    BY ShortTexts
  <2>2. FlattenSeq(<<NoText>>) = NoText /\ FlattenSeq(<<>>) = <<>>
    BY <2>1, FlattenShort DEF Writing
  <2>3. QED
    BY <2>1, <2>2
<1>16. QED
  BY <1>10, <1>11, <1>14, <1>15

(* Blanks between texts do not matter either.                               *)
LEMMA JoinedIs ==
  ASSUME StringsAreSequences, NEW parts \in Seq(Writing)
  PROVE  Joined(parts) \in Writing /\ Bare(Joined(parts)) = Bare(FlattenSeq(parts))
<1>1. PICK n : n = Len(parts)
  OBVIOUS
<1>2. n \in Nat /\ DOMAIN parts = 1 .. n /\ \A k \in 1 .. n : parts[k] \in Writing
  BY <1>1, BaresIs
<1>3. PICK j : j = [k \in 1 .. n |-> IF k = 1 THEN parts[k] ELSE Blank \o parts[k]]
  OBVIOUS
<1>4. Joined(parts) = Concat(j)
  <2>1. j = [k \in DOMAIN parts |-> IF k = 1 THEN parts[k] ELSE Blank \o parts[k]]
    BY <1>2, <1>3
  <2>2. QED
    BY <2>1, Zenon DEF Joined, Blank
<1>5. ASSUME NEW k \in 1 .. n PROVE j[k] \in Writing /\ Bare(j[k]) = Bare(parts[k])
  <2>1. parts[k] \in Writing /\ Blank \in Writing
    BY <1>2, ShortTexts
  <2>2. Blank \o parts[k] \in Writing /\ Bare(Blank \o parts[k]) = Bare(Blank) \o Bare(parts[k])
    BY <2>1, BareConcat
  <2>3. Bare(Blank) = <<>> /\ <<>> \o Bare(parts[k]) = Bare(parts[k])
    BY <2>1, BareShort, BareIs, ConcatEmptySeq DEF Writing
  <2>4. j[k] = IF k = 1 THEN parts[k] ELSE Blank \o parts[k]
    BY <1>3
  <2>5. QED
    BY <2>1, <2>2, <2>3, <2>4
<1>6. j \in [1 .. n -> Writing]
  <2>1. \A k \in 1 .. n : (IF k = 1 THEN parts[k] ELSE Blank \o parts[k]) \in Writing
    BY <1>3, <1>5
  <2>2. QED
    BY <1>3, <2>1
<1>7. j \in Seq(Writing) /\ Len(j) = n
  BY <1>2, <1>6
<1>8. Bares(j) = Bares(parts)
  BY <1>1, <1>5, <1>7 DEF Bares
<1>9. QED
  BY <1>4, <1>7, <1>8, ConcatIs, BareFlatten

(* What is left of lists of texts in a row is what is left of each list.    *)
BareLists(m, lists) == [i \in 1 .. m |-> Bare(FlattenSeq(lists[i]))]

(* The lists in a row are a list, whose text is theirs in a row.            *)
LEMMA BareFlattenLists ==
  ASSUME StringsAreSequences, NEW m \in Nat, NEW lists \in [1 .. m -> Seq(Writing)]
  PROVE  /\ FlattenSeq(lists) \in Seq(Writing)
         /\ Bare(FlattenSeq(FlattenSeq(lists))) = FlattenSeq(BareLists(m, lists))
<1>1. PICK bare : bare = BareLists(m, lists)
  OBVIOUS
<1>2. bare \in [1 .. m -> Seq(Letter)] /\ \A i \in 1 .. m : bare[i] = Bare(FlattenSeq(lists[i]))
  <2>1. \A i \in 1 .. m : FlattenSeq(lists[i]) \in Writing
    BY ConcatIs
  <2>2. \A i \in 1 .. m : Bare(FlattenSeq(lists[i])) \in Seq(Letter)
    BY <2>1, BareIs DEF Writing
  <2>3. QED
    BY <1>1, <2>2 DEF BareLists
<1>3. PICK f : f \in Flattenings(Writing, m, lists)
  BY FlattenSteps
<1>4. PICK g : g \in Flattenings(Letter, m, bare)
  BY <1>2, FlattenSteps
<1>5. /\ f \in [0 .. m -> Seq(Writing)] /\ f[0] = <<>> /\ f[m] = FlattenSeq(lists)
      /\ \A k \in 1 .. m : f[k] = f[k - 1] \o lists[k]
  BY <1>3 DEF Flattenings
<1>6. /\ g[0] = <<>> /\ g[m] = FlattenSeq(bare)
      /\ \A k \in 1 .. m : g[k] = g[k - 1] \o bare[k]
  BY <1>4 DEF Flattenings
<1> DEFINE Holds == {k \in 0 .. m : Bare(FlattenSeq(f[k])) = g[k]}
<1>7. 0 \in Holds
  <2>1. 0 \in 0 .. m /\ FlattenSeq(<<>>) = <<>>
    BY FlattenShort
  <2>2. QED
    BY <1>5, <1>6, <2>1, BareShort
<1>8. ASSUME NEW k \in 1 .. m, k - 1 \in Holds PROVE k \in Holds
  <2>1. k \in 0 .. m /\ k - 1 \in 0 .. m
    BY m \in Nat
  <2>2. PICK a : a = f[k - 1]
    OBVIOUS
  <2>3. PICK b : b = lists[k]
    OBVIOUS
  <2>4. a \in Seq(Writing) /\ b \in Seq(Writing) /\ f[k] = a \o b
    BY <1>5, <2>1, <2>2, <2>3
  <2>5. FlattenSeq(a \o b) = FlattenSeq(a) \o FlattenSeq(b)
    BY <2>4, FlattenConcat DEF Writing
  <2>6. FlattenSeq(a) \in Writing /\ FlattenSeq(b) \in Writing
    BY <2>4, ConcatIs
  <2>7. Bare(FlattenSeq(a) \o FlattenSeq(b)) = Bare(FlattenSeq(a)) \o Bare(FlattenSeq(b))
    BY <2>6, BareConcat
  <2>8. QED
    BY <1>2, <1>6, <1>8, <2>1, <2>2, <2>3, <2>4, <2>5, <2>7
<1> HIDE DEF Holds
<1>9. m \in Holds
  <2>1. m \in 0 .. m
    OBVIOUS
  <2>2. QED
    BY <1>7, <1>8, <2>1, InductionUpTo
<1>10. m \in 0 .. m
  OBVIOUS
<1>11. QED
  BY <1>1, <1>5, <1>6, <1>9, <1>10 DEF Holds

(* The bindings of the walk and those of a shell, and what is known of what *)
(* substitutions print: wherever the walk knows a text the shell has the    *)
(* same one, but for white space.                                           *)
Texts(e) == \A name \in DOMAIN e : e[name] \in Writing
Agree(e, s) ==
  /\ Texts(e) /\ Texts(s)
  /\ \A name \in DOMAIN e : name \in DOMAIN s /\ Bare(e[name]) = Bare(s[name])
Prints == [STRING -> SUBSET Writing]
Settled(known, right) ==
  /\ known # {} => right # {}
  /\ \A x \in known, y \in right : Bare(x) = Bare(y)
PrintsAgree(v, w) ==
  v \in Prints /\ w \in Prints /\ \A src \in STRING : Settled(v[src], w[src])

(* A segment.                                                               *)
LEMMA PiecesTyped ==
  ASSUME StringsAreSequences, NEW seg \in SegmentType, NEW e, Texts(e), NEW v \in Prints
  PROVE  Pieces(seg, e, v) \subseteq PieceType
<1>1. {"0", "/dev/fd/63"} \subseteq Writing /\ STRING \subseteq Writing
  <2>1. {"0", "/dev/fd/63"} \subseteq STRING
    BY SpaceAssumption, Zenon
  <2>2. QED
    BY <2>1 DEF StringsAreSequences, Writing
<1>2. \A text \in Writing, split \in BOOLEAN : [text |-> text, split |-> split] \in PieceType
  BY DEF PieceType
<1>3. CASE seg.seg = "lit"
  <2>1. Pieces(seg, e, v) = {[text |-> seg.text, split |-> FALSE]} /\ seg.text \in STRING
    BY <1>3 DEF Pieces, SegmentType
  <2>2. QED
    BY <1>1, <1>2, <2>1
<1>4. CASE seg.seg = "var"
  <2>1. Pieces(seg, e, v) = (IF seg.name \in DOMAIN e
                             THEN {[text |-> e[seg.name], split |-> ~seg.quoted]} ELSE {})
    BY <1>4 DEF Pieces
  <2>2. seg.quoted \in BOOLEAN
    BY <1>4 DEF SegmentType
  <2>3. QED
    BY <1>2, <2>1, <2>2 DEF Texts
<1>5. CASE seg.seg = "cmdsub"
  <2>1. Pieces(seg, e, v) = {[text |-> t, split |-> ~seg.quoted] : t \in v[seg.src]}
    BY <1>5 DEF Pieces
  <2>2. seg.quoted \in BOOLEAN /\ seg.src \in STRING
    BY <1>5 DEF SegmentType
  <2>3. v[seg.src] \subseteq Writing
    BY <2>2 DEF Prints
  <2>4. QED
    BY <1>2, <2>1, <2>2, <2>3
<1>6. CASE seg.seg = "arith"
  <2>1. Pieces(seg, e, v) = {[text |-> "0", split |-> FALSE]}
    BY <1>6 DEF Pieces
  <2>2. QED
    BY <1>1, <1>2, <2>1
<1>7. CASE seg.seg = "procsub"
  <2>1. Pieces(seg, e, v) = {[text |-> "/dev/fd/63", split |-> FALSE]}
    BY <1>7 DEF Pieces
  <2>2. QED
    BY <1>1, <1>2, <2>1
<1>8. QED
  BY <1>3, <1>4, <1>5, <1>6, <1>7 DEF SegmentType

(* Its piece is known to the shell where the walk knows it, with the same text. *)
LEMMA PiecesAgree ==
  ASSUME NEW seg \in SegmentType, NEW e, NEW s, Agree(e, s), NEW v, NEW w, PrintsAgree(v, w)
  PROVE  /\ Pieces(seg, e, v) # {} => Pieces(seg, s, w) # {}
         /\ \A a \in Pieces(seg, e, v), b \in Pieces(seg, s, w) : Bare(a.text) = Bare(b.text)
<1>1. CASE seg.seg = "lit"
  <2>1. \A e1, v1 : Pieces(seg, e1, v1) = {[text |-> seg.text, split |-> FALSE]}
    BY <1>1 DEF Pieces
  <2>2. QED
    BY <2>1
<1>2. CASE seg.seg = "var"
  <2>1. \A e1, v1 : Pieces(seg, e1, v1) = (IF seg.name \in DOMAIN e1
                      THEN {[text |-> e1[seg.name], split |-> ~seg.quoted]} ELSE {})
    BY <1>2 DEF Pieces
  <2>2. CASE seg.name \in DOMAIN e
    <3>1. seg.name \in DOMAIN s /\ Bare(e[seg.name]) = Bare(s[seg.name])
      BY <2>2 DEF Agree
    <3>2. /\ Pieces(seg, e, v) = {[text |-> e[seg.name], split |-> ~seg.quoted]}
          /\ Pieces(seg, s, w) = {[text |-> s[seg.name], split |-> ~seg.quoted]}
      BY <2>1, <2>2, <3>1
    <3>3. QED
      BY <3>1, <3>2
  <2>3. CASE seg.name \notin DOMAIN e
    BY <2>1, <2>3
  <2>4. QED
    BY <2>2, <2>3
<1>3. CASE seg.seg = "cmdsub"
  <2>1. \A e1, v1 : Pieces(seg, e1, v1) = {[text |-> t, split |-> ~seg.quoted] : t \in v1[seg.src]}
    BY <1>3 DEF Pieces
  <2>2. seg.src \in STRING
    BY <1>3 DEF SegmentType
  <2>3. Settled(v[seg.src], w[seg.src])
    BY <2>2 DEF PrintsAgree
  <2>4. ASSUME NEW e1, NEW v1
        PROVE  /\ (Pieces(seg, e1, v1) # {}) <=> (v1[seg.src] # {})
               /\ \A a \in Pieces(seg, e1, v1) : a.text \in v1[seg.src]
    <3>1. \A x \in Pieces(seg, e1, v1) :
            \E t \in v1[seg.src] : x = [text |-> t, split |-> ~seg.quoted]
      BY <2>1
    <3>2. \A t \in v1[seg.src] : [text |-> t, split |-> ~seg.quoted] \in Pieces(seg, e1, v1)
      BY <2>1
    <3>3. \A a \in Pieces(seg, e1, v1) : a.text \in v1[seg.src]
      BY <3>1
    <3>4. QED
      BY <3>1, <3>2, <3>3
  <2>5. PICK known : known = v[seg.src]
    OBVIOUS
  <2>6. PICK right : right = w[seg.src]
    OBVIOUS
  <2>7. /\ known # {} => right # {}
        /\ \A x \in known, y \in right : Bare(x) = Bare(y)
    BY <2>3, <2>5, <2>6 DEF Settled
  <2>8. ASSUME NEW a \in Pieces(seg, e, v), NEW b \in Pieces(seg, s, w)
        PROVE  Bare(a.text) = Bare(b.text)
    <3>1. a.text \in known /\ b.text \in right
      BY <2>4, <2>5, <2>6
    <3>2. QED
      BY <2>7, <3>1
  <2>9. Pieces(seg, e, v) # {} => Pieces(seg, s, w) # {}
    BY <2>4, <2>5, <2>6, <2>7
  <2>10. QED
    BY <2>8, <2>9
<1>4. CASE seg.seg = "arith"
  <2>1. \A e1, v1 : Pieces(seg, e1, v1) = {[text |-> "0", split |-> FALSE]}
    BY <1>4 DEF Pieces
  <2>2. QED
    BY <2>1
<1>5. CASE seg.seg = "procsub"
  <2>1. \A e1, v1 : Pieces(seg, e1, v1) = {[text |-> "/dev/fd/63", split |-> FALSE]}
    BY <1>5 DEF Pieces
  <2>2. QED
    BY <2>1
<1>6. QED
  BY <1>1, <1>2, <1>3, <1>4, <1>5 DEF SegmentType

(* A word: all of its pieces are known where it is resolved.                *)
KnownOf(word, e, v) == [i \in DOMAIN word.segs |-> Pieces(word.segs[i], e, v)]

(* A word is resolved exactly if each of its pieces is known.               *)
LEMMA ResolvedIsKnown ==
  ASSUME StringsAreSequences, NEW word \in WordType, NEW e, Texts(e), NEW v \in Prints
  PROVE  /\ Len(word.segs) \in Nat /\ DOMAIN word.segs = 1 .. Len(word.segs)
         /\ \A i \in 1 .. Len(word.segs) : word.segs[i] \in SegmentType
         /\ ExpandWith(word, e, v) = Expansion(KnownOf(word, e, v), word.quoted)
         /\ ExpandWith(word, e, v).resolved
              <=> \A i \in 1 .. Len(word.segs) : KnownOf(word, e, v)[i] # {}
         /\ ExpandWith(word, e, v).resolved <=> Known(Len(word.segs), KnownOf(word, e, v))
<1>1. word.segs \in Seq(SegmentType)
  BY DEF WordType
<1>2. PICK n : n = Len(word.segs)
  OBVIOUS
<1>3. n \in Nat /\ DOMAIN word.segs = 1 .. n /\ \A i \in 1 .. n : word.segs[i] \in SegmentType
  BY <1>1, <1>2
<1>4. PICK known : known = KnownOf(word, e, v)
  OBVIOUS
<1>5. /\ known = [i \in 1 .. n |-> known[i]]
      /\ \A i \in 1 .. n : known[i] = Pieces(word.segs[i], e, v)
  BY <1>3, <1>4 DEF KnownOf
<1>6. \A i \in 1 .. n : known[i] \subseteq PieceType
  BY <1>3, <1>5, PiecesTyped
<1>7. ExpandWith(word, e, v) = Expansion(known, word.quoted)
  BY <1>4 DEF ExpandWith, KnownOf
<1>8. Expansion(known, word.quoted).resolved <=> \A i \in DOMAIN known : known[i] # {}
  BY Zenon DEF Expansion
<1>9. DOMAIN known = 1 .. n
  BY <1>5
<1>10. (\A i \in 1 .. n : known[i] # {}) <=> Known(n, known)
  BY <1>5, <1>6 DEF Known
<1>11. QED
  BY <1>2, <1>3, <1>4, <1>7, <1>8, <1>9, <1>10

(* So the walk's fields of a resolved word are the shell's, but for white   *)
(* space, and so is the text of its pieces in a row.                        *)
LEMMA WordsAgree ==
  ASSUME StringsAreSequences, NEW word \in WordType, NEW e, NEW s, Agree(e, s),
         NEW v, NEW w, PrintsAgree(v, w), ExpandWith(word, e, v).resolved
  PROVE  /\ Known(Len(word.segs), KnownOf(word, e, v))
         /\ Known(Len(word.segs), KnownOf(word, s, w))
         /\ KnownTexts(Len(word.segs), KnownOf(word, e, v))
              = KnownTexts(Len(word.segs), KnownOf(word, s, w))
<1>1. Texts(e) /\ Texts(s) /\ v \in Prints /\ w \in Prints
  BY DEF Agree, PrintsAgree
<1>2. PICK n : n = Len(word.segs)
  OBVIOUS
<1>3. PICK ke : ke = KnownOf(word, e, v)
  OBVIOUS
<1>4. PICK ks : ks = KnownOf(word, s, w)
  OBVIOUS
<1>5. /\ n \in Nat /\ DOMAIN word.segs = 1 .. n
      /\ \A i \in 1 .. n : word.segs[i] \in SegmentType /\ ke[i] # {}
      /\ Known(n, ke)
  BY <1>1, <1>2, <1>3, ResolvedIsKnown
<1>6. \A i \in 1 .. n : /\ ke[i] = Pieces(word.segs[i], e, v)
                        /\ ks[i] = Pieces(word.segs[i], s, w)
  BY <1>3, <1>4, <1>5 DEF KnownOf
<1>7. ASSUME NEW i \in 1 .. n
      PROVE  ks[i] # {} /\ \A a \in ke[i], b \in ks[i] : Bare(a.text) = Bare(b.text)
  BY <1>5, <1>6, PiecesAgree
<1>8. Known(n, ks)
  <2>1. ExpandWith(word, s, w).resolved
    BY <1>1, <1>2, <1>4, <1>7, ResolvedIsKnown
  <2>2. QED
    BY <1>1, <1>2, <1>4, <2>1, ResolvedIsKnown
<1>9. \A i \in 1 .. n : Get(ke[i]) \in ke[i] /\ Get(ks[i]) \in ks[i]
  BY <1>5, <1>7, GetMember
<1>10. \A i \in 1 .. n : Bare(Get(ke[i]).text) = Bare(Get(ks[i]).text)
  BY <1>7, <1>9
<1>11. KnownTexts(n, ke) = KnownTexts(n, ks)
  BY <1>10 DEF KnownTexts
<1>12. QED
  BY <1>2, <1>3, <1>4, <1>5, <1>8, <1>11

(* The fields and the text of a resolved word.                              *)
LEMMA FieldsAgree ==
  ASSUME StringsAreSequences, NEW word \in WordType, NEW e, NEW s, Agree(e, s),
         NEW v, NEW w, PrintsAgree(v, w), ExpandWith(word, e, v).resolved
  PROVE  /\ ExpandWith(word, s, w).resolved
         /\ ExpandWith(word, e, v).fields \in Seq(Writing)
         /\ ExpandWith(word, s, w).fields \in Seq(Writing)
         /\ Bare(FlattenSeq(ExpandWith(word, e, v).fields))
              = Bare(FlattenSeq(ExpandWith(word, s, w).fields))
<1>1. Texts(e) /\ Texts(s) /\ v \in Prints /\ w \in Prints
  BY DEF Agree, PrintsAgree
<1>2. PICK n : n = Len(word.segs)
  OBVIOUS
<1>3. PICK ke : ke = KnownOf(word, e, v)
  OBVIOUS
<1>4. PICK ks : ks = KnownOf(word, s, w)
  OBVIOUS
<1>5. /\ n \in Nat /\ Known(n, ke) /\ Known(n, ks)
      /\ KnownTexts(n, ke) = KnownTexts(n, ks)
      /\ ExpandWith(word, e, v) = Expansion(ke, word.quoted)
      /\ ExpandWith(word, s, w) = Expansion(ks, word.quoted)
      /\ ExpandWith(word, s, w).resolved
  BY <1>1, <1>2, <1>3, <1>4, WordsAgree, ResolvedIsKnown
<1>6. /\ Expansion(ke, word.quoted).fields \in Seq(Writing)
      /\ Bare(FlattenSeq(Expansion(ke, word.quoted).fields)) = FlattenSeq(KnownTexts(n, ke))
  BY <1>5, ExpansionKeepsText
<1>7. /\ Expansion(ks, word.quoted).fields \in Seq(Writing)
      /\ Bare(FlattenSeq(Expansion(ks, word.quoted).fields)) = FlattenSeq(KnownTexts(n, ks))
  BY <1>5, ExpansionKeepsText
<1>8. QED
  BY <1>5, <1>6, <1>7

(* What an echo of words prints: texts of their fields.                     *)
Args(words, e, v) == [i \in DOMAIN Tail(words) |-> ExpandWith(words[i + 1], e, v)]
Echoed(words, e, v, m, lists, text) ==
  /\ m \in Nat /\ m = Len(words) - 1 /\ lists \in [1 .. m -> Seq(Writing)]
  /\ \A i \in 1 .. m : /\ ExpandWith(words[i + 1], e, v).resolved
                       /\ lists[i] = ExpandWith(words[i + 1], e, v).fields
                       /\ words[i + 1] \in WordType
  /\ text \in Writing /\ Bare(text) = FlattenSeq(BareLists(m, lists))

(* It is printed if all words are resolved: their fields, joined.           *)
LEMMA PrintedTextIs ==
  ASSUME StringsAreSequences, NEW words \in Seq(WordType), words # <<>>,
         NEW e, Texts(e), NEW v \in Prints, NEW text \in PrintedText(Args(words, e, v))
  PROVE  \E m, lists : Echoed(words, e, v, m, lists, text)
<1>1. PICK m : m = Len(words) - 1
  OBVIOUS
<1>2. Len(words) \in Nat /\ Len(words) # 0
  BY EmptySeq, LenProperties
<1>3. m \in Nat
  BY <1>1, <1>2
<1>4. DOMAIN Tail(words) = 1 .. m
  <2>1. Tail(words) \in Seq(WordType) /\ Len(Tail(words)) = m
    BY <1>1, HeadTailProperties
  <2>2. QED
    BY <2>1, LenProperties
<1>5. ASSUME NEW i \in 1 .. m PROVE words[i + 1] \in WordType
  <2>1. i + 1 \in 1 .. Len(words)
    BY <1>1, <1>2
  <2>2. QED
    BY <2>1, ElementOfSeq
<1>6. PICK args : args = Args(words, e, v)
  OBVIOUS
<1>7. DOMAIN args = 1 .. m /\ \A i \in 1 .. m : args[i] = ExpandWith(words[i + 1], e, v)
  BY <1>4, <1>6 DEF Args
<1>8. PICK lists : lists = [i \in DOMAIN args |-> args[i].fields]
  OBVIOUS
<1>9. /\ \A i \in DOMAIN args : args[i].resolved
      /\ text = Joined(FlattenSeq(lists))
  <2>1. text \in PrintedText(args)
    BY <1>6
  <2>2. \A i \in DOMAIN args : args[i].resolved
    BY <2>1 DEF PrintedText
  <2>3. text = Joined(FlattenSeq(lists))
    BY <1>8, <2>1, <2>2, Zenon DEF PrintedText
  <2>4. QED
    BY <2>2, <2>3
<1>10. ASSUME NEW i \in 1 .. m PROVE args[i].fields \in Seq(Writing)
  <2>1. PICK word : word = words[i + 1]
    OBVIOUS
  <2>2. word \in WordType /\ args[i] = ExpandWith(word, e, v) /\ args[i].resolved
    BY <1>5, <1>7, <1>9, <2>1
  <2>3. PICK n : n = Len(word.segs)
    OBVIOUS
  <2>4. PICK known : known = KnownOf(word, e, v)
    OBVIOUS
  <2>5. n \in Nat /\ Known(n, known) /\ args[i] = Expansion(known, word.quoted)
    BY <2>2, <2>3, <2>4, ResolvedIsKnown
  <2>6. QED
    BY <2>5, ExpansionKeepsText
<1>11. lists \in [1 .. m -> Seq(Writing)] /\ \A i \in 1 .. m : lists[i] = args[i].fields
  BY <1>7, <1>8, <1>10
<1>12. PICK all : all = FlattenSeq(lists)
  OBVIOUS
<1>13. all \in Seq(Writing) /\ Bare(FlattenSeq(all)) = FlattenSeq(BareLists(m, lists))
  BY <1>3, <1>11, <1>12, BareFlattenLists
<1>14. text \in Writing /\ Bare(text) = FlattenSeq(BareLists(m, lists))
  BY <1>9, <1>12, <1>13, JoinedIs
<1>15. \A i \in 1 .. m : /\ ExpandWith(words[i + 1], e, v).resolved
                         /\ lists[i] = ExpandWith(words[i + 1], e, v).fields
                         /\ words[i + 1] \in WordType
  BY <1>5, <1>7, <1>9, <1>11
<1>16. QED
  BY <1>1, <1>3, <1>11, <1>14, <1>15 DEF Echoed

(* The walk and the shell agree on it.                                      *)
LEMMA PrintedTextsAgree ==
  ASSUME StringsAreSequences, NEW words \in Seq(WordType), words # <<>>,
         NEW e, NEW s, Agree(e, s), NEW v, NEW w, PrintsAgree(v, w)
  PROVE  Settled(PrintedText(Args(words, e, v)), PrintedText(Args(words, s, w)))
<1>1. Texts(e) /\ Texts(s) /\ v \in Prints /\ w \in Prints
  BY DEF Agree, PrintsAgree
<1>2. ASSUME NEW x \in PrintedText(Args(words, e, v)), NEW y \in PrintedText(Args(words, s, w))
      PROVE  Bare(x) = Bare(y)
  <2>1. PICK m, a : Echoed(words, e, v, m, a, x)
    BY <1>1, PrintedTextIs
  <2>2. PICK k, b : Echoed(words, s, w, k, b, y)
    BY <1>1, PrintedTextIs
  <2>3. /\ m \in Nat /\ m = Len(words) - 1 /\ Bare(x) = FlattenSeq(BareLists(m, a))
        /\ \A i \in 1 .. m : /\ ExpandWith(words[i + 1], e, v).resolved
                             /\ a[i] = ExpandWith(words[i + 1], e, v).fields
                             /\ words[i + 1] \in WordType
    BY <2>1 DEF Echoed
  <2>4. /\ k = m /\ Bare(y) = FlattenSeq(BareLists(k, b))
        /\ \A i \in 1 .. k : b[i] = ExpandWith(words[i + 1], s, w).fields
    BY <2>2, <2>3 DEF Echoed
  <2>5. ASSUME NEW i \in 1 .. m PROVE Bare(FlattenSeq(a[i])) = Bare(FlattenSeq(b[i]))
    <3>1. PICK word : word = words[i + 1]
      OBVIOUS
    <3>2. /\ word \in WordType /\ ExpandWith(word, e, v).resolved
          /\ a[i] = ExpandWith(word, e, v).fields /\ b[i] = ExpandWith(word, s, w).fields
      BY <2>3, <2>4, <3>1
    <3>3. QED
      BY <3>2, FieldsAgree
  <2>6. BareLists(m, a) = BareLists(k, b)
    BY <2>4, <2>5 DEF BareLists
  <2>7. QED
    BY <2>3, <2>4, <2>6
<1>3. ASSUME NEW x \in PrintedText(Args(words, e, v)) PROVE PrintedText(Args(words, s, w)) # {}
  <2>1. PICK m, a : Echoed(words, e, v, m, a, x)
    BY <1>1, PrintedTextIs
  <2>2. \A i \in 1 .. m : ExpandWith(words[i + 1], s, w).resolved
    <3>1. \A i \in 1 .. m : /\ ExpandWith(words[i + 1], e, v).resolved
                            /\ words[i + 1] \in WordType
      BY <2>1 DEF Echoed
    <3>2. QED
      BY <3>1, FieldsAgree
  <2>3. PICK args : args = Args(words, s, w)
    OBVIOUS
  <2>4. \A i \in DOMAIN args : args[i].resolved
    <3>1. Tail(words) \in Seq(WordType) /\ Len(Tail(words)) = m
      BY <2>1, HeadTailProperties DEF Echoed
    <3>2. DOMAIN Tail(words) = 1 .. m
      BY <3>1, LenProperties
    <3>3. QED
      BY <2>2, <2>3, <3>2 DEF Args
  <2>5. PrintedText(args) # {}
    BY <2>4, Zenon DEF PrintedText
  <2>6. QED
    BY <2>3, <2>5
<1>4. QED
  BY <1>2, <1>3 DEF Settled

(* A text parses to one tree at most.                                       *)
OneTree == \A src : \A s, t \in Parse(src) : s = t

(* A body that is an echo has a first word.                                 *)
LEMMA EchoWords ==
  ASSUME ParserTyped, NEW src, NEW script \in Parse(src), IsEcho(script)
  PROVE  script[1][1].words \in Seq(WordType) /\ script[1][1].words # <<>>
<1>1. PICK command : command = script[1][1]
  OBVIOUS
<1>2. command \in CommandType(Script)
  <2>1. script \in Seq(Seq(CommandType(Script)))
    BY ScriptAssumption DEF ParserTyped, ScriptType
  <2>2. Len(script) = 1 /\ Len(script[1]) = 1
    BY DEF IsEcho
  <2>3. script[1] \in Seq(CommandType(Script))
    BY <2>1, <2>2, ElementOfSeq
  <2>4. QED
    BY <1>1, <2>2, <2>3, ElementOfSeq
<1>3. LiteralName(command) # {}
  BY <1>1 DEF IsEcho
<1>4. command.cmd = "simple" /\ command.words # <<>>
  BY <1>3 DEF LiteralName
<1>5. command.words \in Seq(WordType)
  BY <1>2, <1>4 DEF CommandType
<1>6. QED
  BY <1>1, <1>4, <1>5

(* What is known of what a substitution prints is its text, but for white   *)
(* space.                                                                   *)
LEMMA PrintedArgs ==
  ASSUME NEW src, NEW e, NEW v, NEW x
  PROVE  x \in Printed(src, e, v)
           <=> \E script \in Parse(src) : /\ IsEcho(script)
                                          /\ x \in PrintedText(Args(script[1][1].words, e, v))
BY DEF Printed, Args

(* Texts are printed.                                                       *)
LEMMA PrintedTyped ==
  ASSUME StringsAreSequences, ParserTyped, NEW e, Texts(e), NEW v \in Prints
  PROVE  [src \in STRING |-> Printed(src, e, v)] \in Prints
<1>1. ASSUME NEW src \in STRING, NEW x \in Printed(src, e, v) PROVE x \in Writing
  <2>1. PICK script \in Parse(src) : /\ IsEcho(script)
                                     /\ x \in PrintedText(Args(script[1][1].words, e, v))
    BY <1>1, PrintedArgs
  <2>2. PICK words : words = script[1][1].words
    OBVIOUS
  <2>3. words \in Seq(WordType) /\ words # <<>> /\ x \in PrintedText(Args(words, e, v))
    BY <2>1, <2>2, EchoWords
  <2>4. PICK m, lists : Echoed(words, e, v, m, lists, x)
    BY <2>3, PrintedTextIs
  <2>5. QED
    BY <2>4 DEF Echoed
<1>2. QED
  BY <1>1 DEF Prints

(* The walk and the shell agree on what a substitution prints.              *)
LEMMA PrintedAgrees ==
  ASSUME StringsAreSequences, ParserTyped, OneTree, NEW src,
         NEW e, NEW s, Agree(e, s), NEW v, NEW w, PrintsAgree(v, w)
  PROVE  Settled(Printed(src, e, v), Printed(src, s, w))
<1>1. ASSUME NEW x \in Printed(src, e, v)
      PROVE  /\ Printed(src, s, w) # {}
             /\ \A y \in Printed(src, s, w) : Bare(x) = Bare(y)
  <2>1. PICK script \in Parse(src) : /\ IsEcho(script)
                                     /\ x \in PrintedText(Args(script[1][1].words, e, v))
    BY <1>1, PrintedArgs
  <2>2. PICK words : words = script[1][1].words
    OBVIOUS
  <2>3. words \in Seq(WordType) /\ words # <<>> /\ x \in PrintedText(Args(words, e, v))
    BY <2>1, <2>2, EchoWords
  <2>4. Settled(PrintedText(Args(words, e, v)), PrintedText(Args(words, s, w)))
    BY <2>3, PrintedTextsAgree
  <2>5. PICK z : z \in PrintedText(Args(words, s, w))
    BY <2>3, <2>4 DEF Settled
  <2>6. z \in Printed(src, s, w)
    BY <2>1, <2>2, <2>5, PrintedArgs
  <2>7. ASSUME NEW y \in Printed(src, s, w) PROVE Bare(x) = Bare(y)
    <3>1. PICK other \in Parse(src) : y \in PrintedText(Args(other[1][1].words, s, w))
      BY <2>7, PrintedArgs
    <3>2. other = script
      BY DEF OneTree
    <3>3. QED
      BY <2>2, <2>3, <2>4, <3>1, <3>2 DEF Settled
  <2>8. QED
    BY <2>6, <2>7
<1>2. QED
  BY <1>1 DEF Settled

(* What is known of the substitutions at each depth, from the deepest on.   *)
Nothing == [src \in STRING |-> {}]
AllPrinted(e, v) == [src \in STRING |-> Printed(src, e, v)]
IsSubstituted(e, f) ==
  f = [depth \in 0 .. MaxDepth |->
         [src \in STRING |-> IF depth = MaxDepth THEN {} ELSE Printed(src, e, f[depth + 1])]]

(* They exist: as many steps from the deepest one as there are depths.      *)
LEMMA SubstitutedExists ==
  ASSUME StringsAreSequences, ParserTyped, NEW e, Texts(e)
  PROVE  \E f : IsSubstituted(e, f) /\ \A depth \in 0 .. MaxDepth : f[depth] \in Prints
<1> DEFINE step == [k \in 1 .. MaxDepth |->
                      [v \in Prints |-> [src \in STRING |-> Printed(src, e, v)]]]
<1>1. Nothing \in Prints
  BY DEF Nothing, Prints
<1>2. step \in [1 .. MaxDepth -> [Prints -> Prints]]
  <2>1. \A v \in Prints : [src \in STRING |-> Printed(src, e, v)] \in Prints
    BY PrintedTyped
  <2>2. [v \in Prints |-> [src \in STRING |-> Printed(src, e, v)]] \in [Prints -> Prints]
    BY <2>1
  <2>3. QED
    BY <2>2
<1>3. \A k \in 1 .. MaxDepth, v \in Prints : step[k][v] = [src \in STRING |-> Printed(src, e, v)]
  OBVIOUS
<1> HIDE DEF step
<1>4. PICK h : h \in Iterations(MaxDepth, Prints, Nothing, step)
  BY <1>1, <1>2, MaxDepthAssumption, IterationExists
<1>5. /\ h \in [0 .. MaxDepth -> Prints] /\ h[0] = Nothing
      /\ \A k \in 1 .. MaxDepth : h[k] = step[k][h[k - 1]]
  BY <1>4 DEF Iterations
<1> DEFINE f == [depth \in 0 .. MaxDepth |-> h[MaxDepth - depth]]
<1>6. ASSUME NEW depth \in 0 .. MaxDepth
      PROVE  /\ f[depth] \in Prints
             /\ f[depth] = [src \in STRING |-> IF depth = MaxDepth THEN {}
                                               ELSE Printed(src, e, f[depth + 1])]
  <2>1. PICK k : k = MaxDepth - depth
    OBVIOUS
  <2>2. k \in 0 .. MaxDepth /\ f[depth] = h[k]
    BY <2>1, MaxDepthAssumption
  <2>3. CASE depth = MaxDepth
    <3>1. k = 0
      BY <2>1, <2>3, MaxDepthAssumption
    <3>2. f[depth] = [src \in STRING |-> {}]
      BY <1>5, <2>2, <3>1 DEF Nothing
    <3> HIDE DEF f
    <3>3. QED
      BY <1>1, <2>3, <3>2 DEF Nothing
  <2>4. CASE depth # MaxDepth
    <3>1. /\ k \in 1 .. MaxDepth /\ k - 1 \in 0 .. MaxDepth
          /\ depth + 1 \in 0 .. MaxDepth /\ MaxDepth - (depth + 1) = k - 1
      BY <2>1, <2>4, MaxDepthAssumption
    <3>2. f[depth + 1] = h[k - 1] /\ h[k - 1] \in Prints /\ h[k] \in Prints
      BY <1>5, <3>1
    <3>3. h[k] = [src \in STRING |-> Printed(src, e, h[k - 1])]
      BY <1>3, <1>5, <3>1, <3>2
    <3> HIDE DEF f
    <3>4. QED
      BY <2>2, <2>4, <3>2, <3>3
  <2>5. QED
    BY <2>3, <2>4
<1>7. IsSubstituted(e, f)
  BY <1>6 DEF IsSubstituted
<1> HIDE DEF f
<1>8. QED
  BY <1>6, <1>7

(* So what the model computes is them.                                      *)
LEMMA SubstitutedIs ==
  ASSUME StringsAreSequences, ParserTyped, NEW e, Texts(e)
  PROVE  IsSubstituted(e, Substituted(e))
<1>1. PICK f : f = CHOOSE g : IsSubstituted(e, g)
  OBVIOUS
<1>2. Substituted(e) = f
  BY <1>1, Zenon DEF Substituted, IsSubstituted
<1>3. QED
  BY <1>1, <1>2, SubstitutedExists

(* The walk and the shell agree on them at every depth.                     *)
LEMMA SubstitutedAgrees ==
  ASSUME StringsAreSequences, ParserTyped, OneTree, NEW e, NEW s, Agree(e, s)
  PROVE  \A depth \in 0 .. MaxDepth : PrintsAgree(Substituted(e)[depth], Substituted(s)[depth])
<1>1. PICK f : f = Substituted(e)
  OBVIOUS
<1>2. PICK g : g = Substituted(s)
  OBVIOUS
<1>3. Texts(e) /\ Texts(s) /\ IsSubstituted(e, f) /\ IsSubstituted(s, g)
  BY <1>1, <1>2, SubstitutedIs DEF Agree
<1>4. ASSUME NEW depth \in 0 .. MaxDepth - 1
      PROVE  /\ depth \in 0 .. MaxDepth /\ depth + 1 \in 0 .. MaxDepth
             /\ f[depth] = AllPrinted(e, f[depth + 1])
             /\ g[depth] = AllPrinted(s, g[depth + 1])
  <2>1. depth \in 0 .. MaxDepth /\ depth + 1 \in 0 .. MaxDepth /\ depth # MaxDepth
    BY MaxDepthAssumption
  <2>2. QED
    BY <1>3, <2>1 DEF IsSubstituted, AllPrinted
<1>5. MaxDepth \in 0 .. MaxDepth /\ f[MaxDepth] = Nothing /\ g[MaxDepth] = Nothing
  <2>1. MaxDepth \in 0 .. MaxDepth
    BY MaxDepthAssumption
  <2>2. QED
    BY <1>3, <2>1 DEF IsSubstituted, Nothing
<1> DEFINE Holds == {k \in 0 .. MaxDepth : PrintsAgree(f[MaxDepth - k], g[MaxDepth - k])}
<1>6. 0 \in Holds
  <2>1. 0 \in 0 .. MaxDepth /\ MaxDepth - 0 = MaxDepth
    BY MaxDepthAssumption
  <2>2. PrintsAgree(Nothing, Nothing)
    BY DEF PrintsAgree, Nothing, Prints, Settled
  <2>3. QED
    BY <1>5, <2>1, <2>2
<1>7. ASSUME NEW k \in 1 .. MaxDepth, k - 1 \in Holds PROVE k \in Holds
  <2>1. PICK depth : depth = MaxDepth - k
    OBVIOUS
  <2>2. /\ depth \in 0 .. MaxDepth - 1 /\ depth + 1 = MaxDepth - (k - 1) /\ k \in 0 .. MaxDepth
    BY <2>1, MaxDepthAssumption
  <2>3. PICK v : v = f[depth + 1]
    OBVIOUS
  <2>4. PICK w : w = g[depth + 1]
    OBVIOUS
  <2>5. PrintsAgree(v, w)
    BY <1>7, <2>2, <2>3, <2>4
  <2>6. f[depth] = AllPrinted(e, v) /\ g[depth] = AllPrinted(s, w)
    BY <1>4, <2>2, <2>3, <2>4
  <2>7. f[depth] \in Prints /\ g[depth] \in Prints
    <3>1. v \in Prints /\ w \in Prints
      BY <2>5 DEF PrintsAgree
    <3>2. AllPrinted(e, v) \in Prints /\ AllPrinted(s, w) \in Prints
      BY <1>3, <3>1, PrintedTyped DEF AllPrinted
    <3>3. QED
      BY <2>6, <3>2
  <2>8. \A src \in STRING : Settled(Printed(src, e, v), Printed(src, s, w))
    BY <2>5, PrintedAgrees
  <2>9. \A src \in STRING : Settled(f[depth][src], g[depth][src])
    BY <2>6, <2>8 DEF AllPrinted
  <2>10. PrintsAgree(f[depth], g[depth])
    BY <2>7, <2>9 DEF PrintsAgree
  <2>11. QED
    BY <2>1, <2>2, <2>10
<1> HIDE DEF Holds
<1>8. ASSUME NEW depth \in 0 .. MaxDepth PROVE PrintsAgree(f[depth], g[depth])
  <2>1. PICK k : k = MaxDepth - depth
    OBVIOUS
  <2>2. k \in 0 .. MaxDepth /\ MaxDepth - k = depth
    BY <2>1, MaxDepthAssumption
  <2>3. k \in Holds
    BY <1>6, <1>7, <2>2, MaxDepthAssumption, InductionUpTo
  <2>4. QED
    BY <2>2, <2>3 DEF Holds
<1>9. QED
  BY <1>1, <1>2, <1>8

(* Bindings of names to texts.                                              *)
Envs == UNION {[D -> Writing] : D \in SUBSET STRING}

(* They agree with themselves.                                              *)
LEMMA EnvTexts ==
  ASSUME NEW e \in Envs
  PROVE  Texts(e) /\ DOMAIN e \subseteq STRING /\ Agree(e, e)
BY DEF Envs, Texts, Agree

(* Setting a name to texts that agree keeps the agreement.                  *)
LEMMA BindAgrees ==
  ASSUME NEW e \in Envs, NEW s \in Envs, Agree(e, s), NEW name \in STRING,
         NEW x \in Writing, NEW y \in Writing, Bare(x) = Bare(y)
  PROVE  /\ Bind(e, name, x) \in Envs /\ Bind(s, name, y) \in Envs
         /\ Agree(Bind(e, name, x), Bind(s, name, y))
<1>1. ASSUME NEW a \in Envs, NEW z \in Writing
      PROVE  /\ Bind(a, name, z) \in Envs /\ DOMAIN Bind(a, name, z) = DOMAIN a \cup {name}
             /\ \A k \in DOMAIN a \cup {name} :
                  Bind(a, name, z)[k] = IF k = name THEN z ELSE a[k]
  <2>1. PICK D : D = DOMAIN a \cup {name}
    OBVIOUS
  <2>2. D \in SUBSET STRING /\ \A k \in D : (IF k = name THEN z ELSE a[k]) \in Writing
    BY <2>1, EnvTexts DEF Texts
  <2>3. Bind(a, name, z) = [k \in D |-> IF k = name THEN z ELSE a[k]]
    BY <2>1 DEF Bind
  <2>4. Bind(a, name, z) \in [D -> Writing]
    BY <2>2, <2>3
  <2>5. Bind(a, name, z) \in Envs
    BY <2>2, <2>4 DEF Envs
  <2>6. QED
    BY <2>1, <2>3, <2>5
<1>2. PICK be : be = Bind(e, name, x)
  OBVIOUS
<1>3. PICK bs : bs = Bind(s, name, y)
  OBVIOUS
<1>4. /\ be \in Envs /\ DOMAIN be = DOMAIN e \cup {name}
      /\ \A k \in DOMAIN e \cup {name} : be[k] = IF k = name THEN x ELSE e[k]
  BY <1>1, <1>2
<1>5. /\ bs \in Envs /\ DOMAIN bs = DOMAIN s \cup {name}
      /\ \A k \in DOMAIN s \cup {name} : bs[k] = IF k = name THEN y ELSE s[k]
  BY <1>1, <1>3
<1>6. ASSUME NEW k \in DOMAIN be PROVE k \in DOMAIN bs /\ Bare(be[k]) = Bare(bs[k])
  <2>1. CASE k = name
    BY <1>4, <1>5, <2>1
  <2>2. CASE k # name
    <3>1. k \in DOMAIN e /\ k \in DOMAIN s /\ Bare(e[k]) = Bare(s[k])
      BY <1>4, <2>2 DEF Agree
    <3>2. be[k] = e[k] /\ bs[k] = s[k] /\ k \in DOMAIN bs
      BY <1>4, <1>5, <2>2, <3>1
    <3>3. QED
      BY <3>1, <3>2
  <2>3. QED
    BY <2>1, <2>2
<1>7. QED
  BY <1>2, <1>3, <1>4, <1>5, <1>6, EnvTexts DEF Agree

(* So does forgetting it while a shell sets it to whatever it is.           *)
LEMMA UnbindAgrees ==
  ASSUME NEW e \in Envs, NEW s \in Envs, Agree(e, s), NEW name \in STRING, NEW y \in Writing
  PROVE  /\ Unbind(e, name) \in Envs /\ Bind(s, name, y) \in Envs
         /\ Agree(Unbind(e, name), Bind(s, name, y))
<1>1. Bind(s, name, y) \in Envs
  BY EnvTexts, BindAgrees
<1>2. PICK D : D = DOMAIN e \ {name}
  OBVIOUS
<1>3. Unbind(e, name) = [k \in D |-> e[k]]
  BY <1>2 DEF Unbind
<1>4. D \in SUBSET STRING /\ \A k \in D : e[k] \in Writing
  BY <1>2, EnvTexts DEF Texts
<1>5. Unbind(e, name) \in [D -> Writing]
  BY <1>3, <1>4
<1>6. Unbind(e, name) \in Envs
  BY <1>4, <1>5 DEF Envs
<1>7. ASSUME NEW k \in DOMAIN Unbind(e, name)
      PROVE  /\ k \in DOMAIN Bind(s, name, y)
             /\ Bare(Unbind(e, name)[k]) = Bare(Bind(s, name, y)[k])
  <2>1. k \in D /\ Unbind(e, name)[k] = e[k]
    BY <1>3
  <2>2. k # name /\ k \in DOMAIN s /\ Bare(e[k]) = Bare(s[k])
    BY <1>2, <2>1 DEF Agree
  <2>3. k \in DOMAIN Bind(s, name, y) /\ Bind(s, name, y)[k] = s[k]
    BY <2>2 DEF Bind
  <2>4. QED
    BY <2>1, <2>2, <2>3
<1>8. QED
  BY <1>1, <1>6, <1>7, EnvTexts DEF Agree

(* The value of a word to a shell is a text, and the text of its pieces in  *)
(* a row where they are all known.                                          *)
LEMMA ShellValueIs ==
  ASSUME StringsAreSequences, NEW word \in WordType, NEW s, Texts(s), NEW depth,
         Substituted(s)[depth] \in Prints
  PROVE  /\ ShellValue(word, s, depth) \in Writing
         /\ LET n     == Len(word.segs)
                known == KnownOf(word, s, Substituted(s)[depth])
            IN  Known(n, known) =>
                  Bare(ShellValue(word, s, depth)) = FlattenSeq(KnownTexts(n, known))
<1>1. PICK n : n = Len(word.segs)
  OBVIOUS
<1>2. PICK w : w = Substituted(s)[depth]
  OBVIOUS
<1>3. PICK known : known = KnownOf(word, s, w)
  OBVIOUS
<1>4. n \in Nat /\ DOMAIN word.segs = 1 .. n /\ \A i \in 1 .. n : word.segs[i] \in SegmentType
  BY <1>1, <1>2, ResolvedIsKnown
<1>5. DOMAIN known = 1 .. n /\ \A i \in 1 .. n : known[i] = Pieces(word.segs[i], s, w)
  BY <1>3, <1>4 DEF KnownOf
<1>6. PICK texts : texts = [i \in DOMAIN known |-> IF known[i] = {} THEN Anything
                                                   ELSE Get(known[i]).text]
  OBVIOUS
<1>7. ShellValue(word, s, depth) = Concat(texts)
  BY <1>2, <1>3, <1>6, Zenon DEF ShellValue, KnownOf
<1>8. ASSUME NEW i \in 1 .. n
      PROVE  (IF known[i] = {} THEN Anything ELSE Get(known[i]).text) \in Writing
  <2>1. known[i] \subseteq PieceType
    BY <1>2, <1>4, <1>5, PiecesTyped
  <2>2. Anything \in Writing
    BY ValueAssumption DEF StringsAreSequences, Writing
  <2>3. known[i] # {} => Get(known[i]).text \in Writing
    BY <2>1, GetMember DEF PieceType
  <2>4. QED
    BY <2>2, <2>3
<1>9. texts \in [1 .. n -> Writing]
  BY <1>5, <1>6, <1>8
<1>10. texts \in Seq(Writing) /\ Len(texts) = n
  BY <1>4, <1>9
<1>11. Concat(texts) \in Writing /\ Bare(Concat(texts)) = FlattenSeq(Bares(texts))
  BY <1>10, ConcatIs, BareFlatten
<1>12. ASSUME Known(n, known) PROVE Bares(texts) = KnownTexts(n, known)
  <2>1. \A i \in 1 .. n : texts[i] = Get(known[i]).text
    BY <1>5, <1>6, <1>12 DEF Known
  <2>2. QED
    BY <1>10, <2>1 DEF Bares, KnownTexts
<1>13. QED
  BY <1>1, <1>2, <1>3, <1>7, <1>11, <1>12

(* An assignment keeps the bindings in agreement.                           *)
LEMMA AssignmentAgrees ==
  ASSUME StringsAreSequences, ParserTyped, OneTree, NEW e \in Envs, NEW s \in Envs, Agree(e, s),
         NEW name \in STRING, NEW word \in WordType, NEW depth \in 0 .. MaxDepth
  PROVE  LET new   == ApplyAssignment(e, name, Expand(word, e, depth))
             value == Bind(s, name, ShellValue(word, s, depth))
         IN  new \in Envs /\ value \in Envs /\ Agree(new, value)
<1>1. PICK v : v = Substituted(e)[depth]
  OBVIOUS
<1>2. PICK w : w = Substituted(s)[depth]
  OBVIOUS
<1>3. PrintsAgree(v, w) /\ v \in Prints /\ w \in Prints /\ Texts(e) /\ Texts(s)
  <2>1. PrintsAgree(v, w)
    BY <1>1, <1>2, SubstitutedAgrees
  <2>2. QED
    BY <2>1 DEF PrintsAgree, Agree
<1>4. PICK value : value = ExpandWith(word, e, v)
  OBVIOUS
<1>5. Expand(word, e, depth) = value
  BY <1>1, <1>4 DEF Expand
<1>6. PICK y : y = ShellValue(word, s, depth)
  OBVIOUS
<1>7. y \in Writing
  BY <1>2, <1>3, <1>6, ShellValueIs
<1>8. CASE value.resolved /\ Len(value.fields) <= 1
  <2>1. PICK n : n = Len(word.segs)
    OBVIOUS
  <2>2. PICK ke : ke = KnownOf(word, e, v)
    OBVIOUS
  <2>3. PICK ks : ks = KnownOf(word, s, w)
    OBVIOUS
  <2>4. /\ n \in Nat /\ Known(n, ke) /\ Known(n, ks)
        /\ KnownTexts(n, ke) = KnownTexts(n, ks)
        /\ value = Expansion(ke, word.quoted)
    BY <1>3, <1>4, <1>8, <2>1, <2>2, <2>3, WordsAgree, ResolvedIsKnown
  <2>5. PICK fields : fields = value.fields
    OBVIOUS
  <2>6. fields \in Seq(Writing) /\ Bare(FlattenSeq(fields)) = FlattenSeq(KnownTexts(n, ke))
    BY <2>4, <2>5, ExpansionKeepsText
  <2>7. Concat(fields) \in Writing /\ Bare(Concat(fields)) = FlattenSeq(KnownTexts(n, ke))
    BY <2>6, ConcatIs
  <2>8. Bare(y) = FlattenSeq(KnownTexts(n, ks))
    BY <1>2, <1>3, <1>6, <2>1, <2>3, <2>4, ShellValueIs
  <2>9. ApplyAssignment(e, name, value) = Bind(e, name, Concat(fields))
    BY <1>8, <2>5 DEF ApplyAssignment
  <2>10. QED
    BY <1>5, <1>6, <1>7, <2>4, <2>7, <2>8, <2>9, BindAgrees
<1>9. CASE ~(value.resolved /\ Len(value.fields) <= 1)
  <2>1. ApplyAssignment(e, name, value) = Unbind(e, name)
    BY <1>9 DEF ApplyAssignment
  <2>2. QED
    BY <1>5, <1>6, <1>7, <2>1, UnbindAgrees
<1>10. QED
  BY <1>8, <1>9

(* Two rows of steps from bindings that agree to bindings that agree.       *)
Follows(n, e, step, f) ==
  f[0] = e /\ \A k \in 1 .. n : f[k - 1] \in Envs => f[k] = step[k][f[k - 1]]

(* If each step keeps the agreement, all of them do.                        *)
LEMMA FollowsAgree ==
  ASSUME NEW n \in Nat, NEW e \in Envs, NEW s \in Envs, Agree(e, s),
         NEW stepE \in [1 .. n -> [Envs -> Envs]], NEW stepS \in [1 .. n -> [Envs -> Envs]],
         \A k \in 1 .. n, a, b \in Envs : Agree(a, b) => Agree(stepE[k][a], stepS[k][b]),
         NEW f, Follows(n, e, stepE, f), NEW g, Follows(n, s, stepS, g)
  PROVE  f[n] \in Envs /\ g[n] \in Envs /\ Agree(f[n], g[n])
<1> DEFINE Holds == {k \in 0 .. n : f[k] \in Envs /\ g[k] \in Envs /\ Agree(f[k], g[k])}
<1>1. 0 \in Holds
  BY DEF Follows
<1>2. ASSUME NEW k \in 1 .. n, k - 1 \in Holds PROVE k \in Holds
  <2>1. f[k - 1] \in Envs /\ g[k - 1] \in Envs /\ Agree(f[k - 1], g[k - 1])
    BY <1>2
  <2>2. f[k] = stepE[k][f[k - 1]] /\ g[k] = stepS[k][g[k - 1]] /\ k \in 0 .. n
    BY <2>1 DEF Follows
  <2>3. f[k] \in Envs /\ g[k] \in Envs
    <3>1. stepE[k] \in [Envs -> Envs] /\ stepS[k] \in [Envs -> Envs]
      OBVIOUS
    <3>2. QED
      BY <2>1, <2>2, <3>1
  <2>4. Agree(f[k], g[k])
    BY <2>1, <2>2
  <2>5. QED
    BY <2>2, <2>3, <2>4
<1> HIDE DEF Holds
<1>3. n \in Holds
  <2>1. n \in 0 .. n
    OBVIOUS
  <2>2. QED
    BY <1>1, <1>2, <2>1, InductionUpTo
<1>4. QED
  BY <1>3 DEF Holds

(* The assignments of a command, one after the other.                       *)
Assigned(command, k, e, depth) ==
  ApplyAssignment(e, command.assigns[k].name, Expand(command.assigns[k].value, e, depth))
ShellAssigned(command, k, s, depth) ==
  Bind(s, command.assigns[k].name, ShellValue(command.assigns[k].value, s, depth))
IsAfter(command, e, depth, f) ==
  f = [k \in 0 .. Len(command.assigns) |->
         IF k = 0 THEN e ELSE Assigned(command, k, f[k - 1], depth)]
IsShellAfter(command, s, depth, g) ==
  g = [k \in 0 .. Len(command.assigns) |->
         IF k = 0 THEN s ELSE ShellAssigned(command, k, g[k - 1], depth)]

(* Both rows of assignments end in bindings that agree.                     *)
LEMMA AssignmentsAgree ==
  ASSUME StringsAreSequences, ParserTyped, OneTree, NEW e \in Envs, NEW s \in Envs, Agree(e, s),
         NEW command \in CommandType(Script), command.cmd = "simple", NEW depth \in 0 .. MaxDepth
  PROVE  /\ ApplyAssignments(command, e, depth) \in Envs
         /\ ShellAssigns(command, s, depth) \in Envs
         /\ Agree(ApplyAssignments(command, e, depth), ShellAssigns(command, s, depth))
<1>1. PICK n : n = Len(command.assigns)
  OBVIOUS
<1>2. /\ n \in Nat
      /\ \A k \in 1 .. n : command.assigns[k].name \in STRING
                           /\ command.assigns[k].value \in WordType
  <2>1. command.assigns \in Seq([name : STRING, value : WordType])
    BY DEF CommandType
  <2>2. n \in Nat /\ \A k \in 1 .. n : command.assigns[k] \in [name : STRING, value : WordType]
    BY <1>1, <2>1, LenProperties, ElementOfSeq
  <2>3. QED
    BY <2>2
<1> DEFINE stepE == [k \in 1 .. n |-> [a \in Envs |-> Assigned(command, k, a, depth)]]
           stepS == [k \in 1 .. n |-> [b \in Envs |-> ShellAssigned(command, k, b, depth)]]
<1>3. ASSUME NEW k \in 1 .. n, NEW a \in Envs, NEW b \in Envs, Agree(a, b)
      PROVE  /\ Assigned(command, k, a, depth) \in Envs
             /\ ShellAssigned(command, k, b, depth) \in Envs
             /\ Agree(Assigned(command, k, a, depth), ShellAssigned(command, k, b, depth))
  <2>1. PICK name : name = command.assigns[k].name
    OBVIOUS
  <2>2. PICK word : word = command.assigns[k].value
    OBVIOUS
  <2>3. name \in STRING /\ word \in WordType
    BY <1>2, <2>1, <2>2
  <2>4. QED
    BY <1>3, <2>1, <2>2, <2>3, AssignmentAgrees DEF Assigned, ShellAssigned
<1>4. \A k \in 1 .. n, a \in Envs : /\ stepE[k][a] = Assigned(command, k, a, depth)
                                    /\ stepS[k][a] = ShellAssigned(command, k, a, depth)
  OBVIOUS
<1>5. stepE \in [1 .. n -> [Envs -> Envs]] /\ stepS \in [1 .. n -> [Envs -> Envs]]
  BY <1>3, EnvTexts
<1> HIDE DEF stepE, stepS
<1>6. \A k \in 1 .. n, a, b \in Envs : Agree(a, b) => Agree(stepE[k][a], stepS[k][b])
  BY <1>3, <1>4
<1>7. \E f : IsAfter(command, e, depth, f)
  <2>1. PICK h : h \in Iterations(n, Envs, e, stepE)
    BY <1>2, <1>5, IterationExists
  <2>2. /\ h \in [0 .. n -> Envs] /\ h[0] = e
        /\ \A k \in 1 .. n : h[k] = stepE[k][h[k - 1]]
    BY <2>1 DEF Iterations
  <2>3. ASSUME NEW k \in 0 .. n
        PROVE  h[k] = IF k = 0 THEN e ELSE Assigned(command, k, h[k - 1], depth)
    <3>1. k # 0 => k \in 1 .. n /\ k - 1 \in 0 .. n
      BY <1>2
    <3>2. k # 0 => h[k - 1] \in Envs
      BY <2>2, <3>1
    <3>3. QED
      BY <1>4, <2>2, <3>1, <3>2
  <2>4. IsAfter(command, e, depth, h)
    BY <1>1, <2>2, <2>3 DEF IsAfter
  <2>5. QED
    BY <2>4
<1>8. \E g : IsShellAfter(command, s, depth, g)
  <2>1. PICK h : h \in Iterations(n, Envs, s, stepS)
    BY <1>2, <1>5, IterationExists
  <2>2. /\ h \in [0 .. n -> Envs] /\ h[0] = s
        /\ \A k \in 1 .. n : h[k] = stepS[k][h[k - 1]]
    BY <2>1 DEF Iterations
  <2>3. ASSUME NEW k \in 0 .. n
        PROVE  h[k] = IF k = 0 THEN s ELSE ShellAssigned(command, k, h[k - 1], depth)
    <3>1. k # 0 => k \in 1 .. n /\ k - 1 \in 0 .. n
      BY <1>2
    <3>2. k # 0 => h[k - 1] \in Envs
      BY <2>2, <3>1
    <3>3. QED
      BY <1>4, <2>2, <3>1, <3>2
  <2>4. IsShellAfter(command, s, depth, h)
    BY <1>1, <2>2, <2>3 DEF IsShellAfter
  <2>5. QED
    BY <2>4
<1>9. PICK f : f = CHOOSE h : IsAfter(command, e, depth, h)
  OBVIOUS
<1>10. PICK g : g = CHOOSE h : IsShellAfter(command, s, depth, h)
  OBVIOUS
<1>11. IsAfter(command, e, depth, f) /\ IsShellAfter(command, s, depth, g)
  BY <1>7, <1>8, <1>9, <1>10
<1>12. ApplyAssignments(command, e, depth) = f[n] /\ ShellAssigns(command, s, depth) = g[n]
  <2>1. ApplyAssignments(command, e, depth) = f[n]
    BY <1>1, <1>9, Zenon DEF ApplyAssignments, IsAfter, Assigned
  <2>2. ShellAssigns(command, s, depth) = g[n]
    BY <1>1, <1>10, Zenon DEF ShellAssigns, IsShellAfter, ShellAssigned
  <2>3. QED
    BY <2>1, <2>2
<1>13. ASSUME NEW k \in 1 .. n
       PROVE  /\ f[k] = Assigned(command, k, f[k - 1], depth)
              /\ g[k] = ShellAssigned(command, k, g[k - 1], depth)
  <2>1. k \in 0 .. n /\ k # 0
    OBVIOUS
  <2>2. QED
    BY <1>1, <1>11, <2>1 DEF IsAfter, IsShellAfter
<1>14. f[0] = e /\ g[0] = s
  <2>1. 0 \in 0 .. n
    BY <1>2
  <2>2. QED
    BY <1>1, <1>11, <2>1 DEF IsAfter, IsShellAfter
<1>15. Follows(n, e, stepE, f) /\ Follows(n, s, stepS, g)
  <2>1. ASSUME NEW k \in 1 .. n, f[k - 1] \in Envs PROVE f[k] = stepE[k][f[k - 1]]
    <3>1. PICK a : a = f[k - 1]
      OBVIOUS
    <3>2. a \in Envs /\ f[k] = Assigned(command, k, a, depth)
      BY <1>13, <2>1, <3>1
    <3>3. QED
      BY <1>4, <3>1, <3>2
  <2>2. ASSUME NEW k \in 1 .. n, g[k - 1] \in Envs PROVE g[k] = stepS[k][g[k - 1]]
    <3>1. PICK b : b = g[k - 1]
      OBVIOUS
    <3>2. b \in Envs /\ g[k] = ShellAssigned(command, k, b, depth)
      BY <1>13, <2>2, <3>1
    <3>3. QED
      BY <1>4, <3>1, <3>2
  <2>3. QED
    BY <1>14, <2>1, <2>2 DEF Follows
<1>16. f[n] \in Envs /\ g[n] \in Envs /\ Agree(f[n], g[n])
  BY <1>2, <1>5, <1>6, <1>15, FollowsAgree
<1>17. QED
  BY <1>12, <1>16

(* The simple commands of a pipeline, one after the other.                  *)
StageAssigned(pipe, k, e, depth) ==
  IF pipe[k].cmd = "simple" THEN ApplyAssignments(pipe[k], e, depth) ELSE e
StageShellAssigned(pipe, k, s, depth) ==
  IF pipe[k].cmd = "simple" THEN ShellAssigns(pipe[k], s, depth) ELSE s
IsEnvAfter(pipe, e, depth, f) ==
  f = [k \in 0 .. Len(pipe) |-> IF k = 0 THEN e ELSE StageAssigned(pipe, k, f[k - 1], depth)]
IsShellEnvAfter(pipe, s, depth, g) ==
  g = [k \in 0 .. Len(pipe) |-> IF k = 0 THEN s ELSE StageShellAssigned(pipe, k, g[k - 1], depth)]

(* Both rows of commands end in bindings that agree.                        *)
LEMMA PipelineAgrees ==
  ASSUME StringsAreSequences, ParserTyped, OneTree, env \in Envs, bindings \in Envs,
         Agree(env, bindings), NEW pipe \in Seq(CommandType(Script)), NEW depth \in 0 .. MaxDepth
  PROVE  /\ EnvAfter(pipe, Len(pipe), depth) \in Envs
         /\ ShellAfter(pipe, depth) \in Envs
         /\ Agree(EnvAfter(pipe, Len(pipe), depth), ShellAfter(pipe, depth))
<1>1. PICK n : n = Len(pipe)
  OBVIOUS
<1>2. n \in Nat /\ \A k \in 1 .. n : pipe[k] \in CommandType(Script)
  BY <1>1, LenProperties, ElementOfSeq
<1>3. PICK e : e = env
  OBVIOUS
<1>4. PICK s : s = bindings
  OBVIOUS
<1> DEFINE stepE == [k \in 1 .. n |-> [a \in Envs |-> StageAssigned(pipe, k, a, depth)]]
           stepS == [k \in 1 .. n |-> [b \in Envs |-> StageShellAssigned(pipe, k, b, depth)]]
<1>5. ASSUME NEW k \in 1 .. n, NEW a \in Envs, NEW b \in Envs, Agree(a, b)
      PROVE  /\ StageAssigned(pipe, k, a, depth) \in Envs
             /\ StageShellAssigned(pipe, k, b, depth) \in Envs
             /\ Agree(StageAssigned(pipe, k, a, depth), StageShellAssigned(pipe, k, b, depth))
  <2>1. PICK command : command = pipe[k]
    OBVIOUS
  <2>2. command \in CommandType(Script)
    BY <1>2, <2>1
  <2>3. CASE command.cmd = "simple"
    BY <1>5, <2>1, <2>2, <2>3, AssignmentsAgree DEF StageAssigned, StageShellAssigned
  <2>4. CASE command.cmd # "simple"
    BY <1>5, <2>1, <2>4 DEF StageAssigned, StageShellAssigned
  <2>5. QED
    BY <2>3, <2>4
<1>6. \A k \in 1 .. n, a \in Envs : /\ stepE[k][a] = StageAssigned(pipe, k, a, depth)
                                    /\ stepS[k][a] = StageShellAssigned(pipe, k, a, depth)
  OBVIOUS
<1>7. stepE \in [1 .. n -> [Envs -> Envs]] /\ stepS \in [1 .. n -> [Envs -> Envs]]
  BY <1>5, EnvTexts
<1> HIDE DEF stepE, stepS
<1>8. \A k \in 1 .. n, a, b \in Envs : Agree(a, b) => Agree(stepE[k][a], stepS[k][b])
  BY <1>5, <1>6
<1>9. \E f : IsEnvAfter(pipe, e, depth, f)
  <2>1. PICK h : h \in Iterations(n, Envs, e, stepE)
    BY <1>2, <1>3, <1>7, IterationExists
  <2>2. /\ h \in [0 .. n -> Envs] /\ h[0] = e
        /\ \A k \in 1 .. n : h[k] = stepE[k][h[k - 1]]
    BY <2>1 DEF Iterations
  <2>3. ASSUME NEW k \in 0 .. n
        PROVE  h[k] = IF k = 0 THEN e ELSE StageAssigned(pipe, k, h[k - 1], depth)
    <3>1. k # 0 => k \in 1 .. n /\ k - 1 \in 0 .. n
      BY <1>2
    <3>2. k # 0 => h[k - 1] \in Envs
      BY <2>2, <3>1
    <3>3. QED
      BY <1>6, <2>2, <3>1, <3>2
  <2>4. IsEnvAfter(pipe, e, depth, h)
    BY <1>1, <2>2, <2>3 DEF IsEnvAfter
  <2>5. QED
    BY <2>4
<1>10. \E g : IsShellEnvAfter(pipe, s, depth, g)
  <2>1. PICK h : h \in Iterations(n, Envs, s, stepS)
    BY <1>2, <1>4, <1>7, IterationExists
  <2>2. /\ h \in [0 .. n -> Envs] /\ h[0] = s
        /\ \A k \in 1 .. n : h[k] = stepS[k][h[k - 1]]
    BY <2>1 DEF Iterations
  <2>3. ASSUME NEW k \in 0 .. n
        PROVE  h[k] = IF k = 0 THEN s ELSE StageShellAssigned(pipe, k, h[k - 1], depth)
    <3>1. k # 0 => k \in 1 .. n /\ k - 1 \in 0 .. n
      BY <1>2
    <3>2. k # 0 => h[k - 1] \in Envs
      BY <2>2, <3>1
    <3>3. QED
      BY <1>6, <2>2, <3>1, <3>2
  <2>4. IsShellEnvAfter(pipe, s, depth, h)
    BY <1>1, <2>2, <2>3 DEF IsShellEnvAfter
  <2>5. QED
    BY <2>4
<1>11. PICK f : f = CHOOSE h : IsEnvAfter(pipe, e, depth, h)
  OBVIOUS
<1>12. PICK g : g = CHOOSE h : IsShellEnvAfter(pipe, s, depth, h)
  OBVIOUS
<1>13. IsEnvAfter(pipe, e, depth, f) /\ IsShellEnvAfter(pipe, s, depth, g)
  BY <1>9, <1>10, <1>11, <1>12
<1>14. EnvAfter(pipe, n, depth) = f[n] /\ ShellAfter(pipe, depth) = g[n]
  <2>1. f = CHOOSE h : IsEnvAfter(pipe, env, depth, h)
    BY <1>3, <1>11
  <2>2. g = CHOOSE h : IsShellEnvAfter(pipe, bindings, depth, h)
    BY <1>4, <1>12
  <2>3. EnvAfter(pipe, n, depth) = f[n]
    BY <2>1, Zenon DEF EnvAfter, IsEnvAfter, StageAssigned
  <2>4. ShellAfter(pipe, depth) = g[n]
    BY <1>1, <2>2, Zenon DEF ShellAfter, IsShellEnvAfter, StageShellAssigned
  <2>5. QED
    BY <2>3, <2>4
<1>15. ASSUME NEW k \in 1 .. n
       PROVE  /\ f[k] = StageAssigned(pipe, k, f[k - 1], depth)
              /\ g[k] = StageShellAssigned(pipe, k, g[k - 1], depth)
  <2>1. k \in 0 .. n /\ k # 0
    OBVIOUS
  <2>2. QED
    BY <1>1, <1>13, <2>1 DEF IsEnvAfter, IsShellEnvAfter
<1>16. f[0] = e /\ g[0] = s
  <2>1. 0 \in 0 .. n
    BY <1>2
  <2>2. QED
    BY <1>1, <1>13, <2>1 DEF IsEnvAfter, IsShellEnvAfter
<1>17. Follows(n, e, stepE, f) /\ Follows(n, s, stepS, g)
  <2>1. ASSUME NEW k \in 1 .. n, f[k - 1] \in Envs PROVE f[k] = stepE[k][f[k - 1]]
    <3>1. PICK a : a = f[k - 1]
      OBVIOUS
    <3>2. a \in Envs /\ f[k] = StageAssigned(pipe, k, a, depth)
      BY <1>15, <2>1, <3>1
    <3>3. QED
      BY <1>6, <3>1, <3>2
  <2>2. ASSUME NEW k \in 1 .. n, g[k - 1] \in Envs PROVE g[k] = stepS[k][g[k - 1]]
    <3>1. PICK b : b = g[k - 1]
      OBVIOUS
    <3>2. b \in Envs /\ g[k] = StageShellAssigned(pipe, k, b, depth)
      BY <1>15, <2>2, <3>1
    <3>3. QED
      BY <1>6, <3>1, <3>2
  <2>3. QED
    BY <1>16, <2>1, <2>2 DEF Follows
<1>18. e \in Envs /\ s \in Envs /\ Agree(e, s)
  BY <1>3, <1>4
<1>19. f[n] \in Envs /\ g[n] \in Envs /\ Agree(f[n], g[n])
  BY <1>2, <1>7, <1>8, <1>17, <1>18, FollowsAgree
<1>20. QED
  BY <1>1, <1>14, <1>19

(* The invariant: both hold texts, and they agree.                          *)
BindingsInv ==
  AllTyped(todo) /\ env \in Envs /\ bindings \in Envs /\ Agree(env, bindings)

(* Every step keeps it: only a pipeline changes the bindings.               *)
LEMMA BindingsNext ==
  ASSUME StringsAreSequences, ParserTyped, OneTree, BindingsInv, [Next]_vars
  PROVE  BindingsInv'
<1>1. AllTyped(todo')
  BY TypedNext DEF BindingsInv
<1>2. CASE WalkPipeline
  <2>1. PICK pipe : pipe = Head(todo).pipe
    OBVIOUS
  <2>2. PICK depth : depth = Head(todo).depth
    OBVIOUS
  <2>3. /\ todo # <<>> /\ Head(todo).call = "walk_pipeline"
        /\ env' = EnvAfter(pipe, Len(pipe), depth) /\ bindings' = ShellAfter(pipe, depth)
    BY <1>2, <2>1, <2>2 DEF WalkPipeline, Calling
  <2>4. CallTyped(Head(todo))
    BY <2>3, HeadTyped DEF BindingsInv
  <2>5. pipe \in Seq(CommandType(Script)) /\ depth \in 0 .. MaxDepth
    BY <2>1, <2>2, <2>3, <2>4, MaxDepthAssumption DEF CallTyped
  <2>6. env \in Envs /\ bindings \in Envs /\ Agree(env, bindings)
    BY DEF BindingsInv
  <2>7. env' \in Envs /\ bindings' \in Envs /\ Agree(env', bindings')
    BY <2>3, <2>5, <2>6, PipelineAgrees
  <2>8. QED
    BY <1>1, <2>7 DEF BindingsInv, Agree, Texts
<1>3. CASE ~WalkPipeline
  <2>1. UNCHANGED <<env, bindings>>
    BY <1>3 DEF Next, Step, Done, vars, ctx, history, Analyze, Answer, WalkScript, JudgePipeline,
                DefineFunction, AnalyzeNested, CommandRules, MatchName, ExecuteCommand
  <2>2. QED
    BY <1>1, <2>1 DEF BindingsInv, Agree, Texts
<1>4. QED
  BY <1>2, <1>3

(* A name the walk believes to know has the value a shell would give it,    *)
(* but for white space, whatever was assigned to it and in whichever order: *)
(* the walk may lack a binding but never keeps an old one.                  *)
THEOREM BindingsAreCurrentAlways ==
  ASSUME StringsAreSequences, ParserTyped, OneTree
  PROVE  Spec => []BindingsAreCurrent
<1>1. Init => BindingsInv
  <2> SUFFICES ASSUME Init PROVE BindingsInv
    OBVIOUS
  <2>1. InitEnv \in Envs
    <3>1. " " \in STRING /\ "~" \in STRING
      BY SpaceAssumption, ValueAssumption, Zenon
    <3>2. " " \in Writing /\ "~" \in Writing
      BY <3>1 DEF StringsAreSequences, Writing
    <3>3. "IFS" \in STRING /\ "HOME" \in STRING
      BY ValueAssumption, Zenon
    <3>4. InitEnv \in [{"IFS", "HOME"} -> Writing]
      BY <3>2 DEF InitEnv
    <3>5. QED
      BY <3>3, <3>4 DEF Envs
  <2>2. QED
    BY <2>1, TypedInit, EnvTexts DEF Init, BindingsInv
<1>2. BindingsInv /\ [Next]_vars => BindingsInv'
  BY BindingsNext
<1>3. BindingsInv => BindingsAreCurrent
  BY DEF BindingsInv, Agree, BindingsAreCurrent
<1>4. QED
  BY <1>1, <1>2, <1>3, PTL DEF Spec
=============================================================================
