---------------------------- MODULE CppStreamProofs ----------------------------
(***************************************************************************)
(* Machine-checked proofs about CppStream, for every set of lines, every   *)
(* analyzer and every bound: type correctness and the refinement of the    *)
(* contract that the Rust driver refines too.                              *)
(***************************************************************************)
EXTENDS CppStream, DataProofs

(* The contract's copies of the helpers and constants are the driver's.     *)
LEMMA SameHelpers ==
  /\ \A S : Contract!Get(S) = Get(S)
  /\ \A S, d : Contract!GetOr(S, d) = GetOr(S, d)
  /\ Contract!Ask = Ask /\ Contract!MalformedInput = MalformedInput
BY DEF Contract!Get, Get, Contract!GetOr, GetOr, Contract!Ask, Ask,
   Contract!MalformedInput, MalformedInput

-----------------------------------------------------------------------------
(* What the contract sees of a line. *)

(* A malformed-record verdict is a well-formed ASK.                         *)
LEMMA MalformedVerdict ==
  ASSUME NEW detail \in MalformedDetail
  PROVE  /\ VerdictOf(MalformedInput, detail) \in Verdict
         /\ VerdictOf(MalformedInput, detail).decision = Ask
         /\ VerdictOf(MalformedInput, detail).rule = MalformedInput
<1>1. Severity(MalformedInput) = Ask
  BY DEF Severity, MalformedInput, ForkBomb, ReverseShell, RemoteExec,
     FsDestructive, DeviceOverwrite, SystemFileWrite, Exfiltration,
     ContainerEscape, OkRule
<1>2. Ask \in Decision /\ MalformedInput \in Rule
  BY DEF Ask, Decision, Allow, Deny, MalformedInput, Rule, ForkBomb, OkRule
<1>3. QED
  BY <1>1, <1>2 DEF VerdictOf, Verdict

(* A line that is too long, not UTF-8 or not an object shows neither id nor *)
(* command; any other shows those of its record, which are an optional      *)
(* identifier and an optional command.                                      *)
LEMMA StrippedView ==
  ASSUME NEW l \in LineShape, NEW bare, bare = Stripped(l)
  PROVE  /\ bare.ws = l.ws
         /\ TooLong(bare) \/ ~bare.utf8 \/ bare.rec = {} =>
              ViewOf(l).id = {} /\ ViewOf(l).cmd = {}
         /\ ~(TooLong(bare) \/ ~bare.utf8 \/ bare.rec = {}) =>
              /\ ViewOf(l).id = Get(bare.rec).id
              /\ ViewOf(l).cmd = Get(bare.rec).cmd
         /\ bare.rec # {} => Get(bare.rec) \in [id : SUBSET Id, cmd : SUBSET Cmd]
<1>1. /\ bare.utf8 = l.utf8 /\ bare.rec = l.rec /\ bare.ws = l.ws
      /\ bare.body = l.body /\ bare.eol = 0 /\ l.body \in Nat
  BY DEF Stripped, LineShape
<1>2. TooLong(bare) <=> l.body > MaxLineBytes
  BY <1>1 DEF TooLong
<1>3. bare.rec # {} => Get(bare.rec) \in [id : SUBSET Id, cmd : SUBSET Cmd]
  BY <1>1, GetMember DEF LineShape
<1>4. QED
  BY <1>1, <1>2, <1>3 DEF ViewOf

(* What the contract sees of a line is a view in its sense.                 *)
LEMMA ViewTyped ==
  ASSUME NEW l \in LineShape
  PROVE  ViewOf(l) \in [blank : BOOLEAN, id : SUBSET Id, cmd : SUBSET Cmd]
<1>1. l.rec # {} => Get(l.rec) \in [id : SUBSET Id, cmd : SUBSET Cmd]
  BY GetMember DEF LineShape
<1>2. QED
  BY <1>1 DEF ViewOf, LineShape

(* The views of one line more are the views so far and one more.            *)
LEMMA ViewsAppend ==
  ASSUME NEW lines \in Seq(LineShape), NEW l \in LineShape
  PROVE  [n \in DOMAIN Append(lines, l) |-> ViewOf(Append(lines, l)[n])]
           = Append([n \in DOMAIN lines |-> ViewOf(lines[n])], ViewOf(l))
<1> DEFINE view == [x \in LineShape |-> ViewOf(x)]
<1>1. view \in [LineShape -> [blank : BOOLEAN, id : SUBSET Id, cmd : SUBSET Cmd]]
  BY ViewTyped
<1>2. [n \in DOMAIN Append(lines, l) |-> view[Append(lines, l)[n]]]
        = Append([n \in DOMAIN lines |-> view[lines[n]]], view[l])
  <2> HIDE DEF view
  <2>1. QED
    BY <1>1, MapAppend
<1>3. \A n \in DOMAIN lines : lines[n] \in LineShape
  BY SeqElements
<1>4. \A n \in DOMAIN Append(lines, l) : Append(lines, l)[n] \in LineShape
  BY AppendProperties, SeqElements
<1>5. [n \in DOMAIN lines |-> view[lines[n]]] = [n \in DOMAIN lines |-> ViewOf(lines[n])]
  BY <1>3
<1>6. [n \in DOMAIN Append(lines, l) |-> view[Append(lines, l)[n]]]
        = [n \in DOMAIN Append(lines, l) |-> ViewOf(Append(lines, l)[n])]
  BY <1>4
<1>7. QED
  BY <1>2, <1>5, <1>6

-----------------------------------------------------------------------------
(* The invariant. *)

(* The lines whose iteration is over.                                       *)
Finished == IF pc = "judge" THEN lineno - 1 ELSE lineno

(* What the client sees of a record is the answer owed to its line.         *)
Seen(record) ==
  [line |-> record.line, id |-> record.id,
   decision |-> record.verdict.decision, rule |-> record.verdict.rule]
Owed(record) ==
  /\ record.line \in 1 .. Finished /\ ~sent[record.line].ws
  /\ Seen(record) = Contract!Answer(record.line, ViewOf(sent[record.line]))

(* Received or still in the buffer, each record answers its line, in order. *)
InOrder ==
  /\ \A i \in DOMAIN out : Owed(out[i])
  /\ \A i, j \in DOMAIN out : i < j => out[i].line < out[j].line
  /\ buf # <<>> =>
       Owed(buf[1]) /\ \A i \in DOMAIN out : out[i].line < buf[1].line

(* Nothing is lost while the stream is good.                                *)
Written(n) ==
  \/ \E i \in DOMAIN out : out[i].line = n
  \/ buf # <<>> /\ buf[1].line = n
NothingLost == ~bad => \A n \in 1 .. Finished : sent[n].ws \/ Written(n)

(* A bad stream holds nothing, the tie has emptied the buffer before a line  *)
(* is judged, and only the end of the input leads to the final flush.        *)
Control ==
  /\ bad => buf = <<>>
  /\ pc = "judge" => buf = <<>> /\ lineno \in DOMAIN sent
  /\ pc = "flush" \/ exit = {0} => closed /\ lineno = Len(sent)

Inv == TypeOK /\ InOrder /\ NothingLost /\ Control

(* Lines the client writes have the shape the driver relies on.             *)
LEMMA SentShape ==
  ASSUME TypeOK, NEW n \in DOMAIN sent
  PROVE  sent[n] \in Line /\ sent[n] \in LineShape
BY LineAssumption DEF TypeOK

(* The driver starts with an empty channel, buffer and output.              *)
LEMMA InvInit == Init => Inv
<1> SUFFICES ASSUME Init PROVE Inv
  OBVIOUS
<1>1. /\ exit # {0} /\ pc # "flush" /\ pc # "judge" /\ pc # "exit"
      /\ DOMAIN out = {} /\ Finished = 0
  BY DEF Init, Finished
<1>2. /\ sent \in Seq(Line) /\ out \in Seq(OutRecord) /\ buf \in Seq(OutRecord)
      /\ lineno \in 0 .. Len(sent) /\ Len(buf) <= 1
  BY DEF Init
<1>3. TypeOK
  BY <1>1, <1>2 DEF Init, TypeOK
<1>4. InOrder /\ NothingLost /\ Control
  BY <1>1 DEF Init, InOrder, NothingLost, Control
<1>5. QED
  BY <1>3, <1>4 DEF Inv

(* The client appends to sent and leaves what is there alone.               *)
LEMMA ClientKeepsInv ==
  ASSUME Inv, Client
  PROVE  Inv'
<1>1. CASE \E l \in Line : Submit(l)
  <2>1. PICK l \in Line : Submit(l)
    BY <1>1
  <2>2. /\ sent' = Append(sent, l) /\ ~closed /\ closed' = closed
        /\ UNCHANGED <<lineno, raw, pc, buf, bad, out, exit>>
    BY <2>1 DEF Submit, Client
  <2>3. /\ sent' \in Seq(Line) /\ Len(sent') = Len(sent) + 1
        /\ \A n \in DOMAIN sent : n \in DOMAIN sent' /\ sent'[n] = sent[n]
    BY <2>2 DEF Inv, TypeOK
  <2>4. Finished' = Finished /\ \A n \in 1 .. Finished : n \in DOMAIN sent
    BY <2>2 DEF Inv, TypeOK, Finished
  <2>5. pc = "judge" => lineno \in DOMAIN sent
    BY DEF Inv, Control
  <2>6. TypeOK'
    BY <2>2, <2>3, <2>5 DEF Inv, TypeOK
  <2>7. \A record : Owed(record) => Owed(record)'
    BY <2>3, <2>4 DEF Owed
  <2>8. InOrder'
    BY <2>2, <2>7 DEF Inv, InOrder, Owed, Seen
  <2>9. NothingLost'
    BY <2>2, <2>3, <2>4 DEF Inv, NothingLost, Written
  <2>10. Control'
    BY <2>2, <2>3 DEF Inv, Control
  <2>11. QED
    BY <2>6, <2>8, <2>9, <2>10 DEF Inv
<1>2. CASE Close
  BY <1>2 DEF Close, Client, Inv, TypeOK, InOrder, NothingLost, Control,
     Owed, Seen, Written, Finished
<1>3. QED
  BY <1>1, <1>2 DEF Client

(* A step that touches neither lines nor records nor the loop's place in    *)
(* the input leaves what is said of them true.                              *)
LEMMA RecordsStay ==
  ASSUME Inv, UNCHANGED <<sent, buf, bad, out>>, Finished' = Finished
  PROVE  InOrder' /\ NothingLost'
BY DEF Inv, InOrder, NothingLost, Owed, Seen, Written

(* Writing the buffer out hands its record on, or loses it and the stream.  *)
LEMMA DrainKeepsInv ==
  ASSUME Inv, Drain
  PROVE  Inv'
<1>1. /\ buf # <<>> /\ buf \in Seq(OutRecord) /\ Len(buf) = 1 /\ ~bad
      /\ out \in Seq(OutRecord) /\ exit = {} /\ pc # "judge"
      /\ UNCHANGED <<sent, closed, lineno, raw, pc, exit>>
  <2>1. /\ buf # <<>> /\ pc \in {"getline", "flush"}
        /\ UNCHANGED <<sent, closed, lineno, raw, pc, exit>>
    BY DEF Drain, Flushing
  <2>2. buf \in Seq(OutRecord) /\ Len(buf) <= 1 /\ out \in Seq(OutRecord)
    BY DEF Inv, TypeOK
  <2>3. Len(buf) = 1
    <3>1. Len(buf) \in Nat /\ Len(buf) # 0
      BY <2>1, <2>2, EmptySeq
    <3>2. Len(buf) <= 1
      BY <2>2
    <3>3. \A n \in Nat : n # 0 /\ n <= 1 => n = 1
      OBVIOUS
    <3>4. QED
      BY <3>1, <3>2, <3>3
  <2>4. ~bad /\ exit = {} /\ pc # "judge"
    BY <2>1 DEF Inv, TypeOK, Control
  <2>5. QED
    BY <2>1, <2>2, <2>3, <2>4
<1>2. Finished' = Finished
  BY <1>1 DEF Finished
<1>3. \A record : Owed(record)' <=> Owed(record)
  BY <1>1, <1>2 DEF Owed
<1>4. CASE out' = Append(out, Head(buf)) /\ buf' = Tail(buf) /\ UNCHANGED bad
  <2>1. Head(buf) = buf[1] /\ buf[1] \in OutRecord /\ buf' = <<>>
    BY <1>1, <1>4
  <2>2. /\ out' \in Seq(OutRecord) /\ DOMAIN out' = DOMAIN out \cup {Len(out) + 1}
        /\ \A i \in DOMAIN out : out'[i] = out[i]
        /\ out'[Len(out) + 1] = buf[1]
        /\ DOMAIN out = 1 .. Len(out) /\ Len(out) \in Nat
    BY <1>1, <1>4, <2>1
  <2>3. TypeOK'
    <3>1. buf' \in Seq(OutRecord) /\ Len(buf') <= 1
      BY <2>1
    <3>2. TypeOK /\ bad' = bad
      BY <1>4 DEF Inv
    <3>3. QED
      BY <1>1, <2>2, <3>1, <3>2 DEF TypeOK
  <2>4. \A i, j \in DOMAIN out' : i < j => out'[i].line < out'[j].line
    BY <1>1, <2>2 DEF Inv, InOrder
  <2>5. InOrder'
    BY <1>1, <1>3, <2>1, <2>2, <2>4 DEF Inv, InOrder
  <2>6. \A n : Written(n) => Written(n)'
    BY <2>1, <2>2 DEF Written
  <2>7. NothingLost'
    BY <1>1, <1>2, <2>6 DEF Inv, NothingLost
  <2>8. Control'
    BY <1>1, <1>4, <2>1 DEF Inv, Control
  <2>9. QED
    BY <2>3, <2>5, <2>7, <2>8 DEF Inv
<1>5. CASE bad' = TRUE /\ buf' = <<>> /\ UNCHANGED out
  <2>1. buf' \in Seq(OutRecord) /\ Len(buf') = 0
    BY <1>5
  <2>2. TypeOK'
    BY <1>1, <1>5, <2>1 DEF Inv, TypeOK
  <2>3. InOrder' /\ NothingLost' /\ Control'
    BY <1>1, <1>3, <1>5 DEF Inv, InOrder, NothingLost, Control
  <2>4. QED
    BY <2>2, <2>3 DEF Inv
<1>6. QED
  BY <1>4, <1>5 DEF Drain

(* What the loop knows of the line it is judging.                           *)
LEMMA AnswerOfJudged ==
  ASSUME Inv, pc = "judge"
  PROVE  /\ lineno \in DOMAIN sent /\ lineno \in Nat /\ exit = {} /\ buf = <<>>
         /\ line.ws = sent[lineno].ws
         /\ Finished = lineno - 1
         /\ TooLong(line) \/ ~line.utf8 \/ line.rec = {} =>
              Contract!Answer(lineno, ViewOf(sent[lineno])) =
                [line |-> lineno, id |-> lineno,
                 decision |-> Ask, rule |-> MalformedInput]
         /\ ~(TooLong(line) \/ ~line.utf8 \/ line.rec = {}) =>
              /\ Get(line.rec) \in [id : SUBSET Id, cmd : SUBSET Cmd]
              /\ Contract!Answer(lineno, ViewOf(sent[lineno])) =
                [line |-> lineno, id |-> GetOr(Get(line.rec).id, lineno),
                 decision |-> IF Get(line.rec).cmd = {} THEN Ask
                              ELSE Analyze[Get(Get(line.rec).cmd)].decision,
                 rule |-> IF Get(line.rec).cmd = {} THEN MalformedInput
                          ELSE Analyze[Get(Get(line.rec).cmd)].rule]
<1>1. lineno \in DOMAIN sent /\ line = Stripped(sent[lineno])
  BY DEF Inv, TypeOK, Control, line
<1>2. sent[lineno] \in LineShape
  BY <1>1, SentShape DEF Inv
<1>3. Contract!Answer(lineno, ViewOf(sent[lineno])) =
        [line |-> lineno, id |-> GetOr(ViewOf(sent[lineno]).id, lineno),
         decision |-> IF ViewOf(sent[lineno]).cmd = {} THEN Ask
                      ELSE Analyze[Get(ViewOf(sent[lineno]).cmd)].decision,
         rule |-> IF ViewOf(sent[lineno]).cmd = {} THEN MalformedInput
                  ELSE Analyze[Get(ViewOf(sent[lineno]).cmd)].rule]
  BY SameHelpers DEF Contract!Answer, Contract!Malformed
<1>4. GetOr({}, lineno) = lineno
  BY DEF GetOr
<1>5. lineno \in Nat /\ exit = {} /\ buf = <<>> /\ Finished = lineno - 1
  BY DEF Inv, TypeOK, Control, Finished
<1>6. QED
  BY <1>1, <1>2, <1>3, <1>4, <1>5, StrippedView

(* One emit puts the answer to the judged line into the empty buffer, or,   *)
(* when the stream is bad, nothing.                                         *)
LEMMA EmitKeepsInv ==
  ASSUME Inv, pc = "judge", ~line.ws,
         NEW id \in Id \cup Nat, NEW verdict \in Verdict,
         [line |-> lineno, id |-> id,
          decision |-> verdict.decision, rule |-> verdict.rule]
           = Contract!Answer(lineno, ViewOf(sent[lineno])),
         Emit(id, verdict)
  PROVE  Inv'
<1> DEFINE rec == [line |-> lineno, id |-> id, verdict |-> verdict]
<1>1. /\ lineno \in DOMAIN sent /\ lineno \in Nat /\ exit = {} /\ buf = <<>>
      /\ ~sent[lineno].ws /\ Finished = lineno - 1
  BY AnswerOfJudged
<1>2. /\ pc' = "getline" /\ raw' = <<>> /\ Finished' = lineno
      /\ UNCHANGED <<sent, closed, lineno, bad, out, exit>>
  BY DEF Emit, Finished
<1>3. \A record : Owed(record) => Owed(record)' /\ record.line < lineno
  BY <1>1, <1>2 DEF Owed
<1>4. CASE bad
  <2>1. buf' = <<>>
    BY <1>1, <1>4 DEF Emit
  <2>2. TypeOK'
    BY <1>1, <1>2, <2>1 DEF Inv, TypeOK
  <2>3. InOrder' /\ NothingLost' /\ Control'
    BY <1>1, <1>2, <1>3, <1>4, <2>1 DEF Inv, InOrder, NothingLost, Control
  <2>4. QED
    BY <2>2, <2>3 DEF Inv
<1>5. CASE ~bad
  <2>1. rec \in OutRecord
    BY <1>1 DEF OutRecord
  <2>2. buf' = <<rec>> /\ buf' # <<>> /\ buf'[1] = rec
    BY <1>1, <1>5, <2>1 DEF Emit
  <2>3. TypeOK'
    BY <1>1, <1>2, <2>1, <2>2 DEF Inv, TypeOK
  <2>4. \A record : record = rec => Owed(record)'
    <3> SUFFICES ASSUME NEW record, record = rec PROVE Owed(record)'
      OBVIOUS
    <3>1. record.line = lineno /\ record.id = id /\ record.verdict = verdict
      OBVIOUS
    <3>2. record.line \in 1 .. Finished' /\ ~sent'[record.line].ws
      BY <3>1, <1>1, <1>2 DEF Inv, TypeOK
    <3>3. Seen(record) = Contract!Answer(record.line, ViewOf(sent'[record.line]))
      BY <3>1, <1>2 DEF Seen
    <3>4. QED
      BY <3>2, <3>3 DEF Owed, Seen
  <2>5. InOrder'
    BY <1>2, <1>3, <2>2, <2>4 DEF Inv, InOrder
  <2>6. \A n \in 1 .. lineno : n \in 1 .. Finished \/ n = lineno
    BY <1>1
  <2>7. \A n : Written(n) => Written(n)'
    BY <1>1, <1>2 DEF Written
  <2>8. \A n : n = lineno => Written(n)'
    BY <2>2 DEF Written
  <2>9. NothingLost'
    BY <1>2, <1>5, <2>6, <2>7, <2>8 DEF Inv, NothingLost
  <2>10. Control'
    BY <1>1, <1>2, <1>5 DEF Inv, Control
  <2>11. QED
    BY <2>3, <2>5, <2>9, <2>10 DEF Inv
<1>6. QED
  BY <1>4, <1>5

(* The record a check rejects, or the verdict of the tier, is the answer the *)
(* contract owes.                                                            *)
Answering(id, verdict) ==
  /\ id \in Id \cup Nat /\ verdict \in Verdict
  /\ [line |-> lineno, id |-> id,
      decision |-> verdict.decision, rule |-> verdict.rule]
       = Contract!Answer(lineno, ViewOf(sent[lineno]))
  /\ Emit(id, verdict)

(* Each way an iteration ends, but for a blank line, is one such emit.      *)
Judging ==
  RejectTooLong \/ RejectNotUtf8 \/ RejectNotObject \/ RejectNoCmd \/ Judge

LEMMA JudgingAnswers ==
  ASSUME Inv, Judging
  PROVE  pc = "judge" /\ ~line.ws /\ \E id, verdict : Answering(id, verdict)
<1>1. ASSUME pc = "judge", NEW detail \in MalformedDetail,
             TooLong(line) \/ ~line.utf8 \/ line.rec = {},
             Malformed(lineno, detail)
      PROVE  Answering(lineno, VerdictOf(MalformedInput, detail))
  BY <1>1, AnswerOfJudged, MalformedVerdict DEF Malformed, Answering
<1>2. CASE RejectTooLong
  BY <1>1, <1>2 DEF RejectTooLong, MalformedDetail
<1>3. CASE RejectNotUtf8
  BY <1>1, <1>3 DEF RejectNotUtf8, MalformedDetail
<1>4. CASE RejectNotObject
  BY <1>1, <1>4 DEF RejectNotObject, Parsed, MalformedDetail
<1>5. ASSUME Parsed, line.rec # {}
      PROVE  GetOr(Get(line.rec).id, lineno) \in Id \cup Nat
  <2>1. Get(line.rec) \in [id : SUBSET Id, cmd : SUBSET Cmd] /\ lineno \in Nat
    BY <1>5, AnswerOfJudged DEF Parsed
  <2>2. Get(line.rec).id # {} => Get(Get(line.rec).id) \in Get(line.rec).id
    BY GetMember
  <2>3. QED
    BY <2>1, <2>2 DEF GetOr
<1>6. CASE RejectNoCmd
  <2>1. Answering(GetOr(Get(line.rec).id, lineno),
                  VerdictOf(MalformedInput, "record has no cmd field"))
    BY <1>5, <1>6, AnswerOfJudged, MalformedVerdict
       DEF RejectNoCmd, Malformed, Parsed, MalformedDetail, Answering
  <2>2. QED
    BY <1>6, <2>1 DEF RejectNoCmd, Parsed
<1>7. CASE Judge
  <2>1. Get(line.rec) \in [id : SUBSET Id, cmd : SUBSET Cmd]
    BY <1>7, AnswerOfJudged DEF Judge, Parsed
  <2>2. Get(Get(line.rec).cmd) \in Cmd
    BY <1>7, <2>1, GetMember DEF Judge
  <2>3. Analyze[Get(Get(line.rec).cmd)] \in Verdict
    BY <2>2, AnalyzeAssumption
  <2>4. Answering(GetOr(Get(line.rec).id, lineno), Analyze[Get(Get(line.rec).cmd)])
    BY <1>5, <1>7, <2>3, AnswerOfJudged DEF Judge, Parsed, Answering
  <2>5. QED
    BY <1>7, <2>4 DEF Judge, Parsed
<1>8. QED
  BY <1>2, <1>3, <1>4, <1>6, <1>7 DEF Judging

(* Every step of the driver keeps the invariant.                            *)
LEMMA GateKeepsInv ==
  ASSUME Inv, Gate
  PROVE  Inv'
<1>1. CASE Drain
  BY <1>1, DrainKeepsInv
<1>2. CASE GetLine
  <2>1. /\ pc = "getline" /\ buf = <<>> /\ lineno' = lineno + 1
        /\ lineno + 1 \in DOMAIN sent /\ pc' = "judge"
        /\ raw' = <<Stripped(sent[lineno + 1])>>
        /\ UNCHANGED <<sent, closed, buf, bad, out, exit>>
    BY <1>2 DEF GetLine, LineReady, Flushing
  <2>2. Finished' = Finished
    BY <2>1 DEF Inv, TypeOK, Finished
  <2>3. TypeOK'
    BY <2>1 DEF Inv, TypeOK
  <2>4. Control'
    BY <2>1 DEF Inv, TypeOK, Control
  <2>5. QED
    BY <2>1, <2>2, <2>3, <2>4, RecordsStay DEF Inv
<1>3. CASE GetEof
  <2>1. /\ pc = "getline" /\ pc' = "flush" /\ closed /\ lineno = Len(sent)
        /\ UNCHANGED <<sent, closed, lineno, raw, buf, bad, out, exit>>
    BY <1>3 DEF GetEof
  <2>2. TypeOK' /\ Control' /\ Finished' = Finished
    BY <2>1 DEF Inv, TypeOK, Control, Finished
  <2>3. QED
    BY <2>1, <2>2, RecordsStay DEF Inv
<1>4. CASE SkipBlank
  <2>1. /\ pc' = "getline" /\ raw' = <<>> /\ Finished' = lineno
        /\ UNCHANGED <<sent, closed, lineno, buf, bad, out, exit>>
    BY <1>4 DEF SkipBlank, Finished
  <2>2. /\ lineno \in DOMAIN sent /\ lineno \in Nat /\ exit = {} /\ buf = <<>>
        /\ sent[lineno].ws /\ Finished = lineno - 1
    BY <1>4, AnswerOfJudged DEF SkipBlank
  <2>3. TypeOK' /\ Control'
    BY <2>1, <2>2 DEF Inv, TypeOK, Control
  <2>4. \A record : Owed(record) => Owed(record)'
    BY <2>1, <2>2 DEF Owed
  <2>5. InOrder'
    BY <2>1, <2>4 DEF Inv, InOrder
  <2>6. \A n \in 1 .. lineno : n \in 1 .. Finished \/ n = lineno
    BY <2>2
  <2>7. NothingLost'
    BY <2>1, <2>2, <2>6 DEF Inv, NothingLost, Written
  <2>8. QED
    BY <2>3, <2>5, <2>7 DEF Inv
<1>5. CASE Judging
  <2>1. PICK id, verdict : Answering(id, verdict)
    BY <1>5, JudgingAnswers
  <2>2. pc = "judge" /\ ~line.ws
    BY <1>5, JudgingAnswers
  <2>3. QED
    BY <2>1, <2>2, EmitKeepsInv DEF Answering
<1>6. CASE Flush \/ GetError
  <2>1. /\ pc \in {"flush", "getline"} /\ buf = <<>> /\ pc' = "exit"
        /\ exit' \in {{0}, {2}} /\ (exit' = {0} => pc = "flush")
        /\ UNCHANGED <<sent, closed, lineno, raw, buf, bad, out>>
    <3>1. {2} # {0}
      OBVIOUS
    <3>2. QED
      BY <1>6, <3>1 DEF Flush, GetError, Flushing
  <2>2. {0} # {} /\ {2} # {}
    OBVIOUS
  <2>3. TypeOK' /\ Control' /\ Finished' = Finished
    BY <2>1, <2>2 DEF Inv, TypeOK, Control, Finished
  <2>4. QED
    BY <2>1, <2>3, RecordsStay DEF Inv
<1>7. QED
  BY <1>1, <1>2, <1>3, <1>4, <1>5, <1>6 DEF Gate, Loop, Judging

(* Inv is an invariant of the driver.                                       *)
THEOREM InvInvariant == Spec => []Inv
<1>1. Inv /\ [Next]_vars => Inv'
  <2> SUFFICES ASSUME Inv, [Next]_vars PROVE Inv'
    OBVIOUS
  <2>1. CASE Client
    BY <2>1, ClientKeepsInv
  <2>2. CASE Gate
    BY <2>2, GateKeepsInv
  <2>3. CASE UNCHANGED vars
    <3>1. UNCHANGED <<sent, closed, lineno, raw, pc, buf, bad, out, exit>>
      BY <2>3 DEF vars
    <3>2. TypeOK' /\ Control' /\ Finished' = Finished
      BY <3>1 DEF Inv, TypeOK, Control, Finished
    <3>3. QED
      BY <3>1, <3>2, RecordsStay DEF Inv
  <2>4. QED
    BY <2>1, <2>2, <2>3 DEF Next, Done
<1>2. QED
  BY InvInit, <1>1, PTL DEF Spec

(* The variables of the C++ driver stay in range, the buffer of std::cout    *)
(* never holds more than one record, and it is empty when the process exits. *)
THEOREM TypeCorrect == Spec => []TypeOK
<1>1. Inv => TypeOK
  BY DEF Inv
<1>2. QED
  BY InvInvariant, <1>1, PTL

-----------------------------------------------------------------------------
(* Refinement of the contract. *)

(* The driver starts as the contract starts.                                *)
LEMMA ContractInit == Init => Contract!Init
<1> SUFFICES ASSUME Init PROVE Contract!Init
  OBVIOUS
<1>1. Views = <<>> /\ Answers = <<>> /\ status = "running"
  BY DEF Init, Views, Answers, status
<1>2. QED
  BY <1>1 DEF Init, Contract!Init

(* A step outside the contract's sight.                                     *)
LEMMA Invisible ==
  ASSUME UNCHANGED <<sent, closed, out, exit>>
  PROVE  UNCHANGED Contract!vars
BY DEF Contract!vars, Views, Answers, status

(* A line the client writes is a line submitted; closing is closing.        *)
LEMMA ClientRefines ==
  ASSUME Inv, Client
  PROVE  Contract!Next
<1>1. Answers' = Answers /\ status' = status
  BY DEF Client, Answers, status
<1>2. CASE \E l \in Line : Submit(l)
  <2>1. PICK l \in Line : Submit(l)
    BY <1>2
  <2>2. sent' = Append(sent, l) /\ ~closed /\ closed' = closed
    BY <2>1 DEF Submit
  <2>3. l \in LineShape /\ ViewOf(l) \in Contract!View
    BY LineAssumption, ViewTyped DEF Contract!View
  <2>4. sent \in Seq(LineShape)
    BY LineAssumption DEF Inv, TypeOK
  <2>5. Views' = Append(Views, ViewOf(l))
    BY <2>2, <2>3, <2>4, ViewsAppend DEF Views
  <2>6. QED
    BY <1>1, <2>2, <2>3, <2>5 DEF Contract!Next, Contract!Submit
<1>3. CASE Close
  <2>1. Views' = Views
    BY <1>3 DEF Close, Views
  <2>2. QED
    BY <1>1, <1>3, <2>1 DEF Close, Contract!Next, Contract!Close
<1>4. QED
  BY <1>2, <1>3 DEF Client

(* The last line the client has received an answer to.                      *)
LEMMA LastReceived ==
  ASSUME Inv
  PROVE  /\ Contract!LastAnswered \in Nat
         /\ \A i \in DOMAIN out : out[i].line <= Contract!LastAnswered
         /\ out # <<>> => \E i \in DOMAIN out : out[i].line = Contract!LastAnswered
         /\ out = <<>> => Contract!LastAnswered = 0
<1>1. out \in Seq(OutRecord) /\ DOMAIN out = 1 .. Len(out) /\ Len(out) \in Nat
  BY DEF Inv, TypeOK
<1>2. /\ \A i \in DOMAIN out : Answers[i].line = out[i].line
      /\ DOMAIN Answers = DOMAIN out
  BY DEF Answers
<1>3. CASE out = <<>>
  BY <1>3 DEF Answers, Contract!LastAnswered
<1>4. CASE out # <<>>
  <2>1. Len(out) \in DOMAIN out
    BY <1>1, <1>4, EmptySeq
  <2>2. Answers # <<>> /\ Len(Answers) = Len(out)
    BY <2>1, <1>1, <1>2
  <2>3. Contract!LastAnswered = out[Len(out)].line
    BY <2>1, <2>2, <1>2 DEF Contract!LastAnswered
  <2>4. \A i \in DOMAIN out : out[i].line \in Nat
    BY DEF Inv, InOrder, Owed
  <2>5. \A i \in DOMAIN out : i = Len(out) \/ i < Len(out)
    BY <1>1
  <2>6. \A i \in DOMAIN out : out[i].line <= out[Len(out)].line
    BY <2>1, <2>4, <2>5 DEF Inv, InOrder
  <2>7. QED
    BY <1>4, <2>1, <2>3, <2>4, <2>6
<1>5. QED
  BY <1>3, <1>4

(* The record in the buffer is the next one the contract owes an answer.    *)
LEMMA BufferedIsNext ==
  ASSUME Inv, buf # <<>>
  PROVE  Contract!NextRecord(buf[1].line)
<1> DEFINE n == buf[1].line
<1>1. ~bad /\ Owed(buf[1]) /\ \A i \in DOMAIN out : out[i].line < n
  BY DEF Inv, Control, InOrder
<1>2. n \in 1 .. Finished /\ Finished <= Len(sent) /\ Finished \in Int
      /\ DOMAIN sent = 1 .. Len(sent) /\ Len(sent) \in Nat
  BY <1>1 DEF Inv, TypeOK, Owed, Finished
<1>3. DOMAIN Views = DOMAIN sent /\ \A m \in DOMAIN sent : Views[m].blank = sent[m].ws
  BY DEF Views, ViewOf
<1>4. n \in DOMAIN Views /\ ~Views[n].blank /\ n > 0
  BY <1>1, <1>2, <1>3 DEF Owed
<1>5. n > Contract!LastAnswered
  BY <1>1, <1>4, LastReceived
<1>6. ASSUME NEW m \in DOMAIN Views, Contract!LastAnswered < m, m < n
      PROVE  Views[m].blank
  <2>1. m \in 1 .. Finished
    BY <1>2, <1>3, <1>6
  <2>2. ~\E i \in DOMAIN out : out[i].line = m
    <3> SUFFICES ASSUME NEW i \in DOMAIN out, out[i].line = m PROVE FALSE
      OBVIOUS
    <3>1. m <= Contract!LastAnswered /\ m \in Nat /\ Contract!LastAnswered \in Nat
      BY <1>2, <1>3, LastReceived
    <3>2. QED
      BY <3>1, <1>6
  <2>3. ~Written(m)
    BY <2>2, <1>2, <1>6 DEF Written
  <2>4. QED
    BY <1>1, <1>3, <2>1, <2>3 DEF Inv, NothingLost
<1>7. QED
  BY <1>4, <1>5, <1>6 DEF Contract!NextRecord

(* A record that reaches the client is the contract's Respond.              *)
LEMMA DrainRefines ==
  ASSUME Inv, Drain
  PROVE  Contract!Next \/ UNCHANGED Contract!vars
<1>1. /\ buf # <<>> /\ buf \in Seq(OutRecord) /\ out \in Seq(OutRecord) /\ exit = {}
      /\ UNCHANGED <<sent, closed, exit>>
  BY DEF Drain, Flushing, Inv, TypeOK
<1>2. CASE out' = Append(out, Head(buf))
  <2>1. Head(buf) = buf[1] /\ buf[1] \in OutRecord
    BY <1>1
  <2>2. Owed(buf[1])
    BY <1>1 DEF Inv, InOrder
  <2>3. Views' = Views /\ Views[buf[1].line] = ViewOf(sent[buf[1].line])
        /\ buf[1].line \in DOMAIN Views
    BY <1>1, BufferedIsNext DEF Views, Contract!NextRecord
  <2>4. status = "running" /\ status' = "running"
    BY <1>1 DEF status
  <2>5. Answers' = Append(Answers, Seen(buf[1]))
    <3>1. /\ DOMAIN out = 1 .. Len(out) /\ Len(out) \in Nat
          /\ DOMAIN out' = 1 .. Len(out) + 1 /\ out'[Len(out) + 1] = buf[1]
          /\ \A i \in 1 .. Len(out) : out'[i] = out[i]
      BY <1>1, <1>2, <2>1
    <3>2. Answers \in Seq({Answers[i] : i \in DOMAIN out}) /\ Len(Answers) = Len(out)
      BY <3>1 DEF Answers
    <3>3. Append(Answers, Seen(buf[1])) =
            [i \in 1 .. Len(out) + 1 |->
               IF i = Len(out) + 1 THEN Seen(buf[1]) ELSE Answers[i]]
      BY <3>2
    <3>4. \A i \in 1 .. Len(out) : Answers'[i] = Answers[i]
      BY <3>1 DEF Answers
    <3>5. Answers'[Len(out) + 1] = Seen(buf[1])
      BY <3>1 DEF Answers, Seen
    <3>6. Answers' = [i \in 1 .. Len(out) + 1 |-> Answers'[i]]
      BY <3>1 DEF Answers
    <3>7. QED
      BY <3>3, <3>4, <3>5, <3>6
  <2>6. Contract!Respond
    BY <1>1, <2>2, <2>3, <2>4, <2>5, BufferedIsNext DEF Contract!Respond, Owed
  <2>7. QED
    BY <2>6 DEF Contract!Next
<1>3. CASE UNCHANGED out
  BY <1>1, <1>3, Invisible
<1>4. QED
  BY <1>2, <1>3 DEF Drain

(* When every line has been read and the buffer is empty on a good stream,  *)
(* no record is owed an answer.                                             *)
LEMMA NothingOwedAtEnd ==
  ASSUME Inv, ~bad, buf = <<>>, Finished = Len(sent), NEW n \in DOMAIN Views
  PROVE  ~Contract!NextRecord(n)
<1> SUFFICES ASSUME Contract!NextRecord(n) PROVE FALSE
  OBVIOUS
<1>1. n \in 1 .. Finished /\ n \in Nat
  BY DEF Views, Inv, TypeOK
<1>2. ~sent[n].ws
  BY DEF Contract!NextRecord, Views, ViewOf
<1>3. PICK i \in DOMAIN out : out[i].line = n
  BY <1>1, <1>2 DEF Inv, NothingLost, Written
<1>4. n <= Contract!LastAnswered /\ Contract!LastAnswered \in Nat
  BY <1>3, LastReceived
<1>5. QED
  BY <1>1, <1>4 DEF Contract!NextRecord

(* Every step of the driver is a step of the contract or leaves its state   *)
(* alone: only a record that leaves the buffer and the exit are visible.    *)
LEMMA GateRefines ==
  ASSUME Inv, Gate
  PROVE  Contract!Next \/ UNCHANGED Contract!vars
<1>1. CASE Drain
  BY <1>1, DrainRefines
<1>2. CASE GetLine \/ GetEof \/ SkipBlank
  BY <1>2, Invisible DEF GetLine, GetEof, SkipBlank
<1>3. CASE Judging
  BY <1>3, JudgingAnswers, Invisible DEF Answering, Emit
<1>4. ASSUME exit = {}, exit' = {2}, UNCHANGED <<sent, closed, out>>
      PROVE  Contract!Next
  <2>1. {2} # {} /\ {2} # {0}
    OBVIOUS
  <2>2. QED
    BY <1>4, <2>1 DEF Contract!Next, Contract!Fail, Views, Answers, status
<1>5. CASE GetError
  BY <1>4, <1>5 DEF GetError, Inv, TypeOK
<1>6. CASE Flush
  <2>1. /\ pc = "flush" /\ exit = {} /\ buf = <<>> /\ UNCHANGED <<sent, closed, out>>
        /\ exit' = {2} \/ (exit' = {0} /\ ~bad)
    BY <1>6 DEF Flush, Flushing, Inv, TypeOK
  <2>2. CASE exit' = {2}
    BY <1>4, <2>1, <2>2
  <2>3. CASE exit' = {0} /\ ~bad
    <3>1. {0} # {}
      OBVIOUS
    <3>2. /\ Views' = Views /\ Answers' = Answers /\ status = "running"
          /\ status' = "ok"
      BY <2>1, <2>3, <3>1 DEF Views, Answers, status
    <3>3. closed /\ Finished = Len(sent)
      BY <2>1 DEF Inv, Control, Finished
    <3>4. \A n \in DOMAIN Views : ~Contract!NextRecord(n)
      BY <2>1, <2>3, <3>3, NothingOwedAtEnd
    <3>5. QED
      BY <2>1, <3>2, <3>3, <3>4 DEF Contract!Next, Contract!Finish
  <2>4. QED
    BY <2>1, <2>2, <2>3
<1>7. QED
  BY <1>1, <1>2, <1>3, <1>5, <1>6 DEF Gate, Loop, Judging

(* The C++ driver implements the contract, buffer, bad bit and tie included, *)
(* for every input, every analyzer and every pattern of output failures.     *)
THEOREM ImplementsContractAlways == Spec => ImplementsContract
<1>1. Inv /\ [Next]_vars => [Contract!Next]_Contract!vars
  <2> SUFFICES ASSUME Inv, [Next]_vars
               PROVE  Contract!Next \/ UNCHANGED Contract!vars
    OBVIOUS
  <2>1. CASE Client
    BY <2>1, ClientRefines
  <2>2. CASE Gate
    BY <2>2, GateRefines
  <2>3. CASE UNCHANGED vars
    BY <2>3, Invisible DEF vars
  <2>4. QED
    BY <2>1, <2>2, <2>3 DEF Next, Done
<1>2. QED
  BY InvInvariant, ContractInit, <1>1, PTL
     DEF Spec, ImplementsContract, Contract!Spec
=============================================================================
