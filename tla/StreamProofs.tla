---------------------------- MODULE StreamProofs ----------------------------
(***************************************************************************)
(* Machine-checked proofs about Stream, for every set of lines, every      *)
(* analyzer and every bound: the shape of the output and the refinement of *)
(* GateContract.                                                           *)
(***************************************************************************)
EXTENDS Stream, DataProofs

(* The contract's copies of the helpers and constants are the driver's.     *)
LEMMA SameHelpers ==
  /\ \A S : Contract!Get(S) = Get(S)
  /\ \A S, d : Contract!GetOr(S, d) = GetOr(S, d)
  /\ Contract!Ask = Ask /\ Contract!MalformedInput = MalformedInput
BY DEF Contract!Get, Get, Contract!GetOr, GetOr, Contract!Ask, Ask,
   Contract!MalformedInput, MalformedInput

-----------------------------------------------------------------------------
(* What the contract sees of a line. *)

(* A malformed-record verdict is a well-formed ASK.                         *)
LEMMA MalformedVerdict ==
  ASSUME NEW detail \in MalformedDetail
  PROVE  /\ VerdictOf(MalformedInput, detail) \in Verdict
         /\ VerdictOf(MalformedInput, detail).decision = Ask
         /\ VerdictOf(MalformedInput, detail).rule = MalformedInput
<1>1. Severity(MalformedInput) = Ask
  BY DEF Severity, MalformedInput, ForkBomb, ReverseShell, RemoteExec,
     FsDestructive, DeviceOverwrite, SystemFileWrite, Exfiltration,
     ContainerEscape, OkRule
<1>2. Ask \in Decision /\ MalformedInput \in Rule
  BY DEF Ask, Decision, Allow, Deny, MalformedInput, Rule, ForkBomb, OkRule
<1>3. QED
  BY <1>1, <1>2 DEF VerdictOf, Verdict

(* A line that is too long, not UTF-8 or not an object shows neither id nor *)
(* command; any other shows those of its record, which are an optional      *)
(* identifier and an optional command.                                      *)
LEMMA StrippedView ==
  ASSUME NEW l \in LineShape, NEW bare, bare = Stripped(l)
  PROVE  /\ bare.ws = l.ws
         /\ TooLong(bare) \/ ~bare.utf8 \/ bare.rec = {} =>
              ViewOf(l).id = {} /\ ViewOf(l).cmd = {}
         /\ ~(TooLong(bare) \/ ~bare.utf8 \/ bare.rec = {}) =>
              /\ ViewOf(l).id = Get(bare.rec).id
              /\ ViewOf(l).cmd = Get(bare.rec).cmd
         /\ bare.rec # {} => Get(bare.rec) \in [id : SUBSET Id, cmd : SUBSET Cmd]
<1>1. /\ bare.utf8 = l.utf8 /\ bare.rec = l.rec /\ bare.ws = l.ws
      /\ bare.body = l.body /\ bare.eol = 0 /\ l.body \in Nat
  BY DEF Stripped, LineShape
<1>2. TooLong(bare) <=> l.body > MaxLineBytes
  BY <1>1 DEF TooLong
<1>3. bare.rec # {} => Get(bare.rec) \in [id : SUBSET Id, cmd : SUBSET Cmd]
  BY <1>1, GetMember DEF LineShape
<1>4. QED
  BY <1>1, <1>2, <1>3 DEF ViewOf

(* What the contract sees of a line is a view in its sense.                 *)
LEMMA ViewTyped ==
  ASSUME NEW l \in LineShape
  PROVE  ViewOf(l) \in [blank : BOOLEAN, id : SUBSET Id, cmd : SUBSET Cmd]
<1>1. l.rec # {} => Get(l.rec) \in [id : SUBSET Id, cmd : SUBSET Cmd]
  BY GetMember DEF LineShape
<1>2. QED
  BY <1>1 DEF ViewOf, LineShape

(* The views of one line more are the views so far and one more.            *)
LEMMA ViewsAppend ==
  ASSUME NEW lines \in Seq(LineShape), NEW l \in LineShape
  PROVE  [n \in DOMAIN Append(lines, l) |-> ViewOf(Append(lines, l)[n])]
           = Append([n \in DOMAIN lines |-> ViewOf(lines[n])], ViewOf(l))
<1> DEFINE view == [x \in LineShape |-> ViewOf(x)]
<1>1. view \in [LineShape -> [blank : BOOLEAN, id : SUBSET Id, cmd : SUBSET Cmd]]
  BY ViewTyped
<1>2. [n \in DOMAIN Append(lines, l) |-> view[Append(lines, l)[n]]]
        = Append([n \in DOMAIN lines |-> view[lines[n]]], view[l])
  <2> HIDE DEF view
  <2>1. QED
    BY <1>1, MapAppend
<1>3. \A n \in DOMAIN lines : lines[n] \in LineShape
  BY SeqElements
<1>4. \A n \in DOMAIN Append(lines, l) : Append(lines, l)[n] \in LineShape
  BY AppendProperties, SeqElements
<1>5. [n \in DOMAIN lines |-> view[lines[n]]] = [n \in DOMAIN lines |-> ViewOf(lines[n])]
  BY <1>3
<1>6. [n \in DOMAIN Append(lines, l) |-> view[Append(lines, l)[n]]]
        = [n \in DOMAIN Append(lines, l) |-> ViewOf(Append(lines, l)[n])]
  BY <1>4
<1>7. QED
  BY <1>2, <1>5, <1>6

-----------------------------------------------------------------------------
(* The invariant. *)

(* Each record written is the answer the contract owes to its line.         *)
Correct ==
  \A i \in DOMAIN out :
    Answers[i] = Contract!Answer(out[i].line, ViewOf(sent[out[i].line]))

(* The loop only leaves by the end of the input, and only success skips no  *)
(* flush.                                                                   *)
AtEnd ==
  pc = "flush" \/ exit = {0} => closed /\ lineno = Len(sent)

Inv == TypeOK /\ OneVerdictPerRecord /\ Correct /\ AtEnd

(* Lines the client writes have the shape the driver relies on.             *)
LEMMA SentShape ==
  ASSUME TypeOK, NEW n \in DOMAIN sent
  PROVE  sent[n] \in Line /\ sent[n] \in LineShape
BY LineAssumption DEF TypeOK

(* The driver starts on a channel that holds no line, with nothing written. *)
LEMMA InvInit == Init => Inv
<1> SUFFICES ASSUME Init PROVE Inv
  OBVIOUS
<1>1. exit # {0} /\ exit # {2} /\ DOMAIN out = {} /\ Finished = 0
  BY DEF Init, Finished
<1>2. TypeOK
  <2>1. sent \in Seq(Line) /\ out \in Seq(OutRecord) /\ lineno \in 0 .. Len(sent)
    BY DEF Init
  <2>2. exit \in {{}, {0}, {2}} /\ (exit # {} <=> pc = "exit")
    BY DEF Init
  <2>3. QED
    BY <2>1, <2>2 DEF Init, TypeOK
<1>3. pc # "flush"
  BY DEF Init
<1>4. OneVerdictPerRecord
  BY <1>1 DEF OneVerdictPerRecord
<1>5. Correct /\ AtEnd
  BY <1>1, <1>3 DEF Correct, AtEnd
<1>6. QED
  BY <1>2, <1>4, <1>5 DEF Inv

(* The client appends to sent and leaves what is there alone.               *)
LEMMA ClientKeepsInv ==
  ASSUME Inv, Client
  PROVE  Inv'
<1>1. CASE \E l \in Line : Submit(l)
  <2>1. PICK l \in Line : Submit(l)
    BY <1>1
  <2>2. /\ sent' = Append(sent, l) /\ ~closed /\ closed' = closed
        /\ UNCHANGED <<lineno, raw, pc, out, exit>>
    BY <2>1 DEF Submit, Client
  <2>3. /\ sent' \in Seq(Line) /\ Len(sent') = Len(sent) + 1
        /\ \A n \in DOMAIN sent : n \in DOMAIN sent' /\ sent'[n] = sent[n]
    BY <2>2 DEF Inv, TypeOK
  <2>4. \A n \in 1 .. Finished : n \in DOMAIN sent
    BY DEF Inv, TypeOK, Finished
  <2>5. TypeOK'
    BY <2>2, <2>3 DEF Inv, TypeOK
  <2>6. Finished' = Finished
    BY <2>2 DEF Finished
  <2>7. OneVerdictPerRecord'
    BY <2>2, <2>3, <2>4, <2>6 DEF Inv, OneVerdictPerRecord
  <2>8. \A i \in DOMAIN out : out[i].line \in DOMAIN sent
    BY <2>4 DEF Inv, OneVerdictPerRecord
  <2>9. Correct'
    BY <2>2, <2>3, <2>8 DEF Inv, Correct, Answers
  <2>10. AtEnd'
    BY <2>2 DEF Inv, AtEnd
  <2>11. QED
    BY <2>5, <2>7, <2>9, <2>10 DEF Inv
<1>2. CASE Close
  BY <1>2 DEF Close, Client, Inv, TypeOK, OneVerdictPerRecord, Correct, AtEnd,
     Finished, Answers
<1>3. QED
  BY <1>1, <1>2 DEF Client

(* One emit: the new record is the answer to the line being judged.         *)
LEMMA EmitKeepsInv ==
  ASSUME Inv, pc = "judge", ~line.ws,
         NEW id \in Id \cup Nat, NEW verdict \in Verdict,
         [line |-> lineno, id |-> id,
          decision |-> verdict.decision, rule |-> verdict.rule]
           = Contract!Answer(lineno, ViewOf(sent[lineno])),
         Emit(id, verdict)
  PROVE  Inv'
<1> DEFINE rec == [line |-> lineno, id |-> id, verdict |-> verdict]
<1>1. /\ lineno \in DOMAIN sent /\ lineno \in Nat /\ exit = {}
      /\ Finished = lineno - 1
      /\ line = Stripped(sent[lineno])
  BY DEF Inv, TypeOK, Finished, line
<1>2. sent[lineno].ws = line.ws
  BY <1>1, SentShape DEF Inv, Stripped, LineShape
<1>3. UNCHANGED <<sent, closed, lineno>> /\ raw' = <<>> /\ pc' # "judge"
  BY DEF Emit, ExitWith
<1>4. Finished' = lineno
  BY <1>3 DEF Finished
<1>5. CASE out' = Append(out, rec) /\ pc' = "read" /\ exit' = exit
  <2>1. rec \in OutRecord /\ out \in Seq(OutRecord)
    BY <1>1 DEF OutRecord, Inv, TypeOK
  <2>2. /\ out' \in Seq(OutRecord) /\ Len(out') = Len(out) + 1
        /\ DOMAIN out' = DOMAIN out \cup {Len(out) + 1}
        /\ \A i \in DOMAIN out : out'[i] = out[i]
        /\ out'[Len(out) + 1] = rec
    BY <1>5, <2>1
  <2>3. TypeOK'
    BY <1>3, <1>5, <1>1, <2>2 DEF Inv, TypeOK
  <2>4. \A i \in DOMAIN out : out[i].line < lineno /\ out[i].line \in Nat
    BY <1>1 DEF Inv, OneVerdictPerRecord
  <2>5. DOMAIN out = 1 .. Len(out) /\ Len(out) \in Nat /\ rec.line = lineno
    BY <2>1
  <2>6. \A i, j \in DOMAIN out' : i < j => out'[i].line < out'[j].line
    BY <2>2, <2>4, <2>5 DEF Inv, OneVerdictPerRecord
  <2>7. \A i \in DOMAIN out' :
          out'[i].line \in 1 .. lineno /\ ~sent[out'[i].line].ws
    BY <1>1, <1>2, <2>2, <2>4, <2>5 DEF Inv, OneVerdictPerRecord, TypeOK
  <2>8. \A n \in 1 .. lineno :
          sent[n].ws \/ \E i \in DOMAIN out' : out'[i].line = n
    <3> SUFFICES ASSUME NEW n \in 1 .. lineno, ~sent[n].ws
                 PROVE  \E i \in DOMAIN out' : out'[i].line = n
      OBVIOUS
    <3>1. CASE n = lineno
      BY <3>1, <2>2, <2>5
    <3>2. CASE n # lineno
      <4>1. n \in 1 .. Finished
        BY <3>2, <1>1
      <4>2. PICK i \in DOMAIN out : out[i].line = n
        BY <4>1, <1>1 DEF Inv, OneVerdictPerRecord
      <4>3. QED
        BY <4>2, <2>2
    <3>3. QED
      BY <3>1, <3>2
  <2>9. OneVerdictPerRecord'
    BY <1>3, <1>4, <2>6, <2>7, <2>8 DEF OneVerdictPerRecord
  <2>10. Correct'
    <3> SUFFICES ASSUME NEW i \in DOMAIN out'
                 PROVE  Answers'[i] = Contract!Answer(out'[i].line,
                                        ViewOf(sent[out'[i].line]))
      BY <1>3 DEF Correct
    <3>1. Answers'[i] = [line |-> out'[i].line, id |-> out'[i].id,
                         decision |-> out'[i].verdict.decision,
                         rule |-> out'[i].verdict.rule]
      BY DEF Answers
    <3>2. CASE i \in DOMAIN out
      <4>1. Answers'[i] = Answers[i] /\ out'[i].line = out[i].line
        BY <3>1, <3>2, <2>2 DEF Answers
      <4>2. QED
        BY <4>1, <3>2 DEF Inv, Correct
    <3>3. CASE i = Len(out) + 1
      BY <3>1, <3>3, <2>2
    <3>4. QED
      BY <3>2, <3>3, <2>2
  <2>11. AtEnd'
    BY <1>5, <1>1 DEF AtEnd
  <2>12. QED
    BY <2>3, <2>9, <2>10, <2>11 DEF Inv
<1>6. CASE ExitWith(2) /\ out' = out
  <2>1. pc' = "exit" /\ exit' = {2} /\ {2} # {0}
    BY <1>6 DEF ExitWith
  <2>2. TypeOK'
    BY <2>1, <1>3, <1>6, <1>1 DEF Inv, TypeOK
  <2>3. \A i \in DOMAIN out : out[i].line \in 1 .. lineno
    BY <1>1 DEF Inv, OneVerdictPerRecord
  <2>4. OneVerdictPerRecord'
    BY <2>1, <2>3, <1>3, <1>4, <1>6 DEF Inv, OneVerdictPerRecord
  <2>5. Correct' /\ AtEnd'
    BY <2>1, <1>3, <1>6 DEF Inv, Correct, AtEnd, Answers
  <2>6. QED
    BY <2>2, <2>4, <2>5 DEF Inv
<1>7. QED
  BY <1>5, <1>6 DEF Emit

(* The contract's answer for the line being judged, by the check it fails.  *)
LEMMA AnswerOfJudged ==
  ASSUME Inv, pc = "judge"
  PROVE  /\ lineno \in DOMAIN sent
         /\ TooLong(line) \/ ~line.utf8 \/ line.rec = {} =>
              Contract!Answer(lineno, ViewOf(sent[lineno])) =
                [line |-> lineno, id |-> lineno,
                 decision |-> Ask, rule |-> MalformedInput]
         /\ ~(TooLong(line) \/ ~line.utf8 \/ line.rec = {}) =>
              /\ Get(line.rec) \in [id : SUBSET Id, cmd : SUBSET Cmd]
              /\ Contract!Answer(lineno, ViewOf(sent[lineno])) =
                [line |-> lineno, id |-> GetOr(Get(line.rec).id, lineno),
                 decision |-> IF Get(line.rec).cmd = {} THEN Ask
                              ELSE Analyze[Get(Get(line.rec).cmd)].decision,
                 rule |-> IF Get(line.rec).cmd = {} THEN MalformedInput
                          ELSE Analyze[Get(Get(line.rec).cmd)].rule]
<1>1. lineno \in DOMAIN sent /\ line = Stripped(sent[lineno])
  BY DEF Inv, TypeOK, line
<1>2. sent[lineno] \in LineShape
  BY <1>1, SentShape DEF Inv
<1>3. Contract!Answer(lineno, ViewOf(sent[lineno])) =
        [line |-> lineno, id |-> GetOr(ViewOf(sent[lineno]).id, lineno),
         decision |-> IF ViewOf(sent[lineno]).cmd = {} THEN Ask
                      ELSE Analyze[Get(ViewOf(sent[lineno]).cmd)].decision,
         rule |-> IF ViewOf(sent[lineno]).cmd = {} THEN MalformedInput
                  ELSE Analyze[Get(ViewOf(sent[lineno]).cmd)].rule]
  BY SameHelpers DEF Contract!Answer, Contract!Malformed
<1>4. GetOr({}, lineno) = lineno
  BY DEF GetOr
<1>5. QED
  BY <1>1, <1>2, <1>3, <1>4, StrippedView

(* Every step of the driver keeps the invariant.                            *)
LEMMA GateKeepsInv ==
  ASSUME Inv, Gate
  PROVE  Inv'
<1>1. CASE ReadLine
  <2>1. /\ pc = "read" /\ lineno' = lineno + 1 /\ lineno + 1 \in DOMAIN sent
        /\ UNCHANGED <<sent, closed, out, exit>> /\ pc' = "judge"
        /\ raw' = <<Stripped(sent[lineno + 1])>>
    BY <1>1 DEF ReadLine, LineReady
  <2>2. TypeOK'
    BY <2>1 DEF Inv, TypeOK
  <2>3. Finished' = Finished
    BY <2>1 DEF Inv, TypeOK, Finished
  <2>4. OneVerdictPerRecord' /\ Correct' /\ AtEnd'
    BY <2>1, <2>3 DEF Inv, OneVerdictPerRecord, Correct, AtEnd, Answers
  <2>5. QED
    BY <2>2, <2>4 DEF Inv
<1>2. CASE ReadEof
  BY <1>2 DEF ReadEof, Inv, TypeOK, OneVerdictPerRecord, Correct, AtEnd,
     Finished, Answers
<1>3. CASE ReadError
  <2>1. {2} # {0} /\ {2} # {}
    OBVIOUS
  <2>2. QED
    BY <1>3, <2>1 DEF ReadError, ExitWith, Inv, TypeOK, OneVerdictPerRecord,
       Correct, AtEnd, Finished, Answers
<1>4. CASE SkipBlank
  <2>1. lineno \in DOMAIN sent /\ line = Stripped(sent[lineno])
        /\ lineno \in Nat /\ exit = {}
    BY <1>4 DEF SkipBlank, Inv, TypeOK, line
  <2>2. sent[lineno].ws
    BY <2>1, <1>4, SentShape DEF SkipBlank, Inv, Stripped, LineShape
  <2>3. TypeOK'
    BY <2>1, <1>4 DEF SkipBlank, Inv, TypeOK
  <2>4. \A n \in 1 .. lineno : n = lineno \/ n \in 1 .. Finished
    BY <2>1, <1>4 DEF SkipBlank, Finished
  <2>5. OneVerdictPerRecord'
    BY <2>1, <2>2, <2>4, <1>4 DEF SkipBlank, Inv, OneVerdictPerRecord, Finished
  <2>6. Correct' /\ AtEnd'
    BY <2>1, <1>4 DEF SkipBlank, Inv, Correct, AtEnd, Answers
  <2>7. QED
    BY <2>3, <2>5, <2>6 DEF Inv
<1>5. ASSUME pc = "judge", ~line.ws, NEW detail \in MalformedDetail,
             TooLong(line) \/ ~line.utf8 \/ line.rec = {},
             Malformed(lineno, detail)
      PROVE  Inv'
  <2>1. lineno \in Id \cup Nat
    BY DEF Inv, TypeOK
  <2>2. QED
    BY <1>5, <2>1, AnswerOfJudged, MalformedVerdict, EmitKeepsInv DEF Malformed
<1>6. CASE RejectTooLong
  BY <1>5, <1>6 DEF RejectTooLong, MalformedDetail
<1>7. CASE RejectNotUtf8
  BY <1>5, <1>7 DEF RejectNotUtf8, MalformedDetail
<1>8. CASE RejectNotObject
  BY <1>5, <1>8 DEF RejectNotObject, Parsed, MalformedDetail
<1>9. ASSUME Parsed, line.rec # {}
      PROVE  /\ Get(line.rec) \in [id : SUBSET Id, cmd : SUBSET Cmd]
             /\ GetOr(Get(line.rec).id, lineno) \in Id \cup Nat
  <2>1. Get(line.rec) \in [id : SUBSET Id, cmd : SUBSET Cmd]
    BY <1>9, AnswerOfJudged DEF Parsed
  <2>2. Get(line.rec).id # {} => Get(Get(line.rec).id) \in Get(line.rec).id
    BY GetMember
  <2>3. lineno \in Nat
    BY DEF Inv, TypeOK
  <2>4. QED
    BY <2>1, <2>2, <2>3 DEF GetOr, Get
<1>10. CASE RejectNoCmd
  BY <1>9, <1>10, AnswerOfJudged, MalformedVerdict, EmitKeepsInv
     DEF RejectNoCmd, Malformed, Parsed, MalformedDetail
<1>11. CASE Judge
  <2>1. Get(Get(line.rec).cmd) \in Cmd
    BY <1>9, <1>11, GetMember DEF Judge
  <2>2. Analyze[Get(Get(line.rec).cmd)] \in Verdict
    BY <2>1, AnalyzeAssumption
  <2>3. QED
    BY <1>9, <1>11, <2>2, AnswerOfJudged, EmitKeepsInv DEF Judge, Parsed
<1>12. CASE Flush
  <2>1. {2} # {0} /\ {2} # {} /\ {0} # {}
    OBVIOUS
  <2>2. QED
    BY <1>12, <2>1 DEF Flush, ExitWith, Inv, TypeOK, OneVerdictPerRecord,
       Correct, AtEnd, Finished, Answers
<1>13. QED
  BY <1>1, <1>2, <1>3, <1>4, <1>6, <1>7, <1>8, <1>10, <1>11, <1>12 DEF Gate, Loop

(* Inv is an invariant of the driver.                                       *)
THEOREM InvInvariant == Spec => []Inv
<1>1. Inv /\ [Next]_vars => Inv'
  <2> SUFFICES ASSUME Inv, [Next]_vars PROVE Inv'
    OBVIOUS
  <2>1. CASE Client
    BY <2>1, ClientKeepsInv
  <2>2. CASE Gate
    BY <2>2, GateKeepsInv
  <2>3. CASE UNCHANGED vars
    BY <2>3 DEF vars, Inv, TypeOK, OneVerdictPerRecord, Correct, AtEnd,
       Finished, Answers
  <2>4. QED
    BY <2>1, <2>2, <2>3 DEF Next, Done
<1>2. QED
  BY InvInit, <1>1, PTL DEF Spec

(* The type invariant of the driver.                                        *)
THEOREM TypeCorrect == Spec => []TypeOK
<1>1. Inv => TypeOK
  BY DEF Inv
<1>2. QED
  BY InvInvariant, <1>1, PTL

(* One answer per record, in input order, for every input.                  *)
THEOREM OneVerdictPerRecordAlways == Spec => []OneVerdictPerRecord
<1>1. Inv => OneVerdictPerRecord
  BY DEF Inv
<1>2. QED
  BY InvInvariant, <1>1, PTL

(* Exit code 0 is only ever reached with every record answered.             *)
THEOREM SuccessIsCompleteAlways == Spec => []SuccessIsComplete
<1>1. Inv => SuccessIsComplete
  <2> SUFFICES ASSUME Inv, exit = {0}
               PROVE  /\ closed
                      /\ \A n \in DOMAIN sent :
                           sent[n].ws \/ \E i \in DOMAIN out : out[i].line = n
    BY DEF SuccessIsComplete
  <2>1. closed /\ lineno = Len(sent) /\ exit # {2} /\ exit # {}
    BY DEF Inv, AtEnd
  <2>2. Finished = Len(sent) /\ DOMAIN sent = 1 .. Len(sent)
    BY <2>1 DEF Inv, TypeOK, Finished
  <2>3. QED
    BY <2>1, <2>2 DEF Inv, OneVerdictPerRecord
<1>2. QED
  BY InvInvariant, <1>1, PTL

-----------------------------------------------------------------------------
(* Refinement of the contract.                                              *)

(* The driver starts as the contract starts: nothing taken, nothing         *)
(* answered, running.                                                       *)
LEMMA ContractInit == Init => Contract!Init
<1> SUFFICES ASSUME Init PROVE Contract!Init
  OBVIOUS
<1>1. Views = <<>> /\ Answers = <<>> /\ status = "running"
  BY DEF Init, Views, Answers, status
<1>2. QED
  BY <1>1 DEF Init, Contract!Init

(* A line the client writes is a line submitted; closing is closing.        *)
LEMMA ClientRefines ==
  ASSUME Inv, Client
  PROVE  Contract!Next
<1>1. Answers' = Answers /\ status' = status
  BY DEF Client, Answers, status
<1>2. CASE \E l \in Line : Submit(l)
  <2>1. PICK l \in Line : Submit(l)
    BY <1>2
  <2>2. sent' = Append(sent, l) /\ ~closed /\ closed' = closed
    BY <2>1 DEF Submit
  <2>3. sent \in Seq(Line)
    BY DEF Inv, TypeOK
  <2>4. l \in LineShape /\ ViewOf(l) \in Contract!View
    BY LineAssumption, ViewTyped DEF Contract!View
  <2>5. sent \in Seq(LineShape)
    BY <2>3, LineAssumption
  <2>6. Views' = Append(Views, ViewOf(l))
    BY <2>2, <2>4, <2>5, ViewsAppend DEF Views
  <2>7. QED
    BY <1>1, <2>2, <2>4, <2>6 DEF Contract!Next, Contract!Submit
<1>3. CASE Close
  <2>1. Views' = Views
    BY <1>3 DEF Close, Views
  <2>2. QED
    BY <1>1, <1>3, <2>1 DEF Close, Contract!Next, Contract!Close
<1>4. QED
  BY <1>2, <1>3 DEF Client

(* The record under judgement is the next one the contract owes an answer.  *)
LEMMA JudgedIsNext ==
  ASSUME Inv, pc = "judge", ~line.ws
  PROVE  Contract!NextRecord(lineno)
<1>1. /\ lineno \in DOMAIN sent /\ line = Stripped(sent[lineno])
      /\ lineno \in Nat /\ exit = {} /\ Finished = lineno - 1
      /\ out \in Seq(OutRecord)
  BY DEF Inv, TypeOK, line, Finished
<1>2. ~Views[lineno].blank /\ DOMAIN Views = DOMAIN sent
  BY <1>1, SentShape DEF Inv, Views, ViewOf, Stripped, LineShape
<1>3. /\ \A i \in DOMAIN out : Answers[i].line = out[i].line
      /\ DOMAIN Answers = DOMAIN out
  BY DEF Answers
<1>4. CASE out = <<>>
  <2>1. Answers = <<>> /\ DOMAIN out = {}
    BY <1>4 DEF Answers
  <2>2. Contract!LastAnswered = 0
    BY <2>1 DEF Contract!LastAnswered
  <2>3. \A n \in 1 .. Finished : sent[n].ws
    BY <2>1, <1>1 DEF Inv, OneVerdictPerRecord
  <2>4. \A n \in DOMAIN sent : n < lineno => sent[n].ws
    BY <2>3, <1>1 DEF Inv, TypeOK
  <2>5. \A n \in DOMAIN Views : Views[n].blank = sent[n].ws
    BY DEF Views, ViewOf
  <2>6. lineno > 0
    BY DEF Inv, TypeOK
  <2>7. QED
    BY <1>1, <1>2, <2>2, <2>4, <2>5, <2>6 DEF Contract!NextRecord
<1>5. CASE out # <<>>
  <2>1. Len(out) \in Nat /\ Len(out) > 0 /\ Len(out) \in DOMAIN out
        /\ DOMAIN out = 1 .. Len(out)
    BY <1>1, <1>5
  <2>2. Answers # <<>> /\ Len(Answers) = Len(out)
    BY <2>1, <1>3
  <2>3. Contract!LastAnswered = out[Len(out)].line
    BY <2>1, <2>2, <1>3 DEF Contract!LastAnswered
  <2>4. out[Len(out)].line \in 1 .. Finished
    BY <2>1 DEF Inv, OneVerdictPerRecord
  <2>5. \A i \in DOMAIN out : out[i].line <= out[Len(out)].line
    <3> SUFFICES ASSUME NEW i \in DOMAIN out
                 PROVE  out[i].line <= out[Len(out)].line
      OBVIOUS
    <3>1. CASE i = Len(out)
      BY <3>1, <2>4
    <3>2. CASE i < Len(out)
      <4>1. out[i].line < out[Len(out)].line
        BY <3>2, <2>1 DEF Inv, OneVerdictPerRecord
      <4>2. out[i].line \in 1 .. Finished
        BY DEF Inv, OneVerdictPerRecord
      <4>3. QED
        BY <4>1, <4>2, <2>4
    <3>3. QED
      BY <3>1, <3>2, <2>1
  <2>6. \A n \in DOMAIN sent :
          out[Len(out)].line < n /\ n < lineno => sent[n].ws
    <3> SUFFICES ASSUME NEW n \in DOMAIN sent, ~sent[n].ws,
                        out[Len(out)].line < n, n < lineno
                 PROVE  FALSE
      OBVIOUS
    <3>1. n \in 1 .. Finished
      BY <1>1 DEF Inv, TypeOK
    <3>2. PICK i \in DOMAIN out : out[i].line = n
      BY <3>1, <1>1 DEF Inv, OneVerdictPerRecord
    <3>3. QED
      BY <3>1, <3>2, <2>4, <2>5
  <2>7. \A n \in DOMAIN Views : Views[n].blank = sent[n].ws
    BY DEF Views, ViewOf
  <2>8. QED
    BY <1>1, <1>2, <2>3, <2>4, <2>6, <2>7 DEF Contract!NextRecord
<1>6. QED
  BY <1>4, <1>5

(* An emit that reaches the client is the contract's Respond; one that      *)
(* fails is its Fail.                                                       *)
LEMMA EmitRefines ==
  ASSUME Inv, Inv', pc = "judge", ~line.ws,
         NEW id \in Id \cup Nat, NEW verdict \in Verdict, Emit(id, verdict),
         [line |-> lineno, id |-> id,
          decision |-> verdict.decision, rule |-> verdict.rule]
           = Contract!Answer(lineno, ViewOf(sent[lineno]))
  PROVE  Contract!Next
<1> DEFINE rec == [line |-> lineno, id |-> id, verdict |-> verdict]
           ans == [line |-> lineno, id |-> id,
                   decision |-> verdict.decision, rule |-> verdict.rule]
<1>1. /\ exit = {} /\ status = "running" /\ lineno \in DOMAIN sent
      /\ out \in Seq(OutRecord) /\ UNCHANGED <<sent, closed>>
      /\ lineno \in Nat
  BY DEF Inv, TypeOK, status, Emit
<1>2. Views' = Views /\ Views[lineno] = ViewOf(sent[lineno])
      /\ lineno \in DOMAIN Views
  BY <1>1 DEF Views
<1>3. CASE out' = Append(out, rec) /\ exit' = exit
  <2>1. status' = "running"
    BY <1>1, <1>3 DEF status
  <2>2. Answers' = Append(Answers, ans)
    <3>1. /\ DOMAIN out = 1 .. Len(out) /\ Len(out) \in Nat
          /\ rec \in OutRecord
      BY <1>1 DEF OutRecord
    <3>2. /\ DOMAIN out' = 1 .. Len(out) + 1 /\ out'[Len(out) + 1] = rec
          /\ \A i \in 1 .. Len(out) : out'[i] = out[i]
      BY <3>1, <1>1, <1>3
    <3>3. Answers \in Seq({Answers[i] : i \in DOMAIN out}) /\ Len(Answers) = Len(out)
      BY <3>1 DEF Answers
    <3>4. Append(Answers, ans) =
            [i \in 1 .. Len(out) + 1 |->
               IF i = Len(out) + 1 THEN ans ELSE Answers[i]]
      BY <3>3
    <3>5. \A i \in 1 .. Len(out) : Answers'[i] = Answers[i]
      BY <3>1, <3>2 DEF Answers
    <3>6. Answers'[Len(out) + 1] = ans
      BY <3>1, <3>2 DEF Answers
    <3>7. Answers' = [i \in 1 .. Len(out) + 1 |-> Answers'[i]]
      BY <3>2 DEF Answers
    <3>8. QED
      BY <3>4, <3>5, <3>6, <3>7
  <2>3. Contract!Respond
    BY <1>1, <1>2, <2>1, <2>2, JudgedIsNext DEF Contract!Respond
  <2>4. QED
    BY <2>3 DEF Contract!Next
<1>4. CASE ExitWith(2) /\ out' = out
  <2>1. exit' = {2} /\ {2} # {} /\ {2} # {0}
    BY <1>4 DEF ExitWith
  <2>2. status' = "failed" /\ Answers' = Answers
    BY <2>1, <1>4 DEF status, Answers
  <2>3. QED
    BY <1>1, <1>2, <2>2 DEF Contract!Next, Contract!Fail
<1>5. QED
  BY <1>3, <1>4 DEF Emit

(* When every line has been read, no record is owed an answer.              *)
LEMMA NothingOwedAtEnd ==
  ASSUME Inv, exit # {2}, Finished = Len(sent), NEW n \in DOMAIN Views
  PROVE  ~Contract!NextRecord(n)
<1> SUFFICES ASSUME Contract!NextRecord(n) PROVE FALSE
  OBVIOUS
<1>1. n \in DOMAIN sent /\ DOMAIN sent = 1 .. Len(sent) /\ n \in Nat
  BY DEF Views, Inv, TypeOK
<1>2. ~sent[n].ws
  BY <1>1 DEF Contract!NextRecord, Views, ViewOf
<1>3. PICK i \in DOMAIN out : out[i].line = n
  BY <1>1, <1>2 DEF Inv, OneVerdictPerRecord
<1>4. /\ DOMAIN Answers = DOMAIN out
      /\ \A j \in DOMAIN out : Answers[j].line = out[j].line
  BY DEF Answers
<1>5. /\ DOMAIN out = 1 .. Len(out) /\ Len(out) \in Nat
      /\ Len(out) \in DOMAIN out
  BY <1>3, <1>4 DEF Inv, TypeOK
<1>6. Contract!LastAnswered = out[Len(out)].line
  <2>1. Len(Answers) = Len(out) /\ Answers # <<>>
    BY <1>4, <1>5
  <2>2. QED
    BY <2>1, <1>4, <1>5 DEF Contract!LastAnswered
<1>7. out[Len(out)].line \in Nat
  BY <1>5 DEF Inv, OneVerdictPerRecord
<1>8. n <= out[Len(out)].line
  <2>1. CASE i = Len(out)
    BY <2>1, <1>3, <1>7
  <2>2. CASE i < Len(out)
    BY <2>2, <1>3, <1>5, <1>7 DEF Inv, OneVerdictPerRecord
  <2>3. QED
    BY <2>1, <2>2, <1>3, <1>5
<1>9. QED
  BY <1>1, <1>6, <1>7, <1>8 DEF Contract!NextRecord

(* Every step of the driver is a step of the contract or leaves its state   *)
(* alone: reads and skips are invisible, each emit is Respond or Fail, and  *)
(* the final flush is Finish or Fail.                                       *)
LEMMA GateRefines ==
  ASSUME Inv, Inv', Gate
  PROVE  Contract!Next \/ UNCHANGED Contract!vars
<1>1. ASSUME UNCHANGED <<sent, closed, out, exit>>
      PROVE  UNCHANGED Contract!vars
  BY <1>1 DEF Contract!vars, Views, Answers, status
<1>2. ASSUME ExitWith(2), exit = {}, UNCHANGED <<sent, closed, out>>
      PROVE  Contract!Next
  <2>1. exit' = {2} /\ {2} # {} /\ {2} # {0}
    BY <1>2 DEF ExitWith
  <2>2. QED
    BY <1>2, <2>1 DEF Contract!Next, Contract!Fail, Views, Answers, status
<1>3. CASE ReadLine \/ ReadEof \/ SkipBlank
  BY <1>1, <1>3 DEF ReadLine, ReadEof, SkipBlank
<1>4. CASE ReadError
  BY <1>2, <1>4 DEF ReadError, Inv, TypeOK
<1>5. ASSUME pc = "judge", ~line.ws, NEW detail \in MalformedDetail,
             TooLong(line) \/ ~line.utf8 \/ line.rec = {},
             Malformed(lineno, detail)
      PROVE  Contract!Next
  <2>1. lineno \in Id \cup Nat
    BY DEF Inv, TypeOK
  <2>2. QED
    BY <1>5, <2>1, AnswerOfJudged, MalformedVerdict, EmitRefines DEF Malformed
<1>6. CASE RejectTooLong
  BY <1>5, <1>6 DEF RejectTooLong, MalformedDetail
<1>7. CASE RejectNotUtf8
  BY <1>5, <1>7 DEF RejectNotUtf8, MalformedDetail
<1>8. CASE RejectNotObject
  BY <1>5, <1>8 DEF RejectNotObject, Parsed, MalformedDetail
<1>9. ASSUME Parsed, line.rec # {}
      PROVE  /\ Get(line.rec) \in [id : SUBSET Id, cmd : SUBSET Cmd]
             /\ GetOr(Get(line.rec).id, lineno) \in Id \cup Nat
  <2>1. Get(line.rec) \in [id : SUBSET Id, cmd : SUBSET Cmd]
    BY <1>9, AnswerOfJudged DEF Parsed
  <2>2. Get(line.rec).id # {} => Get(Get(line.rec).id) \in Get(line.rec).id
    BY GetMember
  <2>3. lineno \in Nat
    BY DEF Inv, TypeOK
  <2>4. QED
    BY <2>1, <2>2, <2>3 DEF GetOr
<1>10. CASE RejectNoCmd
  BY <1>9, <1>10, AnswerOfJudged, MalformedVerdict, EmitRefines
     DEF RejectNoCmd, Malformed, Parsed, MalformedDetail
<1>11. CASE Judge
  <2>1. Get(Get(line.rec).cmd) \in Cmd
    BY <1>9, <1>11, GetMember DEF Judge
  <2>2. Analyze[Get(Get(line.rec).cmd)] \in Verdict
    BY <2>1, AnalyzeAssumption
  <2>3. QED
    BY <1>9, <1>11, <2>2, AnswerOfJudged, EmitRefines DEF Judge, Parsed
<1>12. CASE Flush
  <2>1. pc = "flush" /\ exit = {} /\ UNCHANGED <<sent, closed, out>>
    BY <1>12 DEF Flush, Inv, TypeOK
  <2>2. CASE ExitWith(2)
    BY <1>2, <2>1, <2>2
  <2>3. CASE ExitWith(0)
    <3>1. exit' = {0} /\ {0} # {}
      BY <2>3 DEF ExitWith
    <3>2. Views' = Views /\ Answers' = Answers /\ status = "running"
          /\ status' = "ok"
      BY <2>1, <3>1 DEF Views, Answers, status
    <3>3. closed /\ lineno = Len(sent) /\ Finished = Len(sent)
          /\ exit # {2} /\ DOMAIN sent = 1 .. Len(sent)
      BY <2>1 DEF Inv, AtEnd, TypeOK, Finished
    <3>4. \A n \in DOMAIN Views : ~Contract!NextRecord(n)
      BY <3>3, NothingOwedAtEnd
    <3>5. QED
      BY <2>1, <3>2, <3>3, <3>4 DEF Contract!Next, Contract!Finish
  <2>4. QED
    BY <1>12, <2>2, <2>3 DEF Flush
<1>13. QED
  BY <1>3, <1>4, <1>6, <1>7, <1>8, <1>10, <1>11, <1>12 DEF Gate, Loop

(* The Rust driver implements the contract, for every input, every analyzer *)
(* and every pattern of input and output failures.                          *)
THEOREM ImplementsContractAlways == Spec => ImplementsContract
<1>1. Inv /\ Inv' /\ [Next]_vars => [Contract!Next]_Contract!vars
  <2> SUFFICES ASSUME Inv, Inv', [Next]_vars
               PROVE  Contract!Next \/ UNCHANGED Contract!vars
    OBVIOUS
  <2>1. CASE Client
    BY <2>1, ClientRefines
  <2>2. CASE Gate
    BY <2>2, GateRefines
  <2>3. CASE UNCHANGED vars
    BY <2>3 DEF vars, Contract!vars, Views, Answers, status
  <2>4. QED
    BY <2>1, <2>2, <2>3 DEF Next, Done
<1>2. QED
  BY InvInvariant, ContractInit, <1>1, PTL
     DEF Spec, ImplementsContract, Contract!Spec
=============================================================================
