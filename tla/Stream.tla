------------------------------- MODULE Stream -------------------------------
(***************************************************************************)
(* The JSON Lines driver of the Rust binaries (agentgate-core/src/stream.rs*)
(* and the main functions of agentgate-cli): one thread that reads a line, *)
(* answers it, and reads the next.  Each write goes through to the client, *)
(* because standard output is line buffered and every record ends its line.*)
(***************************************************************************)
EXTENDS InputLines

VARIABLES
  lineno,  \* lines read so far
  raw,     \* <<line>> while an iteration holds one, else <<>>
  pc,      \* "read", "judge", "flush" or "exit"
  out,     \* the records written, each with the line it answers
  exit     \* {} while running, then {code}

vars == <<sent, closed, lineno, raw, pc, out, exit>>

Init ==
  /\ sent = <<>> /\ closed = FALSE
  /\ lineno = 0 /\ raw = <<>> /\ pc = "read"
  /\ out = <<>> /\ exit = {}

Client ==
  /\ (\E line \in Line : Submit(line)) \/ Close
  /\ UNCHANGED <<lineno, raw, pc, out, exit>>

(* main: an Err from run ends the process with code 2 *)
ExitWith(code) == pc' = "exit" /\ exit' = {code}

(* Mutants of ReadLine: the terminator stays in the buffer, and the input is *)
(* collected up to end of file before the first line is judged.             *)
ReadLineUnstripped ==
  /\ pc = "read"
  /\ LineReady(lineno + 1)
  /\ lineno' = lineno + 1
  /\ raw' = <<sent[lineno + 1]>>
  /\ pc' = "judge"
  /\ UNCHANGED <<sent, closed, out, exit>>

ReadLineAfterClose ==
  /\ pc = "read"
  /\ closed /\ LineReady(lineno + 1)
  /\ lineno' = lineno + 1
  /\ raw' = <<Stripped(sent[lineno + 1])>>
  /\ pc' = "judge"
  /\ UNCHANGED <<sent, closed, out, exit>>

(* read_until returned a line; the terminator is popped in place *)
ReadLine ==
  /\ pc = "read"
  /\ LineReady(lineno + 1)
  /\ lineno' = lineno + 1
  /\ raw' = <<Stripped(sent[lineno + 1])>>
  /\ pc' = "judge"
  /\ UNCHANGED <<sent, closed, out, exit>>

(* Mutants of ReadEof: an unterminated last line is taken for the end of    *)
(* file, and a read of 0 bytes does not leave the loop.                     *)
ReadEofDropsTail ==
  /\ pc = "read"
  /\ closed
  /\ \A n \in lineno + 1 .. Len(sent) : ~Complete(sent[n])
  /\ pc' = "flush"
  /\ UNCHANGED <<sent, closed, lineno, raw, out, exit>>

ReadEofLoops ==
  /\ pc = "read"
  /\ closed /\ lineno = Len(sent)
  /\ pc' = "read"
  /\ UNCHANGED <<sent, closed, lineno, raw, out, exit>>

(* read_until returned 0 *)
ReadEof ==
  /\ pc = "read"
  /\ closed /\ lineno = Len(sent)
  /\ pc' = "flush"
  /\ UNCHANGED <<sent, closed, lineno, raw, out, exit>>

(* read_until failed, and `?` leaves the loop *)
ReadError ==
  /\ pc = "read"
  /\ ExitWith(2)
  /\ UNCHANGED <<sent, closed, lineno, raw, out>>

(* emit: the record is written whole, or the error leaves the loop *)
Emit(id, verdict) ==
  /\ \/ /\ out' = Append(out, [line |-> lineno, id |-> id, verdict |-> verdict])
        /\ pc' = "read"
        /\ UNCHANGED exit
     \/ /\ ExitWith(2)
        /\ UNCHANGED out
  /\ raw' = <<>>
  /\ UNCHANGED <<sent, closed, lineno>>

line == raw[1]

Malformed(id, detail) == Emit(id, VerdictOf(MalformedInput, detail))

SkipBlank ==
  /\ pc = "judge" /\ line.ws
  /\ pc' = "read" /\ raw' = <<>>
  /\ UNCHANGED <<sent, closed, lineno, out, exit>>

RejectTooLong ==
  /\ pc = "judge" /\ ~line.ws /\ TooLong(line)
  /\ Malformed(lineno, "input line exceeds maximum length")

RejectNotUtf8 ==
  /\ pc = "judge" /\ ~line.ws /\ ~TooLong(line) /\ ~line.utf8
  /\ Malformed(lineno, "input line is not valid UTF-8")

(* The line got as far as json::parse_record *)
Parsed == pc = "judge" /\ ~line.ws /\ ~TooLong(line) /\ line.utf8

(* Mutant of RejectNotObject: the line is skipped without an answer. *)
SkipNotObject ==
  /\ Parsed /\ line.rec = {}
  /\ pc' = "read" /\ raw' = <<>>
  /\ UNCHANGED <<sent, closed, lineno, out, exit>>

RejectNotObject ==
  /\ Parsed /\ line.rec = {}
  /\ Malformed(lineno, "line is not a JSON object")

(* Mutant of RejectNoCmd: the recovered id is not used. *)
RejectNoCmdByLine ==
  /\ Parsed /\ line.rec # {} /\ Get(line.rec).cmd = {}
  /\ Malformed(lineno, "record has no cmd field")

RejectNoCmd ==
  /\ Parsed /\ line.rec # {} /\ Get(line.rec).cmd = {}
  /\ Malformed(GetOr(Get(line.rec).id, lineno), "record has no cmd field")

Judge ==
  /\ Parsed /\ line.rec # {} /\ Get(line.rec).cmd # {}
  /\ Emit(GetOr(Get(line.rec).id, lineno), Analyze[Get(Get(line.rec).cmd)])

Flush ==
  /\ pc = "flush"
  /\ ExitWith(0) \/ ExitWith(2)
  /\ UNCHANGED <<sent, closed, lineno, raw, out>>

Loop ==
  \/ ReadLine \/ ReadEof
  \/ SkipBlank \/ RejectTooLong \/ RejectNotUtf8 \/ RejectNotObject
  \/ RejectNoCmd \/ Judge
  \/ Flush

Gate == Loop \/ ReadError

Done == pc = "exit" /\ closed /\ UNCHANGED vars

Next == Client \/ Gate \/ Done

Spec == Init /\ [][Next]_vars

(* The gate is a running process: it takes a step when it has one to take.  *)
(* A read that waits for the client is under no obligation to fail, and     *)
(* nothing is assumed of the client.                                        *)
FairSpec == Spec /\ WF_vars(Loop)

-----------------------------------------------------------------------------

OutRecord == [line : Nat, id : Id \cup Nat, verdict : Verdict]

(* The variables stay in range; the loop holds a line exactly while it is   *)
(* judging one; and it never counts a line the client has not written.      *)
TypeOK ==
  /\ sent \in Seq(Line) /\ closed \in BOOLEAN
  /\ lineno \in 0 .. Len(sent)
  /\ pc \in {"read", "judge", "flush", "exit"}
  /\ out \in Seq(OutRecord)
  /\ exit \in {{}, {0}, {2}}
  /\ exit # {} <=> pc = "exit"
  /\ raw = IF pc = "judge" THEN <<Stripped(sent[lineno])>> ELSE <<>>
  /\ pc = "judge" => lineno > 0

(* Lines the loop is through with. *)
Finished == IF pc = "judge" THEN lineno - 1 ELSE lineno

(* Exactly one answer per record in input order: the answers written belong *)
(* to strictly increasing, non-blank lines, and no record the loop has gone *)
(* past is without one while the gate has not failed (stream.rs run).       *)
OneVerdictPerRecord ==
  /\ \A i, j \in DOMAIN out : i < j => out[i].line < out[j].line
  /\ \A i \in DOMAIN out :
       out[i].line \in 1 .. Finished /\ ~sent[out[i].line].ws
  /\ exit # {2} =>
       \A n \in 1 .. Finished :
         sent[n].ws \/ \E i \in DOMAIN out : out[i].line = n

(* Exit code 0 means the client closed the pipe and every record it wrote   *)
(* has been answered, the unterminated last one included.                   *)
SuccessIsComplete ==
  exit = {0} =>
    /\ closed
    /\ \A n \in DOMAIN sent :
         sent[n].ws \/ \E i \in DOMAIN out : out[i].line = n

(* The driver implements the contract. *)
status ==
  IF exit = {} THEN "running" ELSE IF exit = {0} THEN "ok" ELSE "failed"

Answers ==
  [i \in DOMAIN out |->
     [line |-> out[i].line, id |-> out[i].id,
      decision |-> out[i].verdict.decision, rule |-> out[i].verdict.rule]]

Contract ==
  INSTANCE GateContract
    WITH views <- Views, answers <- Answers, IdRequired <- FALSE

(* Every behaviour of the Rust driver is one the contract allows, where a   *)
(* record without an id is judged, under its line number, as run does; it   *)
(* is not the reading of the documentation, which follows.                  *)
ImplementsContract == Contract!Spec

Documented ==
  INSTANCE GateContract
    WITH views <- Views, answers <- Answers, IdRequired <- TRUE

(* The same contract under SPEC.md section 2.1: a line "that lacks `id` or   *)
(* `cmd`, is a malformed record", answered ASK with MALFORMED_INPUT.  run    *)
(* breaks it: it takes the line number for the missing id and judges the    *)
(* command.                                                                 *)
ImplementsDocumented == Documented!Spec

(* A record is answered, or the gate has failed, without the client having  *)
(* to write or close anything more: a client that waits for each verdict    *)
(* before it sends the next command is never left waiting (stream.rs run,   *)
(* one emit per iteration, before the next read).                           *)
RecordAnswered ==
  \A n \in 1 .. MaxLines :
    LineReady(n) /\ ~sent[n].ws ~>
      (\E i \in DOMAIN out : out[i].line = n) \/ exit = {2}

(* Once the client closes the pipe, the gate exits.                         *)
Terminates == closed ~> pc = "exit"
=============================================================================
