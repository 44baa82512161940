------------------------------ MODULE CppStream ------------------------------
(***************************************************************************)
(* The JSON Lines driver of the C++ binaries (cpp/src/stream.cpp).  It     *)
(* makes the same checks in the same order as the Rust driver, but its     *)
(* input and output are C++ streams: a record first goes to the buffer of  *)
(* std::cout; an output error only sets the stream's bad bit, which the    *)
(* loop does not look at until the end of the input; and std::cin is tied  *)
(* to std::cout, so every getline first flushes what the previous          *)
(* iteration wrote.                                                        *)
(***************************************************************************)
EXTENDS InputLines

VARIABLES
  lineno,  \* lines read so far
  raw,     \* <<line>> while an iteration holds one, else <<>>
  pc,      \* "getline", "judge", "flush" or "exit"
  buf,     \* records written to std::cout and not passed on yet
  bad,     \* std::cout.bad()
  out,     \* the records the client has received
  exit     \* {} while running, then {code}

vars == <<sent, closed, lineno, raw, pc, buf, bad, out, exit>>

Init ==
  /\ sent = <<>> /\ closed = FALSE
  /\ lineno = 0 /\ raw = <<>> /\ pc = "getline"
  /\ buf = <<>> /\ bad = FALSE /\ out = <<>> /\ exit = {}

Client ==
  /\ (\E line \in Line : Submit(line)) \/ Close
  /\ UNCHANGED <<lineno, raw, pc, buf, bad, out, exit>>

(* Mutant of Flushing: std::cin is not tied to std::cout. *)
FlushingAtEnd == buf # <<>> /\ pc = "flush"

(* The stream buffer of std::cout is written out: by the sentry of the next *)
(* getline, because std::cin is tied to it, and by the final flush.         *)
Flushing == buf # <<>> /\ pc \in {"getline", "flush"}

(* A record reaches the client, or the write fails, the bad bit is set and  *)
(* what was in the buffer is lost.                                          *)
Drain ==
  /\ Flushing
  /\ \/ /\ out' = Append(out, Head(buf))
        /\ buf' = Tail(buf)
        /\ UNCHANGED bad
     \/ /\ bad' = TRUE
        /\ buf' = <<>>
        /\ UNCHANGED out
  /\ UNCHANGED <<sent, closed, lineno, raw, pc, exit>>

GetLine ==
  /\ pc = "getline" /\ ~Flushing
  /\ LineReady(lineno + 1)
  /\ lineno' = lineno + 1
  /\ raw' = <<Stripped(sent[lineno + 1])>>
  /\ pc' = "judge"
  /\ UNCHANGED <<sent, closed, buf, bad, out, exit>>

(* Mutant of GetEof: the end of the input counts only on a good output. *)
GetEofIfGood ==
  /\ pc = "getline" /\ ~Flushing
  /\ closed /\ lineno = Len(sent) /\ ~bad
  /\ pc' = "flush"
  /\ UNCHANGED <<sent, closed, lineno, raw, buf, bad, out, exit>>

GetEof ==
  /\ pc = "getline" /\ ~Flushing
  /\ closed /\ lineno = Len(sent)
  /\ pc' = "flush"
  /\ UNCHANGED <<sent, closed, lineno, raw, buf, bad, out, exit>>

(* getline failed with in.bad(): return 2 *)
GetError ==
  /\ pc = "getline" /\ ~Flushing
  /\ pc' = "exit" /\ exit' = {2}
  /\ UNCHANGED <<sent, closed, lineno, raw, buf, bad, out>>

(* Mutant of Emit: the record is written whatever the bad bit says. *)
EmitIfBad(id, verdict) ==
  /\ buf' = Append(buf, [line |-> lineno, id |-> id, verdict |-> verdict])
  /\ pc' = "getline" /\ raw' = <<>>
  /\ UNCHANGED <<sent, closed, lineno, bad, out, exit>>

(* operator<< on a stream whose bad bit is set does nothing. *)
Emit(id, verdict) ==
  /\ buf' = IF bad THEN buf
            ELSE Append(buf, [line |-> lineno, id |-> id, verdict |-> verdict])
  /\ pc' = "getline" /\ raw' = <<>>
  /\ UNCHANGED <<sent, closed, lineno, bad, out, exit>>

line == raw[1]

Malformed(id, detail) == Emit(id, VerdictOf(MalformedInput, detail))

SkipBlank ==
  /\ pc = "judge" /\ line.ws
  /\ pc' = "getline" /\ raw' = <<>>
  /\ UNCHANGED <<sent, closed, lineno, buf, bad, out, exit>>

RejectTooLong ==
  /\ pc = "judge" /\ ~line.ws /\ TooLong(line)
  /\ Malformed(lineno, "input line exceeds maximum length")

RejectNotUtf8 ==
  /\ pc = "judge" /\ ~line.ws /\ ~TooLong(line) /\ ~line.utf8
  /\ Malformed(lineno, "input line is not valid UTF-8")

Parsed == pc = "judge" /\ ~line.ws /\ ~TooLong(line) /\ line.utf8

RejectNotObject ==
  /\ Parsed /\ line.rec = {}
  /\ Malformed(lineno, "line is not a JSON object")

RejectNoCmd ==
  /\ Parsed /\ line.rec # {} /\ Get(line.rec).cmd = {}
  /\ Malformed(GetOr(Get(line.rec).id, lineno), "record has no cmd field")

Judge ==
  /\ Parsed /\ line.rec # {} /\ Get(line.rec).cmd # {}
  /\ Emit(GetOr(Get(line.rec).id, lineno), Analyze[Get(Get(line.rec).cmd)])

(* out.flush() and the test of out.good(); the flush may itself fail *)
Flush ==
  /\ pc = "flush" /\ ~Flushing
  /\ \E failed \in BOOLEAN : exit' = IF bad \/ failed THEN {2} ELSE {0}
  /\ pc' = "exit"
  /\ UNCHANGED <<sent, closed, lineno, raw, buf, bad, out>>

Loop ==
  \/ Drain
  \/ GetLine \/ GetEof
  \/ SkipBlank \/ RejectTooLong \/ RejectNotUtf8 \/ RejectNotObject
  \/ RejectNoCmd \/ Judge
  \/ Flush

Gate == Loop \/ GetError

Done == pc = "exit" /\ closed /\ UNCHANGED vars

Next == Client \/ Gate \/ Done

Spec == Init /\ [][Next]_vars

(* A running process; nothing is assumed of the client, and a getline that  *)
(* waits for it is under no obligation to fail.                             *)
FairSpec == Spec /\ WF_vars(Loop)

-----------------------------------------------------------------------------

OutRecord == [line : Nat, id : Id \cup Nat, verdict : Verdict]

(* The variables stay in range; the loop holds a line exactly while it is   *)
(* judging one; the tie keeps at most one record in the buffer; nothing is  *)
(* left in it when the process exits.                                       *)
TypeOK ==
  /\ sent \in Seq(Line) /\ closed \in BOOLEAN
  /\ lineno \in 0 .. Len(sent)
  /\ pc \in {"getline", "judge", "flush", "exit"}
  /\ buf \in Seq(OutRecord) /\ Len(buf) <= 1
  /\ bad \in BOOLEAN
  /\ out \in Seq(OutRecord)
  /\ exit \in {{}, {0}, {2}}
  /\ exit # {} <=> pc = "exit"
  /\ raw = IF pc = "judge" THEN <<Stripped(sent[lineno])>> ELSE <<>>
  /\ exit # {} => buf = <<>>

status ==
  IF exit = {} THEN "running" ELSE IF exit = {0} THEN "ok" ELSE "failed"

Answers ==
  [i \in DOMAIN out |->
     [line |-> out[i].line, id |-> out[i].id,
      decision |-> out[i].verdict.decision, rule |-> out[i].verdict.rule]]

Contract ==
  INSTANCE GateContract
    WITH views <- Views, answers <- Answers, IdRequired <- FALSE

(* Every behaviour of the C++ driver is one the contract allows, the same   *)
(* contract the Rust driver implements: whatever both deliver of the same   *)
(* input is equal (SPEC.md section 2.2).  Like the Rust driver it judges a  *)
(* record without an id, under its line number, where SPEC.md section 2.1   *)
(* has it answered as malformed (Stream, ImplementsDocumented).             *)
ImplementsContract == Contract!Spec

(* A record is answered, or the process has met an input or output error,   *)
(* without the client having to write or close anything more: the buffer    *)
(* never keeps back the verdict the client is waiting for.                  *)
RecordAnswered ==
  \A n \in 1 .. MaxLines :
    LineReady(n) /\ ~sent[n].ws ~>
      (\E i \in DOMAIN out : out[i].line = n) \/ bad \/ exit = {2}

(* Once the client closes the pipe the gate exits, even when nothing it     *)
(* writes arrives any more.                                                 *)
Terminates == closed ~> pc = "exit"
=============================================================================
