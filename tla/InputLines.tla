----------------------------- MODULE InputLines -----------------------------
(***************************************************************************)
(* The lines on the gate's standard input, as far as the stream drivers    *)
(* look into them, and the client that writes them (an agent or one of the *)
(* harnesses under eval/).                                                 *)
(***************************************************************************)
EXTENDS Verdicts, Options, Sequences

CONSTANTS
  Id,            \* record identifiers; line numbers are among them
  Cmd,           \* command strings
  Detail,        \* justification texts of the tier
  Analyze,       \* Analyze[c]: the verdict of the tier on command c
  MaxLineBytes,  \* limits::MAX_LINE_BYTES
  Line,          \* the lines the client may write
  MaxLines       \* bound on the number of lines, for model checking

(* One line.  eol counts the trailing newline and carriage returns, body    *)
(* the bytes before them; ws: the body is all ASCII whitespace; utf8: the   *)
(* body is valid UTF-8; rec: what json::parse_record makes of the body, an  *)
(* Option<Record> ({} for None, {r} for Some(r)), as are a record's fields. *)
LineShape ==
  [body : Nat, eol : Nat, ws : BOOLEAN, utf8 : BOOLEAN,
   rec : SUBSET [id : SUBSET Id, cmd : SUBSET Cmd]]

(* The justifications the driver itself gives for a malformed record.       *)
MalformedDetail ==
  {"input line exceeds maximum length", "input line is not valid UTF-8",
   "line is not a JSON object", "record has no cmd field"}

Verdict ==
  [decision : Decision, rule : Rule, detail : Detail \cup MalformedDetail]

ASSUME MaxLineAssumption == MaxLineBytes \in Nat
ASSUME MaxLinesAssumption == MaxLines \in Nat
ASSUME AnalyzeAssumption == Analyze \in [Cmd -> Verdict]
ASSUME LineAssumption ==
  \A l \in Line :
    /\ l \in LineShape
    /\ l.body + l.eol > 0
    /\ l.body = 0 => l.ws

VARIABLES
  sent,    \* the lines written so far, the unread ones included
  closed   \* the client has closed the pipe

(* Popping the trailing '\n' and '\r' bytes off the buffer. *)
Stripped(line) == [line EXCEPT !.eol = 0]

(* raw.len() > MAX_LINE_BYTES *)
TooLong(raw) == raw.body + raw.eol > MaxLineBytes

(* A line whose terminator has not been written yet is still being written: *)
(* it is the last one, and more bytes would become part of it.              *)
Complete(line) == line.eol > 0

(* The client writes one more line. *)
Submit(line) ==
  /\ ~closed
  /\ Len(sent) < MaxLines
  /\ sent # <<>> => Complete(sent[Len(sent)])
  /\ sent' = Append(sent, line)
  /\ UNCHANGED closed

(* The client closes its end of the pipe. *)
Close ==
  /\ ~closed
  /\ closed' = TRUE
  /\ UNCHANGED sent

(* The next read has something to return: a whole line, or at end of file   *)
(* whatever bytes are left.                                                 *)
LineReady(n) == n \in DOMAIN sent /\ (Complete(sent[n]) \/ closed)

(* What the contract sees of a line: one that is too long (its terminator   *)
(* not counted), not UTF-8 or not an object hides its id and its command.   *)
ViewOf(line) ==
  LET opaque == line.body > MaxLineBytes \/ ~line.utf8 \/ line.rec = {}
  IN  [blank |-> line.ws,
       id    |-> IF opaque THEN {} ELSE Get(line.rec).id,
       cmd   |-> IF opaque THEN {} ELSE Get(line.rec).cmd]

Views == [n \in DOMAIN sent |-> ViewOf(sent[n])]
=============================================================================
