---------------------------- MODULE GateContract ----------------------------
(***************************************************************************)
(* What the gate promises whoever is on the other side of its pipes: each  *)
(* record handed in is answered once, in order, under its own id, and a    *)
(* gate that reports success has answered all of them.                     *)
(*                                                                         *)
(* A line is seen only through its view: whether it is blank, the id that  *)
(* can be recovered from it and the command that can be recovered from it  *)
(* ({} for none, {x} for x).                                               *)
(***************************************************************************)
EXTENDS Verdicts, Options, Sequences

CONSTANTS
  Id,      \* record identifiers; a line number can serve as one
  Cmd,     \* command strings
  Analyze, \* Analyze[c]: the verdict of the tier on command c
  IdRequired  \* TRUE if a record without an id is a malformed one

VARIABLES
  views,    \* the views of the lines submitted so far
  closed,   \* the client has closed the gate's standard input
  answers,  \* the records the client has received, in order
  status    \* "running", "ok" (exit code 0) or "failed" (exit code 2)

vars == <<views, closed, answers, status>>

View == [blank : BOOLEAN, id : SUBSET Id, cmd : SUBSET Cmd]

(* SPEC.md section 2.1 calls a line malformed that lacks the id or the     *)
(* command; the drivers ask for the command only.  IdRequired chooses the  *)
(* reading.                                                                *)
Malformed(view) == view.cmd = {} \/ (IdRequired /\ view.id = {})

(* The answer owed to the line with number n. *)
Answer(n, view) ==
  [line |-> n,
   id   |-> GetOr(view.id, n),
   decision |-> IF Malformed(view) THEN Ask
                ELSE Analyze[Get(view.cmd)].decision,
   rule |-> IF Malformed(view) THEN MalformedInput
            ELSE Analyze[Get(view.cmd)].rule]

LastAnswered == IF answers = <<>> THEN 0 ELSE answers[Len(answers)].line

(* n is the first record after the last one answered. *)
NextRecord(n) ==
  /\ n \in DOMAIN views
  /\ n > LastAnswered
  /\ ~views[n].blank
  /\ \A m \in DOMAIN views : LastAnswered < m /\ m < n => views[m].blank

Init ==
  /\ views = <<>> /\ closed = FALSE
  /\ answers = <<>> /\ status = "running"

Submit ==
  /\ ~closed
  /\ \E view \in View : views' = Append(views, view)
  /\ UNCHANGED <<closed, answers, status>>

Close ==
  /\ ~closed
  /\ closed' = TRUE
  /\ UNCHANGED <<views, answers, status>>

Respond ==
  /\ status = "running"
  /\ \E n \in DOMAIN views :
       /\ NextRecord(n)
       /\ answers' = Append(answers, Answer(n, views[n]))
  /\ UNCHANGED <<views, closed, status>>

Finish ==
  /\ status = "running"
  /\ closed
  /\ \A n \in DOMAIN views : ~NextRecord(n)
  /\ status' = "ok"
  /\ UNCHANGED <<views, closed, answers>>

(* An input or output operation of the host failed. *)
Fail ==
  /\ status = "running"
  /\ status' = "failed"
  /\ UNCHANGED <<views, closed, answers>>

Next == Submit \/ Close \/ Respond \/ Finish \/ Fail

Spec == Init /\ [][Next]_vars
=============================================================================
