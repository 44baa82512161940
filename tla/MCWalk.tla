------------------------------- MODULE MCWalk -------------------------------
(***************************************************************************)
(* Instance of Walk: the commands of MCCommands, parsed to the trees they  *)
(* were written from, with what is found in them.                          *)
(***************************************************************************)
EXTENDS Walk, MCCommands

CONSTANTS
  MaxCmdBytes,  \* limits::MAX_CMD_BYTES
  ParseTable    \* the texts that are met, and {} or {script} for each

MCCommand == {s.text : s \in Combined} \cup {Broken.text, Long(MaxCmdBytes + 1)}

MCSource == {s.text : s \in Found} \cup {Broken.text}
MCParseTable ==
  LET scripts == Combined \cup Found
  IN  [text \in {s.text : s \in scripts} \cup {Broken.text} |->
         {s.tree : s \in {t \in scripts : t.text = text}}]

(* The trees and the bodies in them, three groups deep at most. *)
BodiesIn(script) ==
  {script[p[1]][p[2]].body :
     p \in {q \in UNION {{i} \X DOMAIN script[i] : i \in DOMAIN script} :
              script[q[1]][q[2]].cmd # "simple"}}
MCScript ==
  LET level[n \in 0 .. 4] ==
        IF n = 0 THEN {s.tree : s \in Combined \cup Found}
        ELSE UNION {BodiesIn(script) : script \in level[n - 1]}
  IN  UNION {level[n] : n \in 0 .. 4}
MCParse(text) == ParseTable[text]
MCTooLong(text) == Len(text) > MaxCmdBytes
MCLooksLikeBase64(text) == text \in {Encoded, Undecodable}
MCDecode(text) == IF text = Encoded THEN {Fetch.text} ELSE {}
=============================================================================
