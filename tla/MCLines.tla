------------------------------ MODULE MCLines ------------------------------
(* The input both drivers are checked on: lines on both sides of every      *)
(* check they make, and with more than one check failing at once, so that   *)
(* the order of the checks shows.                                           *)
EXTENDS InputLines, TLC

MCDetail == {NoMatch, "protected path"}
MCCmd == {"benign", "dangerous"}
MCAnalyze == "benign" :> AllowVerdict @@ "dangerous" :> VerdictOf(FsDestructive, "protected path")

None == {}
Object(id, cmd) == {[id |-> id, cmd |-> cmd]}
MCLine ==
  LET Text(body, eol, utf8, rec) ==
        [body |-> body, eol |-> eol, ws |-> FALSE, utf8 |-> utf8, rec |-> rec]
      Blank(body, eol) ==
        [body |-> body, eol |-> eol, ws |-> TRUE, utf8 |-> TRUE, rec |-> None]
  IN  { Blank(0, 1), Blank(MaxLineBytes + 1, 1), Blank(1, 0),
        Text(MaxLineBytes + 1, 1, TRUE, Object({2}, {"benign"})),
        Text(MaxLineBytes + 1, 1, FALSE, None),
        Text(MaxLineBytes, 2, TRUE, Object({2}, {"benign"})),
        Text(MaxLineBytes, 0, TRUE, Object({7}, {"dangerous"})),
        Text(1, 1, FALSE, None),
        Text(1, 1, TRUE, None),
        Text(1, 1, TRUE, Object({7}, {})),
        Text(1, 1, TRUE, Object({}, {"dangerous"})),
        Text(1, 1, TRUE, Object({}, {"benign"})) }
=============================================================================
