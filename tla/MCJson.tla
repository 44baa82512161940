------------------------------- MODULE MCJson -------------------------------
(* Instance of JsonRecord: lines made by spelling a record in the ways JSON *)
(* allows, lines cut off or broken, and answers of the gate.                *)
EXTENDS JsonRecord

(* Every way to write the character c in a string. *)
UpperHex4(n) == [k \in 1 .. 4 |-> IF Hex4Of(n)[k] >= 97 THEN Hex4Of(n)[k] - 32 ELSE Hex4Of(n)[k]]
Units(c) ==
  IF c < 65536 THEN <<c>>
  ELSE <<55296 + (c - 65536) \div 1024, 56320 + ((c - 65536) % 1024)>>
Unicode(c) ==
  {FlattenSeq([k \in DOMAIN Units(c) |-> <<Backslash, LetterU>> \o digits[k]]) :
     digits \in {[k \in DOMAIN Units(c) |-> Hex4Of(Units(c)[k])],
                 [k \in DOMAIN Units(c) |-> UpperHex4(Units(c)[k])]}}
CharacterSpellings(c) ==
  (IF c >= 32 /\ c \notin {Quote, Backslash} THEN {<<c>>} ELSE {})
    \cup {<<Backslash, p[1]>> : p \in {q \in ShortEscape \cup {<<47, 47>>} : q[2] = c}}
    \cup Unicode(c)

Texts == {<<>>, <<97>>, <<Quote>>, <<Backslash>>, <<10>>, <<27>>, <<47>>, <<128512>>, <<CloseBrace>>}
Spellings(text) ==
  IF text = <<>> THEN {<<Quote, Quote>>}
  ELSE {<<Quote>> \o s \o <<Quote>> : s \in CharacterSpellings(text[1])}

(* <<what is written, the string it means or {}>> *)
Strings == UNION {{<<s, {text}>> : s \in Spellings(text)} : text \in Texts}
Others ==
  {<<<<45, 49, 46, 53>>, {}>>} \cup {<<w, {}>> : w \in Words}
    \cup {<<v, {}>> : v \in
            {<<OpenBracket, CloseBracket>>,
             (* ["]"], {"}":[{"a":"\""}]} *)
             <<OpenBracket, Quote, CloseBracket, Quote, CloseBracket>>,
             <<OpenBrace, Quote, CloseBrace, Quote, Colon, OpenBracket, OpenBrace, Quote, 97,
               Quote, Colon, Quote, Backslash, Quote, Quote, CloseBrace, CloseBracket,
               CloseBrace>>}}
Keys ==
  {<<EscapeInto(k), k>> : k \in {IdKey, CmdKey, <<120>>}}
    \cup {<<<<Quote, Backslash, LetterU, 48, 48, 54, 57, 100, Quote>>, IdKey>>}

Members == Keys \X (Strings \cup Others)
FewMembers ==
  {m \in Members : m[2] \in Others \/ m[2][2] \in {{<<97>>}, {<<Quote>>}, {<<128512>>}}}

Meaning(ms) ==
  LET LastOf(name) ==
        LET given == {k \in DOMAIN ms : ms[k][1][2] = name}
        IN  IF given = {} THEN {} ELSE ms[Max(given)][2][2]
  IN  [id |-> LastOf(IdKey), cmd |-> LastOf(CmdKey)]

Spelled(ms, ws) ==
  LET Member(m) == ws \o m[1][1] \o ws \o <<Colon>> \o ws \o m[2][1] \o ws
      Inner == IF ms = <<>> THEN ws
               ELSE FoldLeft(LAMBDA all, m : all \o <<Comma>> \o Member(m),
                             Member(Head(ms)), Tail(ms))
  IN  ws \o <<OpenBrace>> \o Inner \o <<CloseBrace>> \o ws

Objects ==
  {[line |-> Spelled(ms, ws), by |-> "client", meant |-> {Meaning(ms)}] :
     ms \in {<<>>} \cup {<<m>> : m \in Members} \cup (FewMembers \X FewMembers),
     ws \in {<<>>, <<32>>}}

Broken(line) == [line |-> line, by |-> "broken", meant |-> {}]

(* Objects cut off before the closing brace, as at the end of a pipe. *)
CutOff ==
  UNION {{Broken(SubSeq(Spelled(ms, <<>>), 1, n)) : n \in 0 .. Len(Spelled(ms, <<>>)) - 1} :
           ms \in {<<m>> : m \in Members} \cup
                  {<<m, n>> : m \in FewMembers, n \in {o \in FewMembers : o[1][2] = CmdKey}}}

(* Escapes that mean nothing: half a surrogate pair, a high surrogate with  *)
(* another unit after it, too few digits, an unknown letter.                *)
BadEscapes ==
  {<<LetterU>> \o Hex4Of(55357), <<LetterU>> \o Hex4Of(56832),
   <<LetterU>> \o Hex4Of(55357) \o <<Backslash, LetterU>> \o Hex4Of(97),
   <<LetterU, 48, 48, 54>>, <<LetterU, 48, 48, 54, 103>>, <<120>>}
BadStrings ==
  {Broken(Spelled(<<<<<<EscapeInto(CmdKey), CmdKey>>,
                      <<<<Quote, Backslash>> \o e \o <<Quote>>, {}>>>>>>, <<>>)) :
     e \in BadEscapes}

Details == {<<97>>, <<Quote, 97>>, <<27, 97>>}
Answers ==
  {[line |-> RenderRecord(id, <<65, 83, 75>>, <<79, 75>>, detail),
    by |-> "gate", meant |-> {[id |-> {id}, cmd |-> {}]}] :
     id \in Texts \cup {<<t[1], u[1]>> : t, u \in Texts \ {<<>>}}, detail \in Details}

MCInput == Objects \cup CutOff \cup BadStrings \cup Answers

(* The object of each broken line breaks off.                               *)
ASSUME BrokenAssumption ==
  \A x \in MCInput : x.by = "broken" => BreaksOff(x.line)
=============================================================================
