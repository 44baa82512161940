----------------------------- MODULE JsonRecord -----------------------------
(***************************************************************************)
(* Reading one record (json::parse_record): a cursor that goes over the    *)
(* line once, member by member.                                            *)
(*                                                                         *)
(* An input is [line, by, meant]: a line, whether a client wrote it or the *)
(* gate itself rendered it, and the records a JSON reader gets from it: {} *)
(* if it is no JSON object.                                                *)
(***************************************************************************)
EXTENDS JsonText

CONSTANT Input
ASSUME InputAssumption == \A x \in Input : x.line \in Seq(Nat)

VARIABLES
  input,    \* the line, with what it means
  i,        \* Cursor::i, counted from 1
  at,       \* where parse_record is: "open", "key", "value", "next" or "end"
  key,      \* the key of the member being read
  rec,      \* the record so far, its fields as options
  outcome   \* {} while reading, then {"none"} or {"some"}

vars == <<input, i, at, key, rec, outcome>>

Init ==
  /\ input \in Input
  /\ i = 1 /\ at = "open" /\ key = <<>>
  /\ rec = [id |-> {}, cmd |-> {}]
  /\ outcome = {}

Byte(j) == At(input.line, j)
Skipped(j) == SkipWs(input.line, j)

Go(point, j) == at' = point /\ i' = j /\ UNCHANGED outcome
Stop(result) == at' = "end" /\ outcome' = {result} /\ UNCHANGED i

(* The opening brace, and the closing one of an object without members. *)
Open ==
  /\ at = "open"
  /\ LET start == Skipped(i)
     IN  IF Byte(start) # OpenBrace THEN Stop("none")
         ELSE IF Byte(Skipped(start + 1)) = CloseBrace THEN Stop("some")
         ELSE Go("key", start + 1)
  /\ UNCHANGED <<input, key, rec>>

(* A key and its colon. *)
ReadKey ==
  /\ at = "key"
  /\ LET read  == StringAt(input.line, Skipped(i))
         colon == Skipped(Get(read)[2])
     IN  IF read = {} THEN Stop("none") /\ UNCHANGED key
         ELSE IF Byte(colon) # Colon THEN Stop("none") /\ UNCHANGED key
         ELSE Go("value", colon + 1) /\ key' = Get(read)[1]
  /\ UNCHANGED <<input, rec>>

(* Mutant of ReadValue: the first of two members of one name stays. *)
ReadValueFirst ==
  /\ at = "value"
  /\ LET read == ValueAt(input.line, Skipped(i))
         value == Get(read)[1]
     IN  IF read = {} THEN Stop("none") /\ UNCHANGED rec
         ELSE /\ Go("next", Get(read)[2])
              /\ rec' = [id  |-> IF key = IdKey /\ rec.id = {} THEN value ELSE rec.id,
                         cmd |-> IF key = CmdKey /\ rec.cmd = {} THEN value ELSE rec.cmd]
  /\ UNCHANGED <<input, key>>

(* A value, kept if the key is one of the two that matter: the last one of  *)
(* its name counts, and one that is no string takes the earlier one away.   *)
ReadValue ==
  /\ at = "value"
  /\ LET read == ValueAt(input.line, Skipped(i))
         value == Get(read)[1]
     IN  IF read = {} THEN Stop("none") /\ UNCHANGED rec
         ELSE /\ Go("next", Get(read)[2])
              /\ rec' = [id  |-> IF key = IdKey THEN value ELSE rec.id,
                         cmd |-> IF key = CmdKey THEN value ELSE rec.cmd]
  /\ UNCHANGED <<input, key>>

(* A comma and the next member, or the closing brace.  What stands behind   *)
(* the brace is not looked at.                                              *)
ReadNext ==
  /\ at = "next"
  /\ LET j == Skipped(i)
     IN  CASE Byte(j) = Comma      -> Go("key", j + 1)
           [] Byte(j) = CloseBrace -> Stop("some")
           [] OTHER                -> Stop("none")
  /\ UNCHANGED <<input, key, rec>>

Done == at = "end" /\ UNCHANGED vars

Next == Open \/ ReadKey \/ ReadValue \/ ReadNext \/ Done

Spec == Init /\ [][Next]_vars

-----------------------------------------------------------------------------

(* The cursor stays on the line, and a record exists only once an object    *)
(* has been opened.                                                         *)
TypeOK ==
  /\ i \in 1 .. Len(input.line) + 1
  /\ (at = "end") <=> (outcome # {})
  /\ at = "open" => rec = [id |-> {}, cmd |-> {}]

(* Every JSON object is read for what it means: whatever the spelling of    *)
(* its strings, the white space, the members to be skipped between, and the *)
(* members given twice (SPEC.md section 2.1).  The records the gate renders *)
(* are among them, so an answer names the request it is for.                *)
ReadsWhatWasWritten ==
  at = "end" /\ input.meant # {} => outcome = {"some"} /\ rec = Get(input.meant)

(* One answer is one line, whatever its id and detail are made of: none of  *)
(* its characters is a control character.                                   *)
OneLinePerAnswer ==
  input.by = "gate" => \A k \in DOMAIN input.line : input.line[k] >= 32

(* A string that breaks off, or whose escapes do not decode, is never read  *)
(* as some other text.                                                      *)
BrokenIsRejected ==
  at = "end" /\ input.by = "broken" => outcome = {"none"}

-----------------------------------------------------------------------------
(* What makes a line broken, told by its quotes and brackets alone.         *)

(* Where a line stands behind its first n characters: outside strings, in   *)
(* one, or in one behind a backslash; and which brackets are open, the      *)
(* innermost last.                                                          *)
StartOfLine == [mode |-> "out", open |-> <<>>]
Behind(s, c) ==
  CASE s.mode = "escaped" -> [s EXCEPT !.mode = "in"]
    [] s.mode = "in" -> [s EXCEPT !.mode = IF c = Quote THEN "out"
                                           ELSE IF c = Backslash THEN "escaped" ELSE "in"]
    [] s.mode = "out" ->
         [mode |-> IF c = Quote THEN "in" ELSE "out",
          open |-> IF c \in {OpenBrace, OpenBracket} THEN Append(s.open, c)
                   ELSE IF c \in {CloseBrace, CloseBracket} THEN Front(s.open)
                   ELSE s.open]
PlacesOf(line) ==
  LET place[n \in 0 .. Len(line)] ==
        IF n = 0 THEN StartOfLine ELSE Behind(place[n - 1], line[n])
  IN  place

(* A closing bracket fits the innermost open one and leaves another open.   *)
Fits(open, c) ==
  /\ Len(open) > 1
  /\ Last(open) = (IF c = CloseBrace THEN OpenBrace ELSE OpenBracket)

(* The escapes of RFC 8259: \uXXXX for a character or for half of one, two   *)
(* of them, a high and a low half, for the whole, and the short ones.       *)
UnitAt(line, j) ==
  /\ j + 5 <= Len(line) /\ line[j] = Backslash /\ line[j + 1] = LetterU
  /\ \A k \in j + 2 .. j + 5 : line[k] \in HexDigit
HighHalf(line, j) ==
  UnitAt(line, j) /\ line[j + 2] \in {68, 100} /\ line[j + 3] \in {56, 57, 65, 66, 97, 98}
LowHalf(line, j) ==
  UnitAt(line, j) /\ line[j + 2] \in {68, 100} /\ line[j + 3] \in 67 .. 70 \cup 99 .. 102
IsEscape(line, j) ==
  \/ j < Len(line) /\ line[j + 1] \in {34, 47, 92, 98, 102, 110, 114, 116}
  \/ UnitAt(line, j) /\ ~HighHalf(line, j) /\ ~LowHalf(line, j)
  \/ HighHalf(line, j) /\ LowHalf(line, j + 6)

(* A backslash at j in a string that begins no escape and no low half of one *)
(* that begins before it.                                                   *)
Undecodable(line, place, j) ==
  /\ place[j - 1].mode = "in" /\ line[j] = Backslash /\ ~IsEscape(line, j)
  /\ ~(j > 6 /\ place[j - 7].mode = "in" /\ HighHalf(line, j - 6) /\ LowHalf(line, j))

(* The object is open still where the line ends, or where an escape does    *)
(* not decode.                                                              *)
BreaksOff(line) ==
  LET place == PlacesOf(line)
  IN  \E j \in 1 .. Len(line) + 1 :
        /\ \A k \in 1 .. j - 1 :
             place[k - 1].mode = "out" /\ line[k] \in {CloseBrace, CloseBracket}
               => Fits(place[k - 1].open, line[k])
        /\ j <= Len(line) => Undecodable(line, place, j)
=============================================================================
