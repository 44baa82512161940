-------------------------------- MODULE Shell --------------------------------
(***************************************************************************)
(* The expansion of the words of a command under the bindings known so far *)
(* (policy.rs).                                                            *)
(***************************************************************************)
EXTENDS Syntax

CONSTANTS
  Source,    \* the texts that can be handed to the parser
  Script,    \* the syntax trees of texts, and those of the bodies in them
  Parse(_),  \* parse_source: {} when it fails, else {script}
  MaxDepth   \* limits::MAX_RECURSION_DEPTH

ASSUME MaxDepthAssumption == MaxDepth \in Nat
ASSUME ScriptAssumption == Script \subseteq ScriptType(Script)
ASSUME ParseAssumption ==
  \A src \in Source : Parse(src) \subseteq Script /\ \A s, t \in Parse(src) : s = t

(* How the texts are spelled that an expansion is put together with.        *)
ASSUME SpaceAssumption ==
  Len("") = 0 /\ Len(" ") = 1 /\ {"", " ", "0", "/dev/fd/63"} \subseteq STRING

(* Commands whose first word is literal, under the name that word gives. *)
LiteralName(command) ==
  IF command.cmd = "simple" /\ command.words # <<>>
  THEN {Basename(l) : l \in Literal(command.words[1])}
  ELSE {}

(* The piece of text a segment expands to, if it is known, and whether it   *)
(* is split into fields; printed tells what is known to be printed by the   *)
(* text of a substitution.                                                  *)
Pieces(seg, env, printed) ==
  CASE seg.seg = "lit"     -> {[text |-> seg.text, split |-> FALSE]}
    [] seg.seg = "var"     -> IF seg.name \in DOMAIN env
                              THEN {[text |-> env[seg.name], split |-> ~seg.quoted]}
                              ELSE {}
    [] seg.seg = "cmdsub"  -> {[text |-> v, split |-> ~seg.quoted] : v \in printed[seg.src]}
    [] seg.seg = "arith"   -> {[text |-> "0", split |-> FALSE]}
    [] seg.seg = "procsub" -> {[text |-> "/dev/fd/63", split |-> FALSE]}

(* The fields finished so far and the one being built, which an expansion   *)
(* can begin or end but an empty one never becomes a field.                 *)
FlushField(acc) ==
  IF acc.cur = "" THEN acc
  ELSE [fields |-> Append(acc.fields, acc.cur), cur |-> ""]
FlushIf(condition, acc) == IF condition THEN FlushField(acc) ELSE acc
Extend(acc, text) == [acc EXCEPT !.cur = @ \o text]

(* The first of the parts ends the field being built, the last begins one.  *)
AddFields(acc, parts) ==
  IF parts = <<>> THEN acc
  ELSE LET all == acc.fields \o <<acc.cur \o Head(parts)>> \o Tail(parts)
       IN  [fields |-> Front(all), cur |-> Last(all)]

(* Mutant of AddPiece: white space at the end of an expansion is forgotten. *)
AddPieceGlued(acc, piece) ==
  LET text == piece.text
      Sep(i) == CharAt(text, i) \in FieldSep
  IN  IF ~piece.split THEN Extend(acc, text)
      ELSE AddFields(FlushIf(Sep(1), acc), Fields(text))

AddPiece(acc, piece) ==
  LET text == piece.text
      Sep(i) == CharAt(text, i) \in FieldSep
  IN  IF ~piece.split THEN Extend(acc, text)
      ELSE FlushIf(Sep(Len(text)), AddFields(FlushIf(Sep(1), acc), Fields(text)))

NoFields == [fields |-> <<>>, cur |-> ""]
SplitFields(pieces) ==
  LET split[k \in 0 .. Len(pieces)] ==
        IF k = 0 THEN NoFields ELSE AddPiece(split[k - 1], pieces[k])
  IN  FlushField(split[Len(pieces)]).fields

(* expand *)
Expansion(known, quoted) ==
  LET pieces == FlattenSeq([i \in DOMAIN known |-> OneIf(known[i] # {}, Get(known[i]))])
      fields == SplitFields(pieces)
  IN  [fields   |-> IF quoted /\ fields = <<>> THEN <<"">> ELSE fields,
       resolved |-> \A i \in DOMAIN known : known[i] # {}]
ExpandWith(word, env, printed) ==
  Expansion([i \in DOMAIN word.segs |-> Pieces(word.segs[i], env, printed)], word.quoted)

(* try_resolve_cmdsub: what the body prints, when it is a single echo or    *)
(* printf of words that are all known.                                      *)
IsEcho(script) ==
  /\ Len(script) = 1 /\ Len(script[1]) = 1
  /\ LiteralName(script[1][1]) \in {{"echo"}, {"printf"}}
PrintedText(args) ==
  IF \A i \in DOMAIN args : args[i].resolved
  THEN {Joined(FlattenSeq([i \in DOMAIN args |-> args[i].fields]))}
  ELSE {}
Printed(src, env, printed) ==
  UNION {PrintedText([i \in DOMAIN Tail(script[1][1].words) |->
                        ExpandWith(script[1][1].words[i + 1], env, printed)])
         : script \in {s \in Parse(src) : IsEcho(s)}}

Substituted(env) ==
  LET printed[depth \in 0 .. MaxDepth] ==
        [src \in STRING |->
           IF depth = MaxDepth THEN {} ELSE Printed(src, env, printed[depth + 1])]
  IN  printed

Expand(word, env, depth) == ExpandWith(word, env, Substituted(env)[depth])
ExpandAll(words, env, depth) == [i \in DOMAIN words |-> Expand(words[i], env, depth)]

(* apply_assignments: a binding whose value is not known is dropped. *)
Bind(env, name, value) ==
  [n \in DOMAIN env \cup {name} |-> IF n = name THEN value ELSE env[n]]
Unbind(env, name) == [n \in DOMAIN env \ {name} |-> env[n]]

(* Mutant of ApplyAssignment: a value that is not known leaves the old one. *)
ApplyAssignmentKeeps(env, name, value) ==
  IF value.resolved /\ Len(value.fields) <= 1
  THEN Bind(env, name, Concat(value.fields))
  ELSE env

ApplyAssignment(env, name, value) ==
  IF value.resolved /\ Len(value.fields) <= 1
  THEN Bind(env, name, Concat(value.fields))
  ELSE Unbind(env, name)

ApplyAssignments(command, env, depth) ==
  LET after[k \in 0 .. Len(command.assigns)] ==
        IF k = 0 THEN env
        ELSE LET e      == after[k - 1]
                 assign == command.assigns[k]
             IN  ApplyAssignment(e, assign.name, Expand(assign.value, e, depth))
  IN  after[Len(command.assigns)]

(* The bodies of the substitutions in a sequence of words, in order. *)
Bodies(words, kinds) ==
  FlattenSeq([i \in DOMAIN words |->
    LET segs == words[i].segs
    IN  FlattenSeq([k \in DOMAIN segs |-> OneIf(segs[k].seg \in kinds, segs[k].src)])])

(* resolve: struct RCmd *)
Resolved(command, words, targets) ==
  LET redirs   == command.redirs
      argWords == command.words \o [i \in DOMAIN command.assigns |-> command.assigns[i].value]
  IN  [argv |-> FlattenSeq([i \in DOMAIN words |-> words[i].fields]),
       nameUnresolved |-> words # <<>> /\ ~words[1].resolved,
       argUnresolved  |-> \E i \in DOMAIN words \ {1} : ~words[i].resolved,
       redirs |-> [i \in DOMAIN redirs |->
                     [op |-> redirs[i].op, target |-> Joined(targets[i].fields),
                      ok |-> targets[i].resolved]],
       procSubs |-> Bodies(argWords, {"procsub"}),
       subs |-> Bodies(argWords \o [i \in DOMAIN redirs |-> redirs[i].target],
                       {"cmdsub", "procsub"})]
Resolve(command, env, depth) ==
  Resolved(command, ExpandAll(command.words, env, depth),
           ExpandAll([i \in DOMAIN command.redirs |-> command.redirs[i].target], env, depth))
=============================================================================
