----------------------------- MODULE ParseSource -----------------------------
(***************************************************************************)
(* parse_source (parser.rs): the tokenizer and then the parser, which gets *)
(* the tokens as they are.  Everything the analyzer looks into, the command*)
(* itself and each text it finds in it, goes through here.                 *)
(***************************************************************************)
EXTENDS Lexer

CONSTANT MaxNest  \* limits::MAX_NEST_DEPTH

VARIABLES
  at, calls, returned, steps,  \* the variables of the parser
  tree                         \* its outcome

parser == <<at, calls, returned, steps, tree>>

P == INSTANCE Parser WITH Input <- {<<>>}, outcome <- tree

SourceInit == Init /\ P!Init

Tokenize == Step /\ UNCHANGED parser

(* Mutant of Rejected: what was tokenized before the error is parsed. *)
RejectedAnyway ==
  /\ outcome = {"error"} /\ tree = {}
  /\ P!Step /\ UNCHANGED <<input, i, buf, inside, outcome>>

(* A command that cannot be tokenized is not parsed. *)
Rejected ==
  /\ outcome = {"error"} /\ tree = {}
  /\ tree' = {<<"error">>}
  /\ UNCHANGED <<vars, at, calls, returned, steps>>

ParseTokens ==
  /\ outcome = {"ok"}
  /\ P!Step /\ UNCHANGED <<input, i, buf, inside, outcome>>

Parsed == tree # {} /\ UNCHANGED <<vars, parser>>

SourceNext == Tokenize \/ Rejected \/ ParseTokens \/ Parsed

SourceSpec == SourceInit /\ [][SourceNext]_<<vars, parser>>

-----------------------------------------------------------------------------

(* A command that was written from a syntax tree is parsed to that tree, and *)
(* to no other: nothing that a quote, an expansion, an operator or a group  *)
(* means is lost between the tokenizer and the parser.  A text that breaks  *)
(* off, or that only its first words are a command, is an error.  This is   *)
(* what the walk takes for granted of its parser (parse_source).            *)
ParsesWhatWasWritten ==
  \A result \in input.parse : tree # {} => tree = {result}
=============================================================================
