# agentgate: a TLA+ verification development

agentgate reads shell commands as JSON Lines on standard input and answers each
with ALLOW, ASK or DENY on standard output.  There are two tiers (a stateless
*baseline* and an *advanced* tier that parses the command) and two
implementations of each (Rust, and a C++ port).  This directory holds TLA+
modules translated from the source, TLC configurations that check them on small
instances, and proofs that TLAPS checks for every value of the constants.
Paths below are relative to the repository root; `policy.rs` and its siblings
are in `rust/crates/agentgate-core/src/`.

## 1. Inventory

| component | source | state | operations | interacts with | hard part |
|---|---|---|---|---|---|
| JSON Lines driver, Rust | `stream.rs`, `agentgate-cli/src/bin/*.rs` | line number, line buffer, bytes written, exit code | `run`, `emit`, `main` | the client (two pipes), the record reader, the analyzer | framing, I/O errors, a client that waits for each verdict |
| JSON Lines driver, C++ | `cpp/src/stream.cpp`, `main_*.cpp` | the same, plus the buffer and error bits of the C++ streams | `run_stream`, `emit`, `main` | the same | buffered output, tie of the two streams, sticky errors |
| findings accumulator | `lib.rs` | the best verdict so far | `Findings::new`, `add`, `resolve` | called by every rule of the walk | the answer must not depend on the order of the calls |
| analyzer walk | `policy.rs` | bindings, taint set, findings, recursion depth | `analyze`, `walk_script`, `walk_pipeline`, `command_rules`, `analyze_nested`, ... | the parser (re-entered for each nested text), the tables, base64 | mutual recursion with shared state and a depth limit |
| tables and path predicates | `tables.rs` | none | set membership, `normalise_path`, `is_protected_path`, ... | read by the walk | boundary cases of paths |
| lexer | `lexer.rs` | cursor, word in the making, token list | `tokenize` | called by the parser | quoting, limits on tokens |
| parser | `parser.rs` | cursor, call stack with depths | `parse`, `parse_source` | called by the walk | nesting limits, function definitions |
| JSON reader and writer | `json.rs`, `render_record` in `lib.rs` | cursor, record | `parse_record`, `escape_into` | called by the driver | escapes, surrogates, lines cut off |
| base64 | `b64.rs` | bit accumulator | `looks_like_base64`, `decode` | called by the walk | padding, output bound |
| baseline tier | `baseline.rs` | none | `analyze` | called by the driver | letting a bare download go without letting go of what it outranked |
| C++ analyzer | `cpp/src/{policy,lexer,parser,core}.cpp` | as the Rust one | as the Rust one | | agreeing with the Rust one |
| harnesses, corpus | `eval/`, `corpus/` | | | clients of the gate | offline |

There is no shared-memory concurrency and nothing is persisted: a gate is one
thread in one process.  What is concurrent is the gate and its client, each
blocked on the other's pipe.  What can fail is a read, a write or the final
flush.  What is intricate is the walk: seven functions that call one another,
with bindings, taint and findings threaded through all of them, over a tree
that grows as texts are found inside texts.

What makes each part correct:

* driver: one answer per record, in order, under its own id (or its line number
  where it has none); every answer is
  delivered before the gate waits for more input; exit code 0 only if nothing
  was lost; the two implementations keep one and the same contract;
* accumulator: the answer is the maximum of the findings in a fixed order, so
  no finding can be silenced by another and ALLOW means that nothing fired;
* lexer: what is quoted is never an operator and what is not quoted is never
  hidden, however a word is spelled;
* parser: it accepts what its grammar derives, builds the only tree there is,
  and ends in linear time within a bounded depth;
* JSON reader and writer: a record means what its writer meant, a line cut off
  is no record, an answer is one line that names its request;
* base64: an encoding decodes to what was encoded, anything else to nothing;
* baseline: the worst rule with a needle in the command is the answer, and a
  download that is let go takes nothing else with it;
* walk: everything the shell would run is looked at or answered at least ASK;
  a download is connected with the later execution of what it wrote; a name has
  the value and a word the fields a shell would give it; a command behind
  wrappers whose options and operands the code knows is judged as if it stood
  alone; the walk ends whatever the command contains.

`PROJECT.json` lists the hazards with their lines and the properties that
catch them.

## 2. Modules

    Options  Verdicts
       |        |-- Findings -- FindingsProofs, MCFindings
       |        |-- GateContract
       |        |-- InputLines -- Stream -- StreamProofs, MCStream
       |        |             `-- CppStream -- CppStreamProofs, MCCppStream
       |        |                                          (MCLines: common instance)
       |        `-- Baseline (with Text) -- MCBaseline
       `-- Text -- Tables -- Argv -- Rules --.
                         `-- Syntax -- Shell +-- Walk -- WalkProofs, MCWalk
                                |-- Lexer -- MCLexer ---.
                                |-- Parser -- ParseSource -- MCParseSource
                                |      |-- ParserGrammar -- MCParser
                                |      `-- ParserProofs
                                `-- MCCommands (read by MCWalk and MCParseSource)
    Options -- JsonText -- JsonRecord -- JsonProofs, MCJson
       |-- Base64 -- Base64Proofs, MCBase64
       `-- DataProofs -- StreamProofs, CppStreamProofs, WalkProofs, ParserProofs,
                         JsonProofs, Base64Proofs

* **Verdicts**: `Decision`, `Rule` (by discriminant), `Rule::severity`, the
  comparison of `Findings::add` and the decision it takes.
* **Findings**: one accumulator per traversal order.  `Add(a, rule, detail)` is
  one call of `add`, `Resolve(a)` the call of `resolve`.  All accumulators get
  the same findings, each in an order of its own, which is how "independent of
  the order" is stated.
* **GateContract**: the abstract gate.  Lines are known only by a view (blank,
  recoverable id, recoverable command); `Respond` answers the next record,
  `Finish` may be taken only when all are answered, `Fail` at any time.
  `IdRequired` chooses between two readings of a record without an id: FALSE,
  the drivers', judges it under its line number; TRUE, that of SPEC.md section
  2.1, has it answered as malformed.
* **InputLines**: a line as the drivers see it (length, terminator, blank,
  UTF-8, what the record reader makes of it), and the client: `Submit` writes a
  line, `Close` closes the pipe, in any interleaving with the gate.
* **Stream**: one action for each way an iteration of `run` can go, in the order
  of its tests.  `ReadError`, the second disjunct of `Emit` and of `Flush` are
  the three places an I/O error leaves the loop.  Standard output in Rust is
  line buffered, so a record written is a record delivered.
* **CppStream**: the same loop with `buf` (the buffer of `std::cout`), `bad`
  (its bad bit) and `Drain`, which passes the buffer on when `std::cin` is read
  (the streams are tied) and in the final flush.
* **Text, Tables, Argv, Rules**: pure operators.  TLA+ strings stand for Rust
  strings.  `Tables` is `tables.rs`; `Argv` is how `policy.rs` reads an argument
  vector (wrappers, flags, operands, inline programs, crontab lines); `Rules`
  gives for each group of rules the set of rule identifiers that fire.
* **Syntax**: words and the syntax tree, the types the lexer and the parser
  hand on, with the predicates on words the parser is written with.
* **Lexer**: `tokenize`, one action for each branch of its loop and of the loop
  of `lex_double_quoted`.  `buf` is `WordBuf`, `inside` tells the two loops
  apart, `i` is the position.  The scanners that are called from there
  (`lex_dollar`, `read_paren_sub`, `read_backtick`) are operators on the
  position.  A TLA+ string cannot spell the backtick; `Tick` stands for it.
* **Parser**: the recursive descent as the stack `calls`.  A frame is a running
  function with those of its locals that outlive a call; `returned` carries a
  result to the caller; `?` is `Fail`, which clears the stack.  One action for
  each stretch of code between two calls.
* **ParseSource**: `parse_source`.  The variables of Lexer and of Parser side by
  side; the parser starts when the tokenizer has returned, and gets its tokens
  (`INSTANCE Parser` with `outcome` of the parser renamed to `tree`).
* **ParserGrammar**: the grammar, as the set of trees that derive the tokens
  from one position up to another, with no order in which alternatives are
  tried and no lookahead.  It is the reference the parser is compared with.
* **JsonText, JsonRecord**: `json.rs`.  The readers of strings and values are
  functions of the position; `JsonRecord` is the loop of `parse_record`, member
  by member.  `RenderRecord` is the line the gate answers with.
* **Base64**: `decode`, one action for each kind of byte and one for the checks
  at the end; the accumulator has `AccBits` bits.
* **Baseline**: `baseline.rs`.  `MatchAll` is the first look at the needles,
  `Downgrade` the second one a bare download gets, `Answer` and `AnswerAgain`
  the two places `resolve` is called.
* **Shell**: expansion of words under the bindings known
  so far (`expand`, `try_resolve_cmdsub`, `apply_assignments`, `resolve`).  The
  recursion of `try_resolve_cmdsub` is a function of the depth left.
* **Walk**: `policy.rs`, `analyze`.  The call stack is `todo`, a sequence of
  calls still to be made; an action takes the first off and puts the calls it
  makes in its place, which is the order in which the recursive functions make
  them.  `command_rules` is three calls, because calls of `analyze_nested`
  happen in between and may change the bindings and the taint set.  `opened`,
  `refused`, `judged`, `followed` and `bindings` are history variables: they
  record what the walk went into, what it turned away, which commands it judged
  after which, and the variables a shell would have by then; no action changes
  anything else by them.
* **MCCommands**: commands, each written from its syntax tree, so that text and
  tree are known together.  The walk is run on the trees; the tokenizer and the
  parser are run on the texts.

* **DataProofs**: lemmas about options, sequences, concatenations, recursive
  functions and input lines on which the proof modules rest; it models nothing.

`Parse`, `LooksLikeBase64`, `Decode` and `TooLong` are constant operators of
Walk, and `Analyze` is a constant of the drivers: the driver models hold for
any analyzer and the walk model for any parser.  In the run `walk`, `Parse` is
a table of trees, and the run `source` establishes that `ParseSource` gives
these trees for these texts.  `Script`, a constant of Shell, is the set of the
syntax trees that can be met, closed under what is nested in a tree
(`ScriptAssumption`).  The parser takes any sequence of tokens, also those no
lexer makes.

## 3. What the runs check

| run | instance | question |
|---|---|---|
| findings | 2 traversals, 5 rules on both sides of each severity boundary, 2 texts | is the answer the maximum, whatever the order? |
| stream | up to 3 lines out of all kinds, around a maximum length of 2 bytes | does the Rust driver keep the contract, safely and promptly? |
| stream_documented | as stream | *violated*: is a record without an id answered as malformed? |
| cpp_stream | as stream | does the C++ driver keep the same contract? |
| walk | commands of up to 3 statements, depth limit 2, 3 wrappers | is everything visited, connected, resolved as in a shell, escalated, ended? |
| source | about 8800 commands: words of one and two pieces in every spelling, operators and redirections between words, all strings of three special characters, and the commands of the walk, separated, surrounded and broken off in several ways; limits of 50 tokens, 140 characters, descriptor 9, 6 groups | are the tokens those the spelling stands for, and the tree the one the command was written from? |
| baseline | every needle in small letters, capitals and both, before every sink, two rules at a time, one letter short | is the answer the worst rule with a needle in the command? |
| lexer_tokens | one command of operators | *violated*: are there at most `MAX_TOKENS` tokens? |
| parser | all sequences of four pieces out of thirteen, and of five out of six; nesting limit 1 | does the parser accept and build what the grammar derives, in linear time? |
| parser_depth | up to 8 function definitions in a chain; nesting limit 1 | *violated*: is the recursion bounded by the nesting limit? |
| json | objects of up to two members in all spellings, all their proper prefixes, broken escapes, answers of the gate | is every record read for what it means, and nothing broken accepted? |
| base64 | encodings of up to 7 bytes, wrapped, padded or not, and broken ones; 12 bits of accumulator, 6 bytes of output | is every encoding decoded to what was encoded, and nothing else decoded? |

**Bounds.** A driver looks at one line at a time and carries only the line
number over, so three lines put every kind of line before and after every
other, with the pipe closed or an error met at each point.  The length limit
needs lines just below, at and above it, with and without a terminator; two
bytes give those.  Ties need two findings of one rule, and the order of
severity against the order of declaration needs a rule on each side.  In the
walk, a depth limit of 2 lets a body be one level above, at and below the
limit by each kind of nesting; one list of statements has one entry for each
way a command can carry another one, bind a name or taint a path; and the
statements that bind, download and run are combined in every order in threes,
because it takes three to bind, download and run under the binding.  One entry
is a program that names itself through a variable (`X='sh -c "$X"'; sh -c
"$X"`), the only kind of text that is not smaller than the one it was found
in, so that termination really rests on the depth limit.  The longest chain
of wrappers is one more than the bound of three given to the loop of
`unwrap_command`.  The values that are assigned and then expanded unquoted
begin, end or consist of white space, or are empty, and are glued to text.

The lexer carries nothing from one word to the next, so two words with an
operator between, and two pieces within a word, put each branch of its loop
before and after each other one.  The limits of 50 tokens, of 140 characters, of
descriptor 9 and of 6 groups are met from below and crossed, and the commands
of the walk stay within them.  Four
pieces are enough to open and close a group in a group, and five to put a
definition in a pipeline in a group; a nesting limit of 1 is crossed by two
parentheses.  Twelve bits are the fewest an accumulator of base64 can have (six
waiting and six coming in); the 32 of the source keep more than is ever looked
at, and TLC could not shift them without overflow.  The theorems of
`Base64Proofs` hold for every width from twelve on.

**Properties worth a word.**

* `ImplementsContract` is refinement, `Contract!Spec` with `views` and
  `answers` computed from the driver's state.  As both drivers implement one
  contract, whatever both deliver for the same input is equal.  The contract is
  that of the code for a record without an id, which some of the lines of the
  instance are; `ImplementsDocumented`, the contract of SPEC.md, is violated by
  the shortest of them.
* `RecordAnswered` holds without any help from the client: a client that waits
  for a verdict before it writes the next line is never left waiting.  In C++
  this rests on the tie of the streams, which no line of the source mentions.
* `NothingUnvisited` compares the walk with what a shell would run: for every
  body the walk went into, each group, function body and substitution in a
  word, in an assigned value or in a redirection target was gone into or
  turned away; `FailClosed` adds that what was turned away is answered at least
  ASK.
* `DownloadThenRun` speaks of any two commands of one walk, whatever stands
  between them and however deep each is nested.
* `TokenizesWhatWasWritten`, `ReadsWhatWasWritten` and `DecodesWhatWasEncoded`
  are stated against a writer, not a second reader: an input is generated from
  what it means by every spelling the shell, JSON or RFC 4648 allows (and, for
  base64, with superfluous `=`, which the code lets through), and the reader has
  to find the meaning.  The writers are in the MC modules and share no
  definition with the readers beyond the tables of escapes.  The bodies of
  substitutions keep clear of the texts on which `read_paren_sub` and the
  tokenizer disagree (below), so the property says nothing of those.
* `BrokenIsRejected` of json has every proper prefix of an object as an input:
  the last line before the end of a pipe may have been cut off anywhere.
* `ParsesWhatWasWritten` is what the walk takes for granted of its parser.  The
  two runs share the commands, not the definitions: the walk's parser is a
  table, and this property is the obligation to justify the table.
* `BindingsAreCurrent` relates the walk's bindings to those of a shell that has
  executed the same assignments, with one value for all that cannot be known.
  The walk may know less than the shell but never something else, except in
  white space: two values are compared without it (`Bare`), since the code
  splits an assigned value into fields and a shell does not.  The property used
  to ask for equal fields, as all the texts of the run have; the attempt to prove
  it led to `X='rm '; Y=$X Z=${Y}-rf; $Z /`, which a shell takes for `rm -rf`
  and the walk for `rm-rf`.
* `FieldsAsInAShell` cuts a word into characters and then at the white space an
  unquoted expansion brought in; the code works on whole segments, with a field
  half built between them.
* `WrappersSeenThrough` reads an argument vector by a grammar: a wrapper, its
  options, perhaps a `--`, the settings of `env` or the duration of `timeout`,
  then a command or the next wrapper.  Which words are options and which their
  values is guessed (`\E values`) and not found by a scan.  It asks for the rules
  the command has by itself, and for the privilege of every wrapper before it.
  The grammar knows the options the code knows: one word each, but for `-u`,
  `--user`, `-g`, `--group` and `-U`, whose value is the next word.  It does not
  cover other options with a separate value, operands of other wrappers, settings
  before the command of `sudo`, or more wrappers than the bound: these hide the
  command (below).
* `AnswersTheWorst` compares the baseline with one look at all needles, letter
  by letter; it fails when the second look a bare download gets is left out.
* `ParsesTheGrammar` compares sets of trees: the input has exactly the one tree
  the parser built, or none and the parser answered an error.  The tree of a
  function definition keeps nothing of the assignments and redirections before
  its name; the grammar says so too, since a shell rejects such a line.
* `GroupsBounded` allows one group more than `MAX_NEST_DEPTH`: the level is
  compared when the group has been opened.
* `Terminates` for the walk has a mutant in which one of the eight recursive
  calls keeps the depth: TLC then finds the cycle.

**Fairness.** The drivers have weak fairness on the steps of their loop
(`Loop`), which says no more than that a process with something to do is
scheduled; nothing is assumed of the client.  Writing and flushing are among
these steps and may fail, so fairness never forces a success.  The failure of a
read that is waiting for the client (`ReadError`, `GetError`) is outside
`Loop`: it may come at any time and is never owed, otherwise every wait would
end in exit code 2 and promptness would hold for nothing.  The walk is a
sequential computation; its fairness is the weak fairness of `Step`, with
"a step is enabled" written as "there is no verdict yet".  The two are equal
because the run also checks for deadlock.

**Disagreements with the documentation** are in `PROJECT.json` under
`findings`; each has a run in which TLC exhibits it.  Others met while
modelling, without a run: `read_paren_sub` takes a double-quoted string inside
a substitution to end at the next quote, whatever is nested in it (its comment
says nesting and quotes are honoured); `parse_record` accepts an object with
text after its closing brace, and numbers and nested values that are no JSON
(the module says it rejects everything else); `decode` accepts padding after a
whole group (its comment says invalid base64 gives `None`); the justification
text of two findings of one rule is that of the first (SPEC.md section 3 calls
the output independent of the evaluation order); `command_rules` returns on an
empty argument vector (policy.rs:686) before it looks at an unresolved name, so
that `$U` alone is answered ALLOW (SPEC.md section 3 says that an unresolvable
expansion escalates to ASK, never ALLOW); `unwrap_command` takes the value of an
option it does not know for the command, so that `nice -n 10 rm -rf /` is judged
as a command `10`, and `timeout -s KILL 5 rm -rf /` as a command `KILL`, and both
are answered ALLOW (the comments at policy.rs:525 and 555 say that it reaches the
command that actually runs, and skips the options that take a value), as it does
with the 17th of more than 16 wrappers.

**Where the walk differs from a shell** by design, so that no property asks for
more: every statement of a list is taken to run, whatever operator stands before
it (`parse_script` keeps none of them); assignments in a subshell or a pipeline,
and those in front of a command, stay in force afterwards; a name that is
assigned in one branch has the value of the last one read; an assigned value
loses the white space at its ends and keeps one space between its fields.
`Word::literal`
ignores quoting, so a quoted `'X=sh'` is an assignment and a quoted `'if'` a
reserved word.  The files a command runs (`Runs`) include its first word, not
the one behind wrappers.

## 4. What is proved

Every theorem is proved for all values of the constants, under the assumptions
listed at the end of this section.  In brief:

| module | theorems |
|---|---|
| FindingsProofs | `BestIsMaximum`, `OrderIndependent`, `AllowIffSilent` |
| StreamProofs | `TypeOK`, `OneVerdictPerRecord`, `SuccessIsComplete`, `ImplementsContract` |
| CppStreamProofs | `TypeOK`, `ImplementsContract` |
| WalkProofs | `TypeOK`, `FailClosed`, `SeverestAnswer`, `NothingUnvisited`, `DownloadThenRun`, `WrappersSeenThrough`, `BindingsAreCurrent` |
| ParserProofs | `TypeOK`, `GroupsBounded`, `LinearWork` |
| JsonProofs | `TypeOK`, `OneLinePerAnswer`, `BrokenIsRejected`, `ReadsWhatWasWritten` for the answers of the gate |
| Base64Proofs | `TypeOK`, `DecodesOnlyEncodings`, `DecodesWhatWasEncoded`, `BrokenIsRejected`, `DecodableLooksEncoded` |

`FindingsProofs`, for any set of findings, texts and traversals.  The invariant
is `TypeOK /\ BestIsMaximum /\ ResolvedFromBest`: the last says that what was
resolved is what the accumulator held once everything had been added.  That
two traversals agree follows because two maxima of one set under `Outranks`
agree in decision and rule (`OutranksIsOrder`).  From it: `BestIsMaximum`,
`OrderIndependent` and `AllowIffSilent`.

`StreamProofs`, for any lines, any length limit and any analyzer.  The
invariant strengthens the type invariant with `OneVerdictPerRecord`, with the
fact that each answer is the one the contract owes to its line, and with what
the state says at the end of the input; each action is one step of the proof.
From it: `TypeOK`, `OneVerdictPerRecord`, `SuccessIsComplete`, and the
refinement `Spec => Contract!Spec`, in which client steps map to `Submit` and
`Close`, emits to `Respond`, the end to `Finish`, errors to `Fail` and all else
to stuttering.

`CppStreamProofs`, the same contract for the C++ driver.  A record is answered
here when it leaves the buffer, so `Drain` is the step that maps to `Respond`.
The invariant says what the buffer holds (the answer owed to the last record
read, or nothing), that what was passed on before is complete up to it, and
what the error bit allows.  With the theorem before, the two drivers answer
equally wherever both answer, whatever the analyzer.

`WalkProofs`, for any parser that returns syntax trees, any decoder, depth
limit and command, along six invariants.
* *Inv*: the findings are rules other than OK, something turned away has left a
  finding, and the answer is the worst finding.  Each group of rules is shown to
  name findings only, and a set of findings that is not empty has one that no
  other outranks (the least, because severities never grow along the
  declaration order).  From it `FailClosed`, and that the answer is as severe
  as every finding.
* *AllTyped*: every call on the stack has a depth of at most the limit and one,
  and a tree where one is due.  From it the type invariant, and a place to stand
  for the other two.
* *PromisesKept*: all that is owed by a body that was gone into has been gone
  into, has been turned away, or is promised by a call on the stack; what a call
  promises is what is nested in its tree.  Each action has to hand on the
  promises of the call it takes off to the calls it puts in its place.  At the
  end the stack is empty, which is `NothingUnvisited`.
* *TaintInv*: what an executed command downloads is in the taint set, unless
  the call that puts it there is the next one; and when a command runs what an
  earlier one downloads, the rule has fired or the call that looks the file up
  is still on the stack.  That the two calls of one command may stand apart,
  with other bodies between them, is what makes this an invariant of the stack
  and not of the commands.  From it `DownloadThenRun`.
* *NamesInv*: the rules for the name of every command that was judged are among
  those that fired.  The rest of `WrappersSeenThrough` is about `unwrap_command`
  alone: however the words between a wrapper and what it wraps are read as
  options and values, the scan ends where they end (by induction from there
  back), and so the turns of its loop pass through every place at which the
  grammar of the property finds a command, and see every wrapper before it.
* *BindingsInv*: the walk's bindings and the shell's hold texts, and agree but
  for white space.  White space leaves a concatenation as it leaves its parts,
  and the fields of a text, put in a row, are that text but for white space, by
  induction from its end.  So every piece of a word adds to what the expansion
  has gathered what it adds to the shell's value; what substitutions print
  agrees at each depth left, from the deepest on; and a row of assignments keeps
  the agreement, one after the other.  From it `BindingsAreCurrent`.

`ParserProofs`, for any token sequence and any nesting limit.
* *StackInv*: every frame is one its function can be in, stands on a frame that
  can have called it, and has the level the call gave it.  A group is one level
  above every group it is in, and the script that awaits a group had its level
  compared with the limit; so the groups below the first two frames have
  different levels under the limit, and above them there is at most one
  (`GroupsBounded`).  The number of frames has no such bound (the run
  `parser_depth`).
* *WorkInv*: the steps taken so far are at most four for each token before the
  cursor and an allowance of at most six, which depends on the point the running
  call has come to and shrinks with its level, as a level of groups and functions
  has paid for one step in advance.  From it `LinearWork`.  A call that could be made again without
  a token being taken would break it.

`JsonProofs`, for lines of any code points.
* `parse_string` and `skip_composite` are recursive functions of the position.
  They are shown to be well defined (each value is made from values further on)
  and to end behind where they began and on the line; the type invariant follows.
* Every character `escape_into` writes is printable, so an answer is one line.
* `StringReadsBack`: wherever on a line the escaped form of a text stands with a
  quote behind it, the reader returns that text and the place behind the quote,
  by induction from the end of the text; the heart of it is that each escape is
  undone and none is longer or shorter than it is read.  The invariant
  *AnswerInv* takes the reader through the four members of an answer, and in the
  end it has found the id the answer was written with.  `GateAnswers`, the
  hypothesis of the two theorems on answers, says that an input marked as the
  gate's is a line of `RenderRecord` and means its id.

* *BrokenInv*: on a broken line the reader stands, outside of strings and in the
  outermost object, before a place at which the line ends too early or an escape
  does not decode.  A string or a nested value it skips ends before that place
  too, or does not end; that is shown by counting the brackets that are open.
  The escapes that decode are defined from RFC 8259 and not from the reader.
  From it `BrokenIsRejected`; its hypothesis `BrokenBreaksOff` says that an input
  marked as broken has such a place, which `MCJson` assumes of its inputs and
  TLC evaluates.

`Base64Proofs`, for any text, any output limit and an accumulator of any twelve
bits or more.  *DecoderInv* relates the symbols seen to the bytes put out: the
bits of the former are those of the latter followed by the few that are still
waiting, and the accumulator, which forgets what it shifts out, has these as its
last ones.  Shifts are by two, four or six bits, so each is a division by a
number.  From it `DecodesOnlyEncodings`, that whatever is decoded is an encoding
of it by the definition of RFC 4648, but for one or two superfluous `=`; with the lemma that sextets determine the
bytes, `DecodesWhatWasEncoded`; `BrokenIsRejected`, whose hypothesis
`BrokenEncodesNothing` says what marks an input as broken and is evaluated in
`MCBase64`; and, by counting symbols, `DecodableLooksEncoded`.

`DataProofs` holds what these share: members of concatenations, of `Tail` and of
`FlattenSeq`, its distribution over concatenations, repeated steps, and two principles for functions on `1 .. n` in which a value
is made from the values after it.  The induction theorems of the library take an
operator as a parameter and cannot be used here; their place is taken by the
well-foundedness of `<` on the naturals, from which a set of counterexamples has
a least member.  That is enough for functions defined in a `LET`, and for
`FlattenSeq`.

**Only model-checked:**

* liveness (`RecordAnswered`, `Terminates`);
* of the walk, `FieldsAsInAShell`, which cuts words at every character;
* the lexer and `ParseSource` (`TokenizesWhatWasWritten`,
  `ParsesWhatWasWritten`, the type invariant of Lexer), and `ParsesTheGrammar`:
  their references are recursive sets of spellings and trees;
* the baseline, whose needles are the contents of strings, of which the provers
  know nothing;
* `ReadsWhatWasWritten` for the lines of a client, which may spell a text in
  other ways than the gate does: the writer of these spellings is recursive and
  belongs to the MC module.

**Assumptions** are the named `ASSUME`s: limits are naturals, lines have the
shape of `LineShape` and at least one byte, an analyzer maps commands to
verdicts, a finding names a rule that some call of `add` names, a
justification text is not the text of ALLOW, the trees nested in a member of
`Script` are in `Script`, a text the walk meets has at most one tree, the literals of
the model are strings and those for white space have the lengths they have, an
accumulator has twelve bits or more, the inputs of the parser are sequences of
tokens and those of the JSON reader and of the decoder sequences of numbers.
TLC evaluates each of them in the runs.  What is left are hypotheses of theorems:

* `ParserTyped` (of all theorems on the walk but those of *Inv*), that `Parse`
  returns members of `Script` only, whatever text it is given, and `OneTree` (of
  `BindingsAreCurrent`), that it returns at most one; for the texts of the command
  and of its bodies they are `ParseAssumption`, which TLC evaluates;
* `StringsAreSequences` (of `BindingsAreCurrent`), that a string is a sequence of
  characters: so it is in TLA+ and in TLC, and the provers have no other notion
  of what a string consists of;
* `GateAnswers`, `BrokenBreaksOff` and `BrokenEncodesNothing`, on what an input
  of a run is marked as.

## 5. What is not modelled

* The C++ analyzer (`cpp/src/policy.cpp`, `lexer.cpp`, `parser.cpp`,
  `core.cpp`): the same functions in the same order as the Rust one.  A second
  model would repeat the first with each string operation written as a loop, and
  the two are compared by `eval/differential.py`.  `baseline.cpp` has the tables
  and the steps of `baseline.rs`, so Baseline stands for both.
* `Rule::as_str`, error messages and the justification texts: wording.
* Characters outside ASCII in the lexer, whose limits the source counts in
  bytes and characters.
* Unicode white space and the vertical tab in field splitting.
* Memory exhaustion and the size of the process stack.
* The harnesses under `eval/` and `corpus/`, except as clients of the pipes.

## 6. Plan

1. Proofs: the type invariant of the lexer; `ReadsWhatWasWritten` for the lines
   of a client, from a characterisation of the spellings.
2. *Gate*: Stream with JsonRecord as its reader and Walk as its analyzer, and the
   drivers' contract composed with both.
3. Assignments against a shell with subshells and conditional lists, if the
   analyzer comes to tell them apart.
