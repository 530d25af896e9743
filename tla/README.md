# A verification model of cino

cino is a small functional language for reactive state machines: a program has
one `update(state, event) -> (state, List<Action>)` and one
`query(state, query) -> Result<_, _>`, and a host calls them. This directory
models the repository's Rust implementation in TLA+, model-checks it with TLC on
small instances, and proves the most important facts with TLAPS for all
instances. Paths below are relative to the repository; crates are under
`crates/`.

Contents: 1 the system and its hazards, 2 the modules, 3 the runs, 4 fairness,
5 the proofs, 6 what disagrees with the documents, 7 what is not modelled,
8 the plan.

## 1. The system

```
 source --parse--> AST --analyze--> --lower--> IR --validate--> --from_ir--> VM program
        cino-syntax      cino-sema      cino-ir      cino-ir         cino-vm
                                                                       |
     JSON <-- cino-cli -->  VmValue  <-- update / query (Evaluator) ---+
     CBOR <-- cino-codec -> VmValue  <-- Runtime (cino-runtime) <-- C interface (cino-ffi-c)
```

| Component | State it keeps | Operations | What is hard about it | What makes it correct |
|---|---|---|---|---|
| **VM evaluator** `cino-vm` | step budget, depth counter, byte counter, one environment map that is changed in place; the native stack | `call_function`, `eval_expr`, `pattern_matches`, `charge_memory`, `consume_step` | undoing: each `?` leaves many activations at once, `Let` must put a displaced binding back, a missed arm must leave nothing behind; off-by-ones at three limits | it answers what a lexically scoped definition answers; limits only cut; the native stack is bounded; names of validated programs always resolve |
| **IR loading** `cino-vm` `from_ir` | function table, names of the two entry points | `from_ir` | a table that silently keeps the last of two functions | every function is the one its name runs |
| **IR validator** `cino-ir/validate.rs` | an environment changed in place | `validate_program`, `validate_expr`, `validate_pattern` | its scoping must be the evaluator's | what it accepts never traps on a name |
| **Checker** `cino-sema` | type tables, diagnostics | `analyze`: declarations, expressions, patterns, exhaustiveness, purity, signatures | `Unknown` is compatible with everything, and compatibility is not transitive | what it accepts does not go wrong, its state keeps its type |
| **Lowering** `cino-ir/lower.rs` | type tables, diagnostics, IR under construction | `Lowerer::lower`, with a second set of typing rules | three passes (checker, lowering, validator) that type every program by rules of their own | what the checker accepts is lowered and validated |
| **Runtime** `cino-runtime` | none between calls | `update`, `query`, panic conversion, error mapping | a panic must become an error | a call is a function of its arguments |
| **C interface** `cino-ffi-c` | heap of boxed objects behind opaque pointers; pointers written into host variables | 6 functions that make handles, 2 that lend bytes, 5 that destroy | several objects and several failure points in one call; null anywhere; bytes lent by pointer | nothing lost, nothing shared, nothing changes behind the host's back |
| **Codec** `cino-codec` and the JSON forms of `cino-cli` | none | `decode_value`, `encode_value`, `json_to_vm_value`, `vm_value_to_json` | maps with the special keys `$tuple`, `$tag`, `$fields`; two readers written separately | an accepted value survives every round trip, and both forms mean the same |
| **Lexer** `cino-syntax/lexer.rs` | cursor, position (byte, line, column), tokens so far | `tokenize` and its `lex_*`, `bump_char` | bytes and characters, the end of the input inside a comment, a name or a number | the tokens are the code, where they are said to be; only a culprit is refused |
| **Parser** `cino-syntax/parser.rs` | cursor, the tree under construction | one function for each production, `peek_tag`, `bump`, `expect` | precedence, a name before `{`, loops that wait for a closing token at the end of the input | what is written is what is read, nothing is dropped, errors are where they are |
| **Command line tool** `cino-cli` | none: the user keeps the file and the state | `check`, `run update`, `run query`, `docgen` | the state leaves as JSON and comes back through another reader; the file changes in between | a session cut up into commands is one in memory |
| **Counter sample** `examples/counter_app` | program, shared state, the label | `main`, three button callbacks | a callback may panic between the new state and the new label; the program is text that every pass has to accept | it is a tally until the number overflows |
| **Documents, build files** | - | - | - | not modelled |

Nothing in the system runs concurrently: there are no threads, no locks, no
messages, and nothing is persisted but what a user of the command line keeps.
What is hard is sequential: unwinding, limits, scopes, ownership across a C
boundary, several passes that have to agree, text, and long sequences of legal
calls. `PROJECT.json` lists the hazards with the lines
where they bite and the properties that cover them.

## 2. The modules

### Evaluator group

- **`NameMaps`**: maps from names (`HashMap`/`BTreeMap`): inserting a sequence of
  pairs, lookup as an option, bind, unbind.
- **`VmValue`**: the variants of `VmValue`, results, checked `i64` arithmetic of
  `eval_binary` (`MinInt .. MaxInt` is a constant range).
- **`Evaluator`**: one call of a program, small-step. The native recursion
  is the variable `stack`, one frame for each waiting activation of `eval_expr`
  or `call_function`, holding the Rust locals that are live; `env`, `steps`,
  `depth`, `mem` are the evaluator's fields; `ctl` says what happens next. Two more
  functions recur: `pattern_matches` is a work list of patterns, each with its level (how many
  activations of it there are when it is matched), and `estimate_value_bytes` is as
  many activations as the value is deep (`ValueDepth`). `NativeStack` counts all four. Each
  action is one branch of the code between two recursive calls, and
  `Unwind` is one `?`: it removes one activation and does what the code does
  there on the error path (a `Let` restores, a function decrements).
- **`BigStep`**: the reference: a definitional interpreter that passes
  environments down instead of changing one and has no counter to restore. Its four
  recursive operators are constants, and `RecursionEquations` says that each is what
  unfolding it once gives; the proofs use these equations and nothing else.
- **`PureCall`**: the abstract specification: one call, one answer, a function of
  the call alone.
- **`NameResolution`**: what `validate_program` establishes, as facts: the set of
  pairs (expression, names known there) that its walk visits and what each visit
  must find. **`ValidatorWalk`** is the record of such a walk over a table of functions,
  and **`ProgramWalk`** computes it for a concrete program, the depth
  of each expression and pattern (`Height`, `PatternDepth`, which bound the native stack), and
  `estimate_value_bytes` with the depth of its recursion, and defines the operators of `BigStep` and `Codec` by their
  equations, so that TLC can run them.
- **`MCEvaluator`**: five programs, four one-operation calculators, and their calls
  for TLC.

### Text

- **`Lexer`**: `tokenize`, one action for each branch of its loop; the loops within,
  of a comment, a name and a number, are read character by character, with `from` and
  `start` for the cursor and the position that the code keeps meanwhile. A text is a
  sequence of characters, of which only the class, the width in bytes and the
  special signs matter. Positions are kept as the code counts them.
- **`SourceTree`**: the syntax tree of `ast.rs` without spans, and how a tree is
  written, word by word, after the grammar of `core-language.md`.
- **`Parser`**: one operator for each parse function over a parser state (tokens,
  cursor, parts built so far, the token of the error). A production is written as
  the sequence of what it expects, so that the module reads as a grammar with the
  code's lookahead, loops and error positions in it.
- **`Syntax`**: a text, written from a tree or by hand, perhaps edited, is parsed.
- **`MCLexer`**, **`MCSyntax`**: the texts. **`SamplePrograms`**: small programs, right
  and wrong, and the four programs of `examples/`, word by word.

### Front end and session

- **`SourceTypes`**: type expressions (as `ty_from_ast` makes them), the type
  tables, generic parameters: shared by the three passes.
- **`Sema`**: `analyze`, to a type for each expression and a set of diagnostic
  codes. **`Lowering`**: `Lowerer::lower`, to an option of an IR expression and
  codes. **`Validator`**: `validate_program`, to codes. They are written apart, as
  they are in the code: their disagreements are what there is to find. Only
  `Compatible` is one, which the code has three times, alike.
  Each function of the code that recurs over trees (`infer_expr`, `lower_expr`,
  `validate_expr`, ...) is a constant operator and a definition with `Step` after its
  name, which unfolds it once. TLC is given the operators that these equations
  define, the proofs assume the equations of those they are about.
- **`Pipeline`**: what every host does with a program: `parse_program`,
  `lower_program`, `from_ir`, and a call of what was loaded. **`MCFrontEnd`** closes the
  equations for TLC; the instances of the modules that extend `Pipeline` extend it.
- **`Session`**: lower, validate, load, start from a state of the state type, and
  any sequence of updates and queries, each from the state the last one made. IR
  may also arrive from elsewhere and be validated. The answer of a call is
  `BigStep`'s, which is proved to be the evaluator's. The module also says what the
  types of a program say about values, and which programs are *careful* (below).
- **`MCSession`**: the source and IR programs for TLC.

### Programs that use the language

- **`CommandLine`**: the commands of `cino-cli` on a file that its user edits, with
  documents that its user writes or keeps; what a command prints is a message or JSON.
  **`Reactor`**: the abstract specification: a program in memory that is given events
  and keeps its state. The proof that the commands implement it is in `CommandLine`.
- **`CounterApp`**: the sample from the text of `counter.cino` to the label of its
  window, click by click. **`Tally`**: the abstract specification: a number and three
  buttons, each of which does to the number what stands on it.
- **`MCCommandLine`**, **`MCCounterApp`**: instances.

### Host side

- **`Codec`**: `vm_value_from_cbor`, `cbor_from_vm_value`, and the JSON pair, on
  data items (the bytes are ciborium's and serde_json's). The four conversions recur;
  they are constants with equations (`CodecEquations`), which `ProgramWalk` solves (under the names of the Rust functions) for
  TLC. The encoder writes the entries of a map in the order of their keys, the model in
  any one: what is read never depends on where an entry with a key of its own stands.
- **`ValueExchange`**: a value received in either form and sent back and forth.
- **`Runtime`**: `Runtime::update/query`, `run_vm_call`, and the native mock
  counter, the only program the C interface can make. Its `+` panics or wraps as
  the build has it: `Builds` is a nondeterministic choice made with the program.
  **`MockHost`**: a host that counts with it and goes on after errors.
- **`CinoCalls`**: what each C function computes. **`FfiHandles`**: what it does
  to memory: `heap` from addresses to boxes, `held` from the host's variables to
  addresses, `view` for lent bytes, `run_ffi` with `write_error` and
  `clear_error`. **`HostView`**: the abstract specification: the host's
  variables hold the objects themselves.
- **`MCValueExchange`**, **`MCFfiHandles`**, **`MCMockHost`**: instances.

### Composition

`Pipeline` composes `Parser`, `Sema`, `Lowering`, `Validator`, `from_ir` and the
meaning of the VM; `Session`, `CommandLine` and `CounterApp` run what it makes, each
as its host does, `CommandLine` with the JSON forms of `Codec` and `CounterApp` with
`Runtime` in between. `Evaluator` instantiates `PureCall`, and takes what a call means
as the constant `Expected`, which `MCEvaluator` and `MeaningProofs` give as `BigStep`'s
answer: that the evaluator comes to it is why the hosts may take a call as one step. `FfiHandles` composes `Runtime`, the codec (as the
constants `Decode` and `Encode`, given by `MCFfiHandles`) and the heap, and implements
`HostView`.

## 3. The runs

**`evaluator`** (`MCEvaluator.cfg`). Five programs: the counter of the cino-vm
tests with a division and a shadowing query; one built so that lets shadow each
other and patterns bind names before they miss; one that recurses over data and
one function that never returns and puts a level around its argument with each call;
one whose patterns nest deeper than its expressions; and IR that nobody validated, one defect for
each event; and one calculator for each operation, on nine integers of either sign
up to the ends of the range. Calls use step limits 0..40 and 60, memory limits in steps of 16 up to and beyond what is needed, recursion
limits 0..5. `i64` is -8..7 and `usize::MAX` is 400, small enough
that both overflow. Every error of the evaluator occurs.
  - `StepsPayForFrames`, `NativeStackBounded`: an exhausted native stack is no
    panic and cannot be turned into an error; these bound it by the step limit and
    by the recursion limit times the deepest body, patterns included. The recursion limit does
    not bound the depth of a value, over which the estimate recurs: the bounds
    then have the depth of the values passed in besides, and the second one the steps
    spent. What the compiler derives (clones and drops of values and of IR, which recur over the
    same trees) and the one frame that `charge_memory` or `consume_step` has are not counted.
  - `DepthCountsActivations`: also while an error unwinds.
  - `ScopeAgrees`, `NoNameTrap`: the validator's idea of scope is the evaluator's.
  - `ResultWithinBudget`, `BudgetsAgree`: what is charged, and when.
  - `LimitsOnlyCut`: an answer that is not a limit error is the answer under all
    larger limits.
  - `ImplementsPureCall`: in-place changes are invisible.
  - `EveryCallAnswers`: liveness, and `WorkRunsOut`, its safety half: each step takes
    at least one from `WorkLeft`, which starts at eight times the step limit and two.
  - `ArithmeticIsExact`: what `eval_binary` answers is the sum, difference, product or
    truncated quotient, told apart by equations and not by the operators that
    compute it; it refuses only what has no result in range, and of all quotients
    only that of the least integer and -1. Four bits have every case: no carry depends
    on the width, and the proof is for all.

**`session`** (`MCSession.cfg`). 2 291 programs: a reactive program over
four state types (`Int`, an enum, a record, a list), sixteen arm lists
(exhaustive, missing, nested, duplicate, wildcard first, unknown variants and
fields, empty) and thirty-odd expressions of every kind, right and wrong, as the
new state; lists whose items disagree; signatures and function sets of all
shapes; the four programs of `examples/`, parsed from their text; and IR with one
defect each. Two calls a session are enough for a state
that lost its type in one call to be used by the next.
  - `LoadedProgramsAreValidated`: this is the hypothesis of the theorems about
    names, so that they apply to every program that comes through the front end.
  - `RefusalsHaveReasons`: what the checker passes is not refused later, but for a
    block without a value, a match without arms, or a set of functions that cannot
    be loaded. `RefusalsAreExplained` proves it of every program.
  - `CarefulProgramsNeverGoWrong`, `StateKeepsItsType`: soundness, for programs
    that are *careful*: the checker leaves some things unchecked (section 6), and
    the soundness of the rest is the claim. Careful means: record
    expressions give all fields and name a record or variant; field patterns
    are names or wildcards; where a list or a match begins with a type that is
    not fully known (an empty list), the others are of the same type; no declared
    type is called `List`, and no generic parameter is named like a declared type.
    `CarefulProgramsNeverGoWrong` further needs the query to have the state type
    of the update, which the checker does not compare. Only arithmetic errors and
    limits remain.

**`value_exchange`** (`MCValueExchange.cfg`). All CBOR maps of up to two entries
over five keys (the special ones, a plain one, one that is not text) and nine
values, some with a third entry, and maps nested in arrays and enums; JSON
objects likewise. Special keys are looked for at one level at a time and
recursion is uniform, so one level of nesting in each position shows what
deeper ones do. `ValueSurvives` and `Parity` hold for *reliable* inputs: CBOR maps
with unique keys, JSON objects with both or neither of `$tag` and `$fields`, in all
that is within the document (`CborWithin`, `JsonWithin`).

**`ffi_handles`** (`MCFfiHandles.cfg`). A host with one variable for each type
and a second for a state (the old and the new), five addresses, three
documents (an integer, a Boolean, a malformed one), null in any position. Since
every object is in a variable, five addresses leave the largest configurations
short of one address, and all smaller ones are complete; a zero-length buffer is
a malformed document. The proofs are for any number. The host follows
`docs/specs/host-abi-ffi.md` 11.4: it passes handles it holds and destroys each
once, and receives into variables that hold nothing.

**`syntax`** (`MCSyntax.cfg`). Some 380 programs, with every kind of declaration,
expression and pattern, every nesting of two operators on either side, calls of
calls and matches in every place an expression can stand, written down and
parsed; the four programs of `examples/`; and all texts that one edit (a token
left out, replaced or put in, twelve words) makes of two programs that have
something of everything, some 2 800, nearly all of them wrong.
  - `RoundTrip`: the parser reads what was written.
  - `AcceptedTextsReparse`, `NothingIsDropped`: also of texts that nobody wrote from a
    tree, whatever is accepted is all in the tree, in order.
  - `ErrorsPointAtTheCulprit`: the token that an error names cannot stand there, and
    another one could. One edit is enough: an error ends the parse.

**`lexer`** (`MCLexer.cfg`). All texts of up to four characters of fourteen kinds
and of up to six of five kinds (slash, line feed, letter, digit, a letter of two
bytes). The longest look-ahead is one character and the only memory is the line
comment, so that two tokens, a comment and what follows it fit. A number is an
i64 up to 19, so that two digits can be too many.
  - `TokensCoverTheCode`, `TokensAreMaximal`, `RefusedAtTheFirstCulprit`,
    `PositionsAreRight`: proved for every text. `EveryTextIsRead`: liveness.

**`mock_host`** (`MCMockHost.cfg`). Both builds, integers of four bits, six accepted
events out of five numbers: both ends of the range are passed, also twice.
`StateIsTheSum` and `PanicsAreErrors` are proved for all bounds.

**`counter_app`** (`MCCounterApp.cfg`). From the text of `counter.cino`, with integers of seven bits: every count from
-64 to 63, and the overflow at both ends. The limits are those one press needs,
which does not depend on the count. The button that was clicked is kept until its
callback is over, in the sample and in `Tally`, so that `ImplementsTally` ties what
the label shows to the button: a callback with the event of another, one that does
not keep the new state, or one that shows the old count is no step of `Tally`. It
includes the liveness of `Tally`: the sample starts.

**`command_line`** (`MCCommandLine.cfg`). Three programs of `examples/`, one that does
not type check, one that is cut off, or no file; states and events for all
of them, also those of another program, and documents that are no values. The
numbers are -4..3, so that a cart overflows. The state space is finite
without a bound: a user may go on for ever.

The other runs each show one disagreement (section 6).

Every property has a mutant in `PROJECT.json`: a changed definition of the code
under which the run must report that property violated.

`CHECK_DEADLOCK FALSE` stands where the modelled program ends: a call that has
answered, a session at its bound or refused, a value that was refused, a text
that is read, a sample that panicked.

## 4. Fairness

`FairSpec` of `Evaluator` is weak fairness of `Next`. The evaluator is a plain
loop of a single thread: nothing it does waits for anything, and exactly one
action is enabled until it is done. Fairness says only that the thread runs.
The same holds of `Lexer`: a loop, and weak fairness of `Next`. `CounterApp` has weak
fairness of `Main` alone: `main` runs up to the event loop without waiting for
anything, while a button is pressed or not. The other specifications describe
hosts, which owe nobody a next call; they have no fairness and no liveness
property.

## 5. The proofs

Constants are constrained only by `WidthAssumption` (two's complement range),
`UsizeAssumption`, `CallsAssumption` (limits are naturals and the program exists),
`NestingAssumption` (an expression is a finite tree: each has a height above those
of its parts), `PatternAssumption` (the patterns of its arms are patterns of the
program, and so are theirs), `NumbersAssumption` (events are integers in range),
`PointersAssumption` (null is no address, no variable and no document, and
variables are typed), `CharAssumption` (the classes of characters are apart) and
`TextAssumption` (texts are sequences of characters), `InputAssumption` (documents are
finite trees), and for `Session` `SourceAssumption` and `IrAssumption` (a source program is
what the parser makes: its functions are a sequence, each parameter has its type, its types
and bodies are finite trees of the nodes of `ast.rs`, only enums, events and queries
have variants, and no name is a keyword; and the IR that came from elsewhere, or was
lowered from a program without diagnostics, is a finite tree of the nodes of `ir.rs`). TLC evaluates them all. Programs, values, documents and limits are arbitrary, and in `FfiProofs`
the codec.

**`EvaluatorProofs`**: `DepthIsCounted`.
`Shape` says that the stack is a sequence, that control points which need a frame
have it, and `Len(stack) + steps <= max_steps`: a frame is pushed only where a
step was just consumed. `DepthInv` equates `depth` with the number of `body` frames;
it needs `Shape` to know what `Front` and `Append` do to that number. `CallsRunOut`: with
`Shape`, each step makes `WorkLeft` smaller, a sum in which a step of the budget
weighs more than the frames, patterns and unwinding it can pay for. What is left
of termination is that a natural number cannot fall for ever.

`OperationsAreExact` is about `EvalBinary`, at every width. Division is the one
operation that needs an argument: `TruncDiv` divides absolute values, the rest that
this leaves determines the quotient, and a divisor other than 1 and -1 makes the
dividend smaller, so that only the least integer and -1 have no quotient in range.

Also there: `WellTyped` (the type invariant) and `AnswerFits` (the memory
limit). `BudgetInv` adds that a value being returned has been charged within the
limit. The hypothesis `EstimatesAreUsize` says that `estimate_value_bytes` makes a
`usize`. `StackIsBounded`: `NestInv` gives each frame on the stack the room that is left
above it within its function's body, the height of what it is evaluating, and
adds one body for each activation; `NestingAssumption` makes the room of a part
smaller than that of the whole. Both it and `StackIsPaidFor` are about the patterns and the
values as well. `PatternInv` gives each pattern on the work list a level that is within
the height of its match and within the steps that were spent but not for frames
(`Slack`): a field is matched one level deeper than its variant, which took a step.
`HeldInv` says of every value that the evaluator holds (in the environment, in frames, on its way)
that it is no deeper than the values passed in and one more for each step of `Slack`: what
puts a level around values is an activation that then ends, so that its step is
spent and its frame gone. The hypothesis `DepthRules` is what is used of
`ValueDepth`: numbers and Booleans have depth 1, a compound value is at most one level deeper than its
parts, and a payload no deeper than its variant.

Its last part is about names, `NamesAgree` and `NamesNeverTrap`, for every program that
satisfies `Validated`. `ScopeAgrees` by itself is not inductive: it says nothing
of the names that will be known after a return. The invariant `ScopeInv` gives
each frame on the stack the set of names known while it is on top (`Chained`),
and asks that returning through it (`After`) yields the set of the frame below:
a `letBody` frame removes its name unless it displaced a binding, arm and function
frames bring back the saved map. For a pattern in progress, what is bound and what
the work list will bind must add up to what the validator knew in the arm
(`PatternOk`).

**`MeaningProofs`**: `AnswersPureCall` (the evaluator implements `PureCall`, with the
answer that `BigStep` defines), `BudgetsAsDefined` (and ends with its budgets) and
`LargerLimitsAgree` (the property `LimitsOnlyCut`). They hold for every program, valid or
not, every call and every limit.

The state of a running call says nothing of an answer, so the invariant has to say
what will become of it. A suspended activation is read as a function: `Resume` takes
the outcome of what it waits for, with the environment and the level that it finds
then, to its own outcome as `BigStep` defines it; `EnvUnder` and `LevelBelow` are what
the activation below will find. `Leads` goes through the whole stack in this way, and
`AgreeInv` says that from the outcome of what is running now it arrives at the outcome
of the whole call. Each action then either unfolds one equation of `BigStep` at the
control point (nothing changes above it) or moves one frame from the stack into it or
back. That a missed arm, an error or a `Let` puts back exactly what was there is
what makes the environments agree. `EnvUnder` of a `letBody` frame needs to know that
unbinding what was bound gives the old map (`RestoredBound`). Nested patterns are the one
place where the two go different ways: the evaluator has one work list, `BigStep` recurs,
and `Joined` shows that matching one list after the other is matching
their concatenation.

For larger limits, two machines of one program run side by side: `Follows` says that
an outcome of the first either reports a limit or is that of the second, with as many
more steps left as it had at the start. All of `BigStep` recurs on fewer steps (an
operand, an arm and a pattern each cost one), so this is an induction on the steps left,
for expressions, operands, arms and patterns at once.

The hypothesis `MeansBigStep` says that the four operators satisfy the equations,
that both modules charge the same estimate, and that `Expected` is `AnswerOf`. Operators
that satisfy the equations exist for all arguments: where unfolding comes to an end it
gives the value, and wherever it does not, an error (of a match, for patterns)
satisfies them, because each equation either calls one operator in its last place or hands an error of
an inner one on as it is. Those of `ProgramWalk` are the instance that TLC runs.

**`FfiProofs`**: `WellTyped`, `HandlesAreOwned`, `NothingIsLost`,
`LentBytesAreStable`, `ObjectsAreValues`. The invariant `FfiInv` joins ownership
and completeness into a one-to-one correspondence between host variables and live
boxes: to show that `destroy` loses nothing one needs that no other variable has
the handle, and to show that a new box is owned one needs that its address was not
in use. `BoxFits` says what boxing objects does to the heap, given that their types
fit the variables (`Fits`); `RunFfiEffect` lifts it to `run_ffi`, and each
operation only has to show that its results fit.

Its last part, `HandlesImplementView`: the handles implement `HostView`,
under the mapping that gives each variable the object it points to. Every
operation is the abstract operation of its name; the proof uses `FfiInv` to know
that the object behind a variable is still there and unchanged.

**`MockHost`** itself has `CountsRight` and `PanicsAreConverted`, in both builds:
wrapping takes away at most one whole turn after an addition, so that the
state differs from the sum by turns that add up.

**`LexerProofs`**: `WellTyped`, `CodeIsCovered`, `NothingIsSplit`,
`OnlyCulpritsAreRefused`, for every alphabet and every text. They are inductive
together, with two facts about the place up to which the text is done with (`Behind`):
no comment that is over is still open there (`Closed`), and it is never between the
digits of a number (`Apart`); and with what the loops know of the characters that they
have read (`UnderWay`), from which a name or number is whole when they end.
`PositionsAreAnEditors` adds bytes, lines and columns: one character keeps
a right position right (`OneCharacter`).

**`ValueProofs`**: `AcceptedValuesSurvive` and `BothFormsMeanTheSame`, for documents of
any size. A value survives if each of its forms is read as that value again
(`RoundTrips`). Values that do not are easy to write down, a map with the one key
`$tuple` is one, so this has to be shown of what the two readers return:
`CborValuesTrip` and `JsonDocuments`, by induction over what is within a document
(`WithinInduction`: a set of bad parts that is not empty has one within which there is
no other). Compound values round trip if their parts do (`TupleTrips`, `MapTrips`,
`EnumTrips`), and what a reader returns has the parts it read: no map it returns has a
`$tag`, and none `$tuple` alone, provided that keys are unique. `Represents` is what makes
the order of entries immaterial. The machine's invariant (`FormInv`) is then that it
holds the input, or one value that round trips, or a form of it.

The hypothesis `Equations` says that the conversions, what is within a document and its
CBOR image are what their equations unfold to. There are such operators: a value or
document is made of its parts before it is made itself, so that the recursion ends.

**`SessionProofs`**: `LoadedIsValidated` and `LoadedIsAsDeclared`, for every program,
whether it was lowered or came as IR. The validator works with one environment of types
that it changes; `NameResolution` speaks of the names known at each visit. The two are
brought together along the walk: `validate_pattern` hands an arm the environment with
exactly the names that the pattern binds (`PatternNamesBound`), so each visit of a walk
that reports nothing has an environment with the names of that visit, in which nothing
is reported (`CleanWalks`), and at such a visit every rule of `NameResolution` holds
(`CleanVisit`). `from_ir` then finds each function under its own name, because as many
names as functions means that no two agree (`DistinctNames`), and one entry point of each
kind (`OneOfKind`). The invariant `PassedInv` follows a program through the stages: lowering changes bodies only
(`LoweredFunction`), and the checker has asked the entry points for two parameters
(`SignaturesChecked`), which is what `Validated` needs besides. The hypotheses
`WalkEquations` and `PassEquations` are the equations of the operators involved, the
latter only for finite patterns, expressions and sequences, where unfolding ends.

So `NamesAgree` and `NamesNeverTrap` apply to all that the front end lets through: no
program that was loaded traps on a name, an arity or an unknown function.

`RefusalsAreExplained` is about the programs that do not get through: of a regular one
something has been reported by the checker. Checker, lowering and validator each type a
program for themselves, and compare other types in another order; that they agree
is shown along the source tree. `Carried` is the induction: where the checker reports
nothing of an expression, its type is known, the lowering makes IR of that very
type without a report, and the validator reports nothing of that IR in the same
environment (`ExpressionsAreCarried`; `PatternsAreCarried` says the same of patterns and the
names they bind). It takes three facts about types. Only types that are not `Unknown`
get through (`KnownType`): the one exception, the items of an empty list, is why that type
is allowed within one that is known. The checker and the lowering hold the arms of a match
against the first, the validator each of them against the type of the match, which the
lowering has taken from the first. And compatibility is the same in either
order of its arguments (`CompatibleStep` asks nothing of the order). A block is
followed statement by statement (`BlockUnfolded`, `LetCarried`), so that each value is
typed with the same names in scope in all three; a function's table entry is the same for
the three as well (`SameSigs`). Functions whose bodies are carried are lowered in order
(`AllLowered`), the validator passes them (`AcceptedIsLowered`), and
`from_ir` loads what a regular program becomes (`AcceptedLoads`). The hypothesis `FrontEndEquations`
is, for the checker and the lowering, what the two before are for the validator.

**`CommandLine`** itself has `CommandsKeepTheSession`: it implements `Reactor`, whose state
is what the document that the user keeps is read as. The commands differ from a
program in memory by JSON between any two of them, and JSON does not keep every value:
a map with the one key `$tuple` comes back as a tuple. So it has to be shown that no such
value is ever printed. A value is `Sound` if it and all that a program can get at in it
are read as they were printed. `DocumentsRead`: what a document is read as is sound, by
induction on its `Nesting`. `EvalAlwaysSound` and `CallSound`: the VM makes only sound values of
sound ones, by induction on the steps left as above; a program that has been validated has a name
for each operand of a record, which is what makes the value whole, and no
expression makes a map. The invariant `Inv` says that the user keeps at most one
document and that it is read as one sound value. Each command is then the action
of `Reactor` of its name, `check` and `docgen` are its `Other`.

Assumed are `DocsAssumption` (documents are finite trees, as serde_json reads them),
`TextsAssumption` (what `setup_vm` loads satisfies `Validated`, which `LoadedIsValidated` of
`SessionProofs` shows of every program), that the step limit is a natural number, and the equations of the
four conversions and of `BigStep`. TLC evaluates the first three.

Only model-checked, and why:
- `EveryCallAnswers`, `EveryTextIsRead` and the liveness of `Tally`: temporal
  properties under fairness.
- `CarefulProgramsNeverGoWrong` and `StateKeepsItsType`: they relate the types that the
  passes give to the values that the VM makes, which needs an invariant over values,
  environments and states of the VM at once that the proofs have not reached.
- The properties of `Syntax`: the parser recurs over what `Parser` declares
  `RECURSIVE`, which the provers do not accept.
- `ImplementsTally` of `CounterApp`, which is about what one concrete program computes.

## 6. Where the code and the documents disagree

Three of them are runs that TLC ends with a counterexample; `PROJECT.json` quotes
the lines.

| Run | The text says | The code does |
|---|---|---|
| `same_meaning` | the JSON reader is on a par with cino-codec | an object with one of `$tag` and `$fields` is a map for one and an error for the other |
| `exhaustive_matches` | a match that is not exhaustive is a compile error | nested patterns do not count: the match traps at run time |
| `complete_records` | missing record fields were caught by the checker | they are not looked for |

The models have these others in them as the code has them; no run is kept for
them:

- A step budget that reaches 0 is an error in the documents; the code reports the
  error at the next step, so that a call which uses its budget up succeeds.
- CBOR output is to follow the deterministic encoding of RFC 8949; the code puts keys in
  the order of their texts (an order that the model leaves open), and `$fields` before
  `$tag`.
- Arms that are already covered are to be reported; so are arms that are not, if
  they name a variant that an earlier arm names.
- Records are to be compared by structure; they are compared by name.
- `core-language.md` section 5.2 allows a match without arms and puts nothing
  between the statements of a block; after a name the braces of such a match are
  read as those of a record, and a tuple after a `let` as the arguments of a call.
- The input of docgen is to be validated; `docgen` only parses.
- The state parameter of `query` is not compared with that of `update`.

## 7. What is not modelled

- **Wording**: of messages, of the pages that docgen writes (their content is the
  names of the declarations), the positions in diagnostics of the checker. A
  diagnostic is its code, an error of the parser the token it is about.
- **Spans of syntax trees**: `ast.rs` keeps the positions of each node; only the
  lexer's positions are modelled.
- **Bytes**: what ciborium and serde_json do below data items, bytes after the
  first item, and the nesting at which they refuse to read what they have written.
- **The parser's native stack**: it recurses with the nesting of the program and has
  no limit of its own. Where the stack ends is a matter of the build.
- **How the validator restores its environment**: `validate_expr` changes one map for a `Let`
  and puts back what was there; `Validator` hands an environment on instead. That the
  evaluator, which does the same with values, restores its own is modelled.
- **Widgets** of the counter sample, other than its label and its three buttons.
- **`cino_error_code`, `cino_error_message`**: they only read.
- **Allocation failure**: it aborts the process.
- **Hosts that break the rules** of `host-abi-ffi.md` 11.4.
- **Type names that clash with built-in ones** other than `List`.

## 8. The plan

Order of work, most important first; 1-6 are done, and of 9 what it says.

1. The evaluator as a small-step machine, its reference definition and the
   abstract specification; proofs about stack, depth, names and memory.
2. The C interface over a heap, its host view; proofs of ownership and refinement.
3. The codec and the JSON forms.
4. The front end and the session.
5. Arithmetic against a definition that does not share its operators, and the
   mock counter, with proofs for every width; a measure that every step of the
   evaluator decreases and the bound of the native stack, with proofs.
6. The lexer, with proofs, and the parser; the command line tool and the counter
   sample as refinements of what their users see.
7. A session with limits that differ from call to call, and the repeat of a call
   that was cut by a limit from the unchanged old state.
8. More of the type rules as properties of their own: the checker's and the
   validator's types of one program agree; lowering keeps names resolved.
9. Proofs: that the evaluator is the reference definition, budgets included, that
   limits only cut a call short, the codec's round trip and the lexer's positions (done).
   Also that validation gives `Validated` (done). To come: that a limit error is only reported when its counter
   is at its limit; that the byte counter never decreases.
