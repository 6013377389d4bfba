# Verification of `lowc`

`lowc` is the compiler of the Low language: a single-threaded C program that turns
`.low` files into LLVM IR.  It keeps no persistent state and talks to nobody, so what
is hard to test in it is not concurrency but long sequences of legal calls, inputs at
boundaries, state that is stale when it is used, loops and recursions that must end,
and the order in which things are declared, read and emitted.  These modules model the
parts that carry its logic, check them with TLC on small instances and prove the
central facts with TLAPS.

Contents: [inventory](#inventory), [modules](#modules-and-the-code),
[runs](#runs), [bounds](#bounds), [fairness](#fairness), [proofs](#proofs),
[findings](#findings), [not modelled](#not-modelled), [plan](#plan).

## Inventory

How a compilation goes: `main` (main.c) parses options and calls `compile` for each file.
`compile` maps the file into memory and runs `parse` (parser.c), which asks the lexer
(lexer.c) for one token at a time and calls the reducers (grammar_rules.c) to build the
syntax tree (ast.c).  The parser's tables are printed at build time by a second program,
parser_generator.c, from the grammar in grammar_rules.h.  Then the imports are resolved
recursively, and `codegen` (codegen.c and codegen_*.c) walks the tree and calls LLVM.
All lists, in every part, are `array_t` (array.c).

| component | state | operations | what makes it correct | what is hard |
|---|---|---|---|---|
| array (array.c) | size, capacity, memory block | init, dispose, reserve, resize, shrink, get, set, insert, erase, add, remove, clear | never leaves its block; behaves like a sequence; insertion returns | capacity against true block size, unsigned overflow, the doubling loop, moves at the ends |
| lexer (lexer.c) | position, token start, line, column, start of line, last token | `lexer_next` | every character is accounted for; locations are right; semicolons stand for the newlines that end a statement and for no others; the file is read to its end | loops that cross newlines, the last token kept between calls, end of file inside anything |
| parser generator (parser_generator.c) | the states with their leads | closure, merge, expansion, emission | no conflicts; the tables decide exactly the language | merging states and lookahead |
| parser (parser.c) | stack of states, symbols and text spans | shift, reduce, accept, error | accepts exactly the sentences; spans cover the text; ends | reductions read entries they are about to remove; missing gotos |
| syntax tree (grammar_rules.c, ast.c) | trees of expressions, statements, types, units | reducers, copy, compare, dispose | every field holds what it is read as; every block has one owner and is freed once | void pointers taken by position, nodes copied into their parents, half-copied types |
| code generator: statements (codegen.c) | basic blocks, insertion point, contexts with `is_terminated`, continue and break targets | one case per kind of statement, the end of a function | one terminator per block; jumps to the right loop; every way out returns | a flag passed by hand through nested contexts |
| code generator: units (codegen.c) | package, symbols, functions of the module | package, stages 0, 1, 2 | the order of declarations does not matter; one function per name | uses before the stage that declares |
| code generator: expressions | types and values of expressions | `prepare_*`, `codegen_*` | exactly the well-typed expressions are accepted, the others refused with a message; no implicit casts | hints passed between operands, shared nodes of constants, phi nodes |
| slices at run time (codegen_builtin_expr.c, codegen_index_*.c) | memory blocks, slice structs | make, slice, index, dispose | the capacity matches the block; the index check keeps accesses inside | off-by-one loops, wrap-around, sharing |
| imports (main.c) | call stack, handled imports, declarations | parse, resolve, declare | each imported file declared once, after its imports; ends on cycles | recursion, paths with several spellings |
| driver (main.c, options.c) | argv, modules | options, output names, link | success means that everything was written; calls reach the functions meant | arguments rewritten in place while read, one file failing of several, names across files |
| library (lib/*.low) | strings, vectors | copy, concat, append, ... | strings stay terminated by zero | in-place append |

The components meet in five places: the lexer delivers tokens to the parser one call ahead
of the stack; the generator's table is the parser's only knowledge of the grammar; the
imports put declarations into the context that the stages of `codegen` then search; the tree
that the reducers build is typed, copied from and disposed of by others; and
everything holds pointers into arrays that move when they grow.

`PROJECT.json` lists the hazards of each at the line where it bites, with the properties
that would show it going wrong.

## Modules and the code

Actions and helpers keep the names of the C functions they model; a name that starts
with a capital is a part of a function or an abstraction of it.  Definitions marked
"Mutant" are plausible wrong versions of the definition after them, kept to show that
the properties depend on the code; no action uses them.

**ArraySpec, LowArray** (array.c).  `LowArray` has the fields of `array_t` and, apart from
them, `extent`, the number of items the block really has room for: `malloc` gets a product
that is computed in `unsigned`, and `capacity` is only what the code believes.  An insertion
is several steps, one per round of the doubling loop of `array_grow`, so the model hangs
where the loop would.  Accesses outside the block set `fault`.  The asserts of the code are
guards.  `array_set`, `array_insert`, `array_add`, `array_erase` and `array_remove` are the
cases of one item of the operations on many.  `ArraySpec` is what a caller relies on: a sequence,
edited by splices.

**Lexer** (lexer.c).  One action per branch of `lexer_next` and per round of its inner loops.  Text is a
sequence of characters, with one representative for each kind the code distinguishes, and
operators of length one, two and three on both sides of the `terminators` table.  `from` and
`before` remember where the last call started and with which token.  What may lie between two tokens
is told from the text alone: `Gap` is the least set of positions that has `from` and is closed under whole pieces
(a blank, a character that starts no token, a comment from its mark to its end).  The byte behind the
file, which the loops over numbers and identifiers read, is a zero or, when the file fills its last
page, not there (`ReadPastEnd`).

**ParserGenerator, ParserStates, Parser, ParserTables, LowGrammar** (parser_generator.c,
parser_states.h, parser.c, grammar_rules.h).  `ParserGenerator` looks at one lead of one state per step;
the recursion in the code visits the states in exactly the order of the array.  `emit` writes
`table`, which `ParserStates` declares and `Parser` reads.  `Parser` is `parse()`: the lexer
is its environment and may deliver any token.  A stack entry's text span is counted in tokens.
`ParserTables` composes the two and defines, independently of both, the language of the
grammar: the sentences a symbol derives.  `LowGrammar` has three parts of the real grammar
(expressions, statements, units) with the rules' names and variants in their order.

**CodegenStmt** (codegen.c, `codegen_stmt` and the function case of `codegen_unit`).  The
recursion over the tree is a stack of frames; the tree is not stored, the next statement is any
that the grammar allows here.  A frame has the context's `is_terminated`, the copy of
`codegen_t` with its jump targets, and the blocks the call has still to fill.  A block
records its terminator, its successors, and whether anything was built after the
terminator.  `live` and `excused` are not in the code: they say what the body means and whether
it is one the compiler is known not to translate.

**Units** (codegen.c, codegen_ident_expr.c, codegen_type.c).  The stages over the units of a
file, with the lookups of names in signatures, values and bodies, and the three outcomes:
compiled, error message, crash (endless recursion, or a null builder outside functions).  What a name leads to, near
or far, is the least set that has it and is closed (`Closure`).
**UnitsMeaning** says what the units mean, whatever their order.

**SyntaxTables, SyntaxTree** (ast.h, ast.c, grammar_rules.h, grammar_rules.c).  A token
carries its node as a void pointer, so nothing but care relates the four descriptions that
`SyntaxTables` holds side by side: the fields of every kind of node, the elements of every
variant, which element each reducer puts into which field and how (pointed to, copied and
freed, copied and kept, as items of a list), and what is done to each field in the end.
`SyntaxTree` runs them on a heap of blocks: a sentence is derived as it is parsed, its
reductions build the tree, `DeclareFunction` makes the type of a function as stage 1 of `codegen_unit`
does, from copies of the types in its signature, `InferType` is the `type_copy` of `codegen_decl`, `Dispose` the
end of `compile`.  The heap records accesses outside a rule, to freed memory or to a node of
another type, and double frees.

**LowTypes, Expressions** (ast.c, codegen_type.c, codegen_*_expr.c, codegen.c).
`prepare_expr` and `codegen_expr` as operators that thread a state (symbols, outcome, basic
blocks), one operator per C function.  Of a value only its LLVM type is kept; LLVM's own
conditions on types are the external part.  The actions are the declarations and statements
that have an expression.  An operation ends in an error message, an assertion, a refusal by
LLVM, or a read of what is not there.  **TypingRules** says, independently of hints and of
the order of the walk, in which ways an expression can be typed, and names the known limits
of the code generator one by one.

**Imports** (main.c).  The recursion of `resolve_imports` as a stack of frames.  Paths are
sequences of names, and a name is a sequence of parts, put together as the code does it;
which file a path opens, with `..`, `.` and doubled slashes, is the external part.
`declared` is the sequence of files whose declarations have entered the context, from an import
(main.c:108) or, for the file that is compiled, from `codegen` (main.c:141).

**Driver** (main.c, options.c; extends `Imports`).  `main` from argv to the exit code: the
arguments moved up in the array that is still being read, one `compile` per file with its
imports step by step, the modules with the symbols they define and call, the files written,
and the linking of the modules.  A file is its functions, the calls in it and its package.  A failing file
leaves `modules[i]` uninitialised, so either outcome of the test that follows is possible.

**Slices** (codegen_builtin_expr.c, codegen_index_slice_expr.c,
codegen_index_access_expr.c).  Not the compiler but the code it generates: a store of slice
variables over memory blocks, in two's complement arithmetic of a small width.  `faults`
collects what goes wrong with memory, `misused` what the program did that the language
does not check: begin a slice out of range, dispose of a block that other slices share or of an array, make a
negative number of elements.

`MCLexer`, `MCParserTables`, `MCSyntaxTree`, `MCExpressions`, `MCDriver`, `MCUnits` and `MCSlices`
define the constants of the runs.

`LowArrayProofs`, `LexerProofs`, `ParserProofs`, `CodegenStmtProofs`, `UnitsProofs`,
`SlicesProofs` and `DriverProofs` hold the theorems about the modules they extend;
`LeastNumbers` the one fact about numbers that several of them need.

## Runs

| run | checks | result |
|---|---|---|
| `array` | `NoFault`, `BlockHoldsCapacity`, `GrowthIsGeometric`, `InsertReturns`, `ImplementsArraySpec` | every order of calls stays in its block, returns, and edits a sequence |
| `lexer` | `LineStart`, `TokenLocation`, `NothingLost`, `SemicolonRule`, `Finishes` | for all short texts of comments, literals, operators, blanks; `SemicolonRule` is about the newlines outside comments |
| `parser_tables` | `OneActionPerToken`, `AcceptsOnlySentences`, `RejectsOnlyNonSentences`, `StackDerivesText`, `ReductionsFindTheirGoto`, `Finishes` | generator and parser together decide exactly the language, for every token sequence up to the bound |
| `codegen_stmt` | `BlocksInOrder` (which LLVM's verifier confirms), `JumpsStayInLoop`, `EveryWayOutReturns` | every body up to the bound becomes well-formed control flow |
| `units` | `OrderIndependence`, `OneFunctionPerName` | for every order of up to three (some of four) units |
| `slices` | `CapacityEndsAtBlock`, `SafeUnlessMisused`, `NothingUnwritten`, `MakeReturns` | the check of an index is enough for programs that make no negative number of elements, slice in range and dispose of unshared blocks |
| `tree` | `MemorySafe`, `FieldsFit`, `OneOwner`, `DisposalIsComplete` | every tree that short derivations of each part of the grammar build is built, has its functions declared and its types completed, and is disposed of without touching what is not there and without leaving blocks behind other than those listed below |
| `expressions` | `AcceptedIsTyped`, `TypedIsAccepted`, `RefusedWithMessage` | outside the limits listed below, exactly what the typing rules type in one way is accepted, with those types, and the rest gets a message |
| `driver` | `DeclaredOnce`, `ImportsFirst`, `NothingMissed`, `PositionalsLeft`, `SuccessIsReal`, `CallsAreBound`, `Finishes` | for every import graph on four files in two directories, for options and files in any order, for files that are missing, do not compile, or do not link |
| `lexer_garbage`, `slices_make`, `tree_mappings` | one property each, quoted from a comment, a message or a test | violated: see [findings](#findings) |

`lexer` also checks the type invariant that its proofs need.

## Bounds

- `array`: two values, at most 3 items per request, arithmetic wide enough not to overflow
  (`NoOverflow`); insertions at the front, in the middle and at the end, growth from 0, and
  growth in more than one round all happen.
- `lexer`: texts of up to 4 or 5 characters over alphabets chosen per topic (comments,
  literals, others); five characters are what `/*x*/`, an escape in a string or two
  tokens with a newline between them take.
- `parser_tables`: `MaxTokens` = 6, enough for a call with two arguments, an if with else,
  a for head with three parts; `MaxRounds` = 40 lets the derivation of sentences come to its
  fixed point, which an assumption checks.
- `codegen_stmt`: `MaxStmts` = 6, `MaxDepth` = 7: a loop in an if in a loop with jumps in
  all of them.
- `tree`: one topic per part of the grammar (postfix, unary and binary expressions,
  statements, declarations, types, functions), each with all its reducers, a bound on the
  reductions of a sentence (`fuel`, 7 to 16) and the shortest way down to a leaf; every variant of every
  reducer that a sentence can reach is reduced in some topic.
- `expressions`: every operator over variables, constants, numbers and functions, and a choice of
  nested ones (operators, conditionals, calls, accesses), of all kinds of types (integers of three widths, float, bool, pointers, arrays, slices, structs and
  names of types), in every kind of statement that has one; a number under two
  operators is what it takes for a hint to be passed down and across; two statements in a row for the
  state that a constant carries from one to the next.
- `driver`: four files with up to two imports each, argv of up to five arguments, up to three
  inputs; `MaxNesting` = 8 exceeds the number of files, so it is never what ends the
  recursion (`Finishes` would fail).
- `units`: all sets of up to three of 18 candidate units without duplicate definitions, two
  sets of four, each in every order.
- `slices`: two variables, a stack array and one made block of up to two elements, a `make` of -1 for
  the counts the code does not refuse, 3-bit arithmetic, so that wrap-around of capacities, lengths and offsets
  happens.  The end of a slice of a slice is always 0: it decides only the length, which no check of the code reads.

## Fairness

Everything is one sequential program, so weak fairness says only that a call that has
begun goes on.  `LowArray` and `Slices` ask it of the steps inside a call and not of the
caller; `Lexer` of the next step, because the caller asks again until the file is over;
`ParserTables` of the parser; `Driver` of the next step, because `main` is one thread that
waits for nothing.

## Proofs

The theorems hold for every value of the constants: files of any length, any grammar, bodies of any size
and nesting, any width of integers, any import graph.

| theorem | says | from |
|---|---|---|
| `ArrayIsTyped`, `ArrayIsMemorySafe`, `ArrayBlockHoldsCapacity` | the types, `NoFault`, `BlockHoldsCapacity` | `NoOverflow`: twice the largest request fits in `unsigned`, in bytes |
| `GrowthBounds` | `GrowthIsGeometric` | the same |
| `ArrayImplementsSpec` | `LowArray` implements `ArraySpec` | the same |
| `LexerIsTyped`, `LexerKeepsItsPlace` | the types, `LineStart` | texts are not empty |
| `TokensAreWhereTheySay`, `NothingLostBetweenTokens`, `SemicolonsWhereTheyBelong` | `TokenLocation`, `NothingLost`, `SemicolonRule` | the same |
| `OnlySentencesAccepted`, `StackTextDerived`, `ReductionsGoOn` | `AcceptsOnlySentences`, `StackDerivesText`, `ReductionsFindTheirGoto` | `GrammarsAssumption`: rules have variants, none of them empty, of rules and tokens, and nothing but the parser refers to `grammar_root`; `TokensAssumption`; `RoundsAssumption`: `Sentences` has come to its fixed point up to the length of the input |
| `BlocksAreWellFormed`, `JumpsReachTheirLoop` | `BlocksInOrder`, `JumpsStayInLoop` | the bounds are numbers |
| `AcceptedFunctionsReturn` | `EveryWayOutReturns` | the same |
| `DefinedFunctionsAreOne` | `OneFunctionPerName` | `ProgramsAssumption`: a file is finite and defines no name twice, a function may be declared besides |
| `OrderDoesNotMatter` | `OrderIndependence` | the same; `LiteralConstants`: constants with a type have no names in their values; `TypesAreTypes`: no signature and no type names a function or a constant with a type |
| `SlicesEndAtTheirBlocks`, `SlicesAreSafe`, `MakeWritesEverything` | `CapacityEndsAtBlock`, `SafeUnlessMisused`, `NothingUnwritten` | sizes are below half the range of integers; the number of bytes of a block fits a signed number, so that `malloc` refuses a negative count |
| `FilesAreDeclaredOnce`, `ImportsAreDeclaredFirst`, `NoImportIsMissed` | `DeclaredOnce`, `ImportsFirst`, `NothingMissed` | `InvocationsAssumption`: projects are finite and paths are sequences of names; `PlainProject`: no path has `..`, `.` or an empty name |
| `FilesAreLeft` | `PositionalsLeft` | `InvocationsAssumption` |
| `SuccessIsEarned`, `CallsFindTheirFunction` | `SuccessIsReal`, `CallsAreBound` | `InvocationsAssumption`, `PlainProject` |

`PlainProject` is a hypothesis and not an assumption, since the model runs projects without it too:
imports are compared as they are spelled (main.c:94), and only where a file has one
spelling is it declared once.  The projects of the run have it.

`LiteralConstants` and `TypesAreTypes` are hypotheses, too: without either the order of a file does matter (codegen.c:233,
codegen_type.c:87-93), which TLC confirms.  The files of the run have both.

The properties are seldom inductive; what each proof adds, and why:

- **Array.**  That an insertion finds room depends on what the doubling loop has left in
  `cap`.  `ArrayInvariant` adds that the block has exactly `capacity` cells while the
  array is alive, that sizes stay within the callers' bound (capacities within twice the bound),
  and, while a call is under way, that its arguments fit, that `cap` is at least 1 and the
  capacity, and that `cap` is below twice what is needed whenever the block must grow; from the
  last follows that no product overflows.  The refinement needs lemmas on what `memmove` and
  `memcpy` leave at each position (`InsertedItems`) and on what a splice has there
  (`SpliceItems`); every action is then a splice or invisible.
- **Lexer.**  `LineStart` is inductive together with the types: every action either goes
  through `lexer_step` or steps over characters among which there is no newline.
  `TokenLocation` speaks of a token that has been returned; `PlaceInvariant` says it of every
  position, that the newlines so far are counted, and keeps the column from the moment
  the token is marked.  `NothingLost` and `SemicolonRule` follow from `GapInvariant`: between
  calls and between comments the position is in `Gap`, that inside a comment the place where it began is and that the
  comment has not ended since, and that no position in the gap has passed a newline outside comments that should have become
  a semicolon.  A whole piece is determined by where it begins, so adding one piece adds one position.
- **Parser.**  The table says nothing of leads any more, so nothing that can be said of it alone is
  inductive.  `GeneratorInvariant` says of the states, while they are gathered, that their leads are closed
  under expansion, that an action or goto moves the dot of every lead before its symbol into the state it goes to
  and that a reduction is that of a lead which is over; once the table is printed, that there are states
  with leads of which it is the print.  With these, `StackInvariant` says that the states on the stack
  lead from one to the next over the symbols beside them, that the spans lie end to end, and that each symbol derives
  the text of its span.  Then a lead with its dot behind n symbols has them as the topmost n of the stack and begins in
  the state below (`PathBelow`), where closure provides the goto.  No conflict-freedom is
  needed: whichever row a token finds first, what it does is sound.  Every step of
  `gather_states` and every branch of `parse` preserves both.
- **Statements.**  `StmtInvariant` describes the stack of frames: each frame has the jump targets
  of the innermost loop below it (`LoopLink`), no block is to be filled by two calls (`Layout`), the
  blocks to be filled are the empty ones (`Filled`), the flags of all frames together say
  whether the flow has ended (`Flags`: a flag that is set is passed up through compound statements only), and
  nothing leads to a block that is or may still become unreachable (`Unreached`).
  `EveryWayOutReturns` is about reachability, a recursive function.  It needs also that every branch
  leads somewhere (`BranchesLead`); `Reached` is shown to be what its equation says by the ends of the
  paths of n steps, and what holds of all its values by the smallest n for which it would not.
- **Units.**  `Invariant` of `UnitsProofs` says that functions have symbols of their own, that
  the first symbol of a name has the function that bears the name (every function of the module
  bears the mangled name of some symbol or a name with a suffix, so the first finds its name free),
  and that a body has gone to the first function of its name exactly if its unit has been passed.
  `OrderInvariant` says that the units passed have their symbols and were sound, and that codegen has given
  up only on a file that is not `Meaningful`.  What the symbols say of a name need not be what the
  units say, since stage 1 has only some of them; but where one closure goes right the two agree on all of
  it, and then it is the other closure as well (`LoopsAgree`).  So `codegen_type` takes exactly the sound types once
  all types have symbols, and `codegen_expr` exactly the sound values once all units have.
- **Slices.**  `SlicesInvariant` says of every variable that, as long as no slice was begun out of
  range and no negative number of elements was made, its offset and capacity are within the block without wrapping, and, as long as no shared block was
  freed, its block is alive; and of a `make` under way that no slice shows its block yet and
  that all behind the counter is zero.  Everything else is two's complement arithmetic: lemmas on
  sums modulo a power of two, of which only the evenness of `Mod` is used.
- **Imports.**  `ImportsInvariant` says that, until `codegen` adds the compiled file, the handled paths are the declared
  ones and those on the stack, each once, and that the imports a frame or a declared file has passed are handled.
  `NeededInvariant` adds that whatever is handled is something the compiled file needs: if its own
  declarations come twice, it is in a cycle.
  From the last follows that the declared files are closed under imports; what a file depends on
  (`DependsOn`) is the least set that is, so it is among them.
- **Options.**  argv is written while it is read.  `OptionsInvariant` says that the files among the
  arguments read so far stand at the start of argv, in their order, that `argo` is one behind them, that
  everything from `argi` on is where it was given, that no option is in need of a value (`Owed`), and that
  the last value so far is the output name.  `Owed` is a recursive function of the arguments; the lemmas on
  it count up from one argument to the next.
- **Driver.**  `SuccessIsReal` speaks of the end alone.  `MainInvariant` follows the files there: everything
  that is handled is something the main file depends on, and a missing file is, too
  (`DependInvariant`), so code is generated for a file exactly if it compiles; the module of each compiled file
  has its functions and calls under the symbols its imports give them (`Holds`), nothing else is
  in a module (`Sound`) or on disk, and `any_failed` knows of the others; linking keeps both.  A call is
  bound since the symbol it was given is that of a definition that some module `Holds`, and the symbols of a
  `Sound` module are those of functions with that name.

Where TLC can evaluate these invariants it has checked them on the instances of the runs; for
`MainInvariant` with the names that `Holds` and `Sound` ask for taken from what sets of files declare.

Only model-checked:

- liveness (`InsertReturns`, `Finishes`, `MakeReturns`), which the prover does not do;
- `OneActionPerToken`, which is a property of the grammar at hand (a grammar with a conflict does not have it),
  and `RejectsOnlyNonSentences`, which depends on it and would take an induction over derivations;
- the properties of `SyntaxTree` and of `TypingRules`: recursive operators over trees, which the prover
  does not accept.

## Findings

- `lexer_garbage`: a character that starts no token, after an identifier, makes the
  lexer return that identifier for ever (lexer.c:277).
- `slices_make`: `make` and `new` write one element behind the array they allocate
  (codegen_builtin_expr.c:29).
- `tree_mappings`: the reducer that adds a second mapping to an implementation reads
  `in[2]` of a variant with two elements (grammar_rules.c:780, grammar_rules.h:260).

Some limits of the code are part of the models and stated as assumptions or exceptions of
the properties instead.  Lexer, statements, units, imports, slices, arrays:

- a line comment takes the newline that ends it with it (lexer.c:44), so `x // comment` gets no
  semicolon although lexer.c:112-115 requires one after an identifier; nor do the newlines inside a comment
  count (lexer.c:63): `SemicolonRule` is about the newlines outside comments and does not show this fault;
- the reduction of `{}` leaves a null pointer, so `func f() void {}` is declared and never
  defined (codegen.c:521, grammar_rules.h:167): `skip_body` in `CodegenStmt`;
- LLVM makes the name of a second function of a name unique by a suffix; with LLVM 3.6 that is
  a number, which may make it the name of another function of the file (codegen.c:486): `AddedName`
  in `Units` takes the suffix to be one that no name has;
- a name that is defined twice is not refused; a second body goes into the function of the first
  (codegen.c:508, 515): `ProgramsAssumption` in `Units`;
- a constant with a type whose value names a later constant does not compile
  (codegen.c:233): `LiteralConstants` in `UnitsMeaning`;
- a function or a constant with a type is taken for a type where its symbol is there already, and is an
  unknown type before that (codegen_type.c:87-93): `TypesAreTypes` in `UnitsMeaning`;
- `capacity * item_size` is an unsigned product that may wrap, which leaves a block smaller
  than the array believes (array.c:11-13): `NoOverflow` in `LowArray`;
- a loop whose body ends in `continue`, `break` or `return` is rejected by the verifier,
  because the branch to the loop step is built in any case (codegen.c:386): `excused` in
  `CodegenStmt`;
- an identifier or number that ends a file of exactly a multiple of the page size is read
  past the mapping (lexer.c:264, 272): `ReadPastEnd` and `Readable` in `Lexer`;
- imports are compared as they are spelled (main.c:94), so a file reached through `..` may
  be declared twice, and a cycle of such imports makes ever longer names and never ends: the
  projects of the run import downwards only, where one file has one spelling;
- the file that is compiled is not among the handled imports (main.c:131-141), so in a cycle through it
  its declarations enter the context twice, once as an import and once from `codegen`: the exception of `DeclaredOnce`,
  which allows it for no other file;
- the count of `make` is not checked (codegen_builtin_expr.c:128-142): a negative one gives a null
  block, no elements and a negative capacity, which every index passes in the unsigned
  comparison (codegen_index_access_expr.c:69): "count" in `misused`;
- a failing file of several leaves an uninitialised module pointer (main.c:197-207): the exit is then
  undefined, and `SuccessIsReal` says no more than that it is not reported as success;
- slicing is not checked (codegen_index_slice_expr.c:79): "range" in `misused`;
- the comment on the slices of slices (codegen_index_slice_expr.c:34-35) is wrong in both halves, and the model follows the
  code: the capacity is `cap - start` (line 79), not `end - start`, so a slice may be indexed beyond its end up to
  the end of its block, which is what `CapacityEndsAtBlock` says; the length is `end - start` (line 80), not
  `max(len - start,0)`, and an end that is not given is zero (line 67), so `s[start:]` has length 0.

The tree: blocks that no dispose function frees, listed by `Forgotten` (the node of an
expression statement, ast.c:155; the count of `new`, ast.c:94; the node of `make`'s type,
grammar_rules.c:342; the type made for a function, codegen.c:488-498, which
`unit_dispose` passes over, ast.c:591-601); the types that the code generator copies into expressions and the
trees of imported files are never disposed of either (main.c:100-108) and are not in the model; `type_copy` leaves the
kind of an interface member unset (ast.c:402-426), so in the topics of the run no function
has an interface in its signature and no variable gets its type from one.

Expressions, each a named exception in `TypingRules`:

- operators look at the kind of a type and not at its pointers, so `*int32` counts as
  `int32` until LLVM refuses it (`PointerTakenForNumber`);
- an lvalue is asked of expressions that have none (`NotAPlace`);
- arithmetic on `bool` ends in an assertion (`BoolArithmetic`), and of the assignment
  operators only `+= -= *= /=` exist, for integers, `/=` always unsigned (`AssignmentOperator`);
- number and types of arguments, conditions of `?:` and of loops, and returned values are
  not checked (`UncheckedCall`, `UncheckedCondition`, `StmtLimit`); an argument too many reads a hint
  behind the list of parameters (codegen_call_expr.c:27);
- the phi of a conditional names the blocks its branches begin with, not those they end in
  (codegen_conditional_expr.c:42, `BlockMoved`);
- a branch is not told the type of the other, operands of `&&` not that they are to be bool,
  those of a comma not the type of the last (`UntypedBranch`, `UntypedOperand`);
- `s[:]` of a slice, slices of pointers, bounds that are not `int64`, the length of an array
  type that has a name (`UncheckedSlice`), counts that are no integers (`UncheckedCount`), a size where no
  integer is wanted (`UncheckedSizeof`), values of type void or function (`VoidTaken`, `FunctionTaken`);
- arrays of the same length are equal types whatever they hold (ast.c:473, `ArrayMismatch`);
- all uses of an untyped constant share the node of its value and its type
  (codegen_ident_expr.c:23), so a later use finds the type of an earlier one (`ConstShared`).

The driver: an imported file is declared without its package (main.c:108) and a packaged file
puts its package in front of what it only declares (codegen.c:483), so such calls name
functions nobody defines: the exceptions of `CallsAreBound`; errors of `LLVMPrintModuleToFile` are
ignored (main.c:150, 223), so output files are taken to be writable, and no two inputs of the run
write the same file.

## Not modelled

- Interfaces in the code generator (casts to them, their tables, implementations): the
  repository's README lists them among what is missing.  Their place in the grammar and the
  tree is modelled.
- The values that generated code computes, except for slices; `new` and `free`, whose
  pointers the language does not check.
- Nested scopes of names; `units` has the scope of the file and `expressions` one of a function.
- The library in Low, which is not part of the compiler.
- Failure of `malloc`; LLVM.
- Messages, the printing of types, the decoding of numbers and escapes, mangled spelling:
  conversions of text without state.
- The whole grammar (2667 LR(1) states) is out of TLC's reach for the parser tables; its
  parts stand for it.  The tree is modelled for the whole of it; reducers that no variant reaches are left out.

## Plan

Done, in this order: array, lexer, generator and parser, statements, units, slices, the
tree, expressions, imports and driver; the theorems above.

What the model could still take in: `Strings`, lib/string.low on the slices of `Slices`,
with the invariant its comment states; nested scopes, with pointers into symbol arrays that
move (codegen.c:49, codegen_type.c:120); failing allocations in `LowArray`.

What could still be proved: `MemorySafe` of the tree, from an invariant on which slots own what.
