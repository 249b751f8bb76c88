# B2: specification, model checking and proofs

B2 is a small compiler: it reads one source file, tokenises it, parses it into a
tree, checks and annotates the types of that tree, prints it, lowers it to LLVM IR and
has `clang` link the object. This directory holds TLA+ modules for those passes, for the
program around them and for the tables they look words up in, the TLC configurations
that check them, and TLAPS proofs about the lexer, the parser, the type checker, the
generator, the printer, the tables and the driver. All line numbers are those of the files in `src/`
and `include/` of the repository.

Inside one compilation nothing is concurrent, no message can be lost and nothing is
retried. What is hard there is of another kind: passes that pass information through a
member variable a visit may or may not write, annotations that are written twice in an
order nobody states, symbol tables that two passes fill separately, loops over
characters and tokens whose bounds are implicit, and programs the tests never combine.
Compilations meet each other in the files they write: two processes in one directory
share `output.o` and `output`, and either can be killed with them half done. The models
are built around that.

## Inventory

| Component | State | Operations | Hard part |
|---|---|---|---|
| Lexer (`lexer.cxx`) | `data`, `index`, `current_location` | `tokenise`, `next_token`, four `parse_` functions, `advance` | end of file inside every construct; indices of string literals; locations across newlines; maximal munch of symbols; unknown characters |
| Parser (`parser.cxx`) | `tokens`, `index`, the C++ call stack | `parse_top_level` and 13 `parse_` functions, `peek`, `consume` | precedence and associativity; statements without terminators; `peek()` past the end; trees of moved `unique_ptr`s |
| Syntax tree (`ast.h`, `ast.cxx`) | nodes, `resolved_type` | construction, `accept` | one owner per node; annotated by one pass, read by the next |
| Type checker (`type_check_visitor.cxx`) | `result`, `variable_map`, the annotations | twelve `visit`s, `emit`, `resolve_literal_type` | `result` stale after visits that do not write it, uninitialised before the first; literal types that must be settled before code generation |
| Code generator (`code_generation_visitor.cxx`, `operation_map.cxx`) | `result`, `named_values`, the LLVM module | twelve `visit`s, `get_llvm_type`, `build_type_operations`, `apply` | relies on every annotation; loads and allocas must agree; calls resolved by name so far, in a table that format strings share; widths and signs of constants and divisions; blocks without terminators |
| Driver (`main.cxx`, `frontend.cxx`, `file_io.cxx`) | the file, exit status | `main`, `compile`, `read_entire_file` | errors end in exit status 0; a failed read is dereferenced |
| Object files and linking (`compiler.h`) | `output.o`, `output`, the listing | `emit_object_file`, `link`, `output_llvm` | fixed file names shared by all compilations; truncated before they are written |
| Pretty printer (`print_visitor.h`) | `depth`, `output`, the C++ stack | twelve `visit`s, `add_node`, `close_node` | a node is closed by a destructor; the unsigned depth must come back to zero; it prints names of types that nothing else reads |
| Static containers (`utils/container.h`) | a sorted array | construction, `find`, `contains` | binary search at its ends; duplicates seen only between neighbours |
| Build files, examples, LLVM snippets | none | none | not part of the program |

The passes run one after the other in `compile()` (`frontend.cxx:12-40`): each gets
what the previous one returned, and an exception of any of them leaves `compile()`.
The tree is the one piece of state two passes share: the checker writes
`resolved_type`, the printer and the generator read it. What makes each part correct:

* lexer: the tokens are the longest lexemes of the file, in order, each with the
  location of its text; it ends on every file;
* parser: it accepts the language of its grammar, and returns the one reading of the
  program there is, as a tree every visitor can walk; it ends on every token stream;
* checker: it accepts what the typing rules allow, its annotations are concrete, never
  revised, and consistent between a declaration and its uses;
* generator: on checked trees the guards against what the checker is to have excluded do
  not fire, every request it makes of LLVM is well typed (LLVM's verifier, which would
  notice, is never run), and the requests do what the source says. The code does not keep
  all of this; where it does not is said with each property and under "Findings";
* printer: its text is the annotated tree, with the names of its types, indented by nesting;
* tables: every key has the value it was given, other keys have none, and a table with
  two entries for one key is refused;
* driver: what a pass refuses leaves no trace in a file, and a compilation that reports
  nothing has made the program it was asked for.

## Modules

| Module | What it is |
|---|---|
| `Ast` | types, nodes, trees as sequences in visit order, addresses, and the walk of the two passes |
| `Characters` | character classes, symbols and tokens, shared by the next two |
| `Lexer` | the lexer, one decision or one loop turn per step |
| `TokenStream` | the abstract lexer: one whole lexeme per step, longest match, lexemes defined on words |
| `Parser` | the recursive descent parser with its call stack made explicit |
| `Grammar` | the language of B2 on stretches of tokens, without a parser |
| `TypeCheck` | the type checker, one visit per step, `result` and all |
| `TypeNames` | the names of the types the checker hands around, which the printer prints |
| `TypeRules` | the typing rules without visits: the set of types an expression can have |
| `Codegen` | the code generator, composed with `TypeCheck`, as the requests it makes of LLVM |
| `CodegenRules` | what those requests must satisfy, and why a checked program may still be refused |
| `Execution` | what running the requests shows and returns, and what the source means |
| `Printer` | the pretty printer on the tree the checker annotated, with its call stack, and its layout |
| `PrinterRules` | the printed text read back as a tree |
| `StaticMap` | construction and search of the static tables, one entry or probe per step |
| `TokenTables` | the three tables of `token_type.h` |
| `Driver` | several processes running the compiler in one directory |
| `TypeCheckProofs` | theorems about `TypeCheck`, its annotations and its symbol table |
| `ParserProofs` | theorems about `Parser` |
| `StaticMapProofs` | theorems about `StaticMap` |
| `DriverProofs` | theorems about `Driver` |
| `LexerProofs` | theorems about `Lexer`, and that it implements `TokenStream` |
| `PrinterProofs` | theorems about `Printer` |
| `CodegenProofs` | theorems about checker and generator together, and about what running the requests does |
| `DataLemmas` | induction over places, functions and counts, and lemmas on growing sequences and their parts, used by the other proof modules |
| `MC*` | the bounded inputs for TLC; `MCPrograms` holds the ones several runs share |

### The tree (`Ast`)

The parser allocates operands before their node, and both passes visit them before it,
left to right. An expression is therefore the sequence of its nodes in that order; a
binary node names its operands by index and the last node is the root. `Join` is
`make_unique<BinaryExpression>(op, move(lhs), move(rhs))`; `IsExpression` says that a
sequence is the visit order of a tree: every node but the last is an operand of one later
node, and what is visited between the operands of a node belongs to the right one
(`VisitsInOrder`; without it a sequence of single-owner nodes could still mix the visits of
two subtrees, which no parser result does). `IsProgram` also says that every node has the
members its constructor gives it and no others (`IsBuilt`). Nodes of a program have addresses
`<<function, statement, node>>`, 0 in place of a component for the statement or function
itself, so that `resolved_type` is a function on addresses. An int literal carries its
value, a float literal its value in tenths.

### The lexer (`Lexer`)

`mode` is the function the lexer is in; `next_token` chooses it from the current
character, each loop turn of `parse_number`, `parse_string_literal`,
`parse_identifier` and `parse_symbol` is a step, and so is the delivery of a token to
`tokenise`. `start` is the local variable of the same name. `current()`, `peek()` and
`advance()` are the code's, with NUL at the end of the file. Characters are represented
one per class. `std::isdigit`, `std::isspace` and `std::isalpha` are external. A string
literal's value includes its closing quote (`lexer.cxx:71-72`) and an unknown character
returns `EndOfFile` (`:104`); both are in the model because they are in the code.

### The parser (`Parser`)

`stack` holds what the C++ stack holds: a frame for each `parse_expression` that has
read an operator and waits for the right operand (`lhs`, the operator, its own
`min_precedence`) and one for each `parse_paren_expression` waiting for its `)`. `mode`
says whether the innermost call is about to parse a primary expression or is in the
loop of `parse_expression`, or whether the parser stands in a function's body or between
functions. A run of `consume()`s is one step, failing with the error of the first
that does not match; the token it fails on decides nothing else. Tokens carry
their type and, where the parser looks at it, their value: names, and for numbers
whether `std::stoi` or `std::stod` has a value for the text. Every type of token that
`tokenise()` returns is among the inputs, the relational operators, which have no
precedence, and the keywords `and`, `or`, `if`, `else` and `not`, which no rule uses,
included.

### The checker (`TypeCheck`)

`at` is the address of the next visit. A visit of an expression node writes
`resolved_type` and `result` (or not: `visit(FunctionCallExpression&)` is empty, `:218`)
and its caller, `emit()`, copies `result` into `emitted`. On leaving the last node a
statement's own visitor goes on (`Declaring`, `Assigning`, `Showing`, `Returning`) and
`FinishStatement` is the check in the loop of `visit(FunctionDeclaration&)`
(`:208-215`), part of the same step. Each exception is a value of `status`. The
initial content of `result` is an element of `InitialResults`: the member is
uninitialised (`type_check_visitor.h:30`).

A `Type` is a `type_id` and an `identifier` (`ast.h:68-71`). The checker decides by the first,
which is what `TypeCheck` keeps of a type; messages and the printer show the second.
`TypeNames` adds the identifiers: each of its steps is a step of `TypeCheck` and what that
visit copies, so `identifiers`, `result_identifier`, `variable_identifiers` and
`emitted_identifiers` go with `resolved_type`, `result`, `variable_map` and `emitted`. An
uninitialised `result` has an empty identifier whatever its byte is.

### The generator (`Codegen`)

It runs after the checker accepted (`GenStart`). `ir` holds the requests made of the IR
builder, in order, each with the node it was made for; an operand is the result of an
earlier request or a constant with the bits that `APInt` keeps of it. `named_values`
holds the request of each variable's alloca, `symbols` what the names of the module
stand for, `values` what the current statement
has emitted. `gen` has a value for each exception, and `FellOffSwitch` for the end of
`get_llvm_type` that returns nothing (`:59`). LLVM itself is external; no request fails
in the model, as none is verified in the code. The builder's folding of constants is
left out: it changes no result.

The names of functions and of the strings that `show` prints with are in one table. A name
keeps what took it first: a second function of a name is renamed by `Function::Create`
(`:199`), and the first `show` gives its string the name `fmt` (`:184`) unless a function has
it. `getFunction` (`:216`) then finds no function `fmt` (`NamedFormat`).

`CodegenRules` states what the requests must satisfy, down to what LLVM's verifier would
say (`ModuleIsValid`), which the compiler never asks. `Execution` gives the requests the
meaning the LLVM language reference gives them (registers, slots, numbers modulo the
width, signed and unsigned division), gives the source the meaning of a language of
integers, and compares. It says so only of modules LLVM would accept and of programs
whose numbers stay within their types; what the compiler does with the others is what `BlocksFollowReturns`,
`RequestsWellTyped` and the findings are about. A number is within a narrow type when it
has that many bits; within a wide one when its magnitude is below 2^31 (`Wide`): two
literals settle on Int32 before their context is known and a call keeps a stale annotation, so
a value may be narrower than the type of its node, and these are the numbers that all wide
types share.

### The printer (`Printer`)

`calls` is the C++ stack, innermost call first: a visit replaces itself by its
children's visits and, below them, the `Closer` that its scope ends with. `output` is a
sequence of pieces (a line with its indentation, an opened node, a value, a closing
parenthesis); the type of a node is printed as its identifier (`:59`), which `TypeNames`
follows; how a number or a string is spelled is left out. `depth` is an
unsigned number in the code, and `TypeOK` says that it never goes below zero.

### The tables (`StaticMap`)

`items` is what the constructor was given, `items_` the member. `std::ranges::sort`,
`adjacent_find` and `lower_bound` are external; the sort places one entry per step, and
`Probe` is the loop of `lower_bound` with its two variables, since what it ends with is
what the code's `it != items_.end()` and comparison of keys decide on. That this loop is
right and ends is the library's business and no property here. Keys are numbers: the place of a string or an
enumerator in the order of its type.

### The driver (`Driver`)

Each process of `Compilers` has a `pc`, its arguments, the text it read, and whether it
printed a message. A pass is one step and is told apart from the others only by the texts
it refuses: what the passes do is in the other modules. The files are `output.o`
(`object`, in blocks), `output` (`executable`) and a listing beside each source file.
Opening truncates; a process that had `output.o` open before goes on to write at its own
offset, so blocks of two programs can mix and holes can appear (`WriteAt`). A read
that fails goes on to whatever is in the missing contents: any text, a throw or a crash
(`ReadFile`). A listing that cannot be opened may have been truncated by the stream that
opened it just before (`:70`). `link()` is three steps: `clang` reads `output.o`
(`ReadObject`), writes `output` or fails (`WriteExecutable`), and `std::system` returns
(`FinishLink`), so two links can overlap. `Kill` ends a process between any two steps; if
it waits for `clang`, `clang` may live on, to read the object or only to write the
executable (`LinkOrphan`). `disturbed` is a history variable: whether another
process used `output.o` between this one's open and its `clang`'s read, or another `clang`
replaced `output` between this one's write and the end of the compilation.

## Runs

| Run | Instance | Shows |
|---|---|---|
| `Lexer` | all files of up to 4 characters over an alphabet with a letter pair that is a keyword, digit, point, minus, space, newline, quote and an unknown character; and over the symbol characters with NUL | `TypeOK`, `LocationsExact`, `LexerTerminates`, and the refinement `ImplementsTokenStream` |
| `Parser` | some 23,000 token streams: `show` of every word of up to 5 expression tokens; chains of four operators of three precedences with and without parentheses; every body of up to 4 statement tokens; all pairs of statement heads and values; all short sequences of function tokens; every prefix of a program; a program with every statement in which any token takes the place of any other or is put between two | `TypeOK`, `ParsesToProgram`, `ParserFollowsGrammar`, `EveryStepProgresses` |
| `TypeCheck` | a declaration of `x` of every class of annotation and value, or a callee, before one statement with up to two operators and a use of `x`; two values of the uninitialised `result` | `TCTypeOK`, `CheckedTreeHasNoLiteral`, `UsesFollowDeclarations`, `CheckerFollowsRules`, `AnnotationsOnlyRefine` |
| `Codegen` | two statements over all leaves, divisions and comparisons; two functions with equal, different or predeclared names, calling backward, forward, recursively, and `printf`; a function `fmt` before, between and after functions that show, and calls of it; calculations on 7, 100, 200 and 300 in types that can and cannot hold them, set and shown; three functions that print and call each other; operators on literals and calls whose values have another type than their node; three values of the uninitialised `result` | `CGTypeOK`, `NoInternalError`, `LoadsMatchAllocas`, `RequestsWellTyped`, `GenerationFollowsSource`, `RunsAsWritten`, `BlocksFollowReturns`, `CompilationTerminates` |
| `StaticMap` | every table of up to four entries over four keys, in every order and with every repetition, and `TOKEN_TYPE_STR`, `KEYWORDS` and `SYMBOLS`; lookups of 31 keys on, between and beyond theirs | `TypeOK`, `DuplicatesRefused`, `FindsWhatWasGiven`, `EveryTypeIsNamed` |
| `Driver` | two processes, any number of calls; a program of two blocks, one of one block with a listing, one the checker refuses with a listing asked for, and a file that cannot be read | `TypeOK`, `RefusedLeaveNoTrace`, `SilenceMeansSuccess` |
| `Printer` | two statements with values of up to two operators, functions with and without statements, the program of no functions, the README's example; an uninitialised `result` that is no enumerator, and one that is Int32 by chance | `TypeOK`, `LayoutShowsNesting`, `PrintedTreeReadsBack` |
| `FindStranger` | files of up to 3 characters | `SkipsInvalid` is violated |
| `FindSet`, `FindCall`, `FindMixed`, `FindReturn` | one program each | see "Findings" |

Why the bounds are enough. The lexer looks at one character and the next; every
construct (a float with digits on both sides of its point, a string across a
newline, a two-character symbol followed by something) begins, continues and ends
within four characters, and every pair of adjacent constructs occurs. The parser looks
at most one token ahead; what it remembers is its stack, and five tokens give two nested
parentheses or two operators, while the chains give four operators in every order of the
three precedences, where regrouping could go wrong. The checker's memory between
visits is `result`, one statement's annotations and the symbol table. A literal type
travels at most from a node to its parent to the statement; two operators give each
of the three places a literal below it, and a declaration, a statement and a use give the
table a write, a rewrite and a read. A second function is enough for what must be cleared
between functions. Int literals are below 2^31, which is all `std::stoi` reads
(`LiteralsAssumption`); 200 and 300 lie beyond the signed and the unsigned 8-bit numbers,
and in 334 of the checked compilations `RunsAsWritten` compares the two runs, 306 of
which show a number and 74 more than two. A table of four entries has a search of three probes, one to each side of every
entry, and duplicates with up to two entries between them; the real tables have 10, 14
and 29. Two processes are what it takes to disturb one, and an object of two blocks and
one of one block leave a rest of the longer behind the shorter and a hole before its
end. A tree two operators deep under a statement under a function under the program has
every nesting the printer knows. That the theorems' properties do not depend on these bounds is proved.

`RequestsWellTyped` is restricted to `KeepsWidths` programs and `CheckerFollowsRules` to
`IsPlain` ones. The excluded programs are those for which the code is known not to do
it: calls (`FindCall`), operators mixing int and float literals (`FindMixed`), `set`
or `show` of literals only (`FindSet`); for the generator also arithmetic on two literals
under another width and `Float32` annotations (see "Findings" for both). It
asks for an i32 in a print or return only of programs with no other numbers, as `FindReturn`
shows why. `RunsAsWritten` leaves out numbers that do not fit their types, and
`NoInternalError` says of the int literals' guard (`:156`) only that it takes a call or literals of
both classes to reach it, which `FindMixed` does.

`PrintedTreeReadsBack` allows a type without a name where `result` was read before anything
wrote to it, which takes a program whose first value begins with a call (`BeginsWithCall`).

`EveryTypeIsNamed` is about one table and the enumeration it lists, both spelled out in
`TokenTables`; it is stated in `MCStaticMap`, where the tables are.

`SkipsInvalid`, `NoMisuse`, `IntLiteralsAreInts`, `ReturnsInt32` and
`LiteralsInferredFromContext` state what the repository says of the program, and are
checked only in the runs that show them violated.

### Fairness

`Spec` of `Lexer` and of `Codegen`, the two modules with a liveness property, assumes weak
fairness of its `Next`. The compiler is one thread of plain calls; it has no step it could
wait at, so a step that is enabled is taken. No fairness is assumed of any single action.
The other modules state safety only and assume none: a walk over a finite tree, a straight
line of passes and a library's search end for reasons that no model of this code could
put in doubt, and whether `clang` returns is not up to the compiler. The parser's termination needs no
liveness check: `EveryStepProgresses` gives a measure that every step decreases.

Deadlock is checked in every run: the end of a pass and a refused table are explicit
stuttering steps, so a state where the code would hang shows as a deadlock. In `Driver` an
ended process can always be called again.

## Proofs

`ParserProofs` proves, for every set of token streams as `tokenise()` returns them
(`InputsAssumption`: any tokens of `TokenType`, `EndOfFile` last and only there):

* `ParserReturnsPrograms`: `Spec => []ParsesToProgram`. The invariant behind all three
  theorems is `ParserInv`: every expression that any call of the parser holds, finished in
  `value` or waiting as the left operand in a frame of `stack`, is an expression in the
  sense of `Ast`, and a statement is kept only with such a value. Its heart is
  `JoinExpression`: a `BinaryExpression` made of two expressions is one, since the
  operands keep their owners and each of the two roots gets the new node as its only one,
  and what is visited between the two roots is all below the right one.
* `ParserTypeCorrect`: `Spec => []TypeOK`, with `index` on the tokens, `EndOfFile` at the
  furthest. `AheadToken` is the reason: a token that is not `EndOfFile` has a successor,
  and every `advance()` follows a test for such a token.
* `ParserProgresses`: `Spec => EveryStepProgresses`. A token read pays for entering a call
  and beginning an operand; everything else returns from a call or ends.

`ParserReturnsPrograms` says of the parser's results what `ProgramsAssumption` asks of the
type checker's input, so the theorems below hold of what the compiler passes on.

`TypeCheckProofs` proves, for every set of programs that `IsProgram` holds of and
every initial content of `result`:

* `TypeCorrect`: `TCSpec => []TCTypeOK`. `TCTypeOK` is inductive. It ties the length of
  `emitted` to the position of the walk, which is what gives each operator a type for
  both of its operands. The walk lemmas (`NextStatementOnWalk`, `EntryOnWalk`,
  `NodeOnWalk`) say that a step leads from one place in the tree to the next.
* `NoLiteralSurvives`: `TCSpec => []CheckedTreeHasNoLiteral`. The property is not
  inductive: in the middle of a statement literal annotations are normal. `LiteralInv`
  says where they can be: a node annotated with a literal type is in the current statement,
  its parent has not been visited, and `emit()` returned that very type for it, so the
  parent will see it; `result` is what was emitted last, so the loop's check after each
  statement sees a literal left at the root; and the symbol table has no literal
  type, so none comes back through a variable. At the end of the tree there is no current
  statement, hence no literal.
* `AnnotationsRefined`: `TCSpec => AnnotationsOnlyRefine`. It needs `FreshInv`: nodes the
  walk has not reached have no annotation, and a value emitted as a literal that no
  parent has read has at most a literal annotation. It includes calls, whose value may be
  a stale literal type while their annotation is empty.
* `UsesFollow`: `TCSpec => []UsesFollowDeclarations`. The property speaks
  of finished trees only. `UsesInv` adds the walk: `TableFollows` says that each entry of
  `variable_map` has the type with which the latest declaration before the current
  statement is annotated, `VisitedUsesFollow` that each variable already visited has. A
  literal annotation that settles later could break both; that it is never a
  declaration's, once the statement is left, is `LiteralInv`, and that a settled one does
  not change is `FreshInv`.

* `FollowsRules`: `TCSpec => []CheckerFollowsRules`. `PossibleTypes` and `Environments` are
  recursive functions, over the nodes of an expression and over the statements of a
  function; `NodeTypesDefined` and `EnvironmentsDefined` show, by induction, that each
  satisfies the equation it is defined by, which is how the proof gets at one of their
  values. The invariant `FollowsInv` then walks with the checker: the statements behind it
  obey the rules, `variable_map` is the environment that the rules give the current one, what
  `emit()` returned for a node is among the types the rules allow it, and a literal type
  stands for all the types the rules leave open. A throw comes exactly where that set is empty.

The assumptions are the two named ones of `TypeCheck`, `ProgramsAssumption` (the programs
are trees) and `InitialResultsAssumption`. The step lemmas (`EmitStep`, `FinishStep`, `ThrowStep` and
their `Literal` and `Fresh` counterparts) each treat what several visitors share.

`CodegenProofs` proves of checker and generator together, under the same two assumptions:

* `GeneratorTypeCorrect`: `Spec => []CGTypeOK`. `GenTypeInv` adds that `ir` and `values` are
  sequences, without which no append has a length.
* `NoInternalErrors`: `Spec => []NoInternalError`, and `LoadsMatch`: `Spec =>
  []LoadsMatchAllocas`. Both rest on what the checker leaves behind (`CheckedTree`):
  no literal annotation (`LiteralInv`), none missing where the generator reads one and
  every assignment behind a declaration (`AnnotatedInv`), every variable with the type of a
  declaration (`UsesInv`). `GenInv` carries this to the generator's own table:
  `SlotsFollow` says that the table holds, for exactly the names declared earlier in the
  function, the alloca of such a declaration in the declaration's type; `DeclaredOnce`,
  that there is just one such declaration, because the generator throws on a second;
  `LoadsInside`, that requests already made stay where loads point.
* `GenerationFollows`: `Spec => []GenerationFollowsSource`: what the generator refuses of a
  checked program, it refuses for one of the reasons the property names, and what it
  generates has none of the first three. `SourceInv` says where the checker's annotations
  come from in a statement without calls: `Bool` is a comparison's or a variable's of that
  type, and an int literal has a float type only beside a float literal. At the end of the
  check this is `SourcedTree`. `RulesInv` walks with the generator: everything it has
  passed is free of second declarations, comparisons and unfound calls (`PassedAreFine`),
  `symbols` holds the functions it has reached, with `fmt` for whichever function or `show`
  came first to take it (`SymbolsFollow`), and an exception stands at a place the property
  allows (`MayRefuse`), which is also the int literals' part of `NoInternalErrors`. TLC refuted the property as it was first stated: a call may let a
  `Bool` through, whose variable is then refused only where it is an operand, in a
  statement without a call. `CallSoFar` is what came of it.
* `RequestsTyped`: `Spec => []RequestsWellTyped`. A value's type in LLVM is not always that
  of its annotation, which is what `KeepsWidths` excludes, so the proof has to say why the
  two never part in the rest. `WidthsInv` does so for the checker: annotation and emitted
  type of each node agree, the operands of an operator have its type (`NodeWidth`),
  a literal settles only on a type it fits, and arithmetic on two literals leaves a
  single type to settle on; each statement agrees with its value, and an assignment with
  the declaration (`StatementWidth`). The checked tree is a `WideTree`. `RequestsInv` walks
  with the generator: each emitted value has the type of its node (`ValuesWide`), each
  request made is well typed by itself (`FineRequest`). An assignment stores to the slot of
  the latest declaration because `SlotsFollow` and `DeclaredOnce` leave no other.
* `BlocksFollow`: `Spec => []BlocksFollowReturns`. `BlocksInv` says where the requests stand:
  each comes from a statement the generator has been at, a `Ret` from a `return`; they stand
  in the order of the statements, a `Ret` last among those of its own; and every statement
  left behind has made one. `LastIsOnly` draws the conclusion by itself, for any requests
  that cover statements in this way: the last is the only `Ret` if and only if the last
  statement is the only `return`. For the second half, `RequestsInv` gives the types and
  `FromSource` that a program of `KeepsWidths` makes no call.
* `CompiledAsWritten`: `Spec => []RunsAsWritten`: the requests, run, do what the source says.
  Both runs are recursive functions, over requests, nodes, statements and functions;
  `FramesDefined` to `MeaningDefined` give their equations. `RunsInv` relates them where the
  generator is: for each function, the frame after the requests made so far has shown and
  returned what the source has up to this place (`OutputFits`); of the current one, each
  variable's slot holds the variable's number and each pending operand the number of its
  node, cut to its width (`MemoryFits`). `Computing` is the arithmetic: an operation on cut
  numbers is the operation on the numbers, cut, and a division is so for numbers of its type.
  Its use needs that a narrow operand has the type of its operator (`WidthsSoFar`), whatever
  the annotations of calls and literals are: `OperandsInv` says of the checker that every
  operator shares its type with one of its operands, and LLVM's rule that both operands
  have one type (`ValidIsSound`) does the rest. `SymbolsAreFirst` makes a call run the
  function that the source means. So far the functions called are assumed to run as written;
  the last step removes this by induction over the functions of the module, since calls go
  only backward.

`LexerProofs` proves, for every alphabet, keyword table and file (`CharactersAssumption`,
`KeywordsAssumption`, `InputsAssumption`):

* `LexerTypeCorrect`: `Spec => []TypeOK`, which is inductive: what `advance()` consumes is
  never the NUL that `current()` returns past the end, as no character class holds NUL.
* `LocationsFollow`: `Spec => []LocationsExact`. `LocationAtNext` shows that counting the
  newlines and columns up to a place is what `advance()` computes one character at a time.
  `LocationInv` adds that a token in the making has the location of its first character
  (`TokenBegun`) and that its function has consumed a character or is certain to
  (`FirstCharacter`), so no token is empty and each can be read at its place.
* `LexerCutsLongest`: the safety part of the refinement `ImplementsTokenStream`. The initial
  states of `Lexer` are initial states of `TokenStream`, and every step is one of its steps
  or leaves its variables alone. The invariant `Scanned` says that the characters from
  `start` to `index` are of the class the mode reads. A loop turn keeps it and is a
  stutter; a delivery is a step of `TokenStream` since the loop stops only where no longer
  lexeme of the kind begins. The liveness part, that `TokenStream` gets its next token, is
  left to TLC.

`StaticMapProofs` proves, for every set of initializers and every set of keys looked up:

* `AnswersAreRight`: `Spec => FindsWhatWasGiven`; `RefusesDuplicates` and
  `MapTypeCorrect`: `Spec => []DuplicatesRefused` and `[]TypeOK`. The invariant is `MapInv`: the array is a rearrangement of the
  entries given (there is a one-to-one map of places, `Arranges`), it is sorted, and the
  search is bracketed. The rearrangement is what leads from an answer found in the array
  back to the initializer, and sortedness is needed three times: two entries with one key
  have neighbours with one key between them, so `adjacent_find` suffices; one comparison
  with the middle decides a whole half; and an entry with the key sought stands exactly
  where the search ends.

`PrinterProofs` proves, under the two assumptions of `TypeCheck`:

* `PrinterTypeCorrect`: `Spec => []TypeOK`, with it that the unsigned `depth` is never
  decremented at zero; and `LayoutFollows`: `Spec => []LayoutShowsNesting`. `PrinterInv`
  says that `depth` is the number of nodes opened and not yet closed in `output` and also the
  number of `Closer`s on the stack, so it is above zero whenever a `Closer` runs, and that
  the lines written so far show their nesting. The lemmas `PiecesAdd` and `ClosersAdd`
  count over concatenations, which is what a visit does to both.
* `PrintsTree`: `Spec => []PrintedTreeReadsBack`. What has been printed halfway is no tree,
  so the invariant `ReadInv` speaks of the end: the node that is being read, continued by
  what each call on the stack is still going to add (`After`, and `Runs` for a whole stack),
  becomes the program. What a call adds is said from the tree alone (`Whole`): the name,
  the tree and the types of the node. A visit replaces one call by several, whose parts must
  make up that node: `VisitFills` shows that they are added, in order, and `VisitCloses` that
  the node is then closed as the right one. The step for a binary node goes back to `Ast`:
  the nodes below it are one stretch of the visit order, divided between its operands
  (`First`, `OperandsFirst`), and joining the trees of both stretches gives the stretch
  back (`JoinedTree`). This is where `VisitsInOrder` is needed. That what is printed for a
  type is its name is `NamedInv`, an invariant of `TypeNames`: in `resolved_type`,
  `variable_map`, `emitted` and `result` every type goes with its name or, being a literal's
  or the one `result` began with, with none; the last only once a call was the first to be
  visited.

`DriverProofs` proves, for any number of processes, any files, texts and calls:

* `DriverTypeCorrect`: `Spec => []TypeOK`. `Knows` says what a process has at each stage.
* `RefusedNeverWritten`: `Spec => []RefusedLeaveNoTrace`. The property speaks of files
  only; the invariant adds the processes (`HoldsClean`): a text is not refused by a pass it
  has behind it, and an object a linker holds is as clean as the file it was read from.
* `SilenceIsSuccess`: `Spec => SilenceMeansSuccess`. The invariant `AskedInv` has four
  parts. `Honest`: without a message, the text is that of the file asked for. `Alone`: while an
  undisturbed process uses `output.o` nobody else writes there, and the file holds
  exactly the blocks it has written. `Complete`: when it goes to the linker these are
  all, and what the linker read is the object. `Made`: until an undisturbed process returns,
  `output` is what its `clang` made, since another one's that changes it is a disturbance. An
  executable made of that object is made of its first block, hence the program asked for.

The assumptions are the named ones of the modules. `NamesAssumption` keeps the texts apart
from the marks for holes and missing files.

Only model-checked:

* `ParserFollowsGrammar`, which says of all stretches of tokens and all ways to cut them what
  the parser does one token at a time;
* `EveryTypeIsNamed`, which is about one table;
* liveness, which is beyond the prover: `LexerTerminates`, the liveness part of
  `ImplementsTokenStream`, and `CompilationTerminates`.

## Findings

Each is a run in which TLC finds the behaviour; `PROJECT.json` quotes the lines.

* An unknown character silently ends the token stream; the test's name says it is
  skipped (`FindStranger`).
* `set x = 1` is rejected although the generator's message recommends `set` in this very
  form (`FindSet`). `show (3 + 10) * 2` of `examples/test.b` is rejected for the same reason.
* A call has the type of whatever was visited before it (`FindCall`).
* `1 + 2.5` passes the checker and trips the generator's guard (`FindMixed`).
* A function of LLVM type i32 returns an i16 (`FindReturn`).

Noticed without a run of its own: `x = fafewafefdddf` is parsed as a variable, as any name is,
though the test `ThrowsOnUnknownExpression` (`tests/parser_test.cxx:325`) expects "Unexpected
primary expression" of the parser (the expectation is in a `catch` that is never entered, so
the test passes; only the type checker refuses the name, `type_check_visitor.cxx:128`);
`x: Int64 = 1 + 2` stores an i32 into an i64 slot, as two literal operands are settled on
Int32 before the context is known (`type_check_visitor.cxx:77`); a function `fmt` cannot be called once a function before
it has shown something, since the format string has its name
(`code_generation_visitor.cxx:184`; `GenerationFollowsSource` names it among the reasons);
`%d` prints values of every type (`:189`); a `Float32` constant is built as a double
(`:133`); `x: Int8 = 300` keeps the low byte (`:160`); a function
that does not end with its only `return` becomes a block LLVM has no meaning for (`:204`);
`is_bool_operator` does not know `!=` (`lexer.h:19-25`); relational operators are lexed and have operations
but no precedence, so no program can use them (`parser.cxx:18`); `x-1` lexes as one
identifier (`lexer.cxx:9-11`); the tree's locations of variables and calls are those of the
next token (`parser.cxx:73-77`); `main` returns 0 after every error (`main.cxx:22-24`).

## Not modelled

* The wording of messages and the text of format strings: nothing reads them back. The
  location a diagnostic names is exact for tokens (`LocationsExact`) and one token late for
  variables and calls (`parser.cxx:73-77`); the parser's tokens carry none in the model.
* `--output-tokens` and the stream operators of tokens: they print and change nothing.
* The comparisons of `TypeOperations`, `<`, `>`, `<=` and `>=`: no tree holds one, since their
  tokens have no precedence.
* LLVM, `clang`, the standard library and the file system, beyond what the code relies on.
* The build files, the examples and the LLVM snippets, which are not part of the program.

## What is left

Every safety property the passing runs check is proved, but for `ParserFollowsGrammar` and
`EveryTypeIsNamed`. Of the components, the operation map and the errors are modelled in part
and the build files not at all, as `PROJECT.json` says of each and why; the others are
modelled whole. The proof of `ParserFollowsGrammar` would need, for the trees, that the
parser's frames are the grammar's splits of the tokens read so far; and for the cuts, that
an expression cannot go on where the parser stops.
