# Verification of the Sbix compiler

This directory holds TLA+ models of the Sbix compiler (`src/src/*`), the TLC
configurations that check them on small instances and the TLAPS proofs about
them. Paths below are relative to the repository, line numbers are those of the
modelled commit.

## The system

Sbix is a sequential compiler: `main` (`Simbixit.cpp:20-66`) reads one file and
calls `Lex`, `Parse`, `Semantic` and `compile` in turn. There are no threads, no
network and nothing persistent; what is hard is recursion over data that the
program under compilation chooses, with global state on the side.

| component | state | operations | modelled in |
|---|---|---|---|
| driver, `Simbixit.cpp` | `hasErrors`, `totalError` | the pipeline, the gate on `hasErrors` (`:58`) | `Compiler` |
| lexer, `Lexer.cpp`, `lex_helper.h` | index, `line`, `column`, tokens | one branch of the loop per kind of token | `Lexer` |
| parser, `Parser.cpp`, `Parser.h` | index, `fq`, the recursion | `ParseBasic`, `ParseBlock`, `ParseExpression`, ... | `Parser` |
| analyser, `Semantic.cpp` | `symbolTable`, `loop_depth`, `hasEntry`, `hasErrors`, the recursion | `Analyze`, one case per kind of node | `Semantic` |
| C back end, `builder.cpp` | `allocatedStrings`, the output | `compile`, `transpileStatement` | `Builder` |
| diagnostics, `diagnostics.h`, `parse_helper.cpp` | sets `hasErrors` | `errorf`, names of tokens | as the flag `hasErrors` of `Parser`, `Compiler` and `Semantic` |

The stages share the token array, the tree (whose nodes the analyser annotates
with `mangledName` and `evaluatedType` for the back end) and the globals
`hasErrors` and `totalError`. The lexer's locations reach further than messages:
the analyser makes the labels of `if` and `while` scopes out of them.

What makes each part correct, and hard:

* **Lexer.** It must return for every source, read nothing beyond the
  terminator, put every character into one token and give distinct locations to
  distinct words. Branches overlap in their first characters, comments move the
  line counter, and unterminated comments and strings end where no token does.
* **Parser.** It must end, stay in the token array and leave no null child in a
  tree it reported no error for. Most reads of `arr[i]` are unchecked and rely on
  nobody having gone past the `EoF` token; of the lists only one checks that an
  iteration moved the index; null results are passed on, followed or dropped
  depending on the place.
* **Driver.** The analyser gets the tree of a program with syntax errors too;
  only the back end is behind a gate. Both follow children the parser may have
  left null.
* **Analyser.** Scopes are string prefixes of one flat table that is never
  cleaned, so lookups may reach closed scopes; types are copied before and
  written after a sibling is analysed; a `return` finds its function by the
  suffix of a key; a counter says whether a `break` is in a loop.
* **Back end.** The strings a body must free are kept in a stack of scopes that
  is popped but never pushed.

## Modules

| module | content |
|---|---|
| `Lexer`, `MCLexer`, `Lexer_*.cfg` | the loop of `Lex` and its instances |
| `Parser` | the parse functions as a machine with a call stack |
| `Compiler`, `MCCompiler`, `Compiler_all.cfg` | the driver: `Parser`, then analyser, gate and back end as far as null children and errors go |
| `Brackets` | abstract specification: what may be compiled has matching brackets |
| `Semantic`, `MCSemantic`, `Semantic_*.cfg` | the walk of `Analyze` as a machine with a call stack, and its instances |
| `Builder`, `MCBuilder`, `Builder_*.cfg` | the walk of `compile` and its instances |
| `LexerProofs`, `ParserProofs`, `SemanticProofs`, `BuilderProofs` | inductive invariants and theorems |
| `TokenProofs` (extends `ParserProofs`) | the reads past the end of the token array; the refinement of `Brackets` |
| `ManglingProofs` (extends `SemanticProofs`) | what the mangled names let a `return` reach |
| `ScopeProofs` (extends `ManglingProofs`) | what a look-up reaches |
| `CommonLemmas` | facts about sequences used as stacks, about least and largest numbers and about what `FlattenSeq` makes of a sequence, shared by the proofs |

`Compiler` extends `Parser`; it is the only composition, since the lexer always
ends in a token array, whatever the source (`Terminates`, `NothingLost`), and
`Parser` takes every array. `Semantic` and `Builder` walk every tree rather than
the one `Parser` built; the trees the parser can build are among them as far as
the bounds go (`MaxNodes`, `MaxDepth` and, for expressions, `MaxOperands`; the
proofs are for every bound). What the two do with a null child is what `Compiler`
keeps of them.

### Parser

`stack` is the call stack of the parse functions, one program point per function
in progress; `ret` is whether the last result was a null pointer. A point is
named after its function and what has been read (`ifClose`: the condition of an
`if` has returned and `)` is looked for). Steps are built from a few forms:
`Consume` and `Jump` go on in a function, `Enter` and `ConsumeEnter` call,
`Yield` and `ConsumeYield` return, `Reject` reports and returns null.

The token array is not given in advance. `cur` is `arr[i]` and `nxt` is
`arr[i + 1]` once it has been looked at; `Shift` (`i++`) takes `nxt` or chooses
a token, and nothing is kept of what was consumed. So the behaviours are the
parses of all arrays, of any length. Past `EoF` a token is `beyond`: a checked
read (`isEOF`) tells it, an unchecked one ends the run as `overread`.

| code | actions |
|---|---|
| `Parse` `:855-895` | `Program`, `Finish` |
| `ParseMain` `:791-812` | `Main`, `EndMain` |
| `ParseBlock` `:399-415` | `Block` |
| `ParseBasic` `:814-853`, `ParseBreak` and `ParseContinue` `:379-397` | `Statement` |
| `ParseVariableDeclr` `:224-268` | `Declaration` |
| `ParseType` `:53-112` | `Type` |
| `ParseReturn` `:186-195` | `ReturnStatement` |
| `ParseCollectionIdnt` `:270-295` | `Element` |
| `ParseStatement` `:572-677` | `If`, `While`, `For` |
| `ParseFunctionDeclr` `:417-485` | `Function` |
| `ParseExternFunc` `:486-570` | `Extern` |
| `ParseFunction` (a call) `:197-222` | `Call` |
| `ParseParentheses` `:701-714` | `Parentheses` |
| `ParseCollection` `:329-377` | `Collection` |
| `ParseLiteral`, `ParsePrimary` `:679-742` | `Operand` |
| `ParseTerm`, `ParseSum`, `ParseExpression` `:744-789` | `Operator` |
| a function that returns after its last call | `EndCall` |
| a null pointer followed (`:545`, `:705`) | `Crash` |
| `arr[i]`, `arr[i + 1]` past the end | `Overread` |

The three levels of binary operators are one loop over operands and operators:
they accept the same tokens, and the shape of the tree is not kept. Of the tree
`flaw` keeps one null or unset child of a program that has no error so far (any
one: which is chosen is open), with the place it is in and whether the input was
at its end. `lax` records that a program without an error used a leniency about
brackets. `moved` says whether the index moved since an iteration of a list
began, which the code computes for one list only (`:806`). `Unknown`, the result
of `ParseType` for `void` and for what is no type, is treated as a null result,
because the callers that check it do so in the same way.

### Compiler

`stage` follows `main`: when `Parser` is done, the analyser reports an error or
not, or follows a null child (`FollowedByAnalyser`, where `Analyze` has no
check); `Gate` is `:58`; behind it the back end completes or follows a null
(`FollowedByBackEnd`). `Semantic` and `Builder` have the same crashes
(`NullOperand`, `NullStatement`, `LoopWithoutBody`) on trees of their own.

### Brackets

The abstract specification reads tokens and keeps the brackets that are open.
`CompiledBracketsMatch` is the refinement: `open` is read off the call stack of
the parser, because each point of a function knows which bracket that function
has consumed (`Holds`), and `accepted` is the end of the pipeline. A program may
be rejected, and it is excused when it uses a leniency; otherwise a bracket that
is skipped, closed by another kind or left open at the end contradicts it.

### Semantic

`Analyze` is recursive over a tree. The variable `frames` is its call stack: a
*body frame* for the program, a function body, a branch or a loop, with the
prefix `addPrefix` of that call; an *expression frame* for a node whose operands
are being analysed (`let`, `return`, the conditions, a call), with the values
delivered so far. The tree is not given in advance: each step chooses the next
node in the order `Analyze` would visit it, so the behaviours are the analyses
of every program within the bounds, in post-order for expressions. A binary
operator combines the last two values, which keep the type that was read when
each operand was analysed (and, for a variable, its name), because the code
looks the name up again at `:132`.

| code | actions |
|---|---|
| `:106-108` null, constant | `NullOperand`, `Literal` |
| `:110-154` binary operator | `BinaryOp` (crash on a null operand `:114`, inference `:126-134`) |
| `:161-187` collection | `Collection` |
| `:190-220` `name[i] = ...` | `CollectionOverride` |
| `:222-254` `let`, `const` | `LetClash`, `Let`, `FinishLet` |
| `:255-267` use of a name | `VariableUse` |
| `:294-330` functions | `FunctionClash`, `FunctionDef`, `EndFunction`, `Extern` |
| `:365-391` `return` | `Return`, `FinishReturn` |
| `:393-433` call | `Call`, `FinishCall` |
| `:435-450` `if` | `If`, `FinishIfCond`, `Else`, `EndIf` |
| `:451-477` loops | `While`, `FinishWhileCond`, `For`, `EndLoop` |
| `:484-509` `break`, `@entry` | `Break`, `Main` |
| `:512-517` `Semantic` | `Init`, `Finish` |

The table maps keys to symbols. A key is a sequence of atoms (a separator, a
label word, a position, a part of a name), so that `find`, `pop_back` and
`rfind` work on atoms as the code works on characters; names in the instances
are single atoms. A symbol also records the scope that declared it and the
parameters it was declared with, which the code does not: `ScopeSoundness`,
`ParamsKeepTheirTypes` and `ArityAsDeclared` compare the table with them.
`silent`, `strayBreak` and `signature` are such records too (`ghosts`). The
iteration order of the `unordered_map` at `:378` is left open. `Class`,
`Pointer` and `Float32` behave as `String` does (no rule names them) and are
left out. The handlers of `namespace`, `variableOverride`, `classn` and
`methodCall` are not modelled: no parse function that is called builds such a
node.

### Lexer

The state is that of `Lex`; each branch of its loop is an action, with the
inner loops of a branch taken in one step (`RunEnd`, `Min`). A token keeps its
span in the source. Characters are strings of length one; the classes of
letters and digits are constants. Reading `source[length()]` gives the
terminator. What lies beyond it is open: `'@'` as the last character takes the
terminator and up to `MaxOverread` characters more. `furthest` records the
largest index read.

### Builder

`bodies` is the stack of bodies being translated, `allocatedStrings` the
vector of that name; a string is named by the number of the node that declares
it. Of the C text only the frees are kept: `freed` has the strings freed at the
end of some body, and `paths` what is freed, in order, on each path through the
C function under translation. A path divides where a branch or loop begins (it
may be passed over: `Skip`); a `break` of a `for` frees what is in the scope, which
stays, and goes on behind the loop (`Take`, `Arrive`), that of a `while` frees
nothing, and a `return` ends it. A path enters a loop once at most: what a second
round frees is not recorded (see `hazards`, `builder.cpp:200`). A null
pointer ends a run as `crashed`, `back()` or `pop_back()` of an empty vector as
`undefined`: the run stops there because nothing can be said of what follows.
The block of a branch has no case in `transpileStatement`, so its statements are
dropped, and the model has no statements in a branch. A null node at the top
level or in a loop and a null loop body end a run as `crashed`.

## Runs

| run | question | bounds |
|---|---|---|
| `Semantic_scopes` | are the stack, `loop_depth` and name resolution right under nesting? | two names, 6 nodes, depth 4, 3 operands |
| `Semantic_calls` | do calls check what bodies see? | every kind of statement but `if` and `for`, 5 nodes, duplicate parameters, 3 operands |
| `Semantic_returns` | how can the table leave a signature? | 6 nodes, nested functions, branches and loops |
| `Semantic_inference` | what may the inference overwrite? | 8 nodes, operators over calls and operators, 3 operands |
| `Semantic_extern` (violation) | may an extern function be called as declared? | 3 nodes |
| `Semantic_break` (violation) | is every stray `break` reported? | 4 nodes |
| `Semantic_mixed` (violation) | does every reported error stop the compilation? | 3 nodes |
| `Lexer_all` | are the tokens a partition of the source, and locations, reads and termination right with comments and strings too? | all sources up to 4 characters over 9 and up to 6 over 7 |
| `Lexer_notequal` (violation) | is `!=` one token? | all sources up to 3 characters over 4 |
| `Compiler_all` | where may the parser hang, leave the array or leave a null, who follows it, and do brackets of compiled programs match? | every kind of token, arrays of any length, 5 nested parse functions |
| `Builder_all` | is any string lost or freed twice on a path, and what uses the scopes up? | 8 nodes, depth 5 |
| `Builder_ifchain` (violation) | is the `if` of the README translated? | 3 nodes |

**Bounds.** `MaxNodes`, `MaxDepth` and `MaxOperands` bound the program under
analysis. `MaxOperands` is the number of operands that wait for an operator or a
call at one time, in one expression frame: 3 holds an operator whose right operand
is an operator (`x + y * z`, `a < b + 1`) and a call with two arguments the second
of which is one; the three runs that look for a violation need no more than 2. The
hazards involve one or two scopes, two names, one nested function and an operator
over a call or an operator; 4 to 8 nodes contain each of them, as the
mutants (`PROJECT.json`), which are plausible bugs of the same code, show: each
property is violated by one within the run's own bounds. A source of 4
characters holds a number with a fraction or an arrow between words; one of 6 an
unterminated or closed block comment with a newline and a word after it. In
`Parser`, `MaxDepth` bounds the parse functions in progress, beyond which the
process may run out of stack (`Exhaust`); the length of the array is not bounded.
Five of them hold a function whose block has a statement with an expression, an
`else if`, or an array in a call; what the properties relate (a caller and what
its callee returns) spans two of them, and the proofs are for every depth. In
`Lexer`, `MaxOverread` bounds the characters taken beyond the terminator, and
`Source` is the finite set of sources.

**Fairness.** `Lexer` states `WF_vars(Next)` and `Compiler`
`WF_compilerVars(CompilerNext)`: the compiler is plain sequential code, so a step
that can be taken is taken. It gives `Terminates` for the lexer, and
`EndsWithInput` for the parser: once the input has ended, the parser stops,
unless a block or a call is open. (Before the end of the input the parser cannot
be forced to stop, since the array is open; that every iteration of a list
consumes a token is `IterationsAdvance`.) `Semantic` and `Builder` have safety
properties only. A run that has ended stutters by an explicit step (`Halted`,
`Over`), so that deadlock is checked everywhere.

### What the runs show

*Holds.* The loop counter agrees with the nesting through all paths;
no closed scope is found by a lookup, for names without `_`, except through a `for` label, which the
parser makes the same for all loops of a scope (`ForStatementNode::loc` is never
set); what a call is checked against is what the body was given; a function
node's type goes stale only by inference or by a `return` in a function whose
last segment is equal; types overwritten by the inference were unknown or
numbers. The tokens of a source without comments and strings partition its
significant characters; locations of words increase strictly though comments
miscount lines (by one each at most, and newlines in strings or after an `@` are
not counted at all); no index beyond the terminator is read
unless the source ends in `@` or a quote; `Lex` returns. In the C code a string
is freed at the end of some body or still in a scope, where it may stay for ever;
no path that enters each loop once at most frees a string twice, though a `break`
frees strings that are freed again at the end of other bodies (a path that goes
round a loop does free again); and a translation is defined as long as it leaves
one branch or `for` at most.

For the parser and what follows it, each property names the exceptions; outside
of them it holds.

* It reads the same token for ever in two places only: at the end of the file in
  a block without its `}` (`:404`), and in a call one of whose arguments begins no
  expression (`:206`). The check of the entry point's list (`:806`) is never
  needed.
* It reads past the array in five places only: behind an extern function whose
  name is the end of the file, in the header of a `for` that ends there, in the
  upper bound of a range whose `:` is the end of the file, at an `else` behind a
  block which the end closed after an error, and at the statement which `Parse`
  looks for behind an entry point in braces.
* In a program with no error and more input to come, a child of the tree is null
  or unset in five cases: the value of a typed variable, the blocks after the
  headers of branches and of loops, a `for` with neither `->` nor `:`, and the type of
  an extern function's parameter.
* The parser follows a null after an error, at the end of the file or for an
  array parameter of an extern function; the analyser, after an error or in a
  program that ends in the middle of an expression; the back end, in a program
  that ends too early, has a variable without a value, a loop without a block or
  such a `for`.
* The brackets of a compiled program match, but for the leniencies of the parser:
  names that are not checked, the `:` of a range, an `if` or a collection given up
  at the end of the file and the header of a `for` with neither `->` nor `:`.

*Does not hold* (`findings` in `PROJECT.json`): `extern` functions can only be
called without arguments; a `break` in a function nested in a loop is accepted;
a mixed collection is reported and compiled; `!=` is never a token; an `if` with
an `else` is undefined behaviour in the back end.

## Proofs

The theorems hold for all values of the constants that satisfy the assumptions of
the modules (in `Semantic`: names are non-empty sequences of atoms, positions are
atoms, types and parameters are what their names say; in `Lexer`: letters, digits
and symbols are different characters and the terminator is in no source; in
`Parser`: tokens are of the kinds listed; bounds are naturals). `Semantic` also
assumes that a position is in no name and no label, and `:` in no name
(`IdentifierAssumption`): an identifier is made of letters, digits and `_`
(`Lexer.cpp:72-77`), and a position has a `!` (`Semantic.cpp:17`).

| module | theorem | statement |
|---|---|---|
| `LexerProofs` | `TypeCorrect` | `Spec => []TypeOK` |
| | `ReadsBounded` | `Spec => []ReadsInBounds` |
| | `WordLocs` | `Spec => []WordLocsIncrease` |
| | `Drift` | `Spec => []LineDrift` |
| | `NothingDropped` | `Spec => []NothingLost` |
| | `WordsExact` | `Spec => []WordsAreRuns` |
| `ParserProofs` | `TypeCorrect` | `CompilerSpec => []TypeOK` |
| | `NullsReported` | `CompilerSpec => []NullsAreReported` |
| | `ListsAdvance` | `CompilerSpec => []IterationsAdvance` |
| | `ParserCrashes` | `CompilerSpec => []CrashesExplained` |
| | `AnalyserCrashes` | `CompilerSpec => []AnalyserCrashesExplained` |
| | `BackEndCrashes` | `CompilerSpec => []BackEndCrashesExplained` |
| `TokenProofs` | `Overreads` | `CompilerSpec => []OverreadsAtEnd` |
| | `BracketsMatch` | `CompilerSpec => CompiledBracketsMatch` |
| `SemanticProofs` | `TypeCorrect` | `Spec => []TypeOK` |
| | `LoopDepthCorrect` | `Spec => []LoopDepthMatchesNesting` |
| | `StaleReadsLoose` | `Spec => []StaleReadsAreLoose` |
| | `SymbolsStable` | `Spec => SymbolsAreStable` |
| `ManglingProofs` | `SignaturesDrift` | `Spec => []SignatureDrift` |
| | `ParamsKept` | `PlainNames`, `KnownTypes`: `Spec => []ParamsKeepTheirTypes` |
| `ScopeProofs` | `ScopesSound` | `PlainNames`, `DistinctPlaces`: `Spec => []ScopeSoundness` |
| `BuilderProofs` | `TypeCorrect` | `Spec => []TypeOK` |
| | `NoneForgotten` | `Spec => []NoStringForgotten` |
| | `EachReleasedOnce` | `Spec => []ReleasedOnce` |
| | `OneScopeToLeave` | `Spec => []OneScopeOnly` |

**The invariant of the parser.** `Inv` adds to the properties what holds between
two frames of the stack. `Stacked`: each function is one the function below it
calls at the point where that one waits, so that a return goes on at a point
where its kind of result is expected. `NullExpressions`: while such a point
looks at a null result, an error was reported or the input is at its end; this
is what `NullsAreReported` and the crashes need, since null operands are passed
on and become children later. `Fresh`: while the index has not moved in an
iteration, the function on top is about to consume a token, or on the way back
from an expression that is null, or from a statement at the end of the file;
with it `IterationsAdvance` follows, and it is not inductive without `Stacked`,
which says whose result comes back. The driver's theorems add the two
properties of `Compiler`, which follow from `NullsAreReported` at the time the
tree is handed on.

**The invariant of the back end.** `Inv` says that there is one scope or, once it
has been left, none (`StringsInv`); that what is pending in it and what was freed
make up the strings declared; that a run is undefined only after the scope was
left (`StatusInv`); and what the paths have freed (`PathsInv`): until the scope is
left, only a path that left a `for` by a `break` has freed anything, and it goes on
where that `for` ends. So the end of a body, which frees the scope and leaves it,
is reached only by paths that have freed nothing; after it nothing is left to free.
`EachReleasedOnce` needs all of it, as the strings a `break` frees stay in the
scope. `BodiesInv`: the program stays at the bottom of the stack of bodies.

**The invariant of the analyser.** `Inv` is the conjunction of `TypeOK`,
`LoopDepthMatchesNesting` and `StaleReadsAreLoose`. Each part needs the first:
it says of the stack that an expression frame has only call frames above it,
hence that popping one never closes a loop, and that the key of a function frame
is in the table. `StaleReadsAreLoose` is what makes the inference harmless: an
operand recorded as unknown that names a variable still names, in the present
table, a function or a variable whose type is unknown or a number. It is
inductive because no key is entered while operands wait (`NothingRead`: the
frame on top of a statement has none below it), so that a name keeps the key it
had when it was read, and because the steps that change the type of a key, the
inference and a `return`, give it a number or change a function. `SymbolsStable`
then follows from `Preserves` for each action. The obvious stronger claim, that
a variable moves only from unknown to a number, is false: in `x + f(x + 1)` the
inner sum makes `x` an `Int` and the outer one overwrites it with the type of
`f`, say `Float`; the failed proof found the case, TLC confirms it.

**The invariant of the lexer.** `Inv` relates the tokens to the part of the source
that has been passed. `AllPassed`: the location of no token is beyond the present
one; a word moves the column, so that what follows it is later, which gives
`WordLocsIncrease`. `Partition` is `NothingLost` for the characters before the
index, with the spans of all tokens before it too, without which the next token
could cover a character twice. `Words` says that the words so far are the runs
that end before the index, and that the index is not inside a run: a step must
not begin in the middle of one. `LineDrift` and `ReadsInBounds` are inductive
with the types. The branch taken last in the code (a character of no kind) needs
that the classes of characters are disjoint, and each inner loop that its end
exists (`RunEndFacts`, since the terminator is in no class).

**The invariant of the reads past the end.** `EndInv` follows `cur = "beyond"`
through the points of the parser. `Led`: at the point where a function begins,
the token is the one its caller looked at, so consuming it cannot consume `EoF`.
`LookAhead`: a token looked ahead at is in the array, hence not taken by an
unchecked read. `Beyond`: past the end the parser is where `EoF` was taken for a
name, a type or a `:`, or has reported an error and is on its way out through
lists that check. None of these is inductive without `Inv` of `ParserProofs`,
which says where a return goes on.

**The refinement of `Brackets`.** What is open is what the functions in progress
hold, one after another (`OpenOf`). A step changes the top of the stack only, so
that it is enough to know what is below it (`Rest`, which stays) and what the top
holds afterwards (`Holding`); there is one lemma per form of step, and each action
says only that the token it consumes turns what its point holds into what the next
one holds (`Takes`), or that an error is reported or the leniency marked
(`Passes`). Three facts are needed besides. `EndInv`: a block is closed by the
end of the array only after an error, the list of arguments never, and the tokens
consumed without a look (`Led`) are those the caller saw. `Nested`: an array type
of an extern function consumes a `[` nobody closes, which `lax` marks. `Closed`:
the parser is done in `Parse` itself, where nothing is open (`NothingOpen`), at the
end of the file or after an error; the entry point without braces leads there
because its list ends at the end of the file only (`Fresh`). `BracketInv` is the
conjunction of the last two.

**Keys that are held.** The types of a symbol change in two places: the inference
of an operator (`:126`), which looks up the name of an operand that was read as
unknown some steps before, and a `return`, which looks for a function by the last
segment of its prefix (`:371-:390`). `Base` says what prefixes look like:
`FunctionsNamed`, the key of a function ends in its name; `BodiesOpen`, the prefix
under analysis is empty, ends in `:` or in a position and `_` (the label of a
branch or loop), or is the key of a function under analysis and `_`, which no
other frame analyses. A label ends as no identifier does, so a `return` in a
branch finds no function. `StepSettles` is about any set of keys, the *held* ones:
when no waiting operand was read as unknown from one of them (`ReadsAvoid`) and
their types are known, a step leaves them as they are, but for a function that a
`return` settles, and no operand waits for one of them afterwards.

**The invariant of returns.** `ReturnInv` holds the functions whose node has a
type and that have no *twin*, another function of the same last segment: the
`return` of the function under analysis settles that one, whose node has no type
yet, or one with a twin. `Drifts` is `SignatureDrift` in terms of twins.

**The invariant of parameters.** `ParamInv` holds the keys of parameters. They are
not functions, so nothing changes them (`ParamKept`). What is left is the
definition of a function: that its parameters enter the table (`:312` ignores
whether they do) needs that no key of their form is there. `KeysRooted`: a key
`f_x` is there only if `f` is, or `f` ends in a position; and the key of a new
function is not (`:297`). Two hypotheses are needed. `PlainNames`: no name has a
`_`, so that a key has one last separator; with `_` in names the property is
false (`hazards`: `f` with `x_y`, and `f_x` with `y`). `KnownTypes`: the
declarations of parameters name a type, which the parser checks
(`Parser.cpp:451`). `Semantic_calls` is an instance of both.

**The invariant of scopes.** `ScopeInv` says what the prefixes of the frames are,
one per scope that is open. `OneScope`: two frames with one prefix are of one
scope, and at most one of them is a body. `LabelsOpen`: a prefix, cut after any of
its `:`, is the prefix of a frame; these are the prefixes `FindVariableInScopes`
tries, so it searches open scopes only. `Owned`: a symbol under the prefix of a
frame is of that frame's scope. The rest is what a body needs to be opened under a
prefix of its own, under which the table has nothing. For a function this is
`KeysRooted`. For a branch or loop it is `Unlabelled`: the positions of the nodes
to come, and of the conditions under analysis, are in no key and no prefix yet. For
an `else`, whose label has no position of its own, it is `ElseAhead` and
`ElseFree`: while the `then` is under analysis, its prefix followed by `else:` is
nowhere. All of it excepts keys with the label of a `for`, as the property does.
There are two hypotheses. `PlainNames` again: with a
`_` in names it is false, as `y` in a function `f_x` would find what `f`, closed,
declared as `x_y`. `DistinctPlaces`: no two nodes are at one place;
only the places of `if` and `while` are used, and these are the locations of the
words (`Parser.cpp:578`, `:606`), which are distinct (`WordLocs`). Every instance
of `MCSemantic` has distinct places, and `Semantic_scopes` satisfies both.

**Layout.** Lemmas about the operators come first (lookups, prefixes, stacks
that are pushed or popped, and for the parser one lemma per form of step), then
one lemma per action that says it keeps the invariant, then one per group of
actions, then the theorems.

**Only model-checked.** Liveness (`Terminates`, `EndsWithInput`) is out of the
prover's reach, as are `ENABLED` and induction over data (what a fold or recursive
definition computes for every input). Where an argument by induction over numbers
was needed (the end of a run, the first function with a segment, the function by
which `FlattenSeq` is defined) it is made from the least number with a property,
which `CommonLemmas` proves to exist. No module uses a `RECURSIVE` operator.

## Not modelled

Parse functions that nothing calls (`Parser.cpp:114-184, 297-317`: `bring`,
namespaces, method calls and the assignment of variables), and the handlers no
parse function feeds (`Semantic.cpp:155-160, 268-293, 331-363`,
`builder.cpp:124-136`). The precedence and shape of expressions, the names,
literals and positions in the tree, the text of the C code of expressions and
types: none of the properties tells them apart. File and console I/O, the
arguments and timings of `main`, the wording of messages, the build files, the
editor grammar and the install script: no state of the compiler. What `Semantic`
and `Builder` do is not repeated in `Compiler` beyond errors and nulls; a product
of the three machines would walk the same tree three times and add no state they
share, as the tree and `hasErrors` are all that is passed on.

## Plan

1. (done) `Semantic`, `Lexer`, `Builder` with their runs; the theorems about
   `Semantic`.
2. (done) `Parser`, `Compiler` and their theorems; the abstract specification
   `Brackets`; the theorems about `Builder`.
3. (done) `OverreadsAtEnd`, `SignatureDrift` and the theorems about `Lexer`.
4. (done) `ParamsKeepTheirTypes` for names without `_`.
5. (done) `ScopeSoundness` for names without `_`.
6. (done) `CompiledBracketsMatch` as a theorem.
