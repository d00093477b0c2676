# A specification of the Aspect compiler and its library

TLA+ models of the parts of Aspect (`src/`, a compiler for `.ap` programs written
in Rust, with a standard library written in Aspect itself) whose behaviour is a
protocol: a long sequence of legal steps that must keep several pieces of state
consistent. Each module names the code it models; the checks and proofs below say
what holds of it.

## 1. The system

| component | code | state it keeps | operations | made correct by |
|---|---|---|---|---|
| preprocessor driver | `src/src/preprocessor/mod.rs` | file registry, declared module per file, stack of file contexts, import edges, brace depth | walk a line; enter and leave a file | every file is walked once, imports nest, the walk ends |
| module resolution | `.../preprocessor/modules.rs` | set of imported modules | `$module`, `$import` | import-once, whole modules, one declared module per file |
| conditional chains | `.../preprocessor/conditional.rs` | stack of frames | `$if*`, `$elseif*`, `$else`, `$endif` | one live branch per chain, chains do not span files |
| define table | `.../preprocessor/defines.rs` | name -> list of defines with origin | `$define`, `$undefine`, `-D`, lookup, expansion | module scope, globals are final |
| `$if` expressions | `.../preprocessor/expr_eval.rs` | none | expand, evaluate | an `$if` means what the same text means in the program |
| lexer | `src/src/lexer` | scanner position | next token | losslessness, maximal munch |
| parser, symbols | `src/src/parser`, `src/src/symbol` | token cursor, module tables, scopes, pending bodies | two passes over the tokens | order-free verdict, visibility, no layout cycles, recovery within a body |
| type checker | `src/src/typechecker` | scopes, value blocks, expected types | check a node | what it accepts can be lowered and keeps its numbers |
| code generator | `src/src/codegen` | LLVM module, block, scopes, loops | emit a node | names mean what they meant to parser and checker; every block ends once; folding and instructions agree; a value survives every copy |
| driver | `src/src/main.rs`, `target.rs` | options | compile, link | I/O |
| allocator | `src/lib/std/mem/generic.ap` | heap region with boundary tags, free list | malloc, calloc, realloc, free | the tiling, the list, the callers' contents |
| page seam | `src/lib/std/mem/page/*.ap` | address space | reserve, commit, map, release | external to the allocator |
| library | `src/lib/std` | map, vector, string, output loop | puts, pushes, prints, integer functions, sort | each keeps its user's promise, growth and short writes included |

Interaction. The driver seeds the define table (`-D`), then calls
`Preprocessor::preprocess` on the entry file. The preprocessor is one sequential
walk; an `$import` suspends the importing file and walks the files of the module,
recursively, so file contexts, pending imports and conditional chains form three
stacks that move together. Conditions and substitutions read the define table
through a view that depends on what the current file has declared and imported so
far. The token stream and the import graph go to the parser, which reads every
declaration, sets bodies aside and comes back for them. The tree then goes to the
checker and to the code generator. Names stay names in the tree: parser, checker and
generator each resolve them again, with scope stacks of their own.

There are no threads. What is hard here is order: facts that are recorded early and
judged late (a file's module, its imports, a body set aside), invariants one
operation leaves to all the others (the chain stack, the boundary tags, the empty
slot of the map), and work that is done twice and must agree (three scope stacks,
folding and instructions, `$if` and the expression grammar).

## 2. The modules

| module | models | how |
|---|---|---|
| `Conditionals` | `conditional.rs` | `frames` is `ConditionalStack::frames`; one action per directive; `tests` is a history of the branch conditions |
| `IfExpressions` | `expr_eval.rs`, `defines.rs` (expansion), the operator table of `parser/expressions.rs` | a text of tokens and a table of defines, evaluated; beside it the parser's tree of the same tokens and what its operators mean |
| `DirectivesMC` (EXTENDS both) | | chains whose first condition is an expression |
| `Preprocessor` (EXTENDS `Conditionals`) | `mod.rs`, `modules.rs`, `defines.rs` | `stack` is `file_stack`, `seen`/`fileModule` are `seen`/`file_modules`, `edges` is `module_imports`, `loads` is the call stack of `load_and_verify_module`; one action per kind of line, and one for each point where the descent starts, goes on to the next file, or returns |
| `PreprocessorMC` | | a disk: two search roots, a file-form and a directory-form module, an entry file that is also a module's file, an ambiguous and a missing module |
| `Cycles` | `parser/cycles.rs` | `colors`, `cyclic` as in the code, `path` is the call stack of `visit`; one action per thing `visit` can do with one more part |
| `Program` (EXTENDS `Cycles`) | `parser/program.rs`, `declarations.rs`, `visibility.rs`, `type_expr.rs`, the tables of `symbol/module.rs` | `phase` is the point `do_parse_program` has reached; one action per alias tried, declaration parsed, part of the cycle walk, body parsed, and for the fill |
| `ProgramMC` | | three files in three modules and the programs of the run |
| `Statements` | `parser/statements.rs`, `switch.rs`, `expressions.rs`, the skip and the parse of bodies in `program.rs`, the recovery macros | `goals` is the parser's call stack: what is still to be parsed, scopes still to be left, places that catch an error; one action per kind of goal |
| `StatementsMC` | | the token sequences tried |
| `Bodies` | `scope.rs`, `symbol/table.rs`, `typechecker/checker/statements.rs`, `switch.rs`, `codegen/statements.rs`, `switch.rs`, `sums.rs`, `scope.rs` | each of the three walks over a function's body is an operator; the state machine runs the lowered blocks and the source in lock step |
| `BodiesMC` | | the bodies tried |
| `Values` | `typechecker/types.rs`, `checker/expressions.rs`, `codegen/value_emitter.rs`, `expressions.rs`, `globals.rs` | an expression is stamped, checked, and lowered three times: as a local's initializer, as an assignment, as a global's initializer |
| `ValuesMC` | | the expressions tried |
| `Layouts` | `codegen/sums.rs`, `structs.rs`: registration and layout | `bodies` is `sum_types`, `pending`/`waiting`/`tried` the rounds of `register_sum_bodies`; one action lays out or puts off a sum, one begins the next round |
| `Aggregates` (EXTENDS `Layouts`) | `codegen/sums.rs`, `comptime_eval.rs`, the aggregate paths of `functions.rs`, `statements.rs`, `switch.rs`, `globals.rs` | `slots` is memory as bytes: a global, a local and a parameter; one action per way to store, copy, pass, return or match |
| `AggregatesMC` | | the types tried |
| `LoweringMC` (EXTENDS `ValuesMC`, `AggregatesMC`) | | expressions and aggregates, each behaviour one of them |
| `BlockHeap` | `generic.ap`, as tiling | `blocks` maps header addresses to size and use; one action per call and path through it |
| `Heap` | `generic.ap`, word by word | `heap` holds memory and the `g_heap_*` globals; helpers are operators named after the functions; one action per public call |
| `Malloc` | the public functions' promise | objects: aligned, apart, contents kept |
| `HeapMC` | | the requests of the run |
| `Collections` | `MapStrI64.ap`, `VecI32.ap`, `String.ap` | each container beside the function, sequence or text its user was promised |
| `Output` | `std/io` | the write loop; the platform takes all, part or nothing, or fails |
| `Numbers` | `math.ap`, `rand.ap`, the number printers | algorithms that only compute, beside their definitions |
| `Sorting` | `sort.ap` | the array, the loop in progress (`run`) and the calls of `quicksort_range` that are still to be made (`calls`); one action per round of a loop |
| `LibraryMC` (EXTENDS the four and `BlockHeap`) | | the library's units side by side |
| `PreprocessorProofs`, `ProgramProofs`, `StatementsProofs`, `LayoutsProofs`, `BlockHeapProofs`, `HeapWordsProofs`, `HeapProofs`, `LibraryProofs` | | section 4 |

File contents are not enumerated up front: each step of `Preprocessor` chooses the
next line of the file on top of the stack, from the kinds a run lists (`Kinds`).
A file is walked at most once, so that is the same as choosing all contents before
the walk. Lines are abstracted to what changes state: a use of a name, a brace, a
directive with its operand, or a malformed one. There the value of an `$if`
expression is chosen freely, an error included; `DirectivesMC` gives it one.

`Heap` keeps the code's offsets, flag bits and word operations; only sizes are
scaled by constants. Words that nobody may read hold `Junk`, so a step that computed
with a stale tag or link would stop the checker instead of passing unnoticed.
Where the page seam can fail, an operator returns the set of its outcomes. The same
`Junk` fills what the containers' growth leaves unwritten.

`Program` keeps of a declaration what the tables and the gates see: its form, name,
file, `public`, the types it names in order, and the names its body or initializer
uses. Methods are the ones with a `this` receiver; signatures compare types and not
parameter names. `WellFormed` is the reference: what a program may say, with no
mention of passes, of rounds or of order except for initializers. It is written over
the declarations and never reads the parser's tables. `Cycles` takes roots and parts
in any order, where the code takes them in declaration order, so what holds of it
holds of every order; `rank` and `clock` are history, the order in which types turn
black.

`Statements`, `Bodies` and `Values` share one function body between them: the first
has tokens and no meaning, the second control flow and names but no types, the third
a single expression with types and bits. `Values` scales the widths 8, 32 and 64 to
`Narrow`, `Int32` and `Long`; `Long` is also the folder's carrier, as 64 bits are in
the code. What LLVM leaves undefined (division by zero, signed overflow where
the generator declares there is none, a shift past the width) yields `Poison`, about
which nothing is claimed; in `Numbers` the overflow of a library function's signed
arithmetic yields `Overflow`. A global's initializer may read other globals, const or not:
it is folded when they still have their start values.

`Aggregates` has memory where `Values` has numbers: a byte is named after what was
put there, so a value that comes back in the wrong place, or without its padding
bytes where they mattered, is not mistaken for the right one. LLVM's own layout rules
and its loads and stores of aggregates are external. `Layouts`, which it stands on, scales
a pointer to `PointerSize` bytes, and one byte of tag to `TagStep` variants.

## 3. What the runs check

| run | question | bounds |
|---|---|---|
| `conditionals` | Is the top frame enough to decide liveness; is exactly the first true branch live; does an `$if` expression mean what the parser would read? | 2 files, 3 open chains, 3 branches each; 80778 pairs of a token sequence and a table of defines; words of 8 bits |
| `walk` | Do chains stay within files, imports nest, imported files start live; does the walk end under import cycles; does it drive the stack as `Conditionals` allows (`StackSpec`)? | 4 files of 3 lines, 4 modules (one ambiguous, one file unreadable), chains 2 deep |
| `scoping` | Is substitution scoped by the final modules and the final graph; are globals final; are imported modules whole? | 4 files of 3 lines, one name, one `-D`, a missing module |
| `heap` | Do tags, links, owners and mappings agree; do callers get what `Malloc` promises; is every call a move of `BlockHeap`? | 160-byte reservation, 64-byte chunk (growth in full, cut down and refused all happen), 3 allocations, 2 mappings |
| `program` | Does the parse accept exactly the well-formed programs in whatever order they are written; does an alias launder visibility; does each function get its own body; are layout cycles found and nothing else? | 2860 programs over 3 files in 3 modules (root imports mid imports hidden) and 3 type names: every order of up to 3 of 10 alias, type and global declarations and of 12 functions, globals and types with methods; every containment graph over a type-struct, a sum and a type-struct |
| `statements` | Is every scope left, whatever fails; does recovery stay in its body; is an accepted body read to its end; is each body judged alone; does every parse end? | every sequence of up to 3 tokens as a body, and every single edit of six sound bodies that use all constructs; a second function after it, sound or broken |
| `bodies` | Do parser, checker and generator resolve every name alike; do the lowered blocks do what the source says; does every block end in one terminator? | every pairing of statements that end a path with every loop, fork, switch and value block, two deep, in functions with and without a result; every pair of things to do with a name in every construct that opens a scope, two deep |
| `headers` (violation) | Do the names of a `for` header mean the same to all three walks? | as `bodies` |
| `lowering` | Do folding and instructions agree; is everything accepted lowered; is a number that fits kept; is a bool 0 or 1? Is every sum laid out, in whatever order they are declared; does a variable, parameter, global or binder read as what was last put there? | widths 3, 4 and 5 bits; every operator over every two leaves at the ends of seven types, and two levels of operators over seven leaves; 61 programs and orders of declaration: sums of up to three variants (and one of five, whose tag takes two bytes) over scalars, pointers and arrays, sums and type-structs in each other up to four deep, and members of no size; every sequence of 4 steps |
| `folding` (violation) | Do folding and instructions agree for every operator? | expressions as in `lowering` |
| `constants` (violation) | Does the constant of a global sum lie as its readers expect? | types as in `lowering` |
| `library` | Is the map a function; do vector and string hold their items through growth; is output neither lost nor repeated, and does a print return; do the integer functions, number texts and the sort do what they say; is the allocator's region always tiled and merged? | maps of 8 slots and up to 8 keys (all in one slot, all spread, two runs that meet); 6 items and initial capacities 0 and 6; four prints; words of 6 bits, all arguments; arrays of up to 7; a region of 17 units, blocks of at least 2, three request sizes |

The bounds are small but each reaches the cases that differ. Three frames give a
chain inside a skipped chain inside a live one; three branches give a true branch
after a done one; three lines give a directive before and after `$module` and
`$import`; two files in a directory module give the judgement of a partly loaded
module. Four minimum blocks give a merge on both sides at once; two mappings give a
realloc from one into the other. Three declarations give an alias of an alias of a
type in every order, hence two rounds of the fixpoint and a round that resolves
nothing (cyclic, dangling, duplicate aliases); three modules in a row tell a direct
import from an indirect one; three types give self-containment, cycles of two and
three, diamonds, and a second root that reaches explored types. One edit of a sound
body unbalances any one brace, ends any one construct early and puts any one token
where it does not belong; with two functions the damage has somewhere to spread.
Widths 3, 4 and 5 keep three types apart with something to sign-extend, truncate and
overflow between them. Eight keys in eight slots force the map to grow before it is
full; seven elements make the sort partition, and partition a part again, before it inserts.
Ranges of up to three are inserted, where the code inserts up to sixteen. Alignments 1, 2 and 4
leave padding behind a tag, inside payloads and behind them, and four types deep need
three rounds to lay out; four steps are a store, a call, a change of the parameter and
the return.

Fairness. Three properties need any. `Termination` (`FairPreSpec`) assumes weak
fairness of the preprocessor's step, which is one sequential loop over finite files
in one thread (`process_tokens` always either consumes a token, returns or fails);
`MaxLines` is what makes files finite in the model. `Terminates` assumes that the
parser's loop goes on while there is something left to parse: it waits for nobody.
`PrintsReturn` assumes that the platform's write returns; it may return zero, a part
or an error forever.

Every property has a mutant: the operators marked "Slip" in the modules are
plausible errors in the code they stand next to, and each breaks the property it is
paired with.

## 4. What is proved

TLAPS checks the theorems for all values of the constants that satisfy the modules'
assumptions (`BoundsAssumption`, `DiskAssumption`, `RegionAssumption`,
`RegistryAssumption`, `ProgramAssumption`, `MangledAssumption`, `NamesAssumption`,
`TapesAreTokens`, `HeapAssumption`, `RequestAssumption`, `MappingAssumption`,
`KeysAreNotNull`, `WantedAreCounts`, `PrintsAreBuffers`, `ArraysAssumption`,
`ProgramsAssumption`, `SizesAssumption`); the theorems
on containment graphs assume nothing, not even that there are finitely many types.
`MangledAssumption` is what `mangle_method` relies on: `$` is a token of its own, so no
program can write the name of a method's function. `NamesAssumption` says that the
dash the reading uses for "nothing" is no type. `HeapAssumption` says what the
allocator's constants are in the code: pages of 16 bytes and more, a reservation and a
chunk of whole pages. `RequestAssumption` is about callers: they ask for whole words,
because that is how the model divides memory, and for nothing within a page or so of
2^64, where the rounding of a size would wrap around (section 5). `MappingAssumption`
is the platform's part: a mapping is page-aligned, not at 0, and not inside what is
reserved. `ArraysAssumption` says what an array is, that its comparator orders by a key
(the comparators of `sort.ap` do, but for NaN), and that elements with equal keys can be
told apart, so that none can be lost or doubled unseen. `ProgramsAssumption` is what the
parser leaves to the code generator: finitely many types, a sum with at least one variant,
and no nonempty set of types each of which stores a member, which is
`AcceptedLayoutsEnd`. `SizesAssumption` says that there are the sizes tags and pointers
have, and that of two sizes one divides the other, as among 1, 2, 4 and 8.

*Chains* (`PreprocessorProofs`, first part). `StackInv` is typing together with
`ParentFoldsOuter` and `FirstTrueBranchWins`; it is needed as a whole because a new
frame's `parentActive` is computed from the top frame only, which is right only if
the top frame's own `parentActive` is (lemma `TopDecides`). Opening appends a frame
(`OpenKeepsInv`), continuing rewrites the last one (`TopUpdateKeepsInv`), closing
drops it (`EndIfKeepsInv`). The theorems are stated for `StackSpec`, which speaks of
the stack only, so they carry over to every system that drives the stack that way.

*Walk* (`PreprocessorProofs`, second part). `DriverKeepsStack` shows that every step of the driver
is a step of `StackSpec` or leaves the chains alone, so the theorems on chains hold of
the driver too. `ChainsNeverSpanFiles` and `ImportsAreLive` follow from `WalkInv`,
which adds to them what makes them inductive: the depths recorded when files were
entered (`base`) grow along the stack (`BasesNest`); no file is on the stack twice
(`WalkedOnce`) and a file not yet seen has opened no chain (`FilesAreSeen`), so a file
about to be entered owns none of the open chains; and between an `$import` and the
return from it all chains are live (`IdleIsLive`), which holds when the `$import` is
obeyed because live text means every chain is live (`TopDecides`), and again when a
loaded file is left because it must have closed its own chains.

*Imports* (`PreprocessorProofs`, second and third part). `ImportsAlwaysNest`: the files
being walked and the imports being loaded form one nest. What makes it inductive is
that a module is marked before its loading starts, and that what an import has still
to load is part of what its module is made of. `WholeModules` is the result a user
relies on: when the walk has ended, every imported module has all its files walked,
each declaring that module. A file of an imported module is accounted for at any
time: its verdict is final, or it is still to be loaded, or it is being walked on
behalf of the import. The hard case is an import cycle that asks about a file that
is still being walked; that verdict is final because a file declares once.

*Scoping* (`PreprocessorProofs`, third part). `GlobalsStay` and `SubstitutionsAreScoped`. A global
define has its name for itself, because a `-D` is refused when the name is taken and a
`$define` collides with every global; so nothing appends to its list and filtering the
list keeps it whole (`DefsInv`). A substitution is judged by the modules the files have
in the end and by the finished graph, but it was made by what they had declared so far
and by what the file on top of the stack had imported. `GraphInv` relates the two: the
graph says of the files that were left exactly what they imported, the stack says it of
the others, and what a file took it still sees (`StillSeen`). The step that endangers
this is `$module`, which moves a file and its defines out of the anonymous module.
Whoever took a define of it while neither had declared was entered after it; so it is
still above it on the stack, and the file is not the one that declares, or it was left,
and only a file that has declared is left without an error. That the filter keeps
exactly the members it should, in their order, is `KeptFacts`; the recursive function
behind it is shown to exist by a least counterexample, since the induction theorems of
the library cannot be instantiated.

*Containment* (`ProgramProofs`). `NoCycleEscapes` says that a finished walk leaves no
nonempty set of unreported types in which every member stores a member. The inductive
invariant behind it: the gray types are exactly those on the stack, each once, and
each was entered from a part of the one below, so the stack is a chain by
containment; a part of a gray type is still to be looked at, is the next type on the
stack, is black, or is reported; and a part of a black type is reported or turned
black before it. At the end all types are black, so in any set of unreported types the
one that turned black first stores no other: this needs the ranks, and a well-founded
minimum. `OnlyCyclesReported` uses the chain: a type re-entered while gray is on the
stack below the one that stores it, so containment leads from it back to itself.

*Tables* (`ProgramProofs`). `AliasesDoNotLaunder`, for every program and import
graph. What stands behind a name is fixed when it is registered: an entry keeps its
kind, its file and its `public` (`TablesGrow`), and an alias stands for a builtin or
for a type that is no alias, so the two gates of `resolve_named_type` are enough. The
one type no gate has looked at, the receiver of a method, is the type under
declaration: it is declared where it was reserved, because a type that is not defined
yet has its first declaration still before the cursor (`ReservedInv`).
`AcceptedLayoutsEnd`: in an accepted program no nonempty set of types stores only
into itself. The walk runs on the parts the finished tables give; whatever it reports
stores itself, so some type stores it, so it is a declared type and its report an
error. `ParseFindsEveryCycle` and `ParseReportsCycles` carry the two theorems on the
walk over to the parse.

*Completeness* (`ProgramProofs`). `AcceptedPrograms`: the tables keep their
shape; in an accepted program every reserved type is defined, and every function that
shares its name with no other holds the body at its own site. Types: one that is not
defined has its declaration still before the cursor, and pass 1 ends when nothing is.
Bodies: until the fill, whatever is set aside and whatever has been parsed belongs to
a function of its name and site, and every function written with a body is set aside
or parsed under its name (`FilledInv`); so where a name has one function only, the
body found under it is the right one, and an extern of such a name finds none.

*The verdict* (`ProgramProofs`). `VerdictsAreOrderFree`: for every program, however
long, and every module graph, the parser accepts exactly what `WellFormed` says, a
reading of the declarations that knows no prescan, no rounds, no pass and no cursor.

The heart of it is that two ways to follow aliases agree. The reading recurses, the
parser registers aliases in rounds until a round resolves nothing. What is registered is
ranked, an alias of an alias later than what it stands for (`AliasInv`), so the recursion,
which may follow as many aliases as there are declarations, ends where the table's entry
points (`StandsAsRegistered`). And when the rounds have ended, nothing that is left
resolves; but if all types written may be named, then among the aliases left over one
takes the fewest aliases to follow, its target is registered, and it would resolve. So
none is left (`NoneIsLeft`).

Soundness: entries only gain their parts (`Grow`), so what resolved when the cursor passed
it resolves to the same in the end (`HeadsInv`); the function and global tables are the
declarations passed, and no method gets into the way of a name (`FunctionsInv`,
`GlobalsInv`); initializers were judged by the tables of their moment and bodies by the
full ones, and every body is either still set aside or was parsed (`InitializersInv`,
`BodiesInv`). Completeness (`CompleteInv`): of a well-formed program no declaration is
refused and no body fails, and the walk reports nothing, because a type that stores
itself is one of a set of types each of which stores a member of it (`EndlessLayout`).

*Recovery* (`StatementsProofs`). For every sequence of tokens: `ScopesAlwaysClose`,
`RecoveryStaysInItsBody` and `AcceptedBodiesAreRead`. The goals are the parser's call
stack, and two kinds of them are debts: a scope to be left and a brace to be read.
`StatementsInv` says that the scopes are owed exactly (`Within`), whether or not an
error is on its way, and the braces at most: at least as many braces as the goals
still owe are open at the cursor, counted from the brace the body begins with
(`Inside`). Only the goal for a closing brace reads one; recovery stops before them
(`RecoveryOn`), and an opening brace that it skips adds to what is open. At the end
of a body nothing is open, and inside it the body's own brace is owed, so the cursor
cannot get past it. While no error was reported the braces are owed exactly, and so
the last brace read is the one that balances the first. A list that is read again as
a value block goes back to where the count was right, which is why the invariant
keeps with each mark what was owed there (`MarkOK`).

*Layouts* (`LayoutsProofs`). `SumsAreLaidOut`: for every program the parser accepts and
every order of its sums, the rounds end with each sum laid out, no body was computed from
a sum still opaque, and every payload lies in field 1, aligned. A layout is a function of
the names that recurses into what a type stores; that there is one, and only one, follows
from containment that ends, by a set of names without a solution that would have a
smallest member (`Recursion`). The generator computes it anew for each sum, while other
sums are still opaque, and what it computes from them is wrong without an error. So the
invariant (`LayoutInvariant`) is that a body once set is the body its sum has from then
on: it is only set when everything in its payloads is ready, and what is ready keeps its
layout when another body is set, directly, through type-structs or in arrays
(`ReadyStays`, `SumStays`). The rounds cannot get stuck: as long as a round has set no
body, all it has put off is not ready; but as containment ends, among the types that are
not ready one stores only types that are, and it can only be a sum that could have been
laid out (`SomeSumIsReady`). That payloads fit is arithmetic on alignments: the storage is made of
units as wide as the largest, which cover the largest payload (`UnitsCover`), and of two
alignments the larger is a multiple of the smaller (`LargerIsMultiple`, `SumBodyFits`).
The steps of `Aggregates` that use memory leave all of this alone.

*Tiling* (`BlockHeapProofs`). `BlockInv` is the tiling, the coalescing invariant and
the minimum size, together: releasing merges with at most one neighbour on each side,
and the result has no free neighbour only because the old region had no two free
neighbours; placing leaves its remainder unmerged for the same reason. All
operations replace the blocks between two boundaries by a small tiling; `RetileGood`
says when that is sound, `FreedGood` and `PlacedGood` are the two uses of it.

*The allocator's words* (`HeapWordsProofs`). Each helper of `generic.ap` is shown to do
to memory what its name says. `At(H, B, X, K, o, D)` is the heap in the middle of a
call: the tags of H describe the blocks B, the free list holds exactly the blocks X,
linked both ways, the words in K are still what they were in o, and nothing but the
region and the words D is mapped. B and X differ inside a call, when a block is free by
its tags and not yet, or no longer, on the list. A lemma for each helper says how it
changes B and X: `heap_fl_insert` and `heap_fl_remove` change X only, `heap_coalesce`
takes the neighbours from X and makes one block of them, `heap_place` splits,
`heap_extend` turns the old epilogue into a block, or into the end of the free one
before it. K is why callers' contents survive: it holds their words, no tag
and no link lies in K, and besides tags and links the allocator writes only what `calloc`
clears and `realloc` copies, into an object of its own. The list and the walk from block to block are recursive functions over
`Steps`; the list is at most as long as there are blocks, and each block has 32 bytes
(`FlNodes` and `BlockWalk` therefore end in time). First fit either returns the first block that is
large enough, or there is none.

*The allocator's callers* (`HeapProofs`). `HeapInv` is the inductive invariant: there
are blocks B and mappings T such that (`Sys`) the words are B at rest, with no two free
neighbours and the free blocks listed (`Rest`); every pointer a caller holds owns a used
block, or a mapping that records its length, large enough for its object; and every used
block and every mapping has such an owner. Neither half stands alone: `free` reads the
tag before whatever pointer it is given, so it is right only because pointers own
blocks; and pointers own blocks only because merging and splitting leave used blocks
alone. Each call keeps it (`SysMalloc`, `SysFree`, `SysRealloc`, `SysWrite`), on all of
its paths: set-up on the first call, growth in full, cut down or refused, the four ways
of `realloc`, mappings in and out. Each call also does to the blocks, the owners and
their contents one of six things (`Idle`, `GivenAt`, `ReturnedAt`, `RelocatedAt`,
`ResizedAt`, `WrittenAt`), and the two refinements read off from these:

- `HeapSound`: `HeapIsSound`, that the list, the tags and the owners agree, computed
  from the words themselves. That the computed view is the one in the invariant is
  `BlocksAre`: from a region's words the blocks can be read in one way only.
- `HeapImplementsBlocks`: each call is a move of `BlockHeap`, or leaves the tiling as it
  is. Growing for a request and then placing it is one move; moving an object in
  `realloc` is a take and a release in one.
- `HeapKeepsPromise`: callers see `Malloc`. That objects stay apart needs the owners,
  that contents stay needs K, and that `realloc` carries the common part over is
  `Carried`; it copies before it frees, so the old object's words are still its own.

*Library* (`LibraryProofs`). `StoresHold`: vector and string hold what was put
into them, for contents of any length and whatever memory is handed out. Growing
keeps every cell there was and yields room for what is needed, the string's
terminator included; what is written is written behind what is stored.

`MapsAreFunctions`: the hash map answers as the function its puts define, for every hash
function, any number of puts and any capacity asked for. The invariant says where a key
lies: d slots from its hash on, with no empty slot before (`Placed`), which is the first
place a search for it stops (`HeldIsFound`). A new key goes into an empty slot, so it
empties none that a search passes (`KeyAdded`); growing is one such insertion per key
(`SlotMoves`), into a table twice as large. Probing tries every slot once
(`ProbedSlots`, which is where the remainder comes in), and the load stays below 70%, so
there is an empty slot (`EmptySlot`, by counting) and every search ends. Counts are
natural numbers here: the products with 10 and 7 do not wrap.

`ArraysAreSorted`: an array of any length comes out with the elements it had, in the
order of their keys, for every cutoff. `SortInv` needs no induction over the calls: at
any time two elements are in order unless one range that is still to be sorted, by the
loop in progress or by a call to come, holds both (`OrderedBut`). These ranges lie within
the array and apart, so a swap inside one does not disturb the order across it
(`SwapKeepsOrder`). Insertion ends with its range in order; the partition replaces its
range by two, with everything less than the pivot on its left and the rest on its right;
and a range of one element, or of none, may be dropped (`FewerRanges`). That no bound
steps below zero or leaves the array is part of it.

`PrintsComeOutOnce`: what is out is always the buffers before this one and the bytes of
this one that are done, whatever part of a write the platform takes.

Only model-checked, and why:

- `Termination`, `Terminates`, `PrintsReturn`: liveness under fairness.
- `BodiesAreJudgedAlone`: it compares with a parse of each body by itself, which is a
  run of the parser and not a definition to reason about.
- `IfAgreesWithTheParser`, all properties of `bodies`, those of `lowering` but for
  `LayoutsSettle`, and the integer functions: their modules are built from recursive
  operators over syntax trees, token sequences, values or words, and what they say is an
  induction over that data.

## 5. Where code and comments disagree

Three runs exhibit a disagreement:

- `headers`: a declaration in the body of a `for` captures the name in the increment,
  in the generator only (`codegen/statements.rs:504`), although
  `doc/compiler/02-parser.md:230` says that `for` headers implement their scoping in all
  three walks. `for i32 i = 0; i < n; i += 1 { i32 i = 7 }` increments the inner `i`.
- `folding`: the constant folder divides, takes remainders and shifts right with the
  operands zero-extended (`codegen/value_emitter.rs:483`), so `i32 x = -8 / 2` is
  2147483644 and `x = -8 / 2` is -4, although the file's header says both emitters do
  identical arithmetic.
- `constants`: a sum in the payload of a folded sum is an anonymous constant with an
  alignment of its own, so it does not lie where the storage type has it
  (`codegen/comptime_eval.rs:85`), although the comment above the function says that
  explicit padding pins every offset. With `sum Inner { Small(u8 x)  Big(i64 y) }` and
  `sum Outer { V(u8 a, Inner s)  N }`, the global `Outer g = Outer.V(7, Inner.Small(1))`
  has the inner sum at offset 1 of its payload, and a match reads it at 8.

What else was met while modelling. Where a model contains it, a property excepts it
by name (in parentheses); the rest is outside the models.

Preprocessor:
- A file that imports two modules defining one name sees both, and the module loaded
  first wins (`defines.rs:284-287`); the comment says at most one entry is visible.
- A `$define` before the file's own `$module` moves home with it, and may then collide
  with a define already there (`defines.rs:172`, comment at `:65`).
- A file whose `$module` follows an `$import` that leads back to its own module is
  judged before it has declared anything, and rejected (`modules.rs:145`, `mod.rs:126`).

Parser:
- Of `extern fn f` and a later `fn f {..}`, the declaration takes the body and the
  definition is left empty in `Program::functions` (`program.rs:83`); an `extern` after
  the definition replaces its symbol without a comparison. `VerdictIsOrderFree` is
  stated for programs without such a pair (`NoRedeclaration`).
- `parse_brace_expression` says a failed attempt leaves no side effects; errors
  collected by `sync!` inside it, and names bound by `is`, stay. Nested braces are
  parsed again at each level, so the time is exponential in the nesting.
- `return }` on one line is an error, and so is `;` alone. Recovery does not stop
  before `switch` or `case`.

Bodies:
- In an initializer `T x = ..x..` the inner `x` is the new, uninitialised variable for
  the generator, and the outer one for parser and checker (`ReadsItself`).
- Statements after a plain `return` of a function land behind the block's terminator
  (`ReturnsEarly`).
- `codegen/functions.rs:354` relies on the checker for "all reachable paths returned";
  `check_function` never asks, only value blocks are checked. `BlocksEndRightly`
  therefore claims the end of a function unreachable only in value blocks.

Values:
- A negative number folded for a global wider than the expression is zero-extended
  (`ZeroExtendsSign`).
- `u64 x = -1` is accepted; `x = -1` is accepted and then refused by the generator
  (`NegativeForUnsigned`).
- Arithmetic on bools, `~` and `as bool` leave values other than 0 and 1, which loads
  assert never to happen (`LeavesBits`). A folded `~(1 && 1)` is computed at 32 bits
  (`ComputesOnTruth`; the comment at `value_emitter.rs:532` is out of date).
- `i8 * i8` into an `i32` is computed at 8 bits, and `u8 - u8` into an `i64` is
  sign-extended; `NumbersAreKept` speaks of numbers that fit all types involved.
- `doc/compiler/06-codegen.md` still says that `&&` and `||` do not short-circuit.

Aggregates:
- An array in the payload of a folded sum folds to the address of a global array, not
  to its elements (`FoldsApart`, like the case above); `doc/handbook.md:656` counts
  neither among the remaining gaps.
- A type-struct's array field is lowered to a pointer (`codegen/structs.rs:40`) and
  accessed as the array itself: in `type T { u8[16] buf  i32 n }`, `buf` has 8 bytes and
  writing `t.buf[10]` overwrites `n` (`DecaysInPlace`).
- `Shape c = g`, where `g` is a `const` global of a sum, is accepted and then refused:
  the constant's type is not the storage's (`codegen/statements.rs:168`).
- A sum whose payloads have no size (an empty type-struct) has no payload field in its
  storage, but `emit_sum_construct` asks for it (`codegen/sums.rs:270`): with `type E {}`
  and `sum S { V(E e) }`, an accepted program is refused by the generator.
  `LayoutsSettle` speaks of payloads that have a size.

Library:
- `calloc` does not notice a product above 2^64 (`generic.ap:344`), nor the rounding of
  sizes that a size just below 2^64 becomes 0 (`generic.ap:105`, `:111`).
- `heap_extend` gives up on a request that "cannot fit" without counting the free tail
  it would merge with (`generic.ap:241`).
- `isqrt_u64` of 2^64 - 1 computes x + 1 = 0 and then divides by zero, although
  `math.ap:156` promises a root that is "exact for every u64" (`SuccessorWraps`).
- `range_i64` takes hi - lo as an `i64`, which overflows for a range with 2^63 numbers or
  more; signed overflow is undefined (`value_emitter.rs:130`), although `rand.ap:52`
  promises an "Integer in [lo, hi)" (`SpanOverflows`).
- No container checks an allocation. `MapStrI64.put` of a key that is present may grow
  the table all the same.

## 6. Not modelled, and what is left

Not modelled:

- the lexer: a sequential scanner without state between tokens; programs enter the
  models as tokens;
- inline assembly: tables of constraints and templates handed to LLVM's assembler, with
  no property short of the assembler's;
- the driver: command line, files and subprocesses in a straight line.

Modelled in part: the page seam (from how the allocator uses it, not its platforms);
the macros crate (only what the parser's recovery macros expand to); declarations
without function-pointer types, array suffixes and duplicate names inside one
declaration; statements without casts, dot access and the inner grammar of patterns;
the checker without calls, aggregates, floats, pointers and strings; the generator
without indirect calls, floats and strings; the library without floats, the generator's stream, and its bindings to C
and Windows. PROJECT.json gives the reason for each, and the hazards no property
covers.

What would come next: calls in the checker (arity, coercion of arguments, signatures of
function values); function
values and array suffixes in `Program`; the inner grammar of patterns in
`Statements`; for the proofs, the allocator for sizes that are not whole words and for
requests so large that they wrap around.
