# llvm2c: a verification project

llvm2c translates an LLVM module to C. It is one sequential program: a chain of
passes over one in-memory `Program`, then a writer. What is hard about it is not
concurrency but long sequences of legal steps: several passes decide separately
about the same block and have to agree for every shape of control flow, and
what they make of it is right only if the printed C does what LLVM would do.

## Inventory

| part | files | state it keeps | operations | correct if |
| --- | --- | --- | --- | --- |
| pass driver | `parser/ProgramParser.cpp` | the module, the `Program`, set of completed passes | `run_llvm_passes` (LoopSimplify, LoopRotate), then 29 passes in order | each pass finds what it asserts; output only after success |
| program model | `core/*` | `exprMap` (LLVM value to expression), `ownership`, `blockMap`, variable counters | `getExpr`, `createExpr`, `getVarName`, `createBlockIfNotExist` | distinct variables have distinct names |
| instructions | `parser/createExpressions.cpp`, `toinst.cpp`, `constval.cpp` | `Block::expressions` | one statement or one inlined expression per instruction | effects and reads keep their order; values keep their width |
| control flow | `parser/parseBreaks.cpp`, `identifyInlinableBlocks.cpp`, `inlineBlocks.cpp`, `SimplifyingExprVisitor.cpp` | `Block::expressions`, `brHandled`, `doInline` | terminators to if/goto/return, rotated loops to do-while, gotos to inlined code | each terminator once; one label per goto; phi variables assigned for the edge taken; same walk as LLVM |
| names | `findMetadataVariableNames.cpp`, `findMetadataFunctionNames.cpp`, `nameFunctions.cpp` | `variableCounters`, `valueName` | renaming from debug information | no two live names coincide, no name is kept that no longer exists |
| globals | `computeGlobalVarsOrder.cpp`, `initializeGlobalVars.cpp` | `globalVars` | depth-first order of initialisers | a name is declared before it is used |
| variable-length arrays | `createAllocas.cpp`, `InsertVLADecls.cpp` | a map of pending declarations | moving a declaration behind its size's assignment | declared after its size, before its uses, once |
| types | `type/*`, `parseStruct*.cpp`, `parseMetadataTypes.cpp` | tables of structs, typedefs, unnamed structs | building and sorting definitions | every type is complete where it is used |
| casts | `propagateTypes.cpp`, `addSignCasts.cpp`, `deleteRedundantCasts.cpp` | types of expressions | adding and dropping casts | the value of every expression is kept |
| rewriting | `refDeref`, `arrowify`, `memcpyToAssign`, `extractVars`, `deleteUnusedVariables`, `prepareBitcastUnion` | expression trees | local rewriting | the value of every expression is kept |
| writer | `writer/*` | the output stream | declarations, definitions, blocks | labels, jumps and blocks as planned by the passes |
| main, tests | `main.cpp`, `test/run.in` | - | options; original and translation must return the same exit code | - |

The parts interact by calls in a fixed order and by shared expression objects:
one `Expr` is referenced from several places (`exprMap`, block lists, inlined
copies), and a pass that changes it changes all of them. The flags `brHandled`
and `doInline` are written by `parseBreaks`, `identifyInlinableBlocks` and
`inlineBlocks` and read by the writer much later. `PROJECT.json` lists every
component with its status and every hazard with its line.

## The core: control flow

### Modules

- `LoopInfo`: what llvm2c takes from LLVM. A function is a graph of blocks with
  a terminator kind and successors in LLVM's order; `Loops(g)` are its natural
  loops, `WellFormed(g)` is what LoopSimplify and LoopRotate guarantee (one
  latch, a preheader that branches to the header only, exits entered from the
  loop only, the latch of a rotated loop ends in a conditional branch).
- `ControlFlow`: the three passes. `ParseLoop(l)` is `parseLoop` for one loop
  (sub-loops first), `ParseRemainingBlocks` the end of `parseBreakRec`,
  `IdentifyInlinableBlocks` the second pass. `inlineBlocks` is
  `DoNotInlineLatches`, then the visits: `VisitContainer`, `InlineGoto(t)`,
  `FinishTarget`, `FinishContainer` are the calls and returns of
  `InliningVisitor` with its stack, then `MarkLatchBlockAsInlined`.
- `EmittedC`: `StartWriter`/`WriteCopy` are `Writer::functionDefinitions` and
  `writeBlock` (which block is printed, how often, with which labels and
  gotos); `CallFunction`, `RunBody`, `AssignPhis`, `Jump`, `RunInPlace`,
  `RunIf`, `RunDo`, `RunWhile`, `RunRet` execute the printed C statement by
  statement, with a continuation `k`.
- `LlvmWalk`: the abstract specification. A call of an LLVM function runs block
  after block along the edges its terminators choose, and a block's phi nodes
  are evaluated for the edge it was entered by. `EmittedC!ImplementsLlvm` states
  that the translated program refines it.
- `MCControlFlow`, `MCShapes`: instances for TLC.
- `ControlFlowProofs`: theorems about `ControlFlow`; `EmittedCProofs`, which
  extends it, about `EmittedC` (what the printed function does, and what is
  printed). `ControlFlowProofs` begins with the lemmas about reachability they
  share: reachability as an iterated step, and `NoWayIn` (a set of blocks that
  neither holds the entry nor is entered from outside cannot be reached).
  `NaturalSets` has induction, the least number and recursion, over naturals and
  over the depth of terms, stated about sets: the forms in which the proofs of
  this project use them.

### State and code

`exprs[b]` is `Block::expressions`, `brHandled` and `doInline` the flags of the
same names. A statement is a record: `op` its class, `at` the block whose
terminator or edge it stems from, `to` the block it names, `arms` its nested
expression lists. Abstracted: the straight-line code of a block is one `body`
statement, all phi assignments of an edge are one statement, and a condition is
the outcome its block chose when it ran. So `at` is what a property has to look
at: a `while` that tests the condition of another block than the one that ran
last is an error (`TestsOwnCondition`). A nested list is flattened into the
list around it. An inlined goto stays a reference (`splice`) to its target's
expressions, as in the code, where the list holds the target's own objects. The
order in which a visit meets the gotos of one list is free in the model. The
passes that run between `parseBreaks` and `identifyInlinableBlocks` rewrite
expressions and leave the control flow alone; `bare` says which blocks have no
straight-line code then. `HasSinglePredecessor` counts edges (`PredEdges`), as
LLVM's predecessor lists do: a switch with two cases to one block gives it two.

### Properties

- `HandledOnce`: no terminator is parsed twice or left out, although `parseLoop`
  parses and pops a preheader without a look at `brHandled`.
- `GotosHaveOneLabel`: every printed goto has exactly one label.
- `CodePrintedOnce`: a reachable block is printed, and twice only if it is a
  lone return. `TextIsWhole` is both.
- `NoReentrantInlining`: the inliner never visits a block from within itself.
- `NeverFallsOff`: control never runs past the end of a block's text, where the
  address of the blocks decides what follows.
- `PhisFromPredecessor`: when a block runs, its phi variables were assigned for
  the edge it was entered by.
- `TestsOwnCondition`, `ImplementsLlvm`: see above.
- `EventuallyPrinted`: every translation ends.

### Runs and bounds

- `every_graph` (`MCControlFlow`, N = 5, MaxRets = 2): every graph of five
  reachable blocks with branches and at most two returns that satisfies
  `WellFormed`, each block with phi nodes, returns with and without code; 3024
  functions, every order of their loops and every path of the C program. Five
  blocks are enough for a nest of two loops with preheaders, a loop whose header
  and latch differ, a loop left from its header, its latch or both, and a return
  shared by several branches. `MaxRets` bounds the number of returning blocks.
  The executed program needs no bound: its state is finite. Two minutes.
- `shapes` (`MCShapes`, N = 8): fifteen chosen functions that five blocks are
  too few for (three nested loops, two loops in a row inside a loop, breaks to
  one exit), the terminators the first run leaves out (switch, unreachable) and
  blocks that cannot be reached. Blocks that are the targets of a switch have
  no phi nodes here (`SwitchPhis = FALSE`), because of the first finding.
- `switch_phi`: finding. The gotos of a switch carry no phi assignments.
- `dead_loop`: finding. A cycle of unreachable blocks with one predecessor each
  is inlined into itself forever. LLVM at -O0 keeps such code, for example a
  label behind a `return` that only a `goto` behind it names.

Deadlock is checked: `Stutter` is the only step of a program that has returned
or reached an instruction LLVM calls unreachable.

### Fairness

`EmSpec` asks for `WF_emVars(Translate)`: llvm2c is one sequential program that
waits for nothing, so a pass that can take a step takes one. Nothing is assumed
of the translated program, whose loops may run forever. Only
`EventuallyPrinted` needs the fairness.

### Theorems

In `ControlFlowProofs`, for every N and every function that `WellFormed`
describes, from `NAssumption` (there is a block) alone:

- `CFTypeCorrect`: `CFSpec => []CFTypeOK`. The invariant is `TypeInv`: besides
  the types it says that the input keeps LLVM's contract (`InputOK`, from which
  the builders of statements get their blocks, and `pop_back` a non-empty list)
  and that the container is a block while the inliner's stack is not empty.
- `EachTerminatorHandledOnce`: `CFSpec => []HandledOnce`. `HandledInv` adds that
  the blocks handled so far are those of the parsed loops and the preheaders of
  the rotated ones, and that a parsed loop's sub-loops are parsed. The argument
  is about loops: the header of a loop that is not parsed has two predecessors,
  latch and preheader; if either was a block of a parsed loop, that loop's
  simplified form would force both into it (`PreheaderElsewhere`), and the two
  loops would neither nest nor be disjoint. A preheader has one successor, so it
  belongs to one loop (`PreheaderOfOneLoop`).

Also in `ControlFlowProofs`:

- `CodeAsPlanned`: `TranslationInv` is an invariant. It gives the expressions of
  each block in closed form: `CodeOf(Spliced, b)` is what `parseBreaks` makes of
  the block, with each goto as it is or as a splice, according to the inliner's
  marks; `Spliced` relates those marks to the stack of visits. All later proofs
  read a block's text from `CodeOf` instead of following the passes again.
- `ReentryInDeadCodeOnly`: if the inliner visits a block from within itself, the
  block cannot be reached. The blocks whose visits lie
  between the two of the block are entered from one another only: an inlined
  block that leads anywhere has one predecessor, and its container is that
  predecessor, or the preheader or header of its loop (`StackInv`, `MarkedInv`). So they are a set
  with no way in.

In `EmittedCProofs`, all under `EmSpec`:

- `TranslationWithinComposition`: `EmSpec => CFSpec`, so that what is proved of
  the passes holds of the composition.
- `InliningNeverReenters`: the theorem above without its exception, for
  functions all of whose blocks can be reached; the exception is the second
  finding.
- `TextNeverLeft`, `ConditionsAreOwn`: `NeverFallsOff` and `TestsOwnCondition`.
- `PhisOfTheEdge` and `PrintedFunctionImplementsLlvm`: `PhisFromPredecessor`, and
  the refinement of `LlvmWalk`, for functions in which no target of a `switch`
  has phi nodes (`NoSwitchPhis`), which is the first finding and the only
  hypothesis.

  The four rest on `EmInv`, which says what the continuation `k` is while block
  `current` runs: `RunState` has one disjunct for each of eleven situations (at
  the block's straight-line code, at the assignments of an edge, at the jump
  behind them, at the `while` of its loop, ...; behind an `unreachable` nothing
  runs), and behind it `Follows` says what comes
  after an inlined block. The fact that carries the induction is that behind the
  code of a rotated loop's latch, wherever it was inlined to, comes the end of
  that loop; behind any other inlined block nothing is ever needed, since its
  terminator leaves.

Also in `EmittedCProofs`, about what is printed:

- `TextTypeCorrect`: `TypeOK` of `EmittedC`.
- `LabelsFit`, `NoCodeLost`, `WholeText`: `GotosHaveOneLabel`, `CodePrintedOnce`,
  `TextIsWhole`. `WriterInv` adds `TextInv` to the invariants above: how often
  each block and label is printed so far (`CopiesCounted`, `LabelsCounted`). A
  block that is not printed on its own is contained in the text of exactly one
  other block (`SoleCopy`: its single predecessor, or the preheader or header of
  its loop), unless it is a lone return, so it is printed as often as that one.
  That it is printed at all is again `NoWayIn`: the blocks without text, together
  with the loops whose preheader has none, can be entered from one another only
  (`MissingUnreachable`). A label of a rotated loop's latch is printed as often
  as the loop's preheader is.

The hypotheses a theorem has besides `EmSpec` are named above; the only
assumption on the constants is `NAssumption`. `EventuallyPrinted` is
model-checked.

## Values of loops: `PhiValues` implements `LoopPhis`

`ControlFlow` has one statement for all phi assignments of an edge and takes a
condition as an outcome. `PhiValues` looks inside, for one loop with `P` phi
nodes: `EnterLoop` is the preheader's list of assignments, `RunBody` an
iteration, `BranchOfHeader` the exit test of a loop that is not rotated,
`AssignPhi` one of the assignments `generatePhiAssignments` makes (in a rotated
loop each keeps the old value unless the loop goes on, and evaluates the
condition again), `EndIteration` the `while`, `AssignExitPhi` the assignment
behind the loop. `LoopPhis` is LLVM: one evaluation of the branch, all phi nodes
at once.

`SequentialLoopsImplementLlvm` is the step simulation, `LeavesWithLlvm` its
liveness, both for loops that are `Sequential`: no phi node receives one that is
assigned before it (`AssignedInOrder`; with it `a, b = b, a` is left out, which
the code gets wrong), and the condition of a rotated loop does not read a phi
variable that changes (`ConditionStays`). Two phi nodes, three values and every
loop over them (run `phi_values`, `MCPhiValues`): two are enough for one
assignment to disturb another, three values for a test to tell a stale one.
Fairness: `WF_pvVars(PVNext)`, the C program of one loop runs on.

`PhiValuesProofs` proves, for every number of phi nodes, every set of values and
every instruction and comparison, `ValuesInType` (`PVTypeOK`) and
`LoopValuesImplementLlvm` (`SequentialLoopsImplementLlvm`). `PVInv` says where the
C variables are between two assignments: those assigned have LLVM's next value,
computed from the values `top` the iteration began with, the others still have
the old one; when the loop is left, all do. `Sequential` is what makes the values
read in between those of `top`.

## Order of effects: `InstructionOrder`

A block of up to `Size` loads, stores, calls and other instructions is chosen
(`Choose`), `Translate` makes statements and inlined expressions of it in order
(`parseLLVMInstruction` and what it calls, with `canInline` and
`inlineOrCreateVariable`), and `Evaluate` runs the C text, choosing the operand
that is evaluated next as C may. Values are kept as terms, so two different
reads differ. `SameEffects`: calls, their arguments, the memory they see and
leave are LLVM's. `CallsInOneStatement`: a call is neither lost nor doubled.
The precondition `CallsInPlace` leaves out what the code is known not to keep: a
call inlined past a load, or into a select or an expression printed twice.
Run `instr_order`: three instructions of nine kinds, enough for a value, what
comes between, and its user; whether a value is also used in another block is
an input.

`InstructionOrderProofs`, for blocks of every length: `ExpressionsWellFormed`
(`IOTypeOK`), `EachCallPrinted` (`CallsInOneStatement`) and `EffectsKept`
(`SameEffects`). `IOInv`: an instruction already translated is either inlined,
with one use and no statement, or has exactly one statement. From an inlined
value one is led to its only user, which comes later; a block is finite, so one
ends at a value with a statement, and in that one only. The induction goes down
the block (`ChainHasTop`).

`EffectsKept` rests on two more invariants. `ShapeInv` is about the translation:
statements stand in the order of their instructions, and between an inlined
value and its use nothing changes memory (`MayBeInlined`, which is what
`canInline` decides). `RunRight` is about the run of the C text, in the middle
of a statement: what has been evaluated of it has LLVM's values (`DoneRight`), so
have the variables (`VarsRight`), and there is an `n` such that memory and the calls made are
those of LLVM after `n` instructions and the stores, calls and returns executed
are those among the first `n` (`EffectsRight`). Such an instruction is
evaluated in one place (`OnePlace`, `SomePlace`). That it is the next one LLVM
would execute is `EarlierExecuted` and `ExecutedEarlier`: what is nested below it
comes first in C, what is in other operands of the same statement is kept apart
by `MayBeInlined`, and what is in other statements by their order. No
induction over terms is needed: LLVM's run is a function of the number of
instructions (`History`), and the value of an instruction in C is compared with
LLVM's when it is evaluated, from operands compared before.

## Integers: `CIntegers`, `IntegerExprs`

`CIntegers` has the types of `TypeHandler`, what C's operators do with a value
of a type (promotion, conversion, undefined overflow) and what LLVM's do, with
widths as constants. `IntegerExprs` builds an LLVM program one instruction at a
time (`ParseInstruction` is `parseLLVMInstruction` for it), `Use`s its last value
in an assignment, an `if`, a `do` or a `switch`, and runs `parseMetadataTypes`
(signedness only), `propagateTypes`, `addSignCasts` and `deleteRedundantCasts`
on the expression. `CValues` evaluates what the writer prints.

`UnsignedValuesKept` and `SignedValuesKept`: for programs all of whose integers
are unsigned, or signed, the statement acts on LLVM's value. The classes
(`UnsignedProgram`, `SignedProgram`, `Supported`) name what is excluded: programs
that mix the signs, `i1` used as a number, a `switch` on another width than
`int`'s, an equality of truncated values, narrow arithmetic that wraps inside an
expression. `RedundantCastsKeepValue` has no such class: it compares the
expression before and after the pass, for every program, if casts below an
equality only normalise. Without that condition (`EqualityCastsKeepValue`, run
`equal_casts`) it fails, a finding. Run `int_exprs`: two instructions over five
sets of leaves, widths 1, 2, 4 and 5 bits, which are enough for `char` below
`int` below `long`, a carry and a sign in each; values are 0, 1, the sign bit
alone and all ones.

## Pointers: `PointerExprs`

A state is one store or memcpy with the values it is made of, and a memory of
structs, arrays and pointers. `CreateExpressions` translates it
(`parseStoreInstruction`, `parseLoadInstruction`, `parseGepInstruction` with the
index's normalisation, casts); `RefDeref`, `MemcpyToAssignment` and `Arrowify` are
the passes, the first and the last by the visitor's walk (`Visited`).
`TextDoesWhatLlvmDoes` holds behind each of them; `NothingLeftToSimplify` says
one walk is enough. Excluded: an index that lost the cast that said its sign
(`IndexKeepsSign`) and three forms of memcpy the pass takes for something else
(`CopiesAsMeant`). Run `pointers`: pointers of up to two steps (loads,
getelementptr with and without fields, all forms of index), two memories.

## Names and arrays: `Variables`

The passes from `findMetadataFunctionNames` to `fixMainParameters`, one action
for each and function: taken names, numbered names, `createAllocas` with the
copied size of an array, `createExpressions` (one `var` per value),
`InsertVLADecls` with its visit of blocks and arrays in address order, any order
in the model, and the fallback; then the debug names with their counters.
`crashed` is the use of an invalid iterator after an insertion.

A name is a text, a number and what is behind the number, as far as names meet:
`var0`, `x2`, `var0_phi`. Names of the program are any of these.

- `NamesDistinct`, for debug names that cannot meet a made one
  (`PlainDebugNames`: no number at the end or in front of `_phi`).
- `MadeNamesHideNoGlobal`: a made name is no global variable's, but for globals
  called like `var0_phi`.
- Neither holds of `var0_phi`: `createPhiVariable` (Func.cpp:88) puts `_phi` behind
  the name `getVarName` has checked, and only names like `var0` are among those to
  avoid. A local variable of that name can be declared twice, and a global one
  hidden (also a static variable `phi` of a function `var0`, whose dot becomes `_`).
- `ArraysDeclaredInTime`: in a program of one function each array is declared
  once, and behind its size and before its uses if the size is assigned once,
  before the allocation, and shared with no other array (`SizedOnce`).
- `SizeNamesCurrent`: the size's name is the variable's name at the end, if LLVM
  does not load the size directly or the variable has no debug name.

Run `variables`: functions with every sequence of up to three debug intrinsics
over six names (repeated, with a number, like a made one, like a phi variable's),
globals with and without such a name, and with one or two arrays and every order
of their statements over two blocks, and programs of two functions.

`VariablesProofs` proves all of them, for every number of globals, functions,
variables and debug intrinsics, every order of blocks and arrays
(`VariablesTyped`, `NoNameTwice`, `NoGlobalHidden`, `SizesNamed`,
`ArraysInTime`):

- The invariant about names, `NamesInv`, says for each function where each
  name comes from. `TakenOK`: what is taken are the globals and debug names that
  look like made ones (`var` and a number). `MadeOK`: a made name has a number
  below the function's counter, two have different numbers, and none is taken.
  `CountersOK`, `DebuggedOK`: the debug name of a variable is one of the debug
  information with a count behind it, and no two are the same.
  `getVarName` looks for a free number, which exists because the
  taken names are finitely many. `SizesOK` follows the copies `createAllocas`
  takes of names that change later.
- `NamesDistinct` needs `PlainDebugNames` because `name1` and the first `name`
  counted up are the same string: `Appended` puts digits behind digits. A name
  like `var0_phi` can be a phi variable's, which nothing looks for.
- The invariant about arrays, `TextInv`, is the code before and after
  `insertVLADecls`: `FinalCode` says that the statements are the old ones in the
  old order with one declaration for each array, behind its size's assignment if
  there is one. The proof goes through the visits of one pass: an array is
  declared by the first visit that meets its assignment, the visits of later
  blocks find it declared, and the fallback puts what is left in front of the
  first block that is not empty.

The assumption is `ProgramsAssumption`: a program has a function, names are
finitely many but any, a size is a parameter or an alloca of the function, and a function
with an array has a statement that is not an alloca.

## Types, globals, functions: `CTypes`, `Declarations`, `DebugTypes`

`CTypes` has types as terms, what the constructors of `ArrayType` and
`PointerType` work out, the text of a declaration (`toString`, `surroundName`)
and how C reads it. `Declarations` has the passes that collect structs,
typedefs, globals and functions, and the writer's sections. The two recursions,
`computeTopo` and `structDefinition`, are stacks of calls, one action per look at
an operand or member; `written` has the written text by section. `DebugTypes` puts `parseMetadataTypes` between them:
`fixType` as a third recursion on the same stack, its two caches, and the
typedefs of function pointers with their second numbering.

- `DefinedOnce`, `DefinedBeforeNeeded`: nothing twice, everything there, each
  struct and typedef behind what it needs complete.
- `MembersKeepTheirTypes`: C reads a member's declaration as the member's type,
  but for kinds that lose a level (`SaysItAll`).
- `NoCallWithinItself`: no recursion comes back to a node it is in the middle of,
  but `fixType` to a type other than a struct, by way of a struct.
- `GlobalsInOrder`: initialisers refer to what is above, but for cycles.
- `GlobalsDefinedOnce`: the part of `DefinedOnce` about global variables.
- `CallsDeclared`: with and without `--add-includes`, a called function is
  declared, once. `CalledNames` leaves out four names no mode declares.
- `TypesStay`: a type that others refer to is not made again (arrays may be).
- `NestedTypedefsMeanTheirTypes`: a function pointer's name is that of a typedef
  with its own type, if LLVM's function pointer types are each made of the
  others and the debug information has no two for one of them
  (`FunctionTypesNest`). Without that (`TypedefsMeanTheirTypes`, run
  `debug_typedefs`) it fails, a finding.

Run `declarations`, six kinds of modules: three structs in two orders with two,
one and one members of sixteen types (cycles of pointers, arrays of structs,
pointers to arrays, function pointers of function pointers, unnamed structs);
four globals with every initialiser over each other; up to three functions of
fifteen with and without includes; two structs with debug information whose
members and function pointers lead back to them; the same with an unnamed struct
whose function pointer comes before those of the debug information; a struct and
a union that lead to each other. Left out is a union whose largest member leads back to it by
pointers alone, for which `fixType` never ends. Each kind is without the
others, which share no state. Three minutes.

`DeclarationsProofs` proves all of these but `NestedTypedefsMeanTheirTypes`, for
every module, on the facts about types in `CTypesProofs`:

- `GlobalsFollowTheirInitializers` (`GlobalsInOrder`) and `EachGlobalDefined`
  (`GlobalsDefinedOnce`). The invariant `Searching` is that of a depth-first
  search. What is visited is what is ordered and what is on the stack, and
  nothing is both. Every global on the stack leads by initialisers to those above
  it, and the operands a call has gone past are visited. So a global that is
  finished finds each of its operands in front of it in the order, or on the stack
  below, and in that case the operand leads back to it. `ValuesOK` and `WrittenOK`
  carry the order to the text: `initializeGlobalVars` and the writer keep it, and
  the writer selects from it.
- `CyclesEnteredOnce`: `computeTopo` for a global, and `fixType` for a struct, is
  never within a call for the same node, because it marks what it enters
  (`Fixing`).
- `RecursionsEnd` (`NoCallWithinItself`): `structDefinition` marks a struct after
  it has looked into it. Its stack is a chain of structs each of which has to be
  complete for the one below (`Defining`), and no struct contains itself.
  `fixType` marks structs alone: its stack is a chain of types and their parts
  (`Walking`), along which the types get less deep, but for the step from a struct
  to a member.
- `TypesMadeOnce` (`TypesStay`): between `fixType`'s look into its cache and its
  entry only types that are parts of the type have been made, or what a struct
  among them leads to; `FixOK` says which types the cache has (`Complete`: with
  each type its parts).
- `DefinitionsInOrder` (`DefinedBeforeNeeded`) and `MembersTyped`
  (`MembersKeepTheirTypes`). `StructsWritten`: a struct stands behind those
  `structDefinition` follows its members to (`ContainedStruct`).
  `NeedsContained` is the lemma about types behind it: what a declaration needs
  complete is what is followed. `DeclaredIs`: reading the text of a declaration
  back gives the type, by induction on how deep the type is. `TypeDefsOK`: typedefs
  are made from the inside out.
- `NothingTwice` (`DefinedOnce`): the tables of types are exactly the types the
  module reaches (`TablesOK`), and every section is a function of the module and
  the tables (`NamesOK`, `TextOK`).
- `CallsHaveDeclarations` (`CallsDeclared`), from `NamesOK` and `TextOK`: a called
  function is one of `C_FUNCTIONS`, of a header's list, an overflow function or the
  program's own, and each kind has its place.
- `DeclarationsTyped` (`DETypeOK`), with `BoundOK` for the place of a call among
  its operands.

The invariant, `ProgramInv`, is the conjunction of `TypesInv` (`Started`, `DEInv`,
`TablesOK`, `FixOK`, `DefinitionsOK`), `NamesOK` and `TextOK`. Types are terms of
any depth, and their functions are recursive. `CTypesProofs` shows from
`TypesAssumption` (parts are less deep) that each such function is what its
definition says (`DepthRecursion`), and the rest by `DepthInduction`.

What LLVM promises of a module is `ModuleOK`, assumed of the inputs
(`InputsAssumption`): globals and structs are listed once, initialisers refer to
globals, members and uses are types of LLVM, and a struct a type needs complete is
in the list; no struct contains itself; the debug information is of structs of the
module. Of the program it assumes that its functions are not
called like one of the library's, `__isnan` or `minnum`, that `va_start` comes
with `__va_list_tag`, and that a union's debug information has one member that
does not lead back to the union by pointers alone. `DefinedBeforeNeeded` asks for
structs only where the text says the type (`SaysItAll`): where it loses a level,
what it needs is not what the type needs. TLC evaluates both assumptions on the
instances.

## Findings

1. `switch_phi`: the gotos of a `switch` carry no phi assignments.
2. `dead_loop`: a cycle of unreachable blocks is inlined into itself.
3. `equal_casts`: an equality with a cast that truncates loses the cast.
4. `debug_typedefs`: the typedefs of the debug information are numbered from 0
   again and written over, or behind, the vector of LLVM's.

## What is proved, what is only checked

| module | proved | only model-checked |
| --- | --- | --- |
| `ControlFlow` | `CFTypeOK`, `HandledOnce`; no re-entrance in code that can be reached | - |
| `EmittedC` | `TypeOK`, `GotosHaveOneLabel`, `CodePrintedOnce`, `TextIsWhole`, `NeverFallsOff`, `TestsOwnCondition`; `NoReentrantInlining` if all blocks can be reached; `PhisFromPredecessor` and `ImplementsLlvm` without phi nodes at switches | `EventuallyPrinted` |
| `PhiValues` | `PVTypeOK`, `SequentialLoopsImplementLlvm` | `LeavesWithLlvm` |
| `InstructionOrder` | `IOTypeOK`, `CallsInOneStatement`, `SameEffects` | - |
| `Variables` | `VATypeOK`, `NamesDistinct`, `MadeNamesHideNoGlobal`, `SizeNamesCurrent`, `ArraysDeclaredInTime` | - |
| `Declarations`, `DebugTypes` | `DETypeOK`, `GlobalsInOrder`, `DefinedOnce`, `DefinedBeforeNeeded`, `MembersKeepTheirTypes`, `NoCallWithinItself`, `CallsDeclared`, `TypesStay` | `NestedTypedefsMeanTheirTypes` |
| `IntegerExprs`, `PointerExprs` | - | all |

- `EventuallyPrinted` and `LeavesWithLlvm` are liveness, for which the prover has
  no reasoning about `ENABLED`.
- `PointerExprs` uses recursive operators and `CIntegers` bitwise ones, which the
  prover's back ends do not take.
- `NestedTypedefsMeanTheirTypes` compares the numbers of typedefs from two
  sources. Under `FunctionTypesNest` it is a fact about one chain of function
  types; the invariants it would rest on are proved (`TypeDefsOK`, `FixOK`), the
  step along the chain is not.

The classes a run and a theorem exclude are the same operators, so a theorem says
for every instance what the run says for the small one. Where a theorem has a
hypothesis (`NoSwitchPhis`, `Reachable(g) = Blocks`), a run shows it is needed:
`switch_phi` and `dead_loop`.

## Plan

1. `DebugTypes`: `NestedTypedefsMeanTheirTypes`, by induction along the chain of
   function types.

## Not modelled, and why

- LLVM itself: `LoopInfo` is its contract. A loop whose latch ends in a switch
  is outside the contract; `parseLoop` (parseBreaks.cpp:168) would dereference a
  null pointer there.
- Floating point, 128-bit integers, inline assembly, landing pads, atomics: no
  control of the passes depends on them beyond the order of their operands,
  which `InstructionOrder` has as `fcmp`.
- `prepareBitcastUnion`, and the layout of unions and structs in memory: the
  first is a union of all casts, the second a property of LLVM's data layout.
- The text of constants and initialisers (`createConstants`,
  `addCastsToConstants`), indentation, comments, options and files: text output
  without decisions.
- `extractVars` and `deleteUnusedVariables`: the first moves the declarations of
  plain variables to the head of the function, the second deletes nothing, since
  neither an alloca's nor a store's statement is the expression `getExpr` has for
  it.
- The bodies of the overflow functions `writeIntrinsicDefinitions` prints: which
  are printed is in `Declarations`, their arithmetic is fixed text.
- `src/test/`: the contract of `run.in` (same exit code) is what
  `ImplementsLlvm` says per block.
