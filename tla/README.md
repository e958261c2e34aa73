# A verification model of the MiniC compiler

The repository is a compiler from MiniC, a subset of C, to LLVM bitcode, and an LLVM pass that optimizes
the result. This directory holds TLA+ modules that model its algorithms, configurations that check them
with TLC, and proofs checked by TLAPS.

Two programs share nothing but the bitcode file: `minicc` (parser, verifier, IR generator) and the plugin
`alloca2reg` that `opt` loads. Both are sequential and deterministic up to the order of pointers in
`std::set` and `std::map`. What is hard in them is not concurrency. It is

* *long sequences of legal steps*: any nesting of statements, any jump out of it, any expression in it;
* *state that is read after something else has changed it*: the insertion block, the value map, the map of
  end-of-block values, symbol tables that are read again when they are complete;
* *iteration to a fixpoint*: dominators, worklists, clean-up of phis, inlining, the optimizer's main loop;
* *agreement of two walks* over one tree: what the verifier checked and what the generator relies on.

## Inventory

| Part (source) | State | Operations | What makes it correct | Module |
|---|---|---|---|---|
| IR generation, control flow (`IRGenerator.cpp`) | insertion block, break and continue targets, `ExprValues`, the C++ call stack | one visitor per statement and expression | well-formed blocks, right targets, right phis, operands that dominate uses, natural loops | `IRGenerator` |
| IR generation, functions (`IRGenerator.cpp:31-92`) | LLVM module | pre-declare, fill bodies | bodies and calls fit the function they use | `FunctionTable` |
| IR generation, variables (`IRGenerator.cpp:94-153, 450-512`) | `LLVMValue` in the tables | create, look up, skip behind a jump | storage exists when a name needs it, with the type that was checked | `Scopes` |
| Verifier, expressions (`VerifyAndBuildSymbols.cpp:282-548`) | a type on each node, errors | one visitor per expression | generated values have the types checked | `ExprTypes` |
| Literals (`MiniC.g4:243-279`, `Exprs.cpp`) | none | text to value, again behind a minus | the value the text denotes, or an error | `Literals`, `ExprTypes` |
| Verifier, functions (`:22-42, 79-135, 406-448`) | `FuncSymbolTable` | declare, define, call | one body, consistent signatures | `FunctionTable` |
| Verifier, variables (`:44-77, 450-491`, `ASTNode.cpp`) | `VarSymbolTable` per scope | declare, open, close, look up | C's scoping | `Scopes` |
| Verifier, statements (`:153-280`) | errors | break, continue, return | no jump without a loop, a return at the end | guards in `IRGenerator` |
| Promotion (`Alloca2Reg.cpp:29-199`) | `TargetAllocas`, `Post`, `Pre` | seven steps | same behaviour, no dangling operand, clean-up ends | `Promotion`, `PromotionEquivalence` |
| Inlining (`:568-614`) | list of calls | rounds | keeps effects, exhaustive, ends | `Inliner` |
| Local optimizations (`:204-415`) | instruction list, `seen`, `loadMap` | fold, simplify, CSE, DCE, rounds | only refine the function, nothing dangling, nothing left, end | `LocalOpts` |
| Dominators (`:443-488`) | `doms` | passes of visits | implements an abstract analysis | `Dominators`, `Dominance` |
| Natural loops (`:417-436`) | `loop`, `worklist` | pop, push predecessors | exactly the loop | `NaturalLoop` |
| Loop-invariant code motion (`:490-566`, `204-213`) | places of loads | back edge, preheader, hoist, repeat | same values, nothing left, ends | `LICM` |

Parts interact as follows. The verifier writes types and symbol tables into the tree; the generator walks
the same tree, reads both and never checks again (`ExprTypes`, `FunctionTable` and `Scopes` put both sides
in one module for that reason). The pass reads only the graph and the instructions; it relies on what the
generator always makes (an entry block without predecessors, loops entered at their header), which is what
`WellFormed` and `LoopsAreNatural` of `IRGenerator` state, and what `Dominators` assumes of its graphs.
Inside the pass, `LICM` is a composition: it extends `Dominators`, which runs again in each round, and
holds an instance of `NaturalLoop`, a search of which it starts for each back edge and waits for.

## Modules

**`IRGenerator`** is the core. The recursion of the visitors is the variable `stack`: a frame is a visitor
waiting for `accept()` to return, named for where it resumes (`if.then`, `for.cond`, `logic.rhs`, ...), with
the blocks it holds in local variables. An action is the code between two calls of `accept()`. The tree is
not given: on each `accept()` the class of the child is chosen among those that the grammar and the verifier
allow there, so that a run covers all programs up to the bounds. Instructions are not kept. `term` gives
each block the terminators appended to it, several if the generator errs, and `uses` relates the block of
an operand to the block of its use.

**`Scopes`** walks the program twice. The first walk, the verifier's, chooses the program as it goes and
leaves it in `walk`: declarations and references in order, each with the scopes around it and what the
lookup found then. The second, the generator's, goes through `walk` with the tables as they are at the end,
gives each declaration its storage, and may at any statement skip the rest of a scope, as `visitScope` does
behind a jump.

**`ExprTypes`** is a stack machine: each action completes an expression bottom up, with the type the
verifier gives it and the type of the value the generator makes. It extends **`Literals`**, which says what
`fromString` makes of a number with parentheses around it, and what of the operand of a minus.
**`FunctionTable`** models the function table, with the functions of the LLVM module as an operator.

**`LocalOpts`** visits one instruction per action, pass after pass and round after round. The auxiliary
variable `meaning` is what the function does as it stands, for each input memory: the calls it makes, what
they find in memory, and what is left there. **`IRSemantics`** defines it, instruction by instruction: the
state of an execution is the place in the function, the block it came from, the results so far and the
memory. What LLVM leaves undefined ends the execution as `Trapped`: a division by zero or with an
overflow, an address that is not in memory, an operand that has not been computed, a phi without a value
for the edge taken. Through `meaning` the passes implement **`OnlyRefines`**, an optimizer that may change
anything but what is defined. The functions have no loops: what local optimizations do in a block does not
depend on how often it is executed, and loops are what `LICM` is about.

**`Dominators`**, **`NaturalLoop`** and **`LICM`** model `loopInvariantCodeMotion`; a pass of the dominator
analysis is one action per block. **`Dominance`** is the abstract specification of such an analysis: sets
that only shrink, never lack a dominator, and hold nothing else when it says it is ready. In `LICM` a
function is its edges in creation order (LLVM lists the predecessors of a block from the newest branch to
the oldest), its loads of globals, and per block its stores by name, its stores to elements of arrays, and
its calls. `CFG` has the textbook definitions of reachability, dominance and natural loops.

**`Promotion`** models steps 1 to 7 of `runOnFunction` one instruction at a time, for any order of the
allocas. **`PromotionEquivalence`** then runs the function before and after the pass side by side. The phis
that the generator makes for `&&` and `||` are not in these functions; step 7 visits them too, behind its own,
and folds one if both its operands have become the same constant.

**`Inliner`** models the calls of `inlineCalls` for all functions of a module in turn.

Definitions whose names contain an underscore (`BranchIfOpen_Always`) are seeded bugs: one wrong version
of the definition after them. Putting it in its place makes a property fail, which shows that the property
depends on that code. They are not part of any specification.

## What the runs check

| Configuration (module) | Question | Result |
|---|---|---|
| `IRGenerator.cfg` (`MCIRGenerator`) | Are all functions lowered to well-formed code with natural loops? | holds |
| `Scopes.cfg` (`Scopes`) | Do names mean what they mean in C, to the verifier and to the generator, and is their storage there? | holds |
| `FunctionTable.cfg` (`MCFunctionTable`) | Do bodies and calls fit the functions? | holds |
| `ExprTypes.cfg` (`ExprTypes`) | Do values have the types that were checked, and literals the value they denote? | holds |
| `PromotionEquivalence.cfg` (`MCPromotionEquivalence`) | Does promotion end and, where copied scalars are processed in order, keep the behaviour and leave no dangling operand? | holds |
| `PromotionCopy.cfg` (`MCPromotion`) | Also for `a = b;` where the alloca of `a` comes first? | violated |
| `Inliner.cfg` (`MCInliner`) | Does inlining keep effects, leave nothing, and end without mutual recursion? | holds |
| `InlinerMutual.cfg` (`MCInliner`) | Does it end with mutual recursion too? | violated |
| `LocalOpts.cfg` (`MCLocalOpts`) | Do the local optimizations only refine the function, end, and leave nothing? | holds |
| `LICM.cfg` (`MCLICM`) | Are the analyses right, loads moved safely and exhaustively, and does it end? | holds |
| `LICMContinueTerminates.cfg` (`MCLICM`) | Does it also end with a `continue` in a `while`? | violated |
| `LICMArray.cfg` (`MCLICM`) | Are loads of an array's element 0 moved safely too? | violated |

### Bounds

* `IRGenerator.cfg`: 9 blocks and 7 nested visitors where expressions are leaves, so that an `if` in a
  loop with a loop in it and a jump behind it fit; 7 blocks and 6 visitors where expressions have
  operators (the constraint `Explored`): a loop with a short-circuit condition, an if/else whose condition
  is a short circuit, or one short circuit in another. A run that would exceed a bound stops there, which
  is why deadlock is not checked.
* `Scopes.cfg`: two names, two types, four scopes, three declarations, two references: a name declared
  around, in and behind the scope that refers to it, and two functions with a global between them.
* `FunctionTable.cfg`: two names, one of them of `minicio`; four signatures that differ in the return type,
  a parameter type and the number of parameters; three declarations.
* `ExprTypes.cfg`: three operands waiting; operands are described by types, so the size of
  expressions is not bounded. Array bounds 2 and 3 differ, and 0 is a scalar. Integers have 8 bits, and
  three characters are read, as 10 are for 32 bits; the numbers are those on both sides of each limit.
* `PromotionEquivalence.cfg`: three graphs of five blocks; two promoted scalars and an array, so that both
  orders of the scalars occur, and ten kinds of statements in two of the blocks: input and output, a scalar
  computed from itself or the other, and copies of a scalar to itself, to the other and to the array, and of
  an array element to a scalar. A copy between the scalars meets both orders; `CopiesInOrder` picks those
  for which two of the properties are stated, and the third is checked in all.
  `Tokens` is the number of values that calls return in turn.
* `Inliner.cfg`: all call graphs of three functions and an external one; at most one is above the size limit
  at the start, and any may grow beyond it or shrink below it later.
* `LocalOpts.cfg`: integers of three bits (`MaxInt` is 3), so that sums, products and the one quotient overflow; a scalar and
  an array of two elements, with 16 initial memories. Four families of functions: two dependent operations on
  a value and constants, the limits among them; two operations on the same two values in either order; two
  loads with three accesses of the same or of other addresses between them; a branch and a phi.
* `LICM.cfg`: six loop shapes of 7 blocks with one latch per loop, one of them with a block that no path
  reaches; a load in any block; a store to its global, a store to an array's element, a call of `f` or of
  `putint`, in any block or none.

### Fairness

The code is sequential: a step that can be taken is taken. Weak fairness of the whole next-state relation
says that, and no more, in `LICMSpec`, `PromotionSpec`, `InlineSpec` and `OptSpec`. The other specifications
state no liveness property and no fairness.

### What the violated runs show

* *Two latches* (`HoistTerminates`). A `continue` in a `while` is a second back edge to the condition. The
  loop of one back edge does not hold the latch of the other, which is then taken for the preheader. A load
  is moved to the other latch, and back, and the main loop of the pass never ends.
* *Element 0* (`HoistUnclobbered`). The README of the repository asks for LLVM 15, whose pointers are opaque:
  the address of element 0 of a global array is the array itself, so that a load of `a[0]` is a load of a
  global by name. A store to `a[i]` in the loop is not recorded, as the comment at `Alloca2Reg.cpp:520-522`
  reasons that such stores cannot meet a scalar, and the load is moved in front of it.
* *Copied variables* (`ErasedAreDead`). For `a = b;` with the alloca of `a` processed before that of `b`,
  `Post` records the load of `b` as the value of `a`; the load is replaced when `b` is processed, but not in
  `Post`, so that step 4 puts it into a phi of `a` and step 5 erases it. Neither a loop nor a swap is needed,
  only a copy that is the last store to `a` in its block and a block behind it; of two variables that are
  swapped in a loop, each is copied to another one, and no order is right.
* *Mutual recursion* (`InlineAlwaysTerminates`). Only direct recursion stops the inlining.

### Known limits of the properties that hold

The passing runs exclude these cases, in the definitions named here, because the code does not meet the
property in them:

* `NoUseOfErased` and `SameObservations` are stated for functions and orders of the allocas with
  `CopiesInOrder`: a scalar that is copied to another, as by `a = b;`, is processed before it. The order is that
  of a `std::set` of pointers, so that it depends on where the allocas happen to lie in memory. The condition
  is enough, and not always needed: a copy that is overwritten in its own block does no harm.
* `InlinedExhaustively` is stated for the functions with a parameter or variable to promote: `runOnFunction`
  returns before it comes to the inlining in the others, although `explanation.txt:10-11` has small functions
  inlined at their call sites. No run is about that; it is `SkipFunction` itself.
* Two latches for one header also break `HoistDominates`: a load is moved to a block that does not dominate
  its uses (the programs of `LICM.cfg` have one latch for each header; `PlainLoops` says so in the theorem).
* A block that no path reaches, but that branches to a reachable one, costs the latter true dominators:
  `if (a) continue; else return;` in a loop leaves such a block. `DomsComplete` therefore requires that all
  blocks are reachable; `DomsSound` does not. Loops are missed then, not invented. In
  `while (a) { if (b) continue; else break; }` that block is the newest predecessor of the header outside of
  the loop and is taken for the preheader, and a load is moved where nothing executes it.
* `putint` and the other functions of `minicio` are known by name: a program without the header may define
  `putint` itself and store to a global there, and `HoistUnclobbered` would fail.
* Assignments between arrays and comparisons of void calls pass the verifier; `InstructionsWellTyped`
  leaves them out.
* Behind a minus a literal in parentheses is read with them: `-(5)` is 0, and `-(123456789)` is rejected.
  `LiteralsExact` speaks of literals without parentheses; `misread` records the others.
* `OptRefines` says nothing of inputs on which an execution is `Trapped`: the function divides by zero,
  divides the least integer by -1, or indexes outside of the array, which LLVM leaves undefined. The pass
  may fold or erase what would have trapped.
* `NothingLeft` is about computations, not about loads. The address of `a[i]` is computed by a GEP for each
  access, and `localCSE` never merges GEPs, so that two loads of `a[i]` have different pointers and both
  stay, although `explanation.txt:77` has loads from the same array slot eliminated.

## What is proved

Every theorem holds for all values of the constants that satisfy the named assumptions of the modules. None
assumes a bound on the size of the program. The assumptions are `BoundsAssumption` (there is room for the
entry block, the function and its scope), `NAssumption` and `GraphsAssumption` (the entry block has no
predecessor, which `WellFormed` establishes for what the generator makes), `ProgramsAssumption`,
`InlinerAssumption`, `PromotionAssumption` and `LocalOptsAssumption` (the shape of the input: instructions,
edges and the scalars, of which there are finitely many; operands stand before their uses; the instructions
of a block stand together, and in `LocalOpts` branches go forward), `FunctionsAssumption` (in
`PromotionEquivalence`: nothing branches to the entry, and an operand is computed earlier in its block or in
one that dominates it, as `WellFormed` and `OperandsDominateUses` establish for what the generator makes),
`TokensAssumption` (a call returns something), `SemanticsAssumption` (the greatest
integer is positive), `LiteralsAssumption` and `ExprAssumption` (the least int has no more digits than
are read), `FunctionAssumption` and `ScopesAssumption` (types, and a value that stands for none). Where a
theorem holds under a condition only, the condition is a definition of its own in the statement
or of the property (`PlainLoops`, `StoresAreSeen`, `AllReached`, `CopiesInOrder`), the code does not meet the
property without it, and a run or *Known limits* above says how.

**`CFGProofs`**: what the other proofs need of graphs. `Reach` is a recursive function that goes on for as
many rounds as there are blocks; `ReachIsLeastClosed` proves that it gives the least closed set, since a
round that adds no block is the last one needed. The induction is over the naturals, with a set in place of
a predicate (`SetInduction`). Everything after that speaks of closed sets and never of paths: to show that
`d` dominates `b` is to give a set with `b` in it that is entered through `d` only (`DominatesItsRegion`), or
one with the entry and without `b` that is left through `d` only (`LeftThrough`). From the latter follow
the facts that promotion needs: dominance is transitive and, among reachable blocks, antisymmetric
(`DominatesTransitive`, `DominatesAntisymmetric`); what dominates a block, other than itself, dominates its
predecessors (`DominatesBefore`); and what dominates all predecessors that have not passed the block
dominates the block (`DominatesMerge`).

**`IRGeneratorProofs`**, first part: `Spec => []TypeOK`, `[]WellFormed`, `[]BuilderAtOpenBlock`,
`[]TargetsMatchLoops`, for functions of any size and nesting. None of the four is inductive. Their common
invariant is

    IInv == Types /\ Shape /\ OpenBlocks /\ TargetsMatchLoops

* `Types` is `TypeOK` with the entry block excluded from all branch targets, which is what `1 \notin
  Graph[b]` needs, since targets wait in frames and vectors before they are used.
* `Shape`: `visitFuncDecl` is at the bottom with the scope of the body on it, and below each statement is a
  visitor that expects it to end in any way (`AnyEnd`). Without it a `break` could return to an expression.
* `OpenBlocks` relates code and call stack: the blocks without a terminator, other than the insertion block,
  are *exactly* the blocks that the suspended visitors still hold for later (`Slots`, given for each kind
  of frame by `PendingIx`), and no two visitors hold the same one. So a block that receives the insertion
  point is open, no block is terminated twice, and when the stack is empty nothing is left open. The last
  part, `EndsTerminated`, is where the rule of the verifier enters that a function with a value ends in a
  `return`.
* `TargetsMatchLoops` is inductive given `Types`, and `Types` needs it in turn: `break` reads the last
  element of a vector, which exists because a loop is on the stack.

The proof has one lemma for each effect on the stack (`Leave`, `Resume`, `Accept`) and for each effect on
the code (close a block, create blocks, both), and per action the few facts that join them.

Second part: `PhiMatchesPreds`, `OperandsDominateUses` and `LoopsAreNatural`, from a second invariant on top
of the first (`GraphInv`). The difficulty is that dominance is a fact about the whole graph, and the graph
is not finished: an edge that is added later, by a frame far down the stack, could make a way around a block
that dominated so far. `GraphInv` therefore speaks of *regions*, sets of blocks with one way in, such that
no branch still to come can enter them otherwise: the blocks made since a visitor took the insertion block
are such a region as long as it is on the stack, and remain one when the visitor leaves. A value dominates
its use because the use is in a region entered at the value; a loop is natural because its blocks are a
region entered at its header; a phi has the predecessors it names because the merge block is held by one
frame and that frame alone branches to it.

**`ScopesProofs`**: `LookupStable`, `StorageReady` and `MeansLikeInC`, for programs of any size. The
invariant says what a program is, as far as names go. `Nested`: scopes nest, and one that has been left is
never entered again. `Recorded`: a table holds exactly what was declared in its scope. `DeclarationsFirst`:
no reference has been seen in a scope that can still get declarations, unless it is the program, whose
declarations are in order; that is why a name found in a scope around stays what it was. `Found`: references
keep what they found. For the second walk: the storage of what a reference to come needs is there, or its
declaration is still to come and will not be skipped without the reference.

**`ExprTypesProofs`**: `ValuesMatchTypes`, `InstructionsWellTyped` and `LiteralsExact`. The first two hold
together only: the verifier checks types, an instruction meets values. Literals are proved for every width:
the check with the sign, the cut to an int and the subtraction of `CreateNeg` together give the value, also
for the least int, which is the one that overflows twice.

**`FunctionProofs`** is about functions: their table and their inlining.

* `OneBody`, `BodiesFit` and `CallsFit`: the table holds the first declaration of a name (`TableIsFirst`),
  and while there is no error everything else agrees with the table (`Accepted`).
* `NoNewRecursion`, `ExternalCallsKept` and `InlinedExhaustively`. Reachability in a call graph is an
  intersection of closed sets: a set of functions that was closed under the calls before the pass stays
  closed (`ClosedStays`), and a function that could be reached outside of the module is still in every set
  that is closed now (`ExternalStays`).

**`LICMProofs`** is about the analyses and their use.

* `DomInvariant` proves

      DomInv == DomTypeOK /\ EntryAlone /\ NotBelow /\ PassClean /\ AllDominators

  `NotBelow` (no set is smaller than what the next visit would give) makes every visit a removal;
  `PassClean` (in a pass without a change so far, the visited blocks are at their fixpoint)
  gives a fixpoint at the end, and `DominatorsAreSound` follows by cutting the graph at the supposed
  dominator. `DominanceImplemented` is the refinement: a visit is a step `Narrow` of `Dominance` or a
  stutter, and a new call is its step `AskAgain`.
* The search keeps all predecessors of the blocks it is done with inside the loop, and the loop inside every
  set that is entered at the header only (`LoopInv`). `LoopIsClosed`, `LoopIsMinimal` and `LoopVisitsOnce`
  follow.
* `LICMUsesComponents` proves that a behaviour of `LICM` is one of `Dominators` and one of `NaturalLoop`, so
  that what is proved of them holds in it (`LoopsFoundAreClosed`, `LoopsFoundAreMinimal` and
  `SearchesVisitOnce` state that for the search).
* `HoistedLoadsDominate` needs both: the header dominates the latch (the analysis is sound), hence every
  block of the loop (the loop is minimal) but not the other way round; the block that is taken for the
  preheader is the only way in, and so dominates the header; and dominance is transitive, over any number of
  rounds. It is stated for functions whose loops have one latch and one entering edge (`PlainLoops`); the
  run `licm_continue_terminates` shows what happens otherwise.
* `HoistedLoadsUnclobbered`: a moved load has a *shield* (`Shields`), a set of blocks without a write to its
  global that holds every block from which the old place is reached without passing the new one. The loop it
  is moved out of joins the shield: the loop has no such write, and, as it is entered through the preheader
  only, what leads into it leads through the new place. `StoresAreSeen` leaves out the case of the run
  `licm_array` and functions with a store that have a name of `minicio`.
* `LoopsAreLeftClean`: a scan that has changed nothing so far has left nothing in the loops behind it
  (`ScannedClean`), and at the end it has seen every back edge, as the analysis misses none if all blocks
  are reached (`AllReached`).

**`LocalOptsProofs`**: `NoDanglingOperand` from `OperandsInv`: operands and the entries of both maps refer to
live instructions before them; an operand that takes the place of an instruction stands before it, so that
`replaceAllUsesWith` keeps the order, and an erased instruction is not in a map, since it was not entered.
`NothingLeft` from `Quiet`: a walk without a change has left nothing that its pass could do behind it, and
a round without a change has left nothing for any of the earlier passes.

`OptimizerRefines` is the refinement: `OptSpec => OptRefines`, for all functions without loops, all inputs
and all widths of integers. It has three parts.

* *Executions* (`Sound`). When an execution is at an instruction, what stands before that in its block has been
  executed (`InOrder`), the result of a computation is what its operands give now, and a load that
  no write of the block comes after has what is in memory now (`ResultsStand`).
* *Erasure* (`ErasureRefines`). The execution with an instruction `x` and the one without go side by side
  (`Alike`): same memory, same output, same results but that of `x`. It is enough that `x` has no effect
  and that it has no uses or its uses get an operand with the value that `x` would have (`StandsFor`).
* *Justification* (`ErasesErasable`). Each pass erases only what may be erased. For folding and simplifying
  that is arithmetic, cut to the width; for `localCSE` it takes an invariant of the maps (`MapsMean`): an entry
  has the key of its instruction still, is of the block that is visited, and no write stands between a load
  in `loadMap` and the visited instruction. Keys hold operands, and replacing changes operands; it
  changes none of an instruction that the walk has passed.

**`PromotionProofs`**: first `NoUseOfErased`. The invariant `PassInv` says what an operand, a phi or a saved
end-of-block value may refer to: what is not erased, or a load of the scalar in work that its walk is still
to reach. It is kept if a scalar whose value is copied to another one is processed first
(`CopiesInOrder`, the precondition that is part of the property); without that `Post` keeps an erased load,
which the run `promotion_copy` shows.

Then `SameObservations`, the meaning of the pass: `PromotionPreservesRuns`, for functions with any loops and
for every path. The invariant `RunInv` has two parts, tied by a *certificate* that need only exist: `val`, the
value each scalar has before each instruction, as an instruction, a phi or undef, and `res`, what the uses of
each instruction have been replaced by.

* *The pass keeps a certificate* (`Certificate`). A store sets the value of its scalar to what its operand was
  replaced by, and nothing else changes it within a block (`Flows`); a load was replaced by the value at its
  place (`LoadsRead`); a block begins with its phi, which merges the values at the ends of the predecessors
  (`Merges`). Step 3 makes `val` known place by place, steps 4 and 5 turn what `Post` holds into `Merges`, and
  step 7 substitutes the merged value for the phi it erases, in `val` and `res` too. A phi that goes because
  nothing uses it, although it merges several values, leaves `Dead`, which nothing refers to.
* *Values are computed before they are used* (`Sound`): what stands for a scalar at a place stands before it
  or in a block that dominates it. When a phi goes, the value that takes its place was available at the end of
  each predecessor, and so is at the block (`CommonIsAvailable`, from `DominatesMerge`).
* *The runs agree with the certificate* (`Agrees`). A scalar in memory is unset or is what the value `val`
  gives for it was computed as; what has been executed on the way here has the value of what replaced it. An
  instruction in a loop is executed anew and gets another value: that disturbs nothing, since no value in use
  at its place is the instruction itself (`OthersAgree`). A branch changes all phis of its target: a value that
  is carried across it is none of them, since it would have to dominate what comes before (`BranchAgrees`).

**Only model-checked**: everything under fairness (`HoistTerminates`, `PromotionTerminates`,
`InlineTerminates`, `OptTerminates`), since liveness is out of reach of the prover.

## Not modelled

* *Driver* (`main.cpp`): straight-line code. Its one rule, that nothing is generated after an error, is
  the guard `StartGenerator` of `Scopes` and the precondition of the properties of `ExprTypes` and
  `FunctionTable`.
* *Parser and tree classes*: ANTLR generates the one, and the other are containers. The rules of the grammar
  that decide something are in `IRGenerator`, `Scopes` and `Literals`.
* *Linkage and initial values of globals, names of values and blocks*: no property is about
  them.
* *AST printer and parse-tree checker, `minicio`, build files, samples*: nothing in the compilation depends
  on them, or they hold no logic.

## Plan

Done: control-flow lowering, both symbol tables, expression types and literals, promotion, inlining, local
optimizations, the two loop analyses and code motion as their composition, each with its runs; proofs of
every invariant and action property the runs check, and of both refinements.

Left, in this order:

1. *Compose*: the graph a run of `IRGenerator` ends with as the input of `LICM`, in place of the graphs now
   given in `MCLICM`.
2. *Extend* `LocalOpts` to functions with loops, so that its rounds include the passes of `LICM`.
