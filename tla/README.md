# A TLA+ model of veriparse

veriparse is a C++ library that parses Verilog and SystemVerilog, elaborates
each module down to plain Verilog and writes it back. Three tools stand on it:
`verilower` (lower behavioural constructs), `veriflat` (flatten a hierarchy) and
`veriobf` (obfuscate names). The library is a sequential compiler. It has no
threads, no network and no persistent state: what can go wrong is that a pass
changes the meaning of the hardware it rewrites, and it goes wrong in the
*order* of things, in values kept after the text they came from has been
rewritten, in fixpoints, in caps, and in texts the pass must refuse and accepts.

This project models the places where the library *computes with programs*
rather than reshaping trees, and checks that each preserves meaning:

* the **implicit state machine compiler** (`implicit_fsm_*.cpp`,
  `fsm_loop_lowering.cpp`), which turns an `always` process with several
  `@(posedge clk)` waits into a clocked state machine, and the **task inliner**
  (`fsm_task_inliner.cpp`, `fsm_alpha_rename.cpp`) that runs before it;
* the **folding passes** (`loop_unrolling.cpp`, `branch_selection.cpp`,
  `variable_folding.cpp`, `function_evaluation.cpp`,
  `deadcode_elimination.cpp`, run in the order `resolve_module.cpp` gives them),
  which execute procedural text at compile time;
* the **evaluator of constant expressions** (`expression_evaluation.cpp`,
  `expression_operators_intconst.cpp`, `constant_folding.cpp`), which decides
  what a number in the text becomes;
* the **flattener** (`module_flattener.cpp`, `module_instance_normalizer.cpp`),
  which makes one module of a hierarchy;
* the **obfuscator** (`module_obfuscator.cpp`), which renames a module's names;
* the **preprocessor** (`pp_conditional.cpp`, `pp_macro.cpp`, the directives of
  `pp_scanner_impl.cpp` and the start conditions of `pp_scanner.ll`), a scanner
  that pushes the text of macros and of included files onto a stack of buffers
  it is itself reading.

In each case an abstract module says what the text means, and the detailed
module is compared with it after every step, not only at the end.

## 1. Inventory

Paths are under `src/lib/src/`. A component keeps its state in the object of
its pass, for the length of one run over one module.

| Component | State | Operations | Hard behaviour | Correct when |
|---|---|---|---|---|
| Implicit FSM elaboration (`passes/transformations/implicit_fsm_{elaboration,checks,emission}.cpp`) | worklist of legs (node, frames, guard, environment, pending commits), path cover per wait, registers, temporaries | `compile_process`, `walk_paths` (one case per statement kind), `check_paths`, `emit` | forks multiply; the continuation of a wait is walked once, on its first arrival; loops with no wait; temporaries that outlive a cycle; the last leg is a bare `else` | the emitted machine makes the stores the process makes at every edge, or the process is refused |
| Rolled loop lowering (`fsm_loop_lowering.cpp`) | countdown registers, one per depth | `lower_repeat`, `lower_for`, `rewrite_continues` | shared registers, counts one past the register, `continue` that must still take the step | the lowered loop takes the source's laps |
| Task inlining, alpha renaming of marked processes (`fsm_task_inliner.cpp`, `fsm_alpha_rename.cpp`) | frames of renames, call ordinals, hoisted registers | rename locals, lower returns, lower an argument, expand a call, sweep the tasks no longer called | storage that outlives a call, calls within calls, name clashes | an inlined process writes what it wrote |
| Loop unrolling (`loop_unrolling.cpp`) | label and scope claims | `for`/`repeat` ranges, jump analysis, lowering of `break`/`continue`, installation of laps | a jump under a condition, a loop in a lap, an index still read | a block does to its ports what it did |
| Branch selection (`branch_selection.cpp`) | none | `if`, `case`, generate forms | a selected arm that is itself rewritten | same |
| Variable folding, function evaluation (`variable_folding.cpp`, `function_evaluation.cpp`) | `StateMap` name → constant, pending jump, `m_fully_interpreted` | one `execute_*` per statement, `give_up`, evaluation of a call | values kept after giving up; laps rewritten while they are appended; a cap; an early `return` | same; a call folds only to what it returns |
| Dead code elimination (`deadcode_elimination.cpp`) | read set | removal of dead writes to a fixpoint, of text after a jump, of empty statements | removing a write makes another dead; an emptied loop still drives its index | same, and it ends |
| Per-module pipeline (`resolve_module.cpp`, `transformation_base.cpp`) | none | the passes in order | a pass assumes the form the previous one left; some run twice | the first failure stops it |
| Expression evaluation (`expression_evaluation.cpp`, `constant_folding.cpp`, …) | replacement map | fold an operator | numbers of unlimited precision standing for words, sizes that decide the value in a context | a folded value is the simulated one |
| Parameters, localparams, enums, typedefs (`parameter_inliner.cpp`, `enum_elaboration.cpp`, …) | substitution maps | substitute, number | dependency order; an unknown value that sticks | each name gets one value |
| Structs, interfaces, packages, names | scopes | lower, inline, resolve | shadowing | a name keeps its declaration |
| Flattening, normalisation (`module_flattener.cpp`, `module_instance_normalizer.cpp`) | a text per activation of the recursion, what it waits for | name the ports, apply defparams, buffer and split arrays, resolve, enter, bind, splice | fresh names after names are taken, values shifted by an instance's index, references through what was dissolved | same netlist, or refused |
| Obfuscation, unique names (`module_obfuscator.cpp`, `analysis/unique_declaration.cpp`) | replacement map, used identifiers, the map outside the subroutine being renamed | draw, rename, save and restore the map | subroutines that redeclare the module's names, hashes that collide | every name names what it named |
| Analyses (`analysis/*.cpp`) | none | queries | – | part of what their callers model |
| Preprocessor (`parser/preprocessor/`) | conditional stack, macro table, include stack | directives, macro calls, includes | directives inside skipped text; nested groups; recursion | what is emitted is what the standard keeps |
| Parser, AST, generators, importers | – | data conversion | – | not a state machine |
| Tools (`src/apps/veriparse/`) | options | file in, passes, file out | – | not a state machine |

Components interact by handing on one tree: `verilower` parses (the
preprocessor feeds the parser), analyses the modules, runs
`ImplicitFsmElaboration` per marked process (after inlining its tasks and
lowering its rolled loops) and `ResolveModule` per module. Within a pass the
interaction is through state read after the tree it describes was changed,
which is where most of `hazards` in `PROJECT.json` lie.

## 2. Modules

| Module | Models | Extends |
|---|---|---|
| `FsmExpr` | guards and right-hand sides: truncation, forward substitution, `complements`, `contradicts` | – |
| `FsmWalk` | `walk_paths`: the symbolic walk of one marked process | `FsmExpr` |
| `FsmDecode` | `build_decode`: the arms of the decoded outputs, and the codes of the states | `FsmWalk` |
| `FsmMachine` | `compile_process`, `check_paths` and the machine `emit` writes, clocked; it implements `ImperativeProcess` on the tree compiled (refinement mapping) | `FsmDecode` |
| `FsmLoopLowering` | `fsm_loop_lowering.cpp` on whole trees | – |
| `ImperativeProcess` | **abstract**: the source process, executed statement by statement | – |
| `FsmRefinement` | the machine implements `ImperativeProcess` on the tree before its loops were lowered (refinement mapping) | `FsmMachine`, `FsmLoopLowering` |
| `FsmMustDefined` | the must-defined fixpoint of `check_paths`, step by step, and the machine it accepts | – |
| `MarkedTrees` | the vocabulary the MC modules build processes with | `FsmRefinement` |
| `TaskText` | **abstract**: processes that call tasks, and what they do at every edge | – |
| `FsmAlphaRename` | `fsm_alpha_rename.cpp` | `TaskText` |
| `FsmTaskInliner` | `fsm_task_inliner.cpp`, and the source and inlined processes clocked side by side | `FsmAlphaRename` |
| `Procedure` | **abstract**: procedural text and what it means | – |
| `LoopUnrolling`, `VariableFolding`, `DeadcodeElimination` | one pass each, on `Procedure` text | `Procedure` |
| `ResolveModule` | `branch_selection.cpp`; the pipeline of the four passes, a state machine over stages, and a folded call | the three |
| `IntConst` | `expression_operators_intconst.cpp`: every operator on literals | – |
| `VerilogExpression` | **abstract**: what a simulator computes, in words and in sized and signed contexts | `IntConst` |
| `ConstantFolding` | `expression_evaluation.cpp` node by node, and the pass that writes the literals | `VerilogExpression` |
| `Netlist` | **abstract**: the wiring of a hierarchy, bit by bit; dimensions and selections | – |
| `ModuleInstanceNormalizer` | names of ports, defparams, buffers, arrays of instances | `Netlist` |
| `ModuleFlattener` | the recursion of `module_flattener.cpp`, one action per phase of an activation | `ModuleInstanceNormalizer` |
| `ModuleObfuscator` | `module_obfuscator.cpp` and the drawing of unique names | – |
| `ConditionalStack` | `pp_conditional.cpp`, as pure operators, and **abstract**: which text stands, from the history of the conditions | – |
| `Preprocessor` | the scanner: directives, macro table, pushed buffers, files of one command line | `ConditionalStack` |
| `FsmWalkProofs`, `FsmMachineProofs`, `FsmDecodeProofs`, `FsmExactProofs`, `FsmMustDefinedProofs`, `ConstantFoldingProofs`, `ModuleObfuscatorProofs`, `PreprocessorProofs` | the proofs | the module and `TLAPS` |
| `MCControl`, `MCLoops`, `MCMustDefined`, `MCTasks`, `MCResolve`, `MCFolding`, `MCFlatten`, `MCObfuscate`, `MCPreprocessor` | instances for TLC | |

### 2.1 The state machine compiler

`FsmWalk` keeps the variables of `walk_paths`. `stack` is the worklist, the leg
being walked first: each leg is its frames (the statements left of each
enclosing block, and the loop it is the body of), the guard literals collected
so far (`guard`), the forward-substitution environment (`env`) and the commits
queued for the edge (`action`). `out[w]` is the cover of wait `w` (and of the
`Entry`): the recorded segments, each a guard, an action and the next wait;
`walked` the waits whose continuation has been walked, `holdNeeded` whether some
path stops for good, `proc` the outputs to decode and the encoding asked for.
There is one action per arm of the switch in `walk_paths`: `EnterBlock`,
`Nonblocking`, `Induced`, `Blocking`, `DecodedOutput`, `IfFork`, `CaseBegin`,
`CaseArm`, `CaseEnd`, `EnterLoop`, `Jump`, `Arrive`, `EndOfFrame`, `BackEdge`,
`EndOfProcess`. What it refuses sets `status` to "error": `DeadTemporary` (a
temporary read after its cycle), `OutputLeft` (a wait reached with an output
nothing on the path drives) and, in `EnterLoop` and `BackEdge`, a loop with no
wait or whose test keeps a temporary.

Expressions are extensional: a right-hand side is a table of the values it takes
over the names it reads, and two guards complement one another when their tables
do. The code decides the same questions on syntax (`complements`, `contradicts`),
so it may keep a leg the model drops as impossible; such a leg is never taken.
`WideModulus` stands for the 32 bits an expression is computed in, `Modulus[v]`
for the declared width of `v`.

`FsmDecode` is what `emit` derives from a finished cover. For an output decoded
from the state register, `Coherent` asks that all the arrivals at a state that
decide the output agree, or that what still tells them apart (`Residue`) is
stable and survives the commits; the arm of a state is then the chain of those
values. `Codes` are the four encodings; in `"output"` the code of a state is the
vector of its outputs followed by the ordinal that tells apart the states with
one vector, and a vector that is not constant, or does not fit `WordBits`, is
refused (`Encodable`).

`FsmMachine` adds the verdict (`Accepted`, the conjunction of `check_paths`'
tests) and the emitted hardware: `state` is the state register, `store` the
registers and inputs, `arms` the comb that drives the outputs, `codes` what the
state register holds. `Shown` is the comb: under `output` encoding a slice of the
state register, and otherwise the mux that reads the reset as a *level* (the reset
values while it is up, the arm of the state when it is down). `ResetEdge` loads
the preamble's commits; it stands for a clock edge under reset and for the edge of
an asynchronous one, so what it reads of the outputs is what the comb had before
the reset or under it (`UnderReset`). `ClockEdge`
takes the first leg whose guard holds, or the last one unguarded, as
`Taken` reads it from the chain of `if … else if … else` that `emit` writes,
and the comb settles (`Settled`).
`Undefined` is the fixpoint's *meaning* (which registers some path leaves
unassigned); its *computation* is `FsmMustDefined`, where every
visit of an edge, every sweep and every repetition is an action.

`ImperativeProcess` is what the source promises: between two edges the process
runs from one `@` to the next, statement by statement, with a continuation stack
and no guards, no environment and no path cover. `Execution` is the thread after
each number of statements and `Lengths` the numbers looked at; a step that is not
over by then has diverged. The machine is compared with it twice. In `FsmMachine`
the tree is the one that is walked, and a state of the machine stands for what is
left to execute once its wait is over, which the position of the wait fixes
(`KontOf`, from the frames `Around` each statement): `ExecutesTree`, which is
proved. `FsmRefinement` takes the *source* tree, before `FsmLoopLowering`: a
countdown register then stands for the laps a source `repeat` has left
(`CompilesExactly`, which is model-checked).

Left out of this part: branches emitted verbatim (`EL:1456`; here a branch with
no wait or jump forks like any other, or is a conditional nonblocking
assignment), the foreign-driver and clock checks, naming. Each case arm has one
label. Temporaries live within one step of the reference interpreter, as the
documentation defines them.

### 2.2 The task inliner

A name is a sequence of pieces, so that `t_0_a` is told apart from a name that
happens to be spelled like it only when the code would. An expression is a name
plus a constant. `FsmAlphaRename` renames the locals of nested blocks apart, in
each marked process and in each task the processes reach. `FsmTaskInliner` has
one action per round of the pass: `AlphaRename`, `InlineProcess` (one marked
process with all its calls: `LowerReturnList` threads an early `return` into
the branches, `LowerFormal` is one of the ways an argument is bound,
`Spliced` makes the block of a call, `ExpandCall` guards recursion), `Inlined`,
and `Sweep`, which drops the inlined tasks nothing calls, until none is left.

Then each process runs, the source beside the text it became (`source`,
`lowered`), `ClockEdge` by `ClockEdge`, over every value of the inputs. The
source runs under `TaskText.Run`: a static task keeps its arguments and locals
from call to call, an automatic one has new ones, arguments are copied in at the
call and out at the return. `bad` marks an execution that read something nothing
assigned: the walk of section 2.1 refuses such a process later, and nothing is
promised about it. The processes of a module are run one at a time.

Left out: the unrolling of constant loops before and after the pass, types,
cases, initializers, arrays, interface members. The programs of the passing run
keep two preconditions, each a departure told in section 5: no local or argument
has the name of a register that a task called from there writes, and no task
returns with a `<=` to its own argument pending.

### 2.3 The folding passes

`Procedure` gives procedural text (assign, if, case with one arm that matches or
does not, for, while, repeat, forever, break, continue, return, block) and
`Outcome(text, store)`, what it does when executed; `Fuel` laps without an end
are "hung". The passes are pure operators, as they are pure functions of the
tree in the code; `VariableFolding`'s carry the interpreter's state (`known`
constants, pending jump, `full`) from statement to statement as the code's
members do, including what `give_up` clears and what it leaves. `ResolveModule`
has one action per pass and keeps the `source` beside the `text`, so a property
can compare the two after every pass and not only at the end.

`Cap` stands for the cap of 100 000 laps, `Fuel` (beyond `Cap`) for "does not
end". Left out: scopes and the renaming of declarations, expressions beyond one
operation (they are the next section), x and z, `ScopeElevator`, the passes over
declarations, arguments of calls and the recursion cap.

### 2.4 Constant expressions

An expression is a sequence of nodes, operands before the operators that read
them. The evaluator works on literals: a number of unlimited precision, a size
(or none) and a sign. `IntConst` is each operator as the code computes it, with
the size and sign it gives its result. `ConstantFolding` has one action per
class of node: `EvaluateConstant`, `EvaluateIdentifier` (the parameter or index
of `ReplaceMap`, or not known), `EvaluateUnary`, `EvaluateBinary`,
`EvaluateTernary`, `EvaluateNothing` (an operand has no value), `Abort` (a
division by zero or a huge shift throws), and `Evaluated`; `Fold` is then the
pass, which writes each literal with its size and in its base, and leaves the
rest (`text`). `value` holds the literals so far; `meaning` is history: beside
each literal the word of `IntBits` bits a simulator computes, and whether what
led to it is within what the integers promise.

`VerilogExpression` is the reference, twice over. For integers it computes words
modulo 2^`IntBits` (`WordUnary`, `WordBinary`, …). For literals with sizes it
follows the rules of the standard in two passes, sizes and signs up from the
operands (`SelfSizes`, `SelfSigns`) and then down from the width of the net that
is driven (`Simulated`, `Driven`). `Linear` and `Regular` name where numbers of
unlimited precision and words agree: a sum that overflows is still congruent, but
comparing or dividing it is not; and what is folded is a literal that keeps the
size and sign of the operator it replaces.

Left out: real numbers, calls of constant functions, x and z (a division by zero
that the evaluator does not abort on is 0 on both sides), the digits of a
literal in its base. `IntBits` stands for 32.

### 2.5 The flattener

Names are sequences of pieces, values are sequences of references (with a
hierarchical path, indices and slices) and literals. A module is its ports,
parameters, declarations and items: instances, assignments and defparams. An
assignment stands for anything that drives. `stack` holds one frame per
activation of the recursive pass, and a frame's `phase` is where the activation
is: `Resolve` (parameters into the text, dead code out of it), `Buffering`
and `Splitting` (the normaliser on the text's arrays of instances), `Analyse`
(defparams, names of the ports), `Enter` (a child's text, loaded and flattened in
a frame of its own), `Close` (the child's names under the prefix of the
instance), `Bind` (the assignments that stand for the connections, and the
references into the child) and `Splice`. A kept instance is skipped (`Pass`).
Anything the code refuses sets `status`.

`Netlist` gives the reference: `Scopes` elaborates the hierarchy, `Wiring` is
the set of pairs of bits one of which drives the other, through ports of both
directions, arrays of instances (the same net to all, or a share to each),
parameters and defparams. `SameNetlist` compares the roots of every bit before
and after; `Origin` remembers from which instance and name each declaration of
the flat text comes.

Left out: interfaces, subroutines, localparams, statements, generate scopes
(a connected `inout` is refused, as in the code). The normaliser's branch for a part select of an array of instances can
only be reached to be refused.

### 2.6 The obfuscator

A module is sets of names: what it declares, its ports and parameters (`kept`),
its instances (`insts`), its tasks and functions with their arguments and variables, and what
each scope uses. An *occurrence* is a scope, a role (declaration, reference,
call, leaf of a hierarchical path) and a name; `text` maps each to what it is
spelled now. The actions follow `process`: `PushDecl` draws for one declaration,
`ReplaceIdentifiers` and `RenameLocal` rewrite one occurrence, `EnterProc` saves
the map and hides what the subroutine declares, `PushLocal` draws for one local,
`RenameProc` restores the map, `Finish`. A draw is any name the pass has not
taken; with `--use-hash` it is the hash of the name unless that is taken.

The names a draw may give are not kept apart from those of the module: the code
starts from an empty `m_unique_id` and hands out the base name first, so a port,
an instance or a signal not yet renamed may have the name drawn. `Apart` says of a
behaviour that it did not happen, and `SameBinding` promises something of those
only; `AlwaysBound`, which does not ask it, is refuted (section 5).

Left out: nested block scopes, struct members, types, unnamed declarations.

### 2.7 The preprocessor

`Preprocessor` reads one item at a time: a word, a line's end, an escaped line's
end, or a directive with its name. `cond` is `m_conditionals`, `table` the macro
table with the expansion counter of each entry, `frames` the buffers pushed for
expansions and includes (`m_frames`), `mode` the start condition the items are
read in, `pending` the definition or the include being read. There is one action
per directive and per rule of a start condition: `Emit`, `Conditional`,
`SkipDirective`, `SkipToEol`, `Define`, `DefineBody`, `DefineFinish`, `Undef`,
`UndefineAll`, `IncludeArg`, `TailJunk`, `IncludeOpen`, `Expand`; and
`PopBuffer` (`on_eof`, taken in any start condition), `EndOfFile` and `NextFile`
(`run_scanner` and the loop over the files, which share the driver's table and
stack). An undef of a macro that is being expanded leaves a buffer whose
`expanding_macro` dangles: such a buffer is `stale`, and what its end decrements
is a choice.

`groups` and `defining` are history: the conditions of the branches read in
every open group, and whether the line belongs to a definition. They never
appear in a guard of the scanner's actions (only in the bounds), and
`ConditionalStack` (`Stands`) says from them alone which text *stands*. The code keeps
three states per group and decides as it goes; the abstract module looks back at
all the branches.

Left out: arguments of function-like macros (they are collected from the live
input, `expand_macro_call`), a macro as the name of an include, the search of
include directories, line markers and line numbers, strings and comments (in
which nothing is a directive), directives with a missing or a bad name,
`` `resetall`` and the directives that pass through (both emit or do nothing).

## 3. Runs

| Run | Instance | Shows |
|---|---|---|
| `control` | 22 processes: forks, cases (default in the middle, repeated label, no default), whiles, `break`/`continue`, nested loops, temporaries, an enable, one-shots, decoded outputs in all four encodings, and the processes that must be refused | types, coverage, no lost edge, temporaries dissolve, an output is what the path taken computed and, the reset being down, holds between edges, codes tell states apart, the machine executes the tree it was compiled from, every process is answered |
| `loops` | 9 processes of rolled `for`/`repeat`, alone, one after another and inside one another, `continue`, zero counts, registers one bit short of the count | the machine takes the source's laps |
| `must_defined` | all cyclic graphs of the given shapes over 4 states and 2 registers | the fixpoint ends, is exact, and an accepted machine reads no register nothing assigned |
| `inline` | 420 modules: two calls per lap of tasks that are static or automatic, with arguments of every direction, early returns, waits inside, locals that shadow, tasks within tasks, a second process, a process not marked | an inlined process writes what the source writes at every edge; a call stands exactly while its task does; no two storages share a name |
| `resolve` | initial blocks of every loop, branch and jump shape, and constant functions | every pass preserves the meaning, from every store; a call folds only to what it returns |
| `fold` | 4314 expressions of two and three operators over 0, 1, 2, 5, 6, a parameter, a variable and literals with a size | integers are exact as words; what is folded drives the same nets |
| `flatten` | 21 designs of two levels: arrays with shared and split connections, words and concatenations, ascending and descending ranges, parameters in parameters, defparams, kept instances, ports that clash with prefixed names, a kept instance whose prefixed name is a wire's, hierarchical references, and designs that cannot be wired | the wiring is kept; a buffer or a port takes no name that is there; a design is refused exactly when it cannot be wired |
| `obfuscate` | modules of one and two subroutines that redeclare names of the module, of its port and of one another, and modules with a port, an instance or a signal that a draw or a hash may meet; with and without hashes, two names having one hash | every reference and call names what it named unless a name of the module was drawn; ports, parameters and instances are never touched and the rest is renamed apart; the renaming ends |
| `preprocess` | any text of 17 kinds of items, two macros with bodies that use each other, leave a group or escape a line end, a header that guards a definition and includes itself | what is emitted and acted upon is what stands, expansions are capped and end, an unterminated group is reported |
| `inexact` | a capture into a narrow register, a `for` whose index is too narrow for its test, a path that commits what guards another path's output | *disagreement*: see 5 |
| `hijack` | an argument with the name of a register that a nested task writes | *disagreement* |
| `capture` | a module with a port of the name that is drawn first | *disagreement* |

**Bounds.** *State machines.* Registers hold one or two bits and `WideModulus`
is 4, the least width at which a commit can be wider than its register
(`BlockingWide` and `ApplyWide` are the mutants that need it). `WordBits` 4
stands for the 32 bits a code has: the six states of `hot` and `ordinals` lie on
both sides of it. Trees have at most 16 source nodes: enough for two levels of
nesting with a fork inside and a tail after it, which is what the frame stack
distinguishes (a third level repeats the second). `Lengths` is {60}: a step that has halted
stays as it is, and none of the instances executes 60 statements from an edge to
the next wait. Each process is run for every input at
every edge and a reset at any edge, so the machine's runs are unbounded; only
the set of processes is finite. `must_defined` has four states because a cycle
entered in the middle and left through a second state needs three and the hold
state must be one past the table.

*Tasks.* `Modulus` 3 tells a value, its successor and the one before apart;
`Fuel` 40 statements exceed what any step of the programs executes. Two calls in
a lap are what it takes for storage to outlive the first; three tasks deep
repeats two.

*Folding passes.* The stores range over every value the conditions of the texts
tell apart; `Cap` 4 and `Fuel` 8 place counts below, at and above the cap of
100 000; `Modulus` is 64, wide enough that no value of that run is truncated,
no text of it reads a `for` index after its loop, and no loop has an empty
statement list: there the passes do not keep the meaning (section 5).

*Expressions.* `IntBits` is 5: products, powers and shifts of the literals of
the run overflow it, which is where a number of unlimited precision and a word
part. `MaxBits` 16 bounds what a power or a shift may grow to. Nets have 3 and 7
bits, below and above every literal's size; the variable has 3 bits and takes
every value. Three operators deep is what it takes for a size given by the
second to decide the value the third reads.

*Hierarchies.* Two levels with an array in the lower one and a reference through
both; widths up to 4 split two ways and three; two names to draw from, so that a
draw may meet a name taken by an earlier one. Both settings of the dead code
option.

*Obfuscation.* Ten names, of which the base, a draw and a hash are three, and
three draws beside the base, as many as a module of the run asks for; when they run
out the pass cannot end (section 5).

*Preprocessor.* The file of the command line is arbitrary, one item at a time
and without end; what is bounded is what the scanner keeps: groups opened by
that file at nesting `MaxNest` 2 (the header and the bodies may open more),
branches of a group `MaxBranches` 3 (taken, after the taken one, and one more:
the states of a frame have no fourth), `MaxBody` 1 item per macro defined there
(the header's has two), `MaxDepth` 2 and `MaxInclude` 3 for the code's 64 and 64.
`SharedLines` admits a conditional directive after another directive on its
line: it is false in the run, because there the scanner loses the directive
(section 5). The macros defined in the file have bodies that hold no definition,
for the same reason; they may undefine the macro being expanded.

**Deadlock** is checked in `flatten`, whose finished designs stutter: the
recursion is never stuck half way. Elsewhere a refused process, a finished
pipeline and a finished file stop for good.

**Fairness.** `MachineSpec` asks weak fairness of the compiler's next step:
the compiler is one sequential function that is never suspended, so while a
step is enabled it is taken. Nothing is assumed of the clock or of the reset.
`FsmMustDefined` and the obfuscator's `FairSpec` ask the same of their steps.
`Preprocessor` asks it only while a pushed buffer is open (`frames # <<>> /\
Next`): the scanner is a loop that reads a pushed buffer to its end; nothing is
assumed of the file of the command line, which may never end. `ResolveModule`
asks none and has no liveness property; that its loop ends is stated as a
decreasing measure (`DeadcodeEnds`).

## 4. Theorems

All are proved for every value of the constants.

* `WalkTypeOK`, `WalkCoverage` (`FsmWalkProofs`). *Coverage* says that from the
  entry and from every wait, each content of the registers has a path, recorded
  or still among the legs. It is inductive together with the types and with
  *Closed* (every wait that is the target of a recorded path has been walked or
  is being walked). One lemma per action of the walk, resting on the facts of the
  module's first section: a fork's two guards are complementary, substitution
  commutes with evaluation, a dropped leg's guard holds nowhere.
* `WalkTempsDissolve` (`FsmWalkProofs`). No guard, commit or output of a recorded
  path reads a temporary. The invariant is *NothingDead*: the environment of a
  leg substitutes every register by something that reads no temporary, and every
  temporary that is in scope and assigned likewise; so what is added to the leg
  after substitution is clean, or the walk has refused. It assumes that no case
  label reads a temporary (`LabelsReadNoTemp`): the code clones a label
  without substituting it (`implicit_fsm_elaboration.cpp:985`), so that the
  theorem is false without.
* `MachineTypes`, `EveryEdgeHasALeg` (`FsmMachineProofs`). The invariant adds that
  an emitted machine comes from a finished walk with one preamble, so that
  *Coverage* with no leg left says that the recorded paths alone cover, and
  *Closed* says that the state reached has a cover: the bare `else` of a state
  never takes a lost store. What a decoded output shows fits its width
  (`ShownFits`), which the types of the store need.
* `StatesApart`, `OutputsStay` (`FsmDecodeProofs`, with `DecodeInvariant`). The
  invariant `EmittedInv` says that the tables of an emitted machine are those of
  its finished cover and that the machine passed `Decodable`. That codes differ
  then rests on what the code leaves to arithmetic: one-hot codes are powers of
  two below `WordBits`, a Gray code determines its index bit by bit from the top,
  `clog2` bits hold every index, and under `output` the ordinals, numbered below
  the outputs, tell states of one vector apart. `OutputsStay` is about the reset as
  a level too. With the reset down an output stays what the last edge left, because
  `Unstable` is refused: no leg of an arm reads an input or an output, so the
  comb is a function of the state and of registers that only an edge moves; and when a
  reset is released, the arm of the first state takes over from the reset values
  and shows the same. While the reset is up, outside `output` encoding, the outputs
  do move: they show what the reset will leave, before it has left it. A clock edge
  under that reset may then read them moved, which `UnderReset` and `MachineExecutes`
  allow for.
* `WalkOrdered` (`FsmWalkProofs`). The chain of a state takes the first path that
  holds; the checks and the comb, however, only compare the *texts* of the guards
  (`complements`, `build_decode`). *Order* ties the two: a path contradicts, conjunct
  against conjunct, each path recorded before it, or no store takes it first, and no
  guard contradicts itself. It is inductive for the recorded paths and the legs on
  the stack together, a leg within a case standing for the ways of all its arms still
  to be walked (*Ways*). A case with expressions for labels (`case (1'b1)`) has arms
  that only their order tells apart, hence the hypothesis `ConstantLabels`.
* `OutputsComputed` (`FsmDecodeProofs`). The comb of an output reads registers that
  the edge has already moved, and neither it nor the state register knows which path
  arrived; yet what it shows is what the path taken computed at the edge
  (*OutputsDecoded*). By *Coverage* the path taken is the first that holds and not the
  bare `else`; by *Order* its residual guard excludes that of each earlier leg of
  the arm; what both read the path has not moved (`Unstable`), so after the edge the
  arm takes that very leg; and equal chains take equal legs (`SameChain`), so that it
  does not matter from which state it came. Without `ConstantLabels` it is false:
  `overtaken` in section 5.
* `WalkExecutes`, `MachineExecutes` (`FsmExactProofs`). The emitted machine implements
  the process: `MachineSpec /\ []Faithful => ExecutesTree`, for every tree, any widths,
  and from anything the registers hold at power-on. The walk works on all the stores at once
  and leg by leg, executing works on one store and statement by statement;
  *PathsExecute* ties them. For every cut point begun and every store, either
  some recorded path is the first one the store satisfies, and executing from there
  ends its step with that path's commits, outputs and next wait (`Took`), or the
  first leg on the stack that the store satisfies stands where executing comes to
  after some number of statements, with that leg's environment and commits
  (`Follows`). It is inductive with *StackInPlace* (what a leg has left is what its
  place in the tree says, so that two paths arriving at one wait have the same left
  to execute), *Begins* (nothing is recorded for a wait not arrived at) and
  *NothingDead* (a value read after a wait does not depend on a temporary of
  before it). There is one lemma per action of the walk; where one action stands for
  several statements (blocks nested first in blocks), it takes as many steps of the
  process. *ExactMachine* adds the invariants of
  the machine and that its temporaries hold 0 between edges (`TempsStill`); a clock
  edge then takes the recorded path that executing takes (`PathTaken`), commits what
  it has assigned (`CommittedIs`) and shows what it has decoded (`SettledSame`,
  which needs `OutputsComputed`), a reset the same from the preamble.
  The hypotheses are what the code's own departures (section 5) leave.
  `Faithful`, at every step: the next edge loses no bits by assigning at once
  (`KeepsBits`; the walk substitutes the whole value, the register keeps its declared
  width), and outputs are decoded only where case labels are constant. Without the one
  `copyin` and `index` of the run `inexact` refute the property, without the other `overtaken`.
  `LabelsStand`: no label of a `case (1'b1)` reads what its process assigns at once,
  because the code does not substitute labels. `Lengths = Nat`: a step is followed
  for as long as it takes. Every process of `control` keeps the hypotheses wherever
  it is emitted but `shows`, which decodes a register of two bits
  into an output of one; `ExecutesTree` holds of it all the same, as the step that loses the
  bit does not read the output again.
* `SweepTypeOK`, `NeverReadsUndefined`, `RefusesRightly`, `SetsOnlyShrink`
  (`FsmMustDefinedProofs`). The sweep invariant keeps the sets between the
  greatest fixpoint and what an explicit path witnesses: the lower bound gives
  soundness of acceptance, the witness gives rightness of refusal.
* `Exact` (`ConstantFoldingProofs`). Every integer the evaluator gives is the one
  the simulator computes in words, whatever overflowed on the way. The invariant
  (`EvaluationInv`) says that each node with a sound meaning *stands for* its
  word (differs from it by whole words) and, when it is an integer by its
  operator, has no size. Sums, products, bitwise operators and shifts left carry whole words through, one lemma per
  operator; the others are only sound on integers, where the two are equal. The
  facts of powers of two that need induction are `PowersAssumption`, which TLC
  evaluates on the powers of the run; no other fact is assumed. `TypeCorrect`
  adds to it that what has a meaning is a literal (`LiteralsInv`) and where the
  evaluation stands in each phase (`PhaseInv`): a sound operator whose value is
  a number has literals for operands, and then gives one, of any size.
* `TypeCorrect`, `BindingsKept`, `InterfaceKept` (`ModuleObfuscatorProofs`). The
  invariant has a part per phase: the map is injective and into names taken
  (`unique`), so is the backup and the two agree outside the subroutine's own
  names; while names are drawn the text is the source; after the identifiers are
  replaced every occurrence is either as the map says or not yet visited, outside
  and inside the subroutine; a subroutine that is done keeps its own new names
  apart from the module's, as long as no name drawn is one of the module
  (`Apart`). That condition is in `SameBinding` itself and is not an assumption on
  the constants: draws may meet any name. It is there because without it the
  statement is false (`capture`). `InterfaceKept` needs no such condition.
* `TypesHold`, `InvHolds`, `EmitsRight`, `EndsRight`, `SkipsRight`
  (`PreprocessorProofs`). The invariant `Inv` is *Matched* and *LineInv*.
  *Matched* relates the i-th frame to the history of the i-th group and of those
  around it: it is "taken" exactly when the branches read last of the groups up
  to the i-th are all the chosen ones, and "looking" exactly when those of the
  groups around it are and no condition of its own was true. `EmitsWhatStands`
  alone is not inductive: after an `endif` the frame below decides, and only
  *Matched* knows what it means. *LineInv* ties the start conditions to the
  lines: a definition or an include is only read where text stands, and the lines
  of a definition are the ones no conditional directive is looked for on. One
  lemma per stack operation (`OpenMatches`, `BranchMatches`, `CloseMatches`). The
  last four theorems assume `~SharedLines`, without which they are false.

* `DepthsCount`, `ExpansionsCapped` (`PreprocessorProofs`). The cap on recursion
  is on a counter kept in the table of macros, but what it must bound is on
  the stack of buffers. *DepthInv* relates the two: the counter of an entry is the
  number of open buffers that expand it (`TableInv`), and the expansions lie
  above the files (`FramesInv`), so that closing a buffer finds the entry it was
  opened with. The hypothesis `InertBodies` (no body defines, undefines or
  includes; a definition in an included file ends in it) is the one the code needs: a body that
  defines its own macro anew resets the counter (`pp_macro.cpp:31`), and the
  cap may then be exceeded (section 5).

What TLAPS assumes: the named assumptions on the constants, which TLC evaluates
in the runs, and nothing else. Of those, `AroundAssumption` says that the program is
a tree: the frames around a statement are those around the statement that holds
it (`MarkedTrees` computes them from the trees of the runs);
`DisciplineAssumption` is what `collect_stmt` and `collect_loop` refuse a process
for.

Where a proof needs the value of a recursive *function* (`TwoTo`, the powers of
two; `Execution`, the thread after each number of statements) it is unfolded by hand:
a set of counterexamples has a least member, and the table below it extends by one. The same does not reach a recursion over trees.

**Only model-checked.** The refinement `CompilesExactly` of a source with bounded
loops: from the lowered tree on it is `ExecutesTree`, but the lowering recurses over
trees. Liveness (`Answered` twice, `Decided`, `ExpansionsEnd`), which
needs ENABLED; everything about the folding passes, the task inliner and the
flattener, whose operators recurse over trees (`RECURSIVE` is out of the
prover's reach); `SameSignal`, which rests on
induction over an expression.

## 5. Disagreements found

Three are runs, the first of which shows two things. Each quotes, in
`PROJECT.json`, the sentence it departs from.

1. `inexact` (processes `copyin` and `index`): a copy-in capture forward-substitutes the *whole* value
   (`implicit_fsm_elaboration.cpp:854`) while the register keeps the truncated
   one: readers before and after the first cut disagree.
   `docs/verilower.md:199` promises an exact compilation or a refusal.
   Process `overtaken`, to be seen with it alone in `Names`: `build_decode` checks
   the guard of each path into a state against the commits of that path only
   (`implicit_fsm_emission.cpp:260`), but the comb is a chain, and a path that
   commits what an *earlier* leg's guard reads shows that leg's value.
2. `hijack`: the renames of a call go over the blocks of the calls inside it
   (`fsm_task_inliner.cpp:963`), whose names are those of another task.
3. `capture`: the first name drawn is the base name, whatever the module has of
   that name (`module_obfuscator.cpp:149`): a signal takes the name of a port, and
   the result is not the valid RTL that `docs/veriobf.md:5` promises.

The others were met in reading and are not run. The models follow the code, and
the instances of section 3 stay clear of them.

*State machines and tasks.*
* A case label is not substituted (`implicit_fsm_elaboration.cpp:985`).
* A `<=` to an input argument that is pending at the return is committed to the
  argument of the next call in the same cycle (`docs/adr-0014:1407`).
* A hoisted name equal to another task's is taken for the same register; names of
  temporaries are compared with no declaration; a local of a task itself is
  unknown to `fsm_alpha_rename.cpp`, so a nested block's local of its name is
  refused where `docs/adr-0014:2323` compiles it.

*Folding.*
* Values are tracked without widths (`variable_folding.cpp:285`).
* Nothing assigns the index of an unrolled `for` (`loop_unrolling.cpp:449`), and a
  `for` whose body is emptied goes with the writes of its index
  (`deadcode_elimination.cpp:415`).
* The minus of a literal with a size is signed and keeps its size
  (`expression_operators_intconst.cpp:113`): `-4'd15` becomes `4'sd1`, which a wider
  net tells from what it was; `SameSignal` asks for the same size and sign.
* A sum has one bit more than its operands, a product or a shift as many as both,
  a shift right fewer, perhaps none: in a concatenation the folded text has
  another width. `~4'd0` in a wider net, and the sign of an operator, given by
  either operand and not by both, are of the same kind.
* `0 ** 0` and `1` to a negative power fold to 0; a negative `>>` uses the bits of
  the number and not of 32; a division by zero in either branch of `?:`, and a
  shift left by a huge or a negative count, throw and nothing catches them.
* A range declared for a parameter is lost when it is inlined.
* The default of a parameter that `--param-map {N:}` keeps is still substituted in
  the values of others (`docs/verilower.md:158`).

*Flattening.*
* The declarations of a child are prefixed and compared with no name of the text
  around (`module_flattener.cpp:418`), where `docs/passes.md:465` has renaming avoid
  collisions: a wire `q` of instance `u` beside a wire `u_q` gives two declarations of
  `u_q`. `NamesTellApart` is about ports and buffers, whose names are
  compared, and no design of the run has such a pair.
* A port is renamed wherever its name occurs in a longer one (508).
* A signal of the child read only through a hierarchical reference goes as dead
  code before the reference is resolved (219).
* A defparam of a kept instance, or whose label has an index, is dropped, and of
  two of one target the first counts (`module_instance_normalizer.cpp:684`).
* An array `u[3:0]` yields an `u3` that is never compared with one that is there.

*Obfuscation.* Names are drawn until one is new, so `--id-length 1` may not end; a
subroutine's walk renames the last label of hierarchical references
(`module_obfuscator.cpp:306`); instances, named blocks and the variables of
functions keep their names although `docs/passes.md:536` and
`docs/veriobf.md:3` have it otherwise.

*Preprocessor.* In skipped text, and after an `undef` in any text, the rest of
the line is swallowed, a conditional directive on it included
(`pp_scanner_impl.cpp:557`, `pp_scanner.ll:163`). A redefinition resets the
counter that stops recursion (`pp_macro.cpp:31`) while the old definition is
still being expanded: a macro whose body defines it anew before using it has more
expansions open than the cap, and the counter ends below zero.

## 6. Not modelled, and why

* **Branches emitted verbatim** (`implicit_fsm_elaboration.cpp:1380–1466`): the walk
  here forks where the code copies the branch, and the machines agree because a
  branch with neither wait nor jump commits what its fork commits; the code's
  joined environment is what is missing, and a hazard with no property.
* **Function-like macros**: the arguments are pulled from the live input across
  the ends of buffers; line numbers through expansions and includes.
* **Localparams, enums, typedefs, type parameters** (`enum_elaboration.cpp`,
  `localparam_inliner.cpp`, …): substitution maps with no order to explore beyond
  what `ModuleFlattener` has of parameters.
* **Structs, interfaces, packages, scopes**: lowering by declaration, scope by
  scope; the scopes of unrolled blocks in `LoopUnrolling` belong here too.
* **The second round of `resolve_module.cpp`** after a spliced subroutine: the
  passes over a text they have already seen.
* **Real numbers and calls in constant expressions**; a call is evaluated in
  `ResolveModule`, by itself.
* **Parser, AST, generators, importers, tools**: data conversion with no state, most
  of it generated from `lib/tools/ASTGen/verilog_ast.yaml`, which leaves no order of steps to
  explore; the tests of `lib/test/importers` and `lib/test/generators` read and print nodes.
