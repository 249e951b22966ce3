# Models and proofs of the Cminus-f compiler

TLA+ modules that model this repository's compiler from the syntax tree to the optimized IR, the
configurations that model-check them with TLC, and TLAPS proofs of the results
that hold for every program. Everything is translated from the sources; the
comments of the modules name the functions they stand for.

The compiler is one thread. What makes it hard is not concurrency but state
shared by pointer: every data dependency is stored twice, passes iterate over
hash sets and sets of pointers whose order nobody chooses, erase what other
structures still name, cache results while they change what the results were
computed from, and end only when a fixpoint is reached. These are the questions
asked here.

## 1. The system

    source -> lexer/parser -> syntax tree -> AST -> CminusfBuilder -> LightIR
           -> PassManager: [Mem2Reg] -> [GVN: DeadCode, GVN, DeadCode] -> text -> clang

| component | state it keeps | operations | what makes it correct |
|---|---|---|---|
| Def-use chains: `Value`, `User` (`lightir/Value.cpp`, `User.cpp`) | `use_list_` of a value, `operands_` of a user | `set_operand`, `add_operand`, `replace_all_use_with`, `replace_use_with_when`, `remove_use`, `remove_use_of_ops` | both copies agree after every primitive; nothing that is used is freed |
| Basic blocks, functions (`BasicBlock.cpp`, `Function.cpp`) | instruction list, `pre_bbs_`, `succ_bbs_` | append, `erase_instr`, `delete_instr`, edges added by branches | edge lists are mutual; a block has one terminator |
| Instructions, `IRBuilder` (`Instruction.cpp`) | operands, types | constructors and `create_*` | operands are wired before the instruction can be seen |
| Purity analysis `FuncInfo` | `is_pure`, `worklist` | `run`, `trivial_mark`, `process` | exactly the functions that can reach a side effect are impure; ends under mutual recursion |
| `DeadCode` | `marked`, `work_list`, a `FuncInfo` | `run`, `mark`, `sweep` | only dead code goes, all of it goes, no dangling pointer in any sweep order |
| `Dominators` | `idom_`, `dom_frontier_`, `dom_tree_succ_blocks_`, post order numbers | `run` | results are dominance by its definition; the fixpoint and both pointer walks end |
| `Mem2Reg` | `var_val_stack`, `phi_map`, the dominator results | `run`, `generate_phi`, `re_name`, `remove_alloca` | each use reads what the load would have; nothing erased is read |
| `GVN` with `ConstFolder`, `CongruenceClass`, the expression classes | `pin_`, `pout_`, `next_value_number_` | `run`, `transferFunction`, `join`, `intersect`, `valuePhiFunc`, `replace_cc_members` | members of a class have equal values; a replacement is valid where it is made; the loop ends, and at a fixpoint |
| `CminusfBuilder`, `Scope` | scope stack, current function, insertion point, `require_lvalue`, `tmp_val`, `pre_enter_scope` | one `visit` per AST class | the IR does what the program means and is well typed; names resolve to the innermost declaration; each block gets one terminator |
| `PassManager`, `main` | list of passes | `add_pass`, `run` | each pass leaves what the next assumes |
| Types, constants, globals, module | interning maps | `get` | one object per key |
| AST, syntax tree, parser's actions | trees | `node`, `transform_node_iter` | lists keep their order, operators their operands |
| `io.c` | standard input and output | `input`, `output`, `outputFloat`, `neg_idx_except` | |
| lexer, IR printer, logging | none | output | not modelled |

How they interact: the AST is made of the parser's tree and visited by the
builder, whose visits talk to one another through globals and the scope. It creates instructions, whose constructors fill the
use lists and whose branches fill the edge lists. `Mem2Reg::run` constructs a
`Dominators`, runs it on the whole module and reads its frontiers and tree, then changes
operands and erases instructions with the primitives of `Value` and
`BasicBlock`. `GVN::run` makes a `FuncInfo` and a `DeadCode`, runs the latter
before and after its own work and hands replacements to
`Value::replace_use_with_when`. `DeadCode::run` runs `FuncInfo` and goes by its
answer for all of its rounds. `FuncInfo` and both passes walk the use lists.

The hard behaviours, with their lines, are the `hazards` list of
`PROJECT.json`: two copies of one fact; erasing in hash order; a purity cached
over the sweeps that change the program; worklists that grow while they are
walked; an idom iteration that reads values of two rounds; walks that may leave
the tree at `nullptr`; stacks of plain pointers to instructions that are erased
meanwhile; `back()` of a stack that may be empty; GVN's comparison of
partitions, its copies for phis and its replacement predicate; division in the
constant folder; the builder's global flags and conversions across nested visits.

## 2. The modules

`DefUse` (source: `Value.cpp`, `User.cpp`, part of `BasicBlock.cpp`). State:
`operands` and `num_ops` per user, `uses` per value as a count of `(user,
arg_no)` entries, and the life of a user (`unborn`, `attached`, `detached` after
`remove_use_of_ops`, `freed`). One action per primitive: `NewUser`,
`AddOperand`, `replace_all_use_with`, `replace_use_with_when` (any predicate on
users), `remove_use_of_ops`, `Free`, `erase_instr`. The order within a use list
is abstracted, a duplicate entry is not. The precondition that an operand still exists when
`remove_use` is called on it is the guard `OperandsExist`; that the passes meet
it is the business of `DeadCode` (`NoDanglingOperand`) and `Mem2Reg`.

`Chains` is the abstract specification of both `DefUse` and the passes that work on
the chains: one relation, which user `reads` which value, and `users`, which is no
second copy but what the relation says. Its operations are `Construct`, `Extend`,
`Redirect`, `Detach`, `Erase` and `Free`; a user gives up its operands only while
they exist. `DefUse` implements it (`ImplementsChains`) with slots, counts and
lists that primitives keep by hand. `DeadCode` implements it in a stricter form
(`SweepIsCareful`), in which no step frees a user that is still read.

`FuncInfo` (`optimization/FuncInfo.h`). State: the program (`insts`, `operands`,
`uses`), `is_pure`, `worklist`, `fi_pc`. Actions: `trivial_mark`, `process(f)`
for any `f` of the worklist, `FIReturn`. `uses` is used as `DefUse` proves it to
be. The order of the worklist is any order, which includes the code's.

`DeadCode` EXTENDS `FuncInfo` (`optimization/DeadCode.h`, and
`GVN.cpp:990-1018` for what happens between two runs). State: `marked`,
`work_list`, `wait_del`, `changed`, the function at work, and how many runs
there were. The actions follow `run`: `StartRun`, the steps of `FuncInfo`,
`FirstRound`, `MarkCritical`, `MarkOperands(i)`, `Collect`, `Detach(i)` and
`Erase(i)` in any order (they iterate over an `unordered_set` of pointers),
`SweepReturn`, `NextRound`, `RunReturn`. `GvnReplace` lets some users of an
instruction read another value instead, whatever GVN's reason: a superset of what GVN does.
Functions of one round are taken in a fixed order, as the module's list has it;
their sweeps do not depend on one another within a round.

`CFG` holds control-flow graphs and dominance by its definition (`Dom`, `IDom`,
`Frontier`), which the passes' results are held against.

`Dominators` EXTENDS `CFG` (`optimization/Dominators.cpp`). Every loop iteration
is a step: `VisitSuccessor` and `Leave` (`post_order_visit`, with its recursion
as a stack), `StartIdom`, `StartRound`, `SkipRoot`, `PickPred`, `MeetPred`,
`WalkUp`, `Met`, `SetIdom`, `EndRound` (`create_idom` and `intersect`),
`StartFrontier`, `StartRunner`, `RunnerStep` (`create_dominance_frontier`),
`create_dom_tree_succ`. `idom` is defined on `nullptr` too, because
`get_idom(nullptr)` inserts it into the map. An assertion that fails is a state
without a successor, which TLC reports as a deadlock; a walk that does not
end violates `Terminates`. Which predecessor comes first in `pre_bbs_` depends
on the order in which branches were made: any.

`Mem2Reg` EXTENDS `CFG` (`optimization/Mem2Reg.cpp`). The function is a graph and
a list of loads and stores per block. `PlaceVar`, `VisitBlock`, `EndVar` are
`generate_phi`; `StartRename`, `PushPhis`, `RenameLoad`, `RenameStore`,
`EndInstrs`, `FillPhis`, `Recurse`, `PopBlock` are the eight steps of `re_name`
on its call stack; then `remove_alloca`. The dominator results it reads are the
definitions in `CFG`, which are what `Dominators` computes
(`DominatorsResultExact`). `keys` records that a `std::map` entry, once made, stays when its
stack is empty again. `rval` and `read` are the operands of stores and of the users
of loads, which `replace_all_use_with` moves.

`ConstFold` (`Constant.cpp`, `ConstFolder` in `GVN.cpp`): constants and the
arithmetic on them, integers of `Width` bits that wrap around and a division that traps. A
float is a number of halves, so that conversions lose something and comparisons
see it; NaN, infinities and the sign of zero are left out. The folder, the
language's meaning and the IR's meaning share these operators.

`Gvn` EXTENDS `CFG` and `ConstFold` (`optimization/GVN.cpp`, `GVN.h`). State: the
function, the operands `args`, `pin_` and `pout_` per block, the partition at
the point the round has come to, and what is left to do. A partition is a
sequence of classes (leader, value expression, members) in the order of the
`std::set`. Actions: `EnterBlock` (pin by `join` and `intersect`), `Transfer`
(`transferFunction`, one instruction), `CopyNextPhi` (one phi of a successor as
a copy), `LeaveBlock` (print, compare, store `pout_`), `EndRound` (the
do-while), `ReplaceIn(bb)` (`replace_cc_members` of a block, in any order as the
map is ordered by pointer). Expressions, `Equiv` and `valuePhiFunc` are
recursive operators with the code's comparisons, among them that phi expressions are
compared without their join. The pass stops (pc `crash`) where the folder divides by zero, in
`Transfer`, also on an edge that `valuePhiFunc` looks at; printing is modelled only where it reads a
null pointer, in `LeaveBlock`.

The front end:

| module | source | content |
|---|---|---|
| `Cminus` | `syntax_analyzer.y`, `syntax_tree.c`, `io.c` | the tree the grammar's actions build for a program; `RunLibrary`; and what a program means, from `Documentations/common/cminusf.md`, as the reference the IR is held against |
| `Ast` | `common/ast.cpp` | `transform`, from that tree to the AST |
| `LightIR` | `Instruction.cpp`, `IRBuilder.h`, `BasicBlock.cpp`, `Type.cpp` | functions while they are built; `create_*` as operators with operands, type and edges |
| `Names` | | the abstract scope: what each name stands for now, and what it stood for in the blocks around |
| `Scope` | `cminusf_builder.hpp` | the stack of maps; `NamesResolve` is its refinement of `Names` |
| `Builder` | `cminusf_builder.cpp`, `ast.hpp` | the visitor: one action per `visit`, cut where it calls `accept`; the C++ call stack is `work`; `tmp_val`, `require_lvalue`, `pre_enter_scope`, `cur_fun` are variables as in the code |
| `RunIR` | external (clang) | what the module of LightIR does when it runs, on the machine of `Cminus` |
| `Frontend` | | composes `Builder`, `Ast` and `RunIR` and states what the front end promises |

`Builder` knows programs by their AST alone: the constant `AstOf` gives the AST of a
program, `DeclNode`, `StmtNode` and `ExprNode` are the nodes that occur, and
`IsDeclaration`, `IsStatement` and `IsExpression` say what a node of each class of
`ast.hpp` is made of. `Frontend` brings the parser's tree and `transform`, and
`MCFrontend.cfg` sets `AstOf` to `Parsed`, their composition. This keeps
the recursive operators out of `Builder`, so that theorems about it can be proved.

The syntax tree of a program is built by the grammar's actions from an abstract
program, so no text is parsed; every list, level of precedence and parenthesis is there.

`MC*` modules give constants and initial states to TLC. `*Proofs` modules and
`Mem2RegMeaning` hold the proofs.

## 3. The runs

| run | question | bounds and why they suffice |
|---|---|---|
| `defuse` | do the chains agree after every sequence of primitives, can an operand dangle only by freeing what is in use, and is each primitive one operation of `Chains` | 3 users, 1 constant, 2 operands: the same value twice in one user, self reference (a phi of a loop), replacement by a value that is itself a user, freed users. The theorems remove the bounds. Symmetry over the users only. |
| `funcinfo` | does the worklist end with exactly the impure functions | all call graphs among three functions, a declaration and `main`, self and mutual recursion included, with a local store, global load or global store somewhere. The longest chain and the cycles of two and three are there; the theorem removes the bound. |
| `deadcode` | order of sweeping, cached purity, completeness, termination over two runs and a GVN replacement, each step an operation of `Chains` that frees nothing still read | all programs made of eleven groups of instructions in three functions and a declaration: mutually recursive calls, a dead phi cycle, a dead global load that makes its function impure until it has gone, used and unused call results. 2 runs and 1 replacement: what one run leaves behind meets the next. |
| `dominators` | are idom, frontier and tree what the definitions say, do the assertions hold and all loops end | every graph of 4 blocks and at most two successors, in every order of the successors. Irreducible loops, where a first round leaves a wrong idom for the second to correct, need 4 blocks. Unreachable blocks are included, but not with edges into the reachable part (see the next run). |
| `dominators_hang` | the same on a graph the builder emits | a finding |
| `mem2reg` | does every use read what the load would have read, are stacks, phis and the erased allocas consistent | the graphs for `if`-`else`, `while`, `if` in a `while` and an `if`-`else` that returns in both branches; two variables; each of two or three blocks is empty or one of five accesses, among them a swap through loads; every renaming order. Values are compared along all paths of 6 blocks: each loop body runs, `while` twice. |
| `gvn` | do the partitions become a fixpoint, do classes hold equal values, is every operand after the replacements worth what it was | straight code, an `if`-`else` with three phis and a `while` with three, with every kind of instruction that has an expression of its own, pure and effectful calls, constants that fold (4 bit integers); leaders and members of another iteration, operands of the wrong edge and classes split in a later round occur. Values are compared along all paths of 6 blocks: the loop runs twice. Every order of the blocks in `replace_cc_members`. |
| `gvn_joins`, `gvn_lagging` | what the documentation says of phis | findings |
| `frontend` | does the IR mean what the program means, well typed and well formed, and do names resolve at every step | 400 programs: every pair of 20 statements in `main`, after globals and three functions (an early return, an array parameter, recursion). The statements nest selections, loops, returns, blocks and redeclarations, assignments in assignments and indices in indices, and convert in every place that converts, in both directions. What one statement leaves behind meets every other one. `Width` 8 suffices for the values, `main` reads 2, 1, 3. |
| `mem2reg_undef`, `mem2reg_alloca` | what the comments promise on functions outside of that | findings |

Safety: `TypeOK` in each of the state machines but `FuncInfo` and `Frontend`;
`ChainsAgree` and `DanglingOnlyFromUsedErase`;
`PurityExact` and `PurityPartial`; `NoDanglingOperand`, `CachedPuritySafe`, `OnlyDeadErased`, `OnlyLiveRemains`; `AssertionsHold`,
`NoDominatorLost`, `IdomOnlyRises`, `IdomExact`,
`FrontierAndTreeExact`; `SamePathValues`, `StackBalanced`, `NoStaleValue`,
`NeverEmpty`, `PhisComplete`, `NoUseLeft`; `SamePathResults`, `ClassesAgree`,
`Fixpoint`, `NeverCrashes`; `SameMeaning`, `WellTyped`, `BlocksWellFormed`,
`RequestsServed`. `AssertionsHold` includes that an idom has the higher post
order number. The comment above each one says what
it means for the code. `NeverEmpty`, `PhisComplete` and `NoUseLeft` speak of
functions whose entry block initialises its variables; `SamePathValues` of all,
an unwritten variable being the value "undef".

Refinement: `NamesResolve` (`Scope` implements `Names`), checked on the scope as
the builder drives it in `frontend`, and proved for every use and for the builder; `ImplementsChains`
(`DefUse` implements `Chains`), in `defuse`; `SweepIsCareful` (`DeadCode`, with its
`FuncInfo` and the replacements of GVN, implements the careful form of `Chains`), in
`deadcode`. The last two are proved as well.

Liveness: `FITerminates`, `RunTerminates`, `Terminates` (of `Dominators` and of
`Gvn`), `RunReturns`. Fairness
is weak fairness on the steps of the pass at work: the compiler is a single
thread and its loops go on until their conditions end them. `StartRun` is in it
as well: `main` calls the passes.

`CHECK_DEADLOCK FALSE` stands in two configurations: in `MCDefUse` a sequence of
primitives ends when all users have been freed; in `MCFuncInfo` the analysis
returns and there is nothing after it. The other modules have a `Finished` step that is enabled only after the pass has returned, so that a
deadlock there is a failed assertion, or a visit with no way on. The front end
has no liveness property: the builder walks a finite tree, and that it does not
get stuck on the way is the absence of deadlocks.

Findings (each a run that TLC refutes):

- `dominators_hang`: for `while (c) { if (x) return 1; else return 2; }` the
  builder leaves an unreachable block that jumps back to the condition;
  `create_dominance_frontier` walks from it to `nullptr` and never on.
- `mem2reg_undef`: a variable set in one branch of a selection only; when that
  branch is renamed first, the other fails the assertion on the stack of the
  variable. The comment says the case gets `undef`.
- `mem2reg_alloca`: the code after a selection that returns in both branches is
  unreachable and not renamed, but the allocas it reads are erased.
- `gvn_joins`: phi expressions are compared by their operands alone. `if (p) x = 1;
  else x = 2; if (q) y = 1; else y = 2; a = x + e; b = y + e;`: `b` is replaced
  by `a`. The documentation has the join block as a part of the phi.
- `gvn_lagging`: the copies for the phis of a successor are made one after
  another. In `last = 0; i = 0; while (i < n) { last = i; i = i + 1; }`, with the
  phi of `i` first, `last` is put into the class of the new `i`. With the other
  order of the two phis the classes are right.

Two more remarks on the documents, each without a run: the header of `FuncInfo`
names writes alone as what makes a function impure, the code counts loads of globals as well
(on the safe side for GVN, and what `PurityExact` is about);
`Documentations/common/cminusf.md:136` evaluates the address of an assignment
before its right side, the builder after it. The programs of `frontend` do not
tell these two orders apart; where an index has a side effect the IR and the
document differ.

## 4. The proofs

Assumed are the constants' assumptions and nothing else (but for `ScopeHolds`, a
hypothesis of `BuilderNamesResolve`): `DefUseAssumption`,
`FuncInfoAssumption`, `DeadCodeAssumption`, `ScopeAssumption`, `BuilderAssumption`
(below), `CFGAssumption` (a function has finitely many blocks, the entry is one of them),
`DominatorsAssumption` (`nullptr` is no block) and `MaxPathAssumption` (the bound
on the paths `SamePathValues` looks at is some positive number; the theorem holds
for each). TLC evaluates them in the runs. Every theorem is about the
specification the runs check (the two theorems of the scope by itself about `ScopeSpec`), with any values of the constants: any number of
users, functions, instructions, blocks and variables, and any program.

`BuilderAssumption` says that the nodes of an AST are what their classes allow: a
`compound-stmt` has a list of variable declarations and a list of statements, an
operator has one or two operands and is one of its class, and so on. It is the
declarations of `ast.hpp`, member by member, where a `shared_ptr` that may be null is
a list of at most one (the code tests these, and only these). `AST::AST`
constructs no other objects. Nothing is assumed about names, types or about
which statement stands where.

`DefUseProofs`: `TypeCorrect`, `ChainsCorrect`, `DanglingCorrect`, for any
number of users, values and operands. `ChainsAgree` is not inductive: a user
constructed later would inherit stale entries, and `add_operand` relies on the
slots beyond `num_ops_` being empty. `IInv` adds `TailIsNull` (no operand
beyond `num_ops_`) and `AllChainsAgree` (the agreement also for values that do not
exist yet or any more). Then one lemma per primitive. `DefUseImplementsChains`: each
primitive is one operation of `Chains`, read through the mapping "u reads v when a
slot of u holds v, and the users of v are those with an entry in its use list"; the
agreement is what makes the list the relation's.

`FuncInfoProofs`: `FuncInfoTypeCorrect`, `PurityCorrect` (and
`PurityPartialCorrect`, its half about every step), for any program and worklist
order. "Really impure" is stated without an iteration: a function is impure if it
lies in every set of functions that holds the trivially impure ones and is closed
under "calls". `FIInv` is `PurityPartial` (what is found is really impure; an
unfinished caller has its callee on the worklist) with the agreement of the use
lists of functions and the trivial marks; with an empty worklist it makes the
found set closed, hence the least closed set.

`DeadCodeProofs`: `SweepTypeCorrect`, `SweepSafe` (`NoDanglingOperand`,
`UsesAgree`, `CachedPuritySafe`; the latter two are also stated alone, as
`SweepUsesAgree` and `SweepPuritySafe`; no run checks `UsesAgree`, which
`SweepIsCareful` contains), `SweepImplementsChains` (`SweepIsCareful`), `OnlyDeadCodeErased` (`OnlyDeadErased`)
and `SweepOnlyLiveRemains` (`OnlyLiveRemains`), for any program, hash order,
number of runs and of replacements. `DCInv` adds to these what the
mark loop has achieved (`Marking`: operands of marked instructions that have
left the work list are marked), that nothing critical is collected
(`Deletable`), that operands exist until the first erasure (`OperandsPresent`)
and what each phase leaves behind (`Phases`). That cached purity stays safe
rests on purity being monotone: erasing instructions can only make functions
pure, and a set closed for the larger program is closed for the smaller one.
`SweepImplementsChains` rests on all of it: what a sweep detaches
has operands that still exist, since the first loop only detaches and the second
only frees; and a user it frees is read by nobody, since its readers were unmarked with
it and are detached by then. `OnlyLiveRemains` needs the other half of marking (`LiveInv`): what is marked lies
in every set that holds the critical instructions and what its members read, and
so does, once a round has changed nothing, all that is left.

`BuilderProofs`, first part: `ScopeTypeCorrect` and `ScopeImplementsNames`, for any
names, values and nesting. The refinement mapping reads the abstract `visible` off as
`find` of every name, and the abstract `outer` as what `find` would give in each
prefix of the stack. The argument is `FindInLast` (the innermost map decides for the names it
binds, the maps before it for the others) and `FindInSame` (a search of the
first k maps depends on these alone); `enter`, `exit` and a `push` that inserts
are steps of `Names`, a `push` of a name that is there is a stutter.

Second part: `BuilderBlocksWellFormed` (`BlocksWellFormed`) and
`BuilderRequestsServed` (`RequestsServed`), for every program, however deep it nests. The
invariant must say what the work left on the stack will do, since a branch or an
insert point promised by a visit is made only after the visits in between. So the
stack is typed:

- a `State` is what holds between two items: whether the insert block is open,
  closed, or either (`mode`), the number of scopes (`depth`), the request that is
  out (`asked`), the blocks that exist and will be inserted at later (`pend`) and how
  many blocks there are at least (`blocks`);
- `Moves(i, s, t)` says which states an item leads from and to: an expression from
  an open block to an open block, a statement from an open one to either, "jump" to
  a closed one, "insert at" takes its block out of `pend` and opens it, "end" leaves
  the function. Only a variable may start while an address is asked for, only a parameter or a
  compound statement while a scope is; that is `RequestsServed`;
- `TypedFrom(w, s, t)`: the items of w lead from s to t one after another;
- `BodyOK(F, O, n)`: the function F has n blocks, those of O have no terminator and
  no successor yet, each other one ends with its one terminator and has its
  targets as successors, the lists of every edge agree, none leads to the entry;
- `Stands` connects the two: at an open state the blocks without a
  terminator are those of `pend` and the insert block, at a closed one those of `pend`;
- `BuilderInv`: some state holds now (`Current`), and the stack leads from it to
  `Final`.

Each action takes the head of the stack, which leads from s to t, and puts items
there that lead from where it has come to to t (`Continues`), or to t with an open block, from which
the rest of the stack goes on as well (`MovesOpened`). The lists of the stack
are composed by `TypedConcat`. Beneath it, one lemma per `create_*` says what it does to
`BodyOK`: `CreateKeeps`, `RetCloses`, `BrCloses`, `CondBrCloses`, `NewBlocksReady`.

Third part: `BuilderNamesResolve`, that the builder as a whole, and not the scope alone,
keeps `NamesResolve`. Each visit is one operation of `Scope` or none (`BuilderScope`),
and `BuilderInv` knows the depth: an "end" stands at depth 2 and a "statements" that
entered a scope above the depth it leads to, so that the map of the program is
never left. The hypothesis `ScopeHolds` says that `Name` and `Val` are large enough: every
declared name is in `Name`; the functions, global variables and instructions these are bound to are in `Val`.
In the code these are all strings and all `Value *`. The run takes finite sets
that hold what occurs in its programs.

`CFGProofs` (lemmas only) makes the definitions of `CFG` usable: the recursive
function behind `ReachableAvoiding` is shown to end with the least set that holds
the entry, avoids what is to be avoided and is closed under the edges, after as
many rounds as there are blocks. From that: dominance is a partial
order, the dominators of a block are a chain, a strict dominator of a block
dominates its reachable predecessors, every reachable block but the entry has
exactly one `IDom`, and a block outside of the frontier of a, with a
predecessor that a dominates, is dominated by a. Induction is done over sets
(`SetInduction`: a set that holds 0 and successors holds all naturals), and a
recursive function exists because the sets of its finite beginnings do
(`Iteration`); both are proved here.

`DominatorsProofs`: all the invariants of the run `dominators` and its action
property, on any well formed graph with any order of successors and predecessors,
irreducible loops and unreachable blocks with edges into the reachable part
included. The inductive invariant goes along the algorithm:

- the search (`SearchInv`): the frames are a path from the entry, a visited block
  is on the stack or numbered, successors the loops have passed are visited, and
  the block the search came from is numbered later. It ends with `Ordered`: the
  numbered blocks are the reachable ones, the entry is last, and every other block has a predecessor
  with a higher number. This is why `assert(pred)` holds.
- the iteration (`TreeInv`, `RoundInv`, `MeetInv`): the tree grows towards higher
  numbers and the strict dominators of a block are dominators of its idom, so that
  no dominator is lost (`DominatorsNoneLost`); both walks of `intersect` stay in the
  tree and end, for two blocks of it never have one number
  (`DominatorsAssertionsHold`). `Above(p)`, the walk of p to the root, is stated as
  the least closed set again.
- at the end of a round without a change every idom is above all predecessors
  (`Settled`). A block above another one is then on every path to it, hence
  dominates it; with `TreeInv` this gives `DominatorsIdomExact`, and with what the
  walks of the runner have added (`FrontierInv`, `RunnerInv`)
  `DominatorsResultExact`.
- `DominatorsIdomOnlyRises`: not obvious, since `intersect` walks
  through idoms of this round and of the one before. `RiseInv` has four parts: what
  all predecessors of a block agree on is above the block (`AgreeInv`), the meeting
  finds the nearest of those (`NearestInv`), blocks are placed after their
  earlier predecessors (`FirstInv`), and, until the round comes back to it, the walk
  of an earlier predecessor holds what is above the block (`KeptInv`). The last one is what makes `AgreeInv`
  inductive: an idom that moves up takes blocks off the walk of another block only
  together with the walks of that block's predecessors.

`Mem2RegProofs`: `Mem2RegTypeCorrect`, `Mem2RegNoStaleValue`,
`Mem2RegStackBalanced`, `Mem2RegNeverEmpty`, `Mem2RegPhisComplete`,
`Mem2RegNoUseLeft`, for any graph and any code in its blocks that `Init` allows (no
edge from an unreachable block into the reachable part; a store of a loaded value
comes after that load, in its block), any number of variables and any order of the
children. The inductive invariant: the activations of
`re_name` are a chain in the dominator tree and the children not yet done have their
subtrees before them (`CallsInv`); a load that will still be replaced is in no
stack, phi or operand that has been written already, except in that of a later store of its block
(`FreshInv`); the height of a stack is the sum of what the activations pushed
(`BalanceInv`); a phi has one operand per predecessor that has passed step six, and
none else (`PhiInv`); what `re_name` has passed is erased (`UseInv`).

`Mem2RegMeaning`: `Mem2RegSamePathValues`, that the pass keeps the meaning of the
function on every path. First a static description: the value of a variable
at a place is what the nearest dominator that gives it one gave it, by its last
store or else by a phi (`Current`, `NoValue`). The invariant says that the code follows it:
phis are where the frontiers want them (`PlacedInv`), the top of a stack is the
value at the place the activation has come to, and is available there (`TopsInv`), and so are the values that users of
loads, stores and phis were given (`LoadsInv`, `StoresInv`, `OperandsInv`). The second part
runs the function before and after the pass along a path, side by side:
after each instruction every variable holds in memory what its value is now
(`Agrees`), one lemma per instruction. At an edge the phis take over; a variable
without a phi in the block has the same value at the end of all predecessors, since
otherwise the block would be in a frontier. `MaxPath` bounds the paths of the run; the theorem has it for any bound.

Only model-checked:

- liveness (`FITerminates`, `RunTerminates`, `Terminates`, `RunReturns`): the prover
  has no ENABLED. For `Dominators`, `DominatorsIdomOnlyRises` bounds the number of
  rounds that change something.
- the properties of `Gvn`: they do not hold of every function (`gvn_joins`, `gvn_lagging`
  and the hazards show where they fail), and `Equiv` and `valuePhiFunc` are RECURSIVE operators,
  which the prover does not take;
- `SameMeaning` and `WellTyped`: `Ast`, `Cminus` and `RunIR`, hence `Frontend`, have RECURSIVE
  operators. `SameMeaning` is also an induction over the program, which is out of the
  prover's reach.

## 5. What is not modelled

The automata of the lexer and the parser, which are generated; printing of
the AST and of the IR, naming, logging, json dumps, option parsing and the pass
manager, which calls the passes in order; `User::remove_operands` and
`create_doms` (no caller).

Abstracted: interning tables of types and constants (a type or a constant is a
value, so the one object of a key is that key), identifiers cut to a fixed length
(`syntax_tree.c:10`), `std::stoi` and `std::stof`, floats (halves, see
`ConstFold`), widths (4 and 8 bits for 32). In the models of `FuncInfo` and
`DeadCode` data types and block structure are left out, since the passes look at
neither; in `Mem2Reg` arrays are, since it skips them. The alloca of an array parameter, which
holds a pointer, is no exception to `re_name` (it asks for no gep and no global): it
is a variable like any other, with its one store in the entry block, and only
`remove_alloca` leaves it in the function, with no load or store.

Left out of the families of programs, because the code goes wrong there or the
language gives no meaning (each is a hazard in `PROJECT.json`): for `gvn`, the
same expression in both arms of an `if` (the leader need not dominate the
join), a division of constants by zero, a block listed before its only
predecessor, two joins in a row and a variable that lags another (these two
are the findings); for `frontend`, index expressions with side effects on the
left of an assignment, a missing return value that is used, names of the runtime
library taken for variables, calls with the wrong number of arguments.

## 6. Plan

Done: 1 `DefUse`, 2 `FuncInfo`, 3 `DeadCode` (composes 2 with itself over two
runs), 4 `CFG` and `Dominators`, 5 `Mem2Reg`, 6 `Gvn`, 7 `ConstFold`, 8 the front
end from `Cminus` to `Frontend`, 9 `Chains`, which 1 and 3 implement; proofs of all
safety properties of 1 to 5, of the two refinements of `Chains`, of the scope, and of the blocks, requests and names of
the builder.

What could come next:

- The graphs `Builder` makes as the input of `Dominators` and `Mem2Reg`, in
  place of the written ones. `BodyOK` is what such a composition would take from the builder.
- `WellTyped` for every program. It takes a rule for the types of names, which the
  compiler does not check, as an assumption on programs.
- The fixpoint and the class invariants of `Gvn`, once its expressions and `Equiv` are
  recursive functions on bounded expressions in place of RECURSIVE operators.
- `Mem2Reg` as an implementation of `Chains`: its model keeps what the users of a load
  read, not the lists.
