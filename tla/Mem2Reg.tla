------------------------------ MODULE Mem2Reg ------------------------------
(***************************************************************************)
(* Mem2Reg::run on one function (optimization/Mem2Reg.cpp): phis for each  *)
(* promoted local variable are placed on the iterated dominance frontier   *)
(* of its stores, a walk over the dominator tree replaces the loads by the *)
(* newest value on the variable's stack and fills in the phis of the       *)
(* successors, and the allocas are erased.                                 *)
(*                                                                         *)
(* The order in which the children of a block are renamed is that of a     *)
(* std::set of pointers: any order.  A variable's stack is an entry of a   *)
(* std::map: whether it exists and whether it is empty are two questions,  *)
(* and the code asks the first before it calls back().                     *)
(***************************************************************************)
EXTENDS CFG

CONSTANTS
    Var,                    \* allocas of an int, a float or an array parameter's pointer
    MaxPath                 \* bounds the paths SamePathValues runs along

ASSUME MaxPathAssumption == MaxPath \in Nat \ {0}

VARIABLES
    succ,           \* the control-flow graph
    code,           \* the loads and stores of each block, in order
    dominators_,    \* the frontiers and the dominator tree Dominators found
    rval,           \* the value a store writes now
    read,           \* what the users of a load read now
    pc,             \* phase of run
    todo,           \* variables whose phis are not placed yet
    cur,            \* the variable being placed
    work_list,      \* generate_phi's work list
    phis,           \* the variables with a phi in a block
    phi_ops,        \* the operand pairs of a phi
    keys,           \* the variables with an entry in var_val_stack
    var_val_stack,
    calls,          \* re_name's activations: block, step, children to do
    erased          \* loads and stores erased from their blocks

progVars == <<succ, code, dominators_>>
vars == <<progVars, rval, read, pc, todo, cur, work_list, phis, phi_ops, keys,
          var_val_stack, calls, erased>>

\* Instructions are named by their block and place.  code[b][k] is a record of
\* op, var and, for a store, the place src in the same block of the load whose
\* result it stores, or 0 when it stores some other value.
WellFormedCode(c) ==
    /\ c \in [Block -> Seq([op : {"load", "store"}, var : Var, src : Nat])]
    /\ \A b \in Block : \A k \in DOMAIN c[b] :
          c[b][k].src # 0 => /\ c[b][k].op = "store"
                             /\ c[b][k].src \in 1 .. k - 1
                             /\ c[b][c[b][k].src].op = "load"

Loads == UNION {{<<b, k>> : k \in {j \in DOMAIN code[b] : code[b][j].op = "load"}}
                : b \in Block}
Stores == UNION {{<<b, k>> : k \in {j \in DOMAIN code[b] : code[b][j].op = "store"}}
                 : b \in Block}
Instruction(i) == code[i[1]][i[2]]

\* Values: a load's result, whatever else a store writes, a phi.
LoadValue(i) == <<"load", i[1], i[2]>>
OtherValue(i) == <<"other", i[1], i[2]>>
PhiValue(b, x) == <<"phi", b, x>>
Values == {LoadValue(i) : i \in Loads} \cup {OtherValue(i) : i \in Stores}
              \cup {PhiValue(b, x) : b \in Block, x \in Var}

StoredValue(i) ==
    IF Instruction(i).src = 0 THEN OtherValue(i)
    ELSE LoadValue(<<i[1], Instruction(i).src>>)

TypeOK ==
    /\ rval \in [Stores -> Values]
    /\ read \in [Loads -> Values]
    /\ pc \in {"place", "visit", "rename", "alloca", "done", "abort"}
    /\ todo \subseteq Var /\ work_list \subseteq Block
    /\ pc = "visit" => cur \in Var
    /\ phis \in [Block -> SUBSET Var]
    /\ phi_ops \in [Block \X Var -> SUBSET (Values \X Block)]
    /\ keys \subseteq Var
    /\ var_val_stack \in [Var -> Seq(Values)]
    /\ calls \in Seq([bb : Block, step : {"phis", "instrs", "succs", "children"},
                      next : Nat \ {0}, children : SUBSET Block])
    /\ erased \subseteq Loads \cup Stores

\* What Dominators::run finds (module Dominators: IdomExact and
\* FrontierAndTreeExact).  An unreachable join is in the frontier of its
\* predecessors alone.
DominatorsOf(g) ==
    LET reached == Reachable(g)
        idom == [b \in reached \ {Entry} |-> IDom(g, b)]
    IN  [frontier |-> [b \in Block |->
            IF b \in reached THEN Frontier(g, b)
            ELSE {j \in Block \ reached : b \in Pre(g, j) /\ Cardinality(Pre(g, j)) >= 2}],
         succ_blocks |-> [b \in Block |-> {c \in DOMAIN idom : idom[c] = b}]]

\* No unreachable block jumps back: on other graphs Dominators::run, which
\* comes first, does not return (module Dominators).
Init ==
    /\ WellFormedCFG(succ) /\ Trimmed(succ) /\ WellFormedCode(code)
    /\ dominators_ = DominatorsOf(succ)
    /\ rval = [i \in Stores |-> StoredValue(i)]
    /\ read = [i \in Loads |-> LoadValue(i)]
    /\ pc = "place"
    /\ todo = {Instruction(i).var : i \in Stores}
    /\ cur = CHOOSE x \in Var : TRUE
    /\ work_list = {}
    /\ phis = [b \in Block |-> {}]
    /\ phi_ops = [f \in Block \X Var |-> {}]
    /\ keys = {}
    /\ var_val_stack = [x \in Var |-> <<>>]
    /\ calls = <<>>
    /\ erased = {}

DominanceFrontier(b) == dominators_.frontier[b]
DomTreeSucc(b) == dominators_.succ_blocks[b]

-----------------------------------------------------------------------------
(* generate_phi                                                            *)

\* The next variable of global_live_var_name, a set of pointers; its work list
\* starts with the blocks that store to it.
PlaceVar(x) ==
    /\ pc = "place"
    /\ x \in todo
    /\ todo' = todo \ {x}
    /\ cur' = x
    /\ work_list' = {i[1] : i \in {s \in Stores : Instruction(s).var = x}}
    /\ pc' = "visit"
    /\ UNCHANGED <<progVars, rval, read, phis, phi_ops, keys, var_val_stack, calls,
                   erased>>

\* Mutant: blocks that get a phi are not queued.
MutVisitBlock(b) ==
    LET new == {j \in DominanceFrontier(b) : cur \notin phis[j]}
    IN  /\ pc = "visit"
        /\ b \in work_list
        /\ phis' = [j \in Block |-> IF j \in new THEN phis[j] \cup {cur} ELSE phis[j]]
        /\ work_list' = work_list \ {b}
        /\ UNCHANGED <<progVars, rval, read, pc, todo, cur, phi_ops, keys,
                       var_val_stack, calls, erased>>

\* Mutant: a block is queued again although it has its phi.
MutVisitBlockAgain(b) ==
    LET new == DominanceFrontier(b)
    IN  /\ pc = "visit"
        /\ b \in work_list
        /\ phis' = [j \in Block |-> IF j \in new THEN phis[j] \cup {cur} ELSE phis[j]]
        /\ work_list' = (work_list \ {b}) \cup new
        /\ UNCHANGED <<progVars, rval, read, pc, todo, cur, phi_ops, keys,
                       var_val_stack, calls, erased>>

\* A block of the work list: its frontier gets phis where there are none, and
\* those blocks join the list.
VisitBlock(b) ==
    LET new == {j \in DominanceFrontier(b) : cur \notin phis[j]}
    IN  /\ pc = "visit"
        /\ b \in work_list
        /\ phis' = [j \in Block |-> IF j \in new THEN phis[j] \cup {cur} ELSE phis[j]]
        /\ work_list' = (work_list \ {b}) \cup new
        /\ UNCHANGED <<progVars, rval, read, pc, todo, cur, phi_ops, keys,
                       var_val_stack, calls, erased>>

EndVar ==
    /\ pc = "visit"
    /\ work_list = {}
    /\ pc' = "place"
    /\ UNCHANGED <<progVars, rval, read, todo, cur, work_list, phis, phi_ops, keys,
                   var_val_stack, calls, erased>>

-----------------------------------------------------------------------------
(* re_name                                                                 *)

Frame(b) == [bb |-> b, step |-> "phis", next |-> 1, children |-> DomTreeSucc(b)]
Top == calls[Len(calls)]
Below == SubSeq(calls, 1, Len(calls) - 1)
Latest(x) == var_val_stack[x][Len(var_val_stack[x])]

StartRename ==
    /\ pc = "place"
    /\ todo = {}
    /\ pc' = "rename"
    /\ calls' = <<Frame(Entry)>>
    /\ UNCHANGED <<progVars, rval, read, todo, cur, work_list, phis, phi_ops, keys,
                   var_val_stack, erased>>

\* Mutant: the phis are not made the newest values.
MutPushPhis ==
    /\ pc = "rename"
    /\ calls # <<>>
    /\ Top.step = "phis"
    /\ keys' = keys \cup phis[Top.bb]
    /\ calls' = Append(Below, [Top EXCEPT !.step = "instrs"])
    /\ UNCHANGED <<progVars, rval, read, pc, todo, cur, work_list, phis, phi_ops,
                   var_val_stack, erased>>

\* Step three: the phis of the block are the newest values.
PushPhis ==
    /\ pc = "rename"
    /\ calls # <<>>
    /\ Top.step = "phis"
    /\ LET b == Top.bb
       IN  /\ keys' = keys \cup phis[b]
           /\ var_val_stack' = [x \in Var |->
                  IF x \in phis[b] THEN Append(var_val_stack[x], PhiValue(b, x))
                  ELSE var_val_stack[x]]
           /\ calls' = Append(Below, [Top EXCEPT !.step = "instrs"])
    /\ UNCHANGED <<progVars, rval, read, pc, todo, cur, work_list, phis, phi_ops,
                   erased>>

Advance == calls' = Append(Below, [Top EXCEPT !.next = @ + 1])

\* replace_all_use_with: users, stores and phis that read v read w.  The stacks
\* hold plain pointers and are not users.
ReplaceAllUses(v, w) ==
    /\ read' = [i \in DOMAIN read |-> IF read[i] = v THEN w ELSE read[i]]
    /\ rval' = [i \in DOMAIN rval |-> IF rval[i] = v THEN w ELSE rval[i]]
    /\ phi_ops' = [f \in DOMAIN phi_ops |->
           {<<IF o[1] = v THEN w ELSE o[1], o[2]>> : o \in phi_ops[f]}]

AtInstruction(op) ==
    /\ pc = "rename"
    /\ calls # <<>>
    /\ Top.step = "instrs"
    /\ Top.next <= Len(code[Top.bb])
    /\ code[Top.bb][Top.next].op = op

\* Step four, a load: its uses read the newest value, if the map has an entry
\* for the variable.  back() of an empty vector is undefined: the run ends.
RenameLoad ==
    /\ AtInstruction("load")
    /\ LET k == Top.next
           x == code[Top.bb][k].var
       IN  \/ /\ x \in keys /\ var_val_stack[x] # <<>>
              /\ ReplaceAllUses(LoadValue(<<Top.bb, k>>), Latest(x))
              /\ erased' = erased \cup {<<Top.bb, k>>}
              /\ Advance
              /\ UNCHANGED pc
           \/ /\ x \in keys /\ var_val_stack[x] = <<>>
              /\ pc' = "abort"
              /\ UNCHANGED <<read, rval, phi_ops, calls, erased>>
           \/ /\ x \notin keys
              /\ Advance
              /\ UNCHANGED <<pc, read, rval, phi_ops, erased>>
    /\ UNCHANGED <<progVars, todo, cur, work_list, phis, keys, var_val_stack>>

\* Mutant: the value is the one the store had before its loads were replaced.
MutRenameStore ==
    /\ AtInstruction("store")
    /\ LET k == Top.next
           x == code[Top.bb][k].var
       IN  /\ var_val_stack' = [var_val_stack EXCEPT
                  ![x] = Append(@, StoredValue(<<Top.bb, k>>))]
           /\ keys' = keys \cup {x}
           /\ erased' = erased \cup {<<Top.bb, k>>}
           /\ Advance
    /\ UNCHANGED <<progVars, rval, read, pc, todo, cur, work_list, phis, phi_ops>>

\* Mutant: the address goes on the stack, not the value.
MutRenameStoreAddress ==
    /\ AtInstruction("store")
    /\ LET k == Top.next
           x == code[Top.bb][k].var
       IN  /\ var_val_stack' = [var_val_stack EXCEPT ![x] = Append(@, <<"alloca", x>>)]
           /\ keys' = keys \cup {x}
           /\ erased' = erased \cup {<<Top.bb, k>>}
           /\ Advance
    /\ UNCHANGED <<progVars, rval, read, pc, todo, cur, work_list, phis, phi_ops>>

\* Step five, a store: the value it writes becomes the newest.  (The deferred
\* erasing at the end of re_name is recorded here: nothing reads the block's
\* loads and stores in between but re_name itself.)
RenameStore ==
    /\ AtInstruction("store")
    /\ LET k == Top.next
           x == code[Top.bb][k].var
       IN  /\ var_val_stack' = [var_val_stack EXCEPT
                  ![x] = Append(@, rval[<<Top.bb, k>>])]
           /\ keys' = keys \cup {x}
           /\ erased' = erased \cup {<<Top.bb, k>>}
           /\ Advance
    /\ UNCHANGED <<progVars, rval, read, pc, todo, cur, work_list, phis, phi_ops>>

EndInstrs ==
    /\ pc = "rename"
    /\ calls # <<>>
    /\ Top.step = "instrs"
    /\ Top.next > Len(code[Top.bb])
    /\ calls' = Append(Below, [Top EXCEPT !.step = "succs"])
    /\ UNCHANGED <<progVars, rval, read, pc, todo, cur, work_list, phis, phi_ops, keys,
                   var_val_stack, erased>>

\* Mutant: only the last successor's phis.
MutPhisToFill(b) ==
    {f \in Succ(succ, b) \X Var :
        f[1] = succ[b][Len(succ[b])] /\ f[2] \in phis[f[1]] /\ f[2] \in keys}

\* The phis step six fills when it leaves b: those of the successors whose
\* variable has an entry in the map.
PhisToFill(b) == {f \in Succ(succ, b) \X Var : f[2] \in phis[f[1]] /\ f[2] \in keys}

\* Step six: each gets the newest value as its operand for b; the assertion
\* that there is one may fail.
FillPhis ==
    /\ pc = "rename"
    /\ calls # <<>>
    /\ Top.step = "succs"
    /\ LET b == Top.bb
       IN  IF \E f \in PhisToFill(b) : var_val_stack[f[2]] = <<>>
           THEN /\ pc' = "abort"
                /\ UNCHANGED <<phi_ops, calls>>
           ELSE /\ phi_ops' = [f \in DOMAIN phi_ops |->
                       IF f \in PhisToFill(b)
                       THEN phi_ops[f] \cup {<<Latest(f[2]), b>>} ELSE phi_ops[f]]
                /\ calls' = Append(Below, [Top EXCEPT !.step = "children"])
                /\ UNCHANGED pc
    /\ UNCHANGED <<progVars, rval, read, todo, cur, work_list, phis, keys,
                   var_val_stack, erased>>

\* Mutant: the call for the first child does not come back for the others.
MutRecurse(c) ==
    /\ pc = "rename"
    /\ calls # <<>>
    /\ Top.step = "children"
    /\ c \in Top.children
    /\ calls' = Append(Append(Below, [Top EXCEPT !.children = {}]), Frame(c))
    /\ UNCHANGED <<progVars, rval, read, pc, todo, cur, work_list, phis, phi_ops, keys,
                   var_val_stack, erased>>

\* Step seven: the next child in the dominator tree.
Recurse(c) ==
    /\ pc = "rename"
    /\ calls # <<>>
    /\ Top.step = "children"
    /\ c \in Top.children
    /\ calls' = Append(Append(Below, [Top EXCEPT !.children = @ \ {c}]), Frame(c))
    /\ UNCHANGED <<progVars, rval, read, pc, todo, cur, work_list, phis, phi_ops, keys,
                   var_val_stack, erased>>

\* Mutant: the values of the phis stay on the stacks.
MutPushes(b, x) ==
    Cardinality({k \in DOMAIN code[b] : code[b][k].op = "store" /\ code[b][k].var = x})

\* How often block b has pushed to x's stack: once per store, once for a phi.
Pushes(b, x) ==
    Cardinality({k \in DOMAIN code[b] : code[b][k].op = "store" /\ code[b][k].var = x})
        + (IF x \in phis[b] THEN 1 ELSE 0)

\* Step eight: what the block pushed is popped and the call returns.
PopBlock ==
    /\ pc = "rename"
    /\ calls # <<>>
    /\ Top.step = "children"
    /\ Top.children = {}
    /\ var_val_stack' = [x \in Var |->
           SubSeq(var_val_stack[x], 1, Len(var_val_stack[x]) - Pushes(Top.bb, x))]
    /\ calls' = Below
    /\ UNCHANGED <<progVars, rval, read, pc, todo, cur, work_list, phis, phi_ops, keys,
                   erased>>

\* remove_alloca: every alloca of the function is erased, used or not.
remove_alloca ==
    /\ pc = "rename"
    /\ calls = <<>>
    /\ pc' = "done"
    /\ UNCHANGED <<progVars, rval, read, todo, cur, work_list, phis, phi_ops, keys,
                   var_val_stack, calls, erased>>

Step ==
    \/ (\E x \in Var : PlaceVar(x)) \/ (\E b \in Block : VisitBlock(b)) \/ EndVar
    \/ StartRename \/ PushPhis \/ RenameLoad \/ RenameStore \/ EndInstrs \/ FillPhis
    \/ (\E c \in Block : Recurse(c)) \/ PopBlock \/ remove_alloca

\* The pass has returned, or the compiler has stopped.
Finished == pc \in {"done", "abort"} /\ UNCHANGED vars

Next == Step \/ Finished

Spec == Init /\ [][Next]_vars /\ WF_vars(Step)

-----------------------------------------------------------------------------
(* What the pass promises                                                  *)

\* The entry block gives every variable a value, before it reads any.
Initialised ==
    \A x \in Var : \E k \in DOMAIN code[Entry] :
        /\ code[Entry][k] = [op |-> "store", var |-> x, src |-> 0]
        /\ \A j \in 1 .. k : code[Entry][j].op = "store"

\* The paths from the entry, up to MaxPath blocks.
Paths ==
    LET upTo[n \in 1 .. MaxPath] ==
            IF n = 1 THEN {<<Entry>>}
            ELSE LET shorter == upTo[n - 1]
                 IN  shorter \cup UNION {{Append(p, b) : b \in Succ(succ, p[Len(p)])}
                                         : p \in shorter}
    IN  upTo[MaxPath]

\* The function before the pass and after it, run side by side along a path:
\* mem is what the variables hold before, env what the values are after, ok
\* whether every load found in env what it found in mem.  A value is named by
\* the store that wrote it and the step of the path it did so, a value that
\* was never written is "undef"; loaded is what each load last found in mem.
Undef == <<"undef">>

\* What a value read after the pass is; a load that is left reads a variable
\* whose alloca is gone.
ValueIn(env, v) == IF v[1] = "load" THEN Undef ELSE env[v]

EnterBlock(r, from, b) ==
    [r EXCEPT !.env = [v \in Values |->
        IF v[1] = "phi" /\ v[2] = b /\ v[3] \in phis[b]
        THEN LET ops == {o \in phi_ops[<<b, v[3]>>] : o[2] = from}
             IN  IF ops = {} THEN Undef ELSE ValueIn(r.env, (CHOOSE o \in ops : TRUE)[1])
        ELSE r.env[v]]]

RunInstruction(r, n, b, k) ==
    LET i == <<b, k>>
        x == code[b][k].var
        src == code[b][k].src
    IN  IF code[b][k].op = "load"
        THEN [r EXCEPT !.loaded[i] = r.mem[x],
                       !.ok = r.ok /\ ValueIn(r.env, read[i]) = r.mem[x]]
        ELSE IF src = 0
             THEN [r EXCEPT !.mem[x] = <<i, n>>, !.env[OtherValue(i)] = <<i, n>>]
             ELSE [r EXCEPT !.mem[x] = r.loaded[<<b, src>>]]

RunBlock(r, n, from, b) ==
    LET after[k \in 0 .. Len(code[b])] ==
            IF k = 0 THEN EnterBlock(r, from, b) ELSE RunInstruction(after[k - 1], n, b, k)
    IN  after[Len(code[b])]

RunPath(p) ==
    LET start == [mem |-> [x \in Var |-> Undef], env |-> [v \in Values |-> Undef],
                  loaded |-> [i \in Loads |-> Undef], ok |-> TRUE]
        after[n \in 0 .. Len(p)] ==
            IF n = 0 THEN start
            ELSE RunBlock(after[n - 1], n, IF n = 1 THEN p[1] ELSE p[n - 1], p[n])
    IN  after[Len(p)]

\* On every path each load's users read, after Mem2Reg::run, the value the load
\* would have found in memory: phi placement (generate_phi), the renaming order
\* over the dominator tree and the values left on the stacks together.
SamePathValues == pc = "done" => \A p \in Paths : RunPath(p).ok

\* re_name's pushes and pops pair up along the recursion (steps three, five and
\* eight): a stack holds what the blocks being renamed have pushed, no value of
\* a block whose call has returned.
PushedSoFar(f, x) ==
    IF f.step = "phis" THEN 0
    ELSE (IF x \in phis[f.bb] THEN 1 ELSE 0)
         + Cardinality({k \in 1 .. (f.next - 1) :
                           code[f.bb][k].op = "store" /\ code[f.bb][k].var = x})

StackBalanced ==
    LET held[n \in 0 .. Len(calls)] ==
            IF n = 0 THEN [x \in Var |-> 0]
            ELSE [x \in Var |-> held[n - 1][x] + PushedSoFar(calls[n], x)]
    IN  pc # "abort" =>
            \A x \in Var : Len(var_val_stack[x]) = held[Len(calls)][x]

\* The stacks hold values by pointer and are no users of them: replacing a
\* load's uses (replace_all_use_with) does not reach a stack.  Yet no erased
\* load is found on a stack, in a phi or as the value of a use.
ErasedValues == {LoadValue(i) : i \in erased \cap Loads}
NoStaleValue ==
    /\ \A x \in Var : \A k \in DOMAIN var_val_stack[x] :
           var_val_stack[x][k] \notin ErasedValues
    /\ \A f \in DOMAIN phi_ops : \A o \in phi_ops[f] : o[1] \notin ErasedValues
    /\ \A i \in Loads : read[i] \notin ErasedValues

\* In a function that initialises its variables the assertion of step six holds
\* and step four never calls back() on an empty stack (Mem2Reg.cpp:100, 124).
NeverEmpty == Initialised => pc # "abort"

\* ... and every phi ends up with one operand for each predecessor of its block.
PhisComplete ==
    pc = "done" /\ Initialised =>
        \A b \in Reachable(succ) : \A x \in phis[b] :
            /\ {o[2] : o \in phi_ops[<<b, x>>]} = Pre(succ, b)
            /\ Cardinality(phi_ops[<<b, x>>]) = Cardinality(Pre(succ, b))

\* remove_alloca erases the allocas whether or not they have uses: where all
\* loads and stores are in reachable blocks none has one left.
NoUseLeft ==
    pc = "done" /\ Initialised /\ (\A i \in Loads \cup Stores : i[1] \in Reachable(succ))
        => erased = Loads \cup Stores

\* The work list of generate_phi, to which the loop over it adds, and the
\* recursion of re_name come to an end.
RunReturns == <>(pc \in {"done", "abort"})

\* The comment on the call of remove_alloca (Mem2Reg.cpp:28, "remove the
\* redundant allocations of local variables"): an alloca that goes has no load
\* or store left in its function.
OnlyRedundantRemoved == pc = "done" => erased = Loads \cup Stores

\* The comment of step six (Mem2Reg.cpp:127): a phi with a defined value from
\* one predecessor only is printed with undef for the other, so the pass gets
\* through functions in which a variable is set on one branch only.
PartlyDefinedAllowed == pc # "abort"
=============================================================================
