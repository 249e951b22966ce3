------------------------------ MODULE DeadCode ------------------------------
(***************************************************************************)
(* Dead code elimination (optimization/DeadCode.h) as GVN::run drives it:  *)
(* the same DeadCode object runs before and after GVN replaces the members *)
(* of its congruence classes.  A run computes purity once (FuncInfo), then *)
(* marks and sweeps every function until a whole round erases nothing.     *)
(* The purity it goes by is therefore that of the program as it was before *)
(* its own sweeps, and a sweep erases instructions that read one another,  *)
(* in the order of a hash set.                                             *)
(***************************************************************************)
EXTENDS FuncInfo, Naturals

CONSTANTS
    MaxRuns,        \* bound: runs of the pass
    MaxReplace      \* bound: replacements GVN makes between two runs

ASSUME DeadCodeAssumption == MaxRuns \in Nat /\ MaxReplace \in Nat

VARIABLES
    pc,         \* where DeadCode::run is
    todo,       \* functions this round of the do-while has not reached yet
    cur,        \* the function being marked or swept
    changed,    \* some sweep of this round erased an instruction
    marked,     \* DeadCode::marked
    work_list,  \* DeadCode::work_list, its order abstracted
    wait_del,   \* sweep's local wait_del: collected, not erased yet
    detached,   \* those of wait_del whose uses have been removed
    runs,       \* runs completed
    replaced    \* replacements made by GVN since then

dcVars == <<pc, todo, cur, changed, marked, work_list, wait_del, detached>>
gvnVars == <<runs, replaced>>
vars == <<irVars, fiVars, dcVars, gvnVars>>

TypeOK ==
    /\ FITypeOK
    /\ pc \in {"idle", "funcinfo", "func", "mark", "detach", "erase"}
    /\ todo \subseteq Function
    /\ cur \in Function
    /\ changed \in BOOLEAN
    /\ marked \subseteq Instr
    /\ work_list \subseteq Instr
    /\ wait_del \subseteq Instr
    /\ detached \subseteq wait_del
    /\ runs \in Nat
    /\ replaced \in Nat

Init ==
    /\ WellFormed
    /\ is_pure = [f \in Function |-> FALSE]
    /\ worklist = {} /\ fi_pc = "idle"
    /\ pc = "idle" /\ todo = {} /\ cur = Main /\ changed = FALSE
    /\ marked = {} /\ work_list = {} /\ wait_del = {} /\ detached = {}
    /\ runs = 0 /\ replaced = 0

-----------------------------------------------------------------------------
\* Mutant: only what the callee does itself counts, not what it calls.
MutIsCriticalDirect(i) ==
    \/ Opcode[i] = "call" /\ \E f \in operands[i] \cap Function : TriviallyImpure(f)
    \/ Opcode[i] \in {"br", "ret", "store"}

\* A call of a function found pure may go; branches, returns and stores stay.
is_critical(i) ==
    \/ Opcode[i] = "call" /\ \E f \in operands[i] \cap Function : ~ is_pure[f]
    \/ Opcode[i] \in {"br", "ret", "store"}

\* DeadCode::run calls func_info->run().
StartRun ==
    /\ pc = "idle"
    /\ runs < MaxRuns
    /\ pc' = "funcinfo"
    /\ fi_pc' = "mark"
    /\ UNCHANGED <<is_pure, worklist, todo, cur, changed, marked, work_list,
                   wait_del, detached>>
    /\ UNCHANGED irVars /\ UNCHANGED gvnVars

\* A step of the purity analysis.
RunFuncInfo ==
    /\ pc = "funcinfo"
    /\ FINext
    /\ UNCHANGED dcVars /\ UNCHANGED gvnVars

\* func_info->run() has returned: the first round of the do-while.
FirstRound ==
    /\ pc = "funcinfo"
    /\ fi_pc = "done"
    /\ fi_pc' = "idle"
    /\ pc' = "func"
    /\ todo' = Function
    /\ changed' = FALSE
    /\ UNCHANGED <<is_pure, worklist, cur, marked, work_list, wait_del, detached>>
    /\ UNCHANGED irVars /\ UNCHANGED gvnVars

\* Mutant: marked is not cleared.
MutMarkCriticalStale ==
    /\ pc = "func"
    /\ todo # {}
    /\ LET f == CHOOSE g \in todo : TRUE
           critical == {i \in insts : FunctionOf[i] = f /\ is_critical(i)}
       IN  /\ cur' = f
           /\ todo' = todo \ {f}
           /\ marked' = marked \cup critical
           /\ work_list' = critical
    /\ pc' = "mark"
    /\ UNCHANGED <<changed, wait_del, detached>>
    /\ UNCHANGED irVars /\ UNCHANGED fiVars /\ UNCHANGED gvnVars

\* mark(func) on the next function of the module's list: its critical
\* instructions are marked and queued.
MarkCritical ==
    /\ pc = "func"
    /\ todo # {}
    /\ LET f == CHOOSE g \in todo : TRUE
           critical == {i \in insts : FunctionOf[i] = f /\ is_critical(i)}
       IN  /\ cur' = f
           /\ todo' = todo \ {f}
           /\ marked' = critical
           /\ work_list' = critical
    /\ pc' = "mark"
    /\ UNCHANGED <<changed, wait_del, detached>>
    /\ UNCHANGED irVars /\ UNCHANGED fiVars /\ UNCHANGED gvnVars

\* Mutant: operands that are not instructions are marked too.
MutMarkOperandsAll(i) ==
    LET found == operands[i] \ marked
    IN  /\ pc = "mark"
        /\ i \in work_list
        /\ marked' = marked \cup found
        /\ work_list' = (work_list \ {i}) \cup found
        /\ UNCHANGED <<pc, todo, cur, changed, wait_del, detached>>
        /\ UNCHANGED irVars /\ UNCHANGED fiVars /\ UNCHANGED gvnVars

\* mark(ins) on an instruction taken from the work list: the instructions of
\* the same function that it reads become marked.
MarkOperands(i) ==
    LET found == {d \in operands[i] \cap Instr :
                     d \notin marked /\ FunctionOf[d] = FunctionOf[i]}
    IN  /\ pc = "mark"
        /\ i \in work_list
        /\ marked' = marked \cup found
        /\ work_list' = (work_list \ {i}) \cup found
        /\ UNCHANGED <<pc, todo, cur, changed, wait_del, detached>>
        /\ UNCHANGED irVars /\ UNCHANGED fiVars /\ UNCHANGED gvnVars

\* sweep(func) collects what was not marked.
Collect ==
    LET dead == {i \in insts : FunctionOf[i] = cur /\ i \notin marked}
    IN  /\ pc = "mark"
        /\ work_list = {}
        /\ wait_del' = dead
        /\ detached' = {}
        /\ changed' = (changed \/ dead # {})
        /\ pc' = "detach"
        /\ UNCHANGED <<todo, cur, marked, work_list>>
        /\ UNCHANGED irVars /\ UNCHANGED fiVars /\ UNCHANGED gvnVars

\* Mutant: one loop, as if it called erase_instr on each.
MutDetachAndErase(i) ==
    /\ pc = "detach"
    /\ i \in wait_del \ detached
    /\ uses' = [v \in Value |-> IF v \in operands[i] THEN uses[v] \ {i} ELSE uses[v]]
    /\ insts' = insts \ {i}
    /\ wait_del' = wait_del \ {i}
    /\ UNCHANGED <<operands, pc, todo, cur, changed, marked, work_list, detached>>
    /\ UNCHANGED fiVars /\ UNCHANGED gvnVars

\* Mutant: the uses are left to the destructor, which does nothing about them.
MutDetachNothing(i) ==
    /\ pc = "detach"
    /\ i \in wait_del \ detached
    /\ detached' = detached \cup {i}
    /\ UNCHANGED <<pc, todo, cur, changed, marked, work_list, wait_del>>
    /\ UNCHANGED irVars /\ UNCHANGED fiVars /\ UNCHANGED gvnVars

\* First loop of sweep: remove_use_of_ops on each collected instruction.
Detach(i) ==
    /\ pc = "detach"
    /\ i \in wait_del \ detached
    /\ uses' = [v \in Value |-> IF v \in operands[i] THEN uses[v] \ {i} ELSE uses[v]]
    /\ detached' = detached \cup {i}
    /\ UNCHANGED <<insts, operands, pc, todo, cur, changed, marked, work_list,
                   wait_del>>
    /\ UNCHANGED fiVars /\ UNCHANGED gvnVars

DetachedAll ==
    /\ pc = "detach"
    /\ detached = wait_del
    /\ pc' = "erase"
    /\ UNCHANGED <<todo, cur, changed, marked, work_list, wait_del, detached>>
    /\ UNCHANGED irVars /\ UNCHANGED fiVars /\ UNCHANGED gvnVars

\* Second loop of sweep: the instruction leaves its block's list and is freed.
Erase(i) ==
    /\ pc = "erase"
    /\ i \in wait_del
    /\ insts' = insts \ {i}
    /\ wait_del' = wait_del \ {i}
    /\ detached' = detached \ {i}
    /\ UNCHANGED <<operands, uses, pc, todo, cur, changed, marked, work_list>>
    /\ UNCHANGED fiVars /\ UNCHANGED gvnVars

\* sweep returns.
SweepReturn ==
    /\ pc = "erase"
    /\ wait_del = {}
    /\ pc' = "func"
    /\ UNCHANGED <<todo, cur, changed, marked, work_list, wait_del, detached>>
    /\ UNCHANGED irVars /\ UNCHANGED fiVars /\ UNCHANGED gvnVars

\* Mutant: changed is not reset for the new round.
MutNextRoundKeep ==
    /\ pc = "func"
    /\ todo = {}
    /\ changed
    /\ todo' = Function
    /\ UNCHANGED <<pc, cur, changed, marked, work_list, wait_del, detached>>
    /\ UNCHANGED irVars /\ UNCHANGED fiVars /\ UNCHANGED gvnVars

\* while (changed): another round over all functions, on the same purity.
NextRound ==
    /\ pc = "func"
    /\ todo = {}
    /\ changed
    /\ todo' = Function
    /\ changed' = FALSE
    /\ UNCHANGED <<pc, cur, marked, work_list, wait_del, detached>>
    /\ UNCHANGED irVars /\ UNCHANGED fiVars /\ UNCHANGED gvnVars

\* run returns.
RunReturn ==
    /\ pc = "func"
    /\ todo = {}
    /\ ~ changed
    /\ pc' = "idle"
    /\ runs' = runs + 1
    /\ replaced' = 0
    /\ UNCHANGED <<todo, cur, changed, marked, work_list, wait_del, detached>>
    /\ UNCHANGED irVars /\ UNCHANGED fiVars

\* One iteration of GVN::replace_cc_members, between two runs: some users of a
\* member of a congruence class read its leader instead.  Which members and
\* leaders there are is GVN's business; here the member is any instruction that
\* is no address and has a result, the leader another one of the same function
\* or what is none: a constant, an argument.  (A gep is only ever replaced by
\* one of the same array: Addr keeps naming that array.)
GvnReplace(m, l, P) ==
    /\ pc = "idle"
    /\ runs \in 1 .. (MaxRuns - 1)
    /\ replaced < MaxReplace
    /\ m # l
    /\ Opcode[m] \in {"binary", "phi", "call"}
    /\ l \in Instr => /\ FunctionOf[m] = FunctionOf[l]
                      /\ Opcode[l] \in {"binary", "phi", "call"}
    /\ operands' = [i \in Instr |-> IF i \in P THEN (operands[i] \ {m}) \cup {l}
                                    ELSE operands[i]]
    /\ uses' = [uses EXCEPT ![m] = @ \ P, ![l] = @ \cup P]
    /\ replaced' = replaced + 1
    /\ UNCHANGED <<insts, runs>>
    /\ UNCHANGED fiVars /\ UNCHANGED dcVars

\* The pipeline has made its runs: nothing more happens.
Finished ==
    /\ pc = "idle"
    /\ runs = MaxRuns
    /\ UNCHANGED vars

Run == \/ StartRun \/ RunFuncInfo \/ FirstRound \/ MarkCritical
       \/ (\E i \in Instr : MarkOperands(i)) \/ Collect
       \/ (\E i \in Instr : Detach(i)) \/ DetachedAll
       \/ (\E i \in Instr : Erase(i)) \/ SweepReturn \/ NextRound \/ RunReturn

Next ==
    \/ Run
    \/ \E m \in insts, l \in insts \cup Other :
          \E P \in SUBSET uses[m] : P # {} /\ GvnReplace(m, l, P)
    \/ Finished

\* The compiler is one thread: a run in progress goes on.
Spec == Init /\ [][Next]_vars /\ WF_vars(Run)

-----------------------------------------------------------------------------
\* Outside of a sweep's two loops nothing is collected.
Staying == insts \ wait_del

\* remove_use is never called on an erased operand and no instruction that
\* stays reads an erased one, whatever order the hash set gives the two loops
\* of sweep (DeadCode.h, sweep).
NoDanglingOperand ==
    /\ \A i \in Staying : operands[i] \cap Instr \subseteq Staying
    /\ pc = "detach" =>
          \A i \in wait_del \ detached : operands[i] \cap Instr \subseteq insts

\* The use lists of what exists name exactly the existing users that have not
\* been detached: the next FuncInfo::run and the next replacement walk them.
UsesAgree ==
    \A v \in Value \ (Instr \ insts) :
        uses[v] = {i \in insts \ detached : v \in operands[i]}

\* The purity cached at the start of a run stays safe to use while the run
\* itself erases the calls and loads it was computed from.
CachedPuritySafe ==
    pc \in {"func", "mark", "detach", "erase"} => Closed(ImpureFound)

\* An instruction is erased only if it has no effect in the program as it is at
\* that moment: never a branch, return or store, nor a call that can reach one.
OnlyDeadErased ==
    [][\A i \in insts \ insts' :
          /\ Opcode[i] \notin {"br", "ret", "store"}
          /\ Opcode[i] = "call" =>
                \A f \in operands[i] \cap Function : ~ ReallyImpure(f)]_vars

\* When a run returns only what some critical instruction needs is left, dead
\* cycles through phis included; so the last round was not one too few.
OnlyLiveRemains ==
    (pc = "func" /\ todo = {} /\ ~ changed) =>
        \A S \in SUBSET insts :
            /\ \A i \in insts : is_critical(i) => i \in S
            /\ \A i \in S : operands[i] \cap insts \subseteq S
            => S = insts

\* Every run of the pass returns: the purity worklist and the mark and sweep
\* rounds come to an end.
RunTerminates == pc # "idle" ~> pc = "idle"

\* The chains as they are: a collected instruction that has dropped its uses
\* reads nothing any more.
LifeNow == [i \in Instr |-> CASE i \in detached -> "detached"
                              [] i \in insts \ detached -> "attached"
                              [] OTHER -> "absent"]
ReadNow == [i \in Instr |-> IF i \in insts \ detached THEN operands[i] ELSE {}]
UsersNow == [v \in Value |-> IF v \in Instr \ insts THEN {} ELSE uses[v]]

C == INSTANCE Chains WITH User <- Instr, life <- LifeNow, reads <- ReadNow, users <- UsersNow

\* To the rest of the compiler the sweeps and GVN's replacements are careful
\* steps of the def-use chains: the use lists walked later name exactly the
\* readers there are, an instruction drops its uses while all its operands
\* exist, and none is freed that something still reads (DeadCode.h, sweep).
SweepIsCareful == C!CarefulSpec
=============================================================================
