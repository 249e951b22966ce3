------------------------------ MODULE FuncInfo ------------------------------
(***************************************************************************)
(* The purity analysis of optimization/FuncInfo.h: which functions may a   *)
(* call to be removed or merged?  Functions are first marked one by one    *)
(* from their own instructions; impurity then spreads from callees to      *)
(* callers through a worklist that walks the use list of each function.    *)
(*                                                                         *)
(* The module fixes the view of LightIR that the passes over a whole       *)
(* program share: which instructions are in the instruction lists, what    *)
(* they read (operands) and who reads a value (uses).  Slots of operands   *)
(* and positions in use lists are abstracted: DefUse models them.          *)
(***************************************************************************)
EXTENDS FiniteSets

CONSTANTS
    Function,       \* the functions of the module, declarations included
    Defined,        \* those that have basic blocks
    Main,           \* the one named "main"
    ArrayParam,     \* those with a parameter neither of type int nor float
    Instr,          \* every instruction that may occur in the program
    Other,          \* the remaining values: globals, arguments, constants
    FunctionOf,     \* the function whose block holds an instruction
    Opcode,         \* its operation
    Addr            \* operand 0 of a load or gep, get_lval() of a store

Value == Function \cup Instr \cup Other

ASSUME FuncInfoAssumption ==
    /\ Function \cap Instr = {} /\ Function \cap Other = {}
    /\ Instr \cap Other = {}
    /\ Defined \subseteq Function /\ Main \in Function
    /\ ArrayParam \subseteq Function
    /\ FunctionOf \in [Instr -> Function]
    /\ Opcode \in [Instr -> {"alloca", "load", "store", "gep", "call", "binary",
                             "phi", "br", "ret"}]
    /\ Addr \in [Instr -> Value]

VARIABLES
    insts,      \* the instructions present in the instruction lists
    operands,   \* the values an instruction reads
    uses,       \* the users in a value's use list
    is_pure,    \* FuncInfo::is_pure
    worklist,   \* FuncInfo::worklist, its order abstracted
    fi_pc       \* where FuncInfo::run is

irVars == <<insts, operands, uses>>
fiVars == <<is_pure, worklist, fi_pc>>

FITypeOK ==
    /\ insts \subseteq Instr
    /\ operands \in [Instr -> SUBSET Value]
    /\ uses \in [Value -> SUBSET Instr]
    /\ is_pure \in [Function -> BOOLEAN]
    /\ worklist \subseteq Function
    /\ fi_pc \in {"idle", "mark", "propagate", "done"}

-----------------------------------------------------------------------------
\* The object an address is computed from, through any number of geps.  (The
\* search through the operands of other instructions is not reached: the builder
\* takes addresses from allocas, loads, arguments and globals.)
get_first_addr[v \in Value] ==
    IF v \in Instr /\ Opcode[v] = "gep" THEN get_first_addr[Addr[v]] ELSE v

\* is_local_load and is_local_store: the base address is an alloca.
IsLocal(i) ==
    LET base == get_first_addr[Addr[i]]
    IN  base \in Instr /\ Opcode[base] = "alloca"

\* A load counts as much as a store does: its value may change between calls.
is_side_effect_inst(i) == Opcode[i] \in {"load", "store"} /\ ~ IsLocal(i)

\* What trivial_mark finds impure without looking at calls.
TriviallyImpure(f) ==
    \/ f \notin Defined
    \/ f = Main
    \/ f \in ArrayParam
    \/ \E i \in insts : FunctionOf[i] = f /\ is_side_effect_inst(i)

\* Mutant: declarations are marked but, having no body, never queued.
MutTrivialMarkDefined ==
    /\ fi_pc = "mark"
    /\ is_pure' = [f \in Function |-> ~ TriviallyImpure(f)]
    /\ worklist' = {f \in Defined : TriviallyImpure(f)}
    /\ fi_pc' = "propagate"
    /\ UNCHANGED irVars

\* The first loop of run.  is_pure is a member that survives from one run to
\* the next; every entry is written again here.
trivial_mark ==
    /\ fi_pc = "mark"
    /\ is_pure' = [f \in Function |-> ~ TriviallyImpure(f)]
    /\ worklist' = {f \in Function : TriviallyImpure(f)}
    /\ fi_pc' = "propagate"
    /\ UNCHANGED irVars

\* Mutant: a caller is marked but not queued.
MutProcessOneLevel(f) ==
    /\ fi_pc = "propagate"
    /\ f \in worklist
    /\ is_pure' = [g \in Function |->
                      is_pure[g] /\ \A i \in uses[f] : FunctionOf[i] # g]
    /\ worklist' = worklist \ {f}
    /\ UNCHANGED fi_pc
    /\ UNCHANGED irVars

\* Mutant: callers are queued whether or not they were known to be impure.
MutProcessRequeue(f) ==
    LET callers == {FunctionOf[i] : i \in uses[f]}
    IN  /\ fi_pc = "propagate"
        /\ f \in worklist
        /\ is_pure' = [g \in Function |-> is_pure[g] /\ g \notin callers]
        /\ worklist' = (worklist \ {f}) \cup callers
        /\ UNCHANGED fi_pc
        /\ UNCHANGED irVars

\* process(f), f popped from the worklist: every function with a use of f that
\* is still taken for pure becomes impure and is queued.
process(f) ==
    LET callers == {FunctionOf[i] : i \in uses[f]}
        found == {g \in callers : is_pure[g]}
    IN  /\ fi_pc = "propagate"
        /\ f \in worklist
        /\ is_pure' = [g \in Function |-> is_pure[g] /\ g \notin found]
        /\ worklist' = (worklist \ {f}) \cup found
        /\ UNCHANGED fi_pc
        /\ UNCHANGED irVars

\* The worklist is empty: run returns.
FIReturn ==
    /\ fi_pc = "propagate"
    /\ worklist = {}
    /\ fi_pc' = "done"
    /\ UNCHANGED <<is_pure, worklist>>
    /\ UNCHANGED irVars

FINext == trivial_mark \/ (\E f \in Function : process(f)) \/ FIReturn

-----------------------------------------------------------------------------
(* The analysis on its own, on any well-formed program over Instr.         *)

\* Instructions read instructions of their own function that are present, and
\* the use lists are what DefUse proves them to be.
WellFormed ==
    /\ insts \subseteq Instr
    /\ operands \in [Instr -> SUBSET Value]
    /\ uses \in [Value -> SUBSET Instr]
    /\ \A i \in insts : \A d \in operands[i] \cap Instr :
          d \in insts /\ FunctionOf[d] = FunctionOf[i]
    /\ \A v \in Value : uses[v] = {i \in insts : v \in operands[i]}

FIInit ==
    /\ WellFormed
    /\ is_pure = [f \in Function |-> FALSE]
    /\ worklist = {}
    /\ fi_pc = "mark"

\* The analysis is a loop in a single thread: it goes on until it returns.
FISpec ==
    /\ FIInit
    /\ [][FINext]_<<irVars, fiVars>>
    /\ WF_<<irVars, fiVars>>(FINext)

-----------------------------------------------------------------------------
\* A set of functions closed under "trivially impure" and "calls one of the
\* set": what every correct analysis must call impure, and nothing says more.
Closed(S) ==
    /\ \A f \in Function : TriviallyImpure(f) => f \in S
    /\ \A i \in insts : operands[i] \cap S # {} => FunctionOf[i] \in S

\* Impure by the meaning of the program: in every closed set.
ReallyImpure(f) == \A S \in SUBSET Function : Closed(S) => f \in S

ImpureFound == {f \in Function : ~ is_pure[f]}

\* When run returns, the functions it calls impure are exactly those that are:
\* no function that reaches a side effect through any chain of calls, mutual
\* recursion included, is missed, and recursion alone condemns nobody
\* (FuncInfo.h, run and process).
PurityExact ==
    fi_pc = "done" =>
        /\ Closed(ImpureFound)
        /\ \A f \in ImpureFound : ReallyImpure(f)

\* While the worklist is being emptied every function called impure really is,
\* and one whose callers are not all condemned yet is still queued.
PurityPartial ==
    fi_pc = "propagate" =>
        /\ \A f \in ImpureFound : ReallyImpure(f)
        /\ worklist \subseteq ImpureFound
        /\ \A i \in insts : \A f \in operands[i] \cap ImpureFound :
              f \in worklist \/ ~ is_pure[FunctionOf[i]]

\* run returns: the worklist of functions to process runs empty although calls
\* may be mutually recursive.
FITerminates == <>(fi_pc = "done")
=============================================================================
