------------------------------ MODULE Frontend ------------------------------
(***************************************************************************)
(* What the front end promises: the module that the builder makes of a     *)
(* program is well formed and does what the program means.                 *)
(***************************************************************************)
EXTENDS Builder, Ast, RunIR

CONSTANT numbers        \* what the program reads when it runs

\* The AST of a program: that of its syntax tree.
Parsed(p) == transform(ProgramTree(p))

\* The program, run as the module, prints, ends and returns as the language
\* defines (Documentations/common/cminusf.md; the visitor as a whole).
SameMeaning ==
    phase = "done" =>
        RunModule([functions |-> functions, globals |-> globals], numbers)
            = MeaningOf(source, numbers)

-----------------------------------------------------------------------------
(* Types                                                                   *)

\* The operand types an instruction may have in LLVM IR; a branch has blocks.
Typed(F, inst) ==
    LET ty(k) == TypeOf(F, inst.args[k])
        all(t) == \A k \in DOMAIN inst.args : ty(k) = t
    IN  CASE inst.op \in IntOps \cup {"cmp", "sitofp"} -> all(Int32Type)
          [] inst.op \in FloatOps \cup {"fcmp", "fptosi"} -> all(FloatType)
          [] inst.op = "zext" -> all(Int1Type)
          [] inst.op = "alloca" -> TRUE
          [] inst.op = "load" -> ty(1) = PointerType(inst.ty)
          [] inst.op = "store" -> ty(2) = PointerType(ty(1))
          [] inst.op = "gep" ->
                 is_pointer_type(ty(1)) /\ \A k \in 2 .. Len(inst.args) : ty(k) = Int32Type
          [] inst.op = "call" ->
                 [k \in DOMAIN inst.args |-> ty(k)] = functions[inst.rel].params
          [] inst.op = "ret" ->
                 IF F.ret = VoidType THEN inst.args = <<>> ELSE Len(inst.args) = 1 /\ ty(1) = F.ret
          [] inst.op = "br" -> Len(inst.args) = 3 => ty(1) = Int1Type

\* No instruction has an operand of a type it does not take: each conversion is
\* there, whichever place made it (promote,
\* assignment, return, argument, index, condition, comparison).
WellTyped ==
    phase = "done" =>
        \A f \in Built :
            LET F == functions[f]
            IN  \A b \in DOMAIN F.code : \A k \in DOMAIN F.code[b] : Typed(F, F.code[b][k])
=============================================================================
