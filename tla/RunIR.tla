------------------------------- MODULE RunIR -------------------------------
(***************************************************************************)
(* What a module of LightIR does when it runs, on the machine of Cminus:   *)
(* code outside the repository (clang makes the program from the printed   *)
(* IR and links the runtime library).                                      *)
(***************************************************************************)
EXTENDS LightIR, Cminus

\* The cells of an object of a type.
Cells(ty) == IF ty[1] = "array" THEN ty[3] ELSE 1

\* Each global variable's address, the variables lying one after another.
AddressOf(globals, x) ==
    LET k == CHOOSE j \in DOMAIN globals : globals[j][1] = x
    IN  1 + SumFunctionOnSet([j \in DOMAIN globals |-> Cells(globals[j][2])], 1 .. k - 1)

\* Zeros for the globals.
RECURSIVE Loaded(_, _)
Loaded(globals, m) ==
    IF globals = <<>> THEN m
    ELSE LET ty == Head(globals)[2]
             elem == IF ty[1] = "array" THEN ty[2] ELSE ty
         IN  Loaded(Tail(globals), Allocate(m, Cells(ty), Zero(elem[1])))

\* An instruction without control flow, on the values of its operands.
Compute(inst, vals, m) ==
    CASE inst.op \in BinaryOps -> [m EXCEPT !.val = computeOp(inst.op, vals[1], vals[2])]
      [] inst.op \in {"cmp", "fcmp"} -> [m EXCEPT !.val = compute(inst.op, inst.rel, vals[1], vals[2])]
      [] inst.op \in CastOps -> [m EXCEPT !.val = computeCast(inst.op, vals[1])]
      [] inst.op = "alloca" -> Allocate(m, Cells(inst.ty[2]), Undef)
      [] inst.op = "load" -> Read([m EXCEPT !.val = vals[1]])
      [] inst.op = "store" -> Write(m, vals[2][2], vals[1])
      [] inst.op = "gep" -> [m EXCEPT !.val = Pointer(vals[1][2] + Last(vals)[2])]

\* Function f of p from the k-th instruction of block b on; args and regs are the
\* values of its arguments and of the instructions done so far.
RECURSIVE RunFrom(_, _, _, _, _, _, _)
RunFrom(p, f, args, b, k, regs, m) ==
    LET inst == p.functions[f].code[b][k]
        value(v) == CASE v[1] = "argument" -> args[v[2]]
                      [] v[1] = "instr" -> regs[v]
                      [] v[1] = "global" -> Pointer(AddressOf(p.globals, v[2]))
                      [] OTHER -> v
        vals == [j \in DOMAIN inst.args |-> value(inst.args[j])]
        next(r) == RunFrom(p, f, args, b, k + 1, Instruction(b, k) :> r.val @@ regs, r)
        jump(t) == RunFrom(p, f, args, t, 1, regs, m)
    IN  CASE inst.op = "ret" -> [m EXCEPT !.val = IF inst.args = <<>> THEN Undef ELSE vals[1]]
          [] inst.op = "br" /\ Len(inst.args) = 1 -> jump(inst.args[1])
          [] inst.op = "br" /\ Len(inst.args) = 3 ->
                 IF value(inst.args[1])[2] # 0 THEN jump(inst.args[2]) ELSE jump(inst.args[3])
          [] inst.op = "call" ->
                 LET r == IF inst.rel \in LibraryNames THEN RunLibrary(inst.rel, vals, m)
                          ELSE RunFrom(p, inst.rel, vals, 1, 1, <<>>, m)
                 IN  And(r, next)
          [] OTHER -> next(Compute(inst, vals, m))

\* What is seen of a run of the module on an input.
RunModule(p, numbers) ==
    Seen(RunFrom(p, "main", <<>>, 1, 1, <<>>, Loaded(p.globals, Machine(numbers))))
=============================================================================
