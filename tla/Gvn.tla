-------------------------------- MODULE Gvn --------------------------------
(***************************************************************************)
(* GVN on one function (optimization/GVN.cpp, GVN.h): value numbers by an  *)
(* optimistic iteration over partitions of the values into congruence      *)
(* classes, then the replacement of the members of a class by its leader.  *)
(*                                                                         *)
(* A partition is a std::set ordered by index, and a class that is new     *)
(* gets a greater index than those of its partition: here it is a sequence *)
(* of classes, and the numbers are left out.  The class of index 0, which  *)
(* stands for top, is the one without an expression.  The specific fields  *)
(* of a class (value_bin, value_phi_, ...) repeat value_expr_ under its    *)
(* type and are left out too.  The blocks of a std::map<BasicBlock *> come *)
(* in any order.                                                           *)
(***************************************************************************)
EXTENDS CFG, ConstFold, SequencesExt

CONSTANTS
    PureFunction,           \* what FuncInfo finds (module FuncInfo)
    MaxPath                 \* bounds the paths the two programs are run along

VARIABLES
    succ,           \* succ_bbs_
    pre_bbs_,       \* the predecessors, in the order the branches were made
    blocks,         \* the function's list of blocks, the entry first
    insts,          \* the instructions of each block
    params,         \* the module's globals and then the function's arguments
    args,           \* the operands of each instruction now
    pin_, pout_,    \* partitions before and after each block
    part,           \* the partition at the point the round has come to
    todo,           \* the blocks of this round that are still to do
    instrs, copies, \* what is to do in this block: its instructions, its successors' phis
    changed,        \* what the round found
    left,           \* the blocks replace_cc_members has not come to
    pc              \* phase of the pass

progVars == <<succ, pre_bbs_, blocks, insts, params>>
vars == <<progVars, args, pin_, pout_, part, todo, instrs, copies, changed, left, pc>>

\* Values: constants (module ConstFold), an instruction named by its block and
\* place, an argument, a global.  An instruction is a record of op, rel (the
\* relation of a comparison, the function of a call, the element type of a
\* gep), args and, for a phi, the blocks its operands come from.
Null == <<"null">>
Instruction(b, k) == <<"instr", b, k>>
IsInstruction(v) == v[1] = "instr"
At(v) == insts[v[2]][v[3]]
Instructions == UNION {{Instruction(b, k) : k \in DOMAIN insts[b]} : b \in Block}
IsPhi(v) == IsInstruction(v) /\ At(v).op = "phi"
IsVoid(v) == At(v).op \in {"store", "br", "ret", "call_void"}
Values == Instructions \cup {params[k] : k \in DOMAIN params}

\* Addresses order the members of a class: here they grow with the block and
\* the place.
Before(v, w) ==
    \/ ~ IsInstruction(v) /\ IsInstruction(w)
    \/ IsInstruction(v) /\ IsInstruction(w)
       /\ (v[2] < w[2] \/ (v[2] = w[2] /\ v[3] < w[3]))
    \/ ~ IsInstruction(v) /\ ~ IsInstruction(w)
       /\ \E j, k \in DOMAIN params : j < k /\ params[j] = v /\ params[k] = w

-----------------------------------------------------------------------------
(* Expressions                                                             *)

ConstantExpression(c) == <<"constant", c>>
SingleExpression(v) == <<"single", v>>
TransExpression(op, hs) == <<"trans", op, hs>>
BinaryExpression(op, lhs, rhs) == <<"bin", op, lhs, rhs>>
CmpExpression(rel, lhs, rhs) == <<"cmp", rel, lhs, rhs>>
FCmpExpression(rel, lhs, rhs) == <<"fcmp", rel, lhs, rhs>>
PhiExpression(x, lhs, rhs) == <<"phi", x, lhs, rhs>>
GepExpression(ty, operands) == <<"gep", ty, operands>>
FuncExpression(f, operands, pure, x) == <<"func", f, operands, pure, x>>

HasType(e, type) == e[1] = type

\* Mutant of Equiv: calls compared without isPureFunction.
CallsEqual(e, f) == e = f \/ (HasType(e, "func") /\ HasType(f, "func") /\ e[2] = f[2] /\ e[3] = f[3])

\* operator== of expressions: a phi is compared by its operands alone, a call
\* by itself or, when both are pure, by function and operands.
RECURSIVE Equiv(_, _)
AllEquiv(s, t) == Len(s) = Len(t) /\ \A k \in DOMAIN s : Equiv(s[k], t[k])
Equiv(e, f) ==
    /\ e[1] = f[1]
    /\ CASE e[1] \in {"constant", "single"} -> e[2] = f[2]
         [] e[1] = "trans" -> e[2] = f[2] /\ Equiv(e[3], f[3])
         [] e[1] \in {"bin", "cmp", "fcmp"} ->
                e[2] = f[2] /\ Equiv(e[3], f[3]) /\ Equiv(e[4], f[4])
         [] e[1] = "phi" -> Equiv(e[3], f[3]) /\ Equiv(e[4], f[4])
         [] e[1] = "gep" -> e[2] = f[2] /\ AllEquiv(e[3], f[3])
         [] e[1] = "func" ->
                \/ e[5] = f[5]
                \/ e[4] /\ f[4] /\ e[2] = f[2] /\ AllEquiv(e[3], f[3])
         [] OTHER -> TRUE

-----------------------------------------------------------------------------
(* Partitions                                                              *)

Class(leader, expr, members) == [leader |-> leader, expr |-> expr, members |-> members]
TopClass == Class(Null, Null, {})
Top == <<TopClass>>
IsTop(p) == \E k \in DOMAIN p : p[k].expr = Null

Smallest(S) == CHOOSE v \in S : \A w \in S \ {v} : Before(v, w)

\* The classes of p that hold v, in order.
Holding(p, v) == SelectSeq(p, LAMBDA c : v \in c.members)

\* erase(x) in all classes; a class left empty goes, the top class with it.
Without(p, x) ==
    SelectSeq([k \in DOMAIN p |-> [p[k] EXCEPT !.members = @ \ {x}]],
              LAMBDA c : c.members # {})

intersect(Ci, Cj) ==
    LET members == Ci.members \cap Cj.members
    IN  IF Equiv(Ci.expr, Cj.expr) THEN Class(Ci.leader, Ci.expr, members)
        ELSE IF members = {} THEN Class(Null, Null, {})
        ELSE Class(Smallest(members),
                   PhiExpression(Smallest(members), Ci.expr, Cj.expr), members)

join(P1, P2) ==
    CASE P1 = <<>> \/ P2 = <<>> -> <<>>
      [] P1 # <<>> /\ P2 # <<>> /\ IsTop(P1) -> P2
      [] P1 # <<>> /\ P2 # <<>> /\ ~ IsTop(P1) /\ IsTop(P2) -> P1
      [] OTHER -> SelectSeq(FlattenSeq([i \in DOMAIN P1 |->
                                [j \in DOMAIN P2 |-> intersect(P1[i], P2[j])]]),
                            LAMBDA c : c.members # {})

\* Mutants of SamePartition: the first class without the sizes; a comparison
\* of addresses.
FirstClass(p, q) == p # <<>> /\ q # <<>> /\ p[1].members = q[1].members
SameObject(p, q) == FALSE

\* operator== of partitions, which returns from its loop in the first round.
SamePartition(p, q) ==
    /\ Len(p) = Len(q)
    /\ p # <<>> => \E j \in DOMAIN q : p[1].members = q[j].members

-----------------------------------------------------------------------------
(* valueExpr                                                               *)

\* The expression of an operand: of the last class that holds it.
OperandExpr(p, v, otherwise) ==
    IF IsConstant(v) THEN ConstantExpression(v)
    ELSE LET held == Holding(p, v)
         IN  IF held = <<>> THEN SingleExpression(otherwise) ELSE held[Len(held)].expr

\* binValueExpr, cmpValueExpr, fcmpValueExpr.
PairExpr(i, p, create(_, _)) ==
    LET l == OperandExpr(p, i.args[1], i.args[1])
        r == OperandExpr(p, i.args[2], i.args[2])
    IN  IF HasType(l, "constant") /\ HasType(r, "constant")
        THEN ConstantExpression(compute(i.op, i.rel, l[2], r[2]))
        ELSE create(l, r)

binValueExpr(i, p) == PairExpr(i, p, LAMBDA l, r : BinaryExpression(i.op, l, r))
cmpValueExpr(i, p) == PairExpr(i, p, LAMBDA l, r : CmpExpression(i.rel, l, r))
fcmpValueExpr(i, p) == PairExpr(i, p, LAMBDA l, r : FCmpExpression(i.rel, l, r))

transValueExpr(x, i, p) ==
    LET hs == OperandExpr(p, i.args[1], x)
    IN  IF HasType(hs, "constant") THEN ConstantExpression(computeCast(i.op, hs[2]))
        ELSE TransExpression(i.op, hs)

\* One expression for a constant, else one for each class that holds it.
OperandExprs(vs, p) ==
    FlattenSeq([k \in DOMAIN vs |->
        IF IsConstant(vs[k]) THEN <<ConstantExpression(vs[k])>>
        ELSE LET held == Holding(p, vs[k]) IN [j \in DOMAIN held |-> held[j].expr]])

gepValueExpr(i, p) == GepExpression(i.rel, OperandExprs(i.args, p))
funcValueExpr(x, i, p) ==
    FuncExpression(i.rel, OperandExprs(i.args, p), i.rel \in PureFunction, x)

valueExpr(x, p) ==
    LET i == At(x)
    IN  CASE i.op \in BinaryOps -> binValueExpr(i, p)
          [] i.op = "call" -> funcValueExpr(x, i, p)
          [] i.op = "cmp" -> cmpValueExpr(i, p)
          [] i.op = "fcmp" -> fcmpValueExpr(i, p)
          [] i.op \in CastOps -> transValueExpr(x, i, p)
          [] i.op = "gep" -> gepValueExpr(i, p)
          [] OTHER -> SingleExpression(x)

-----------------------------------------------------------------------------
(* transferFunction and valuePhiFunc, which reads pout_ as it is now       *)

getVN(p, ve) ==
    LET found == SelectSeq(p, LAMBDA c : c.expr # Null /\ Equiv(c.expr, ve))
    IN  IF found = <<>> THEN Null ELSE found[1].expr

\* A constant folded by a division that traps: the compiler ends there.
Trapped == ConstantExpression(Trap)

\* One edge of the join: the operation on the operands the phis have there.
EdgeExpr(op, l, r) ==
    IF HasType(l, "constant") /\ HasType(r, "constant")
    THEN ConstantExpression(computeOp(op, l[2], r[2]))
    ELSE BinaryExpression(op, l, r)

\* The blocks of the edges are operands 1 and 3 of the value the left phi
\* expression names; when that is no phi the reads are wild.
Wild == <<"wild">>
RECURSIVE valuePhiFunc(_, _)
EdgeNumber(e, p, pout) ==
    LET known == getVN(p, e) IN IF known # Null THEN known ELSE valuePhiFunc(e, pout)
valuePhiFunc(ve, pout) ==
    IF ~ (HasType(ve, "bin") /\ HasType(ve[3], "phi") /\ HasType(ve[4], "phi")) THEN Null
    ELSE LET left_edge == EdgeExpr(ve[2], ve[3][3], ve[4][3])
             right_edge == EdgeExpr(ve[2], ve[3][4], ve[4][4])
             from == At(ve[3][2]).from
             vi == CASE left_edge = Trapped -> Trapped
                     [] left_edge # Trapped /\ ~ IsPhi(ve[3][2]) -> Wild
                     [] OTHER -> EdgeNumber(left_edge, pout[from[1]], pout)
             vj == IF right_edge = Trapped THEN Trapped
                   ELSE EdgeNumber(right_edge, pout[from[2]], pout)
         IN  CASE vi \in {Wild, Trapped} -> vi
               [] vi \notin {Wild, Trapped} /\ vj \in {Wild, Trapped} -> vj
               [] {vi, vj} \cap {Wild, Trapped} = {} /\ Null \in {vi, vj} -> Null
               [] OTHER -> PhiExpression(ve[3][2], vi, vj)

AddTo(p, K, x) == [k \in DOMAIN p |-> IF k \in K THEN [p[k] EXCEPT !.members = @ \cup {x}]
                                      ELSE p[k]]

NewClass(x, ve) ==
    Class(CASE HasType(ve, "constant") -> ve[2] [] ve = Wild -> Null [] OTHER -> x, ve, {x})

ValueNumber(x, p, pout) ==
    LET expr == valueExpr(x, p)
        vpf == valuePhiFunc(expr, pout)
    IN  IF vpf = Null THEN expr ELSE vpf

transferFunction(x, p, pout) ==
    LET out == Without(p, x)
        ve == ValueNumber(x, p, pout)
        same == {k \in DOMAIN out : out[k].expr # Null /\ Equiv(out[k].expr, ve)}
    IN  IF IsVoid(x) \/ IsPhi(x) THEN p
        ELSE IF same # {} THEN AddTo(out, same, x) ELSE Append(out, NewClass(x, ve))

-----------------------------------------------------------------------------
(* detectEquivalences                                                      *)

\* A phi of a successor of b, taken as the assignment of its operand at the end
\* of b.
Incoming(x, operands, b) == IF At(x).from[1] = b THEN operands[1] ELSE operands[2]

\* Mutant of CopyPhi: no erase before the insertion.
CopyWithoutErase(b, x, p) ==
    LET op == Incoming(x, At(x).args, b)
        holding == {k \in DOMAIN p : op \in p[k].members}
    IN  IF holding # {} THEN AddTo(p, holding, x)
        ELSE Append(p, Class(op, ConstantExpression(op), {x}))

CopyPhi(b, x, p) ==
    LET out == Without(p, x)
        op == Incoming(x, At(x).args, b)
        cons == IF IsConstant(op) THEN op ELSE Null
        holding == {k \in DOMAIN out : op \in out[k].members}
        equal == {k \in DOMAIN out : out[k].expr = ConstantExpression(cons)}
    IN  CASE holding # {} -> AddTo(out, holding, x)
          [] holding = {} /\ equal # {} -> AddTo(out, {CHOOSE k \in equal : \A j \in equal : k <= j}, x)
          [] OTHER -> Append(out, Class(cons, ConstantExpression(cons), {x}))

LeadingPhis(b) ==
    SelectSeq([k \in DOMAIN insts[b] |-> Instruction(b, k)], LAMBDA x : IsPhi(x))

\* Mutant of globel_and_argv: no class for an argument.
NoClasses == <<>>

globel_and_argv == [k \in DOMAIN params |->
                       Class(params[k], SingleExpression(params[k]), {params[k]})]

PinOf(b) ==
    LET pre == pre_bbs_[b]
    IN  CASE Len(pre) = 2 -> join(pout_[pre[1]], pout_[pre[2]])
          [] Len(pre) = 1 -> pout_[pre[1]]
          [] Len(pre) = 0 -> <<>>
          [] OTHER -> pin_[b]

\* print_partitions asks every leader and every constant for its text.
Printable(q) == \A k \in DOMAIN q :
    q[k].expr # Null => q[k].leader # Null /\ q[k].expr # ConstantExpression(Null)

Init ==
    /\ args = [x \in Instructions |-> At(x).args]
    /\ pin_ = [b \in Block |-> <<>>]
    /\ pout_ = [b \in Block |-> IF b = blocks[1] THEN <<>> ELSE Top]
    /\ todo = blocks
    /\ part = <<>>
    /\ instrs = <<>>
    /\ copies = <<>>
    /\ changed = FALSE
    /\ left = {}
    /\ pc = "enter"

\* The next block of the round.
EnterBlock ==
    /\ pc = "enter"
    /\ todo # <<>>
    /\ LET b == Head(todo)
           pin == PinOf(b)
       IN  /\ pin_' = [pin_ EXCEPT ![b] = pin]
           /\ part' = IF b = blocks[1] THEN pin \o globel_and_argv ELSE pin
           /\ instrs' = [k \in DOMAIN insts[b] |-> Instruction(b, k)]
           /\ copies' = FlattenSeq([k \in DOMAIN succ[b] |-> LeadingPhis(succ[b][k])])
    /\ pc' = "block"
    /\ UNCHANGED <<progVars, args, pout_, todo, changed, left>>

Transfer ==
    /\ pc = "block"
    /\ instrs # <<>>
    /\ LET x == Head(instrs)
       IN  IF ~ IsVoid(x) /\ ~ IsPhi(x) /\ ValueNumber(x, part, pout_) = Trapped
           THEN pc' = "crash" /\ UNCHANGED <<part, instrs>>
           ELSE /\ part' = transferFunction(x, part, pout_)
                /\ instrs' = Tail(instrs)
                /\ UNCHANGED pc
    /\ UNCHANGED <<progVars, args, pin_, pout_, todo, copies, changed, left>>

CopyNextPhi ==
    /\ pc = "block"
    /\ instrs = <<>>
    /\ copies # <<>>
    /\ part' = CopyPhi(Head(todo), Head(copies), part)
    /\ copies' = Tail(copies)
    /\ UNCHANGED <<progVars, args, pin_, pout_, todo, instrs, changed, left, pc>>

LeaveBlock ==
    /\ pc = "block"
    /\ instrs = <<>>
    /\ copies = <<>>
    /\ IF Printable(part)
       THEN LET b == Head(todo)
            IN  /\ pout_' = [pout_ EXCEPT ![b] = part]
                /\ changed' = (changed \/ ~ SamePartition(part, pout_[b]))
                /\ todo' = Tail(todo)
                /\ part' = <<>>
                /\ pc' = "enter"
       ELSE pc' = "crash" /\ UNCHANGED <<pout_, changed, todo, part>>
    /\ UNCHANGED <<progVars, args, pin_, instrs, copies, left>>

\* while (changed)
EndRound ==
    /\ pc = "enter"
    /\ todo = <<>>
    /\ changed' = FALSE
    /\ IF changed THEN todo' = blocks /\ UNCHANGED <<pc, left>>
       ELSE pc' = "replace" /\ left' = ToSet(blocks) /\ UNCHANGED todo
    /\ UNCHANGED <<progVars, args, pin_, pout_, part, instrs, copies>>

-----------------------------------------------------------------------------
(* replace_cc_members                                                      *)

\* The uses the replacement in block bb reaches: those in bb, and those of the
\* phis that have bb among their predecessors, whichever operand it is.
UserOf(x, bb) == IF IsPhi(x) THEN \E k \in DOMAIN pre_bbs_[x[2]] : pre_bbs_[x[2]][k] = bb
                 ELSE x[2] = bb

\* Mutant of ReplaceClass: the uses in every block are replaced.
ReplaceEverywhere(operands, bb, c) ==
    [x \in DOMAIN operands |-> [k \in DOMAIN operands[x] |->
        IF operands[x][k] \in c.members THEN c.leader ELSE operands[x][k]]]

ReplaceClass(operands, bb, c) ==
    LET gone == IF c.expr = Null THEN {}
                ELSE {m \in c.members : m # c.leader /\ (HasType(c.expr, "phi") \/ ~ IsPhi(m))}
    IN  [x \in DOMAIN operands |->
            IF UserOf(x, bb)
            THEN [k \in DOMAIN operands[x] |->
                     IF operands[x][k] \in gone THEN c.leader ELSE operands[x][k]]
            ELSE operands[x]]

ReplaceIn(bb) ==
    /\ pc = "replace"
    /\ bb \in left
    /\ args' = FoldLeft(LAMBDA a, c : ReplaceClass(a, bb, c), args, pout_[bb])
    /\ left' = left \ {bb}
    /\ pc' = IF left' = {} THEN "done" ELSE pc
    /\ UNCHANGED <<progVars, pin_, pout_, part, todo, instrs, copies, changed>>

Step ==
    \/ EnterBlock \/ Transfer \/ CopyNextPhi \/ LeaveBlock \/ EndRound
    \/ (\E bb \in Block : ReplaceIn(bb))

Finished == pc \in {"done", "crash"} /\ UNCHANGED vars

Next == Step \/ Finished

Spec == Init /\ [][Next]_vars /\ WF_vars(Step)

-----------------------------------------------------------------------------
(* What a path computes                                                    *)

\* The paths from the entry, up to MaxPath blocks.
Paths ==
    LET upTo[n \in Nat] ==
            IF n = 1 THEN {<<Entry>>}
            ELSE LET shorter == upTo[n - 1]
                 IN  shorter \cup UNION {{Append(p, b) : b \in Succ(succ, p[Len(p)])}
                                         : p \in shorter}
    IN  upTo[MaxPath]

\* A result is a constant where the operands are, else a term that names the
\* operation and its operands; a call with effects and a load are new values
\* each time.
Undef == <<"undef">>
ValueIn(env, v) == IF v \in DOMAIN env THEN env[v] ELSE v

ResultOf(i, x, vals, n) ==
    CASE i.op \in IntOps /\ IsConstant(vals[1]) /\ IsConstant(vals[2]) ->
             ConstantInt(Wrap(Exact(i.op, vals[1][2], vals[2][2])))
      [] i.op \in FloatOps /\ IsConstant(vals[1]) /\ IsConstant(vals[2]) ->
             ConstantFP(Exact(i.op, vals[1][2], vals[2][2]))
      [] i.op \in {"cmp", "fcmp"} /\ IsConstant(vals[1]) /\ IsConstant(vals[2]) ->
             ConstantBool(Compared(i.rel, vals[1][2], vals[2][2]))
      [] i.op = "sitofp" /\ IsConstant(vals[1]) -> ConstantFP(2 * vals[1][2])
      [] i.op = "fptosi" /\ IsConstant(vals[1]) -> ConstantInt(Wrap(Truncated(vals[1][2], 2)))
      [] i.op = "zext" /\ IsConstant(vals[1]) -> ConstantInt(vals[1][2])
      [] i.op = "load" \/ (i.op = "call" /\ i.rel \notin PureFunction) -> <<"new", x, n>>
      [] OTHER -> <<"term", i.op, i.rel, vals>>

\* The function as it was, run along a path: env is what its values are, ok
\* whether each operand, as it is now, has the value the old one has.
Agree(env, x) ==
    \A k \in DOMAIN args[x] : ValueIn(env, args[x][k]) = ValueIn(env, At(x).args[k])

AgreeOnEdge(env, x, from) ==
    ValueIn(env, Incoming(x, args[x], from)) = ValueIn(env, Incoming(x, At(x).args, from))

\* The phis of b read their operands at the end of from, all at once.
TakeEdge(r, from, b) ==
    LET phis == ToSet(LeadingPhis(b))
    IN  [env |-> [v \in DOMAIN r.env |->
                     IF v \in phis THEN ValueIn(r.env, Incoming(v, At(v).args, from))
                     ELSE r.env[v]],
         ok |-> r.ok /\ \A x \in phis : AgreeOnEdge(r.env, x, from)]

RunInstruction(r, x, n) ==
    IF IsPhi(x) THEN r
    ELSE [env |-> [r.env EXCEPT ![x] =
                      ResultOf(At(x), x, [k \in DOMAIN At(x).args |->
                                             ValueIn(r.env, At(x).args[k])], n)],
          ok |-> r.ok /\ Agree(r.env, x)]

RunPath(p) ==
    LET start == [env |-> [v \in Instructions |-> Undef], ok |-> TRUE]
        entered(r, n) == IF n = 1 THEN r ELSE TakeEdge(r, p[n - 1], p[n])
        after[n \in Nat] ==
            IF n = 0 THEN start
            ELSE FoldLeft(LAMBDA r, x : RunInstruction(r, x, n), entered(after[n - 1], n),
                          [k \in DOMAIN insts[p[n]] |-> Instruction(p[n], k)])
    IN  after[Len(p)]

-----------------------------------------------------------------------------
(* What the pass promises                                                  *)

\* The classes of a partition are disjoint, although transferFunction and the
\* copies insert into every class that fits.
OneClass == \A b \in Block : \A j, k \in DOMAIN pout_[b] :
    j # k => pout_[b][j].members \cap pout_[b][k].members = {}

\* The state is one of the pass, and a partition is one: values of the function in
\* disjoint classes (partitions, CongruenceClass).
TypeOK ==
    /\ DOMAIN args = Instructions
    /\ \A b \in Block : \A k \in DOMAIN pout_[b] : pout_[b][k].members \subseteq Values
    /\ OneClass
    /\ ToSet(todo) \subseteq Block /\ changed \in BOOLEAN /\ left \subseteq Block
    /\ pc \in {"enter", "block", "replace", "done", "crash"}

\* After the replacements each instruction reads, on every path, the values it
\* read before: classes that hold more than equal values, a leader that is not
\* there yet or is of another iteration, and a phi operand replaced for the
\* wrong edge would all show (replace_cc_members).
SamePathResults == pc = "done" => \A p \in Paths : RunPath(p).ok

\* When the iteration has ended, the members of a class have one value at the
\* end of the block, on every path there; the copies of the successors' phis are
\* members like the others (detectEquivalences).
CopyPhis(env, b) ==
    LET phis == UNION {ToSet(LeadingPhis(s)) : s \in Succ(succ, b)}
    IN  [v \in DOMAIN env |-> IF v \in phis THEN ValueIn(env, Incoming(v, At(v).args, b))
                              ELSE env[v]]

ClassesAgree ==
    pc = "replace" /\ left = ToSet(blocks) => \A p \in Paths :
        LET b == p[Len(p)]
            env == CopyPhis(RunPath(p).env, b)
        IN  \A k \in DOMAIN pout_[b] : \A v, w \in pout_[b][k].members :
                ValueIn(env, v) = ValueIn(env, w) /\ ValueIn(env, v) # Undef

\* The documented loop ends when no POUT changes (Documentations/4.2-gvn,
\* "while changes to any POUT occur"): visiting the blocks once more would find
\* the same classes.
Again(b) ==
    LET all == [k \in DOMAIN insts[b] |-> Instruction(b, k)]
        start == IF b = blocks[1] THEN globel_and_argv ELSE PinOf(b)
        done == FoldLeft(LAMBDA q, x : transferFunction(x, q, pout_), start, all)
    IN  FoldLeft(LAMBDA q, s : FoldLeft(LAMBDA r, x : CopyPhi(b, x, r), q, LeadingPhis(s)),
                 done, succ[b])

Fixpoint ==
    pc = "replace" /\ left = ToSet(blocks) => \A b \in ToSet(blocks) :
        {c.members : c \in ToSet(Again(b))} = {c.members : c \in ToSet(pout_[b])}

\* No constant is folded by a division that traps (transferFunction), and no partition
\* is printed with a leader or a constant that is not there (print_partitions).
NeverCrashes == pc # "crash"

\* The do-while of detectEquivalences ends: changed is found FALSE in the end.
Terminates == <>(pc \in {"done", "crash"})
=============================================================================
