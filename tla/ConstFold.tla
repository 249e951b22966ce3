----------------------------- MODULE ConstFold -----------------------------
(***************************************************************************)
(* Constants of LightIR and GVNExpression::ConstFolder                     *)
(* (optimization/GVN.cpp), which computes an instruction on constants in   *)
(* the compiler.  An int has Width bits.  A float is a number of halves,   *)
(* products and quotients cut to one; NaN, infinities and the sign of zero *)
(* are left out.                                                           *)
(***************************************************************************)
EXTENDS Integers

CONSTANT Width

ASSUME ConstFoldAssumption == Width \in Nat \ {0}

\* Constants are interned: one object for each type and value.
ConstantInt(n) == <<"int", n>>
ConstantBool(t) == <<"bool", IF t THEN 1 ELSE 0>>
ConstantFP(n) == <<"float", n>>
IsConstant(v) == v[1] \in {"int", "bool", "float"}

MaxInt == 2 ^ (Width - 1) - 1
MinInt == - (2 ^ (Width - 1))
Wrap(n) == ((n - MinInt) % (2 ^ Width)) + MinInt

\* Division truncates; on the quotients that do not exist or do not fit the
\* processor traps, and the compiler with it.
Trap == <<"trap", 0>>
Truncated(x, y) ==
    LET q == (IF x < 0 THEN -x ELSE x) \div (IF y < 0 THEN -y ELSE y)
    IN  IF (x < 0) = (y < 0) THEN q ELSE -q
Divides(x, y) == y # 0 /\ ~ (x = MinInt /\ y = -1)

IntOps == {"add", "sub", "mul", "sdiv"}
FloatOps == {"fadd", "fsub", "fmul", "fdiv"}
BinaryOps == IntOps \cup FloatOps
CastOps == {"sitofp", "fptosi", "zext"}

Exact(op, x, y) ==
    CASE op \in {"add", "fadd"} -> x + y
      [] op \in {"sub", "fsub"} -> x - y
      [] op = "mul" -> x * y
      [] op = "fmul" -> Truncated(x * y, 2)
      [] op = "sdiv" -> Truncated(x, y)
      [] op = "fdiv" -> Truncated(2 * x, y)

Compared(rel, x, y) ==
    CASE rel = "eq" -> x = y
      [] rel = "ne" -> x # y
      [] rel = "gt" -> x > y
      [] rel = "ge" -> x >= y
      [] rel = "lt" -> x < y
      [] rel = "le" -> x <= y

\* Mutant of computeOp: the operands swapped.
SwappedOp(op, c1, c2) == IF op \in FloatOps THEN ConstantFP(Exact(op, c2[2], c1[2]))
                         ELSE ConstantInt(Wrap(Exact(op, c2[2], c1[2])))

\* compute(op, value1, value2), which valuePhiFunc calls.
computeOp(op, c1, c2) ==
    CASE op = "sdiv" /\ ~ Divides(c1[2], c2[2]) -> Trap
      [] op \in IntOps -> ConstantInt(Wrap(Exact(op, c1[2], c2[2])))
      [] op \in FloatOps -> ConstantFP(Exact(op, c1[2], c2[2]))

\* compute(instr, value1, value2): rel is the comparison of a cmp or fcmp.
compute(op, rel, c1, c2) ==
    IF op \in {"cmp", "fcmp"} THEN ConstantBool(Compared(rel, c1[2], c2[2]))
    ELSE computeOp(op, c1, c2)

\* compute(instr, value1).
computeCast(op, c) ==
    CASE op = "sitofp" -> ConstantFP(2 * c[2])
      [] op = "fptosi" -> ConstantInt(Wrap(Truncated(c[2], 2)))
      [] op = "zext" -> ConstantInt(c[2])
=============================================================================
