------------------------------- MODULE Cminus -------------------------------
(***************************************************************************)
(* The language: the syntax tree the parser's actions make of a program    *)
(* (parser/syntax_analyzer.y), and what the program means by the language's*)
(* definition (Documentations/common/cminusf.md).                          *)
(*                                                                         *)
(* A program is a sequence of declarations                                 *)
(*   <<"var", type, x>>, <<"var", type, x, n>>, <<"fun", type, f, params, block>> *)
(* with params a sequence of <<type, x>> or <<type, x, "[]">>; a statement *)
(*   <<"expr", e>>, <<"skip">>, <<"block", vars, statements>>, <<"if", e, s>>, *)
(*   <<"if", e, s, t>>, <<"while", e, s>>, <<"return">>, <<"return", e>>   *)
(* and an expression                                                       *)
(*   <<"int", n>>, <<"float", n>>, <<"var", x>>, <<"at", x, e>>,           *)
(*   <<"set", lvalue, e>>, <<"op", o, e, f>>, <<"call", f, es>>.           *)
(***************************************************************************)
EXTENDS ConstFold, SequencesExt

-----------------------------------------------------------------------------
(* The syntax tree                                                         *)

\* node(name, n, ...); without children it has one, named epsilon.
Leaf(text) == [name |-> text, children |-> <<>>]
Tree(name, nodes) ==
    [name |-> name, children |-> IF nodes = <<>> THEN <<Leaf("epsilon")>> ELSE nodes]

\* A left-recursive list: sep stands between its items, and the shortest list
\* has one item or, when empty holds, none.
RECURSIVE ListTree(_, _, _, _)
ListTree(name, items, sep, empty) ==
    CASE items = <<>> -> Tree(name, <<>>)
      [] Len(items) = 1 /\ ~ empty -> Tree(name, items)
      [] OTHER -> Tree(name, <<ListTree(name, Front(items), sep, empty)>> \o sep \o <<Last(items)>>)

Comma == <<Leaf(",")>>

RelOps == {"<", "<=", ">", ">=", "==", "!="}
AddOps == {"+", "-"}
MulOps == {"*", "/"}
IsOp(e, ops) == e[1] = "op" /\ e[2] \in ops

\* The grammar's levels of an expression, from the top; one that does not fit a
\* factor is put into parentheses.
RECURSIVE ExpressionTree(_)
VarTree(e) ==
    Tree("var", IF e[1] = "var" THEN <<Leaf(e[2])>>
                ELSE <<Leaf(e[2]), Leaf("["), ExpressionTree(e[3]), Leaf("]")>>)
CallTree(e) ==
    Tree("call", <<Leaf(e[2]), Leaf("("),
                   Tree("args", IF e[3] = <<>> THEN <<>>
                                ELSE <<ListTree("arg-list", [k \in DOMAIN e[3] |->
                                                    ExpressionTree(e[3][k])], Comma, FALSE)>>),
                   Leaf(")")>>)
FactorTree(e) ==
    Tree("factor",
         CASE e[1] = "int" -> <<Tree("integer", <<Leaf(e[2])>>)>>
           [] e[1] = "float" -> <<Tree("float", <<Leaf(e[2])>>)>>
           [] e[1] \in {"var", "at"} -> <<VarTree(e)>>
           [] e[1] = "call" -> <<CallTree(e)>>
           [] OTHER -> <<Leaf("("), ExpressionTree(e), Leaf(")")>>)
RECURSIVE TermTree(_)
TermTree(e) ==
    Tree("term", IF IsOp(e, MulOps)
                 THEN <<TermTree(e[3]), Tree("mulop", <<Leaf(e[2])>>), FactorTree(e[4])>>
                 ELSE <<FactorTree(e)>>)
RECURSIVE AdditiveTree(_)
AdditiveTree(e) ==
    Tree("additive-expression",
         IF IsOp(e, AddOps)
         THEN <<AdditiveTree(e[3]), Tree("addop", <<Leaf(e[2])>>), TermTree(e[4])>>
         ELSE <<TermTree(e)>>)
SimpleTree(e) ==
    Tree("simple-expression",
         IF IsOp(e, RelOps)
         THEN <<AdditiveTree(e[3]), Tree("relop", <<Leaf(e[2])>>), AdditiveTree(e[4])>>
         ELSE <<AdditiveTree(e)>>)
ExpressionTree(e) ==
    Tree("expression", IF e[1] = "set" THEN <<VarTree(e[2]), Leaf("="), ExpressionTree(e[3])>>
                       ELSE <<SimpleTree(e)>>)

TypeTree(type) == Tree("type-specifier", <<Leaf(type)>>)
VarDeclarationTree(d) ==
    Tree("var-declaration",
         <<TypeTree(d[2]), Leaf(d[3])>>
         \o (IF Len(d) = 4 THEN <<Leaf("["), Leaf(d[4]), Leaf("]")>> ELSE <<>>) \o <<Leaf(";")>>)

RECURSIVE StatementTree(_)
CompoundTree(s) ==
    Tree("compound-stmt",
         <<Leaf("{"),
           ListTree("local-declarations", [k \in DOMAIN s[2] |-> VarDeclarationTree(s[2][k])],
                    <<>>, TRUE),
           ListTree("statement-list", [k \in DOMAIN s[3] |-> StatementTree(s[3][k])], <<>>, TRUE),
           Leaf("}")>>)
StatementTree(s) ==
    Tree("statement",
         <<CASE s[1] = "expr" -> Tree("expression-stmt", <<ExpressionTree(s[2]), Leaf(";")>>)
             [] s[1] = "skip" -> Tree("expression-stmt", <<Leaf(";")>>)
             [] s[1] = "block" -> CompoundTree(s)
             [] s[1] = "if" ->
                    Tree("selection-stmt",
                         <<Leaf("if"), Leaf("("), ExpressionTree(s[2]), Leaf(")"), StatementTree(s[3])>>
                         \o (IF Len(s) = 4 THEN <<Leaf("else"), StatementTree(s[4])>> ELSE <<>>))
             [] s[1] = "while" ->
                    Tree("iteration-stmt",
                         <<Leaf("while"), Leaf("("), ExpressionTree(s[2]), Leaf(")"), StatementTree(s[3])>>)
             [] s[1] = "return" ->
                    Tree("return-stmt", <<Leaf("return")>>
                         \o (IF Len(s) = 2 THEN <<ExpressionTree(s[2])>> ELSE <<>>) \o <<Leaf(";")>>)>>)

ParamTree(q) ==
    Tree("param", <<TypeTree(q[1]), Leaf(q[2])>>
                  \o (IF Len(q) = 3 THEN <<Leaf("["), Leaf("]")>> ELSE <<>>))
ParamsTree(qs) ==
    Tree("params", IF qs = <<>> THEN <<Leaf("void")>>
                   ELSE <<ListTree("param-list", [k \in DOMAIN qs |-> ParamTree(qs[k])], Comma, FALSE)>>)
DeclarationTree(d) ==
    Tree("declaration",
         <<IF d[1] = "var" THEN VarDeclarationTree(d)
           ELSE Tree("fun-declaration", <<TypeTree(d[2]), Leaf(d[3]), Leaf("("),
                                          ParamsTree(d[4]), Leaf(")"), CompoundTree(d[5])>>)>>)
ProgramTree(ds) ==
    Tree("program", <<ListTree("declaration-list", [k \in DOMAIN ds |-> DeclarationTree(ds[k])],
                               <<>>, FALSE)>>)

-----------------------------------------------------------------------------
(* The machine: memory, what was printed, what is left to be read, whether *)
(* the program runs on ("run"), is returning from a function ("return") or *)
(* has exited, and the value computed last.                                *)

Undef == <<"undef", 0>>
Pointer(a) == <<"pointer", a>>
Machine(numbers) == [mem |-> <<>>, out |-> <<>>, input |-> numbers, status |-> "run", val |-> Undef]

Zero(type) == IF type = "float" THEN ConstantFP(0) ELSE ConstantInt(0)
Convert(v, type) ==
    CASE v[1] = "int" /\ type = "float" -> ConstantFP(2 * v[2])
      [] v[1] = "float" /\ type = "int" -> ConstantInt(Wrap(Truncated(v[2], 2)))
      [] OTHER -> v

Allocate(m, n, v) ==
    [m EXCEPT !.mem = @ \o [k \in 1 .. n |-> v], !.val = Pointer(Len(m.mem) + 1)]
Read(m) == [m EXCEPT !.val = IF m.val[2] \in DOMAIN m.mem THEN m.mem[m.val[2]] ELSE Undef]
Write(m, a, v) == [m EXCEPT !.mem[a] = v, !.val = v]

\* input, output, outputFloat and neg_idx_except.
LibraryNames == {"input", "output", "outputFloat", "neg_idx_except"}
RunLibrary(f, vals, m) ==
    CASE f = "input" -> [m EXCEPT !.val = ConstantInt(Head(m.input)), !.input = Tail(@)]
      [] f = "output" -> [m EXCEPT !.out = Append(@, vals[1])]
      [] f = "outputFloat" -> [m EXCEPT !.out = Append(@, vals[1])]
      [] f = "neg_idx_except" ->
             [m EXCEPT !.out = Append(@, <<"negative index">>), !.status = "exit", !.val = Undef]

Relation == "<" :> "lt" @@ "<=" :> "le" @@ ">" :> "gt" @@ ">=" :> "ge" @@ "==" :> "eq" @@ "!=" :> "ne"
IntOp == "+" :> "add" @@ "-" :> "sub" @@ "*" :> "mul" @@ "/" :> "sdiv"
FloatOp == "+" :> "fadd" @@ "-" :> "fsub" @@ "*" :> "fmul" @@ "/" :> "fdiv"

Operate(o, v, w) ==
    LET float == "float" \in {v[1], w[1]}
        x == IF float THEN Convert(v, "float") ELSE v
        y == IF float THEN Convert(w, "float") ELSE w
    IN  CASE o \in RelOps -> ConstantInt(IF Compared(Relation[o], x[2], y[2]) THEN 1 ELSE 0)
          [] OTHER -> computeOp(IF float THEN FloatOp[o] ELSE IntOp[o], x, y)

-----------------------------------------------------------------------------
(* What a program means.  env gives each name in sight what it stands for: *)
(* <<"cell", type, address>>, <<"array", type, address>> or a function's   *)
(* declaration.                                                            *)

\* What follows is done only while the program runs on.
And(m, k(_)) == IF m.status = "run" THEN k(m) ELSE m

Bound(env, x, what) == [y \in DOMAIN env \cup {x} |-> IF y = x THEN what ELSE env[y]]

RECURSIVE Eval(_, _, _)
RECURSIVE EvalCall(_, _, _, _, _)
RECURSIVE Apply(_, _, _, _)

\* The address of a variable: the index comes first, and a negative one ends
\* the program.
Address(lv, env, m) ==
    IF lv[1] = "var" THEN [m EXCEPT !.val = Pointer(env[lv[2]][3])]
    ELSE And(Eval(lv[3], env, m), LAMBDA i :
             LET n == Convert(i.val, "int")[2]
             IN  IF n < 0 THEN RunLibrary("neg_idx_except", <<>>, i)
                 ELSE [i EXCEPT !.val = Pointer(env[lv[2]][3] + n)])

\* Assignment: the address of the left side, then the right side, converted to
\* the variable's type.
Eval(e, env, m) ==
    CASE e[1] \in {"int", "float"} -> [m EXCEPT !.val = e]
      [] e[1] = "var" /\ env[e[2]][1] = "array" -> [m EXCEPT !.val = Pointer(env[e[2]][3])]
      [] (e[1] = "var" /\ env[e[2]][1] # "array") \/ e[1] = "at" ->
             And(Address(e, env, m), LAMBDA a : Read(a))
      [] e[1] = "set" ->
             And(Address(e[2], env, m), LAMBDA a :
             And(Eval(e[3], env, a), LAMBDA r :
                 Write(r, a.val[2], Convert(r.val, env[e[2][2]][2]))))
      [] e[1] = "op" ->
             And(Eval(e[3], env, m), LAMBDA l :
             And(Eval(e[4], env, l), LAMBDA r :
                 [r EXCEPT !.val = Operate(e[2], l.val, r.val)]))
      [] e[1] = "call" -> EvalCall(e[2], e[3], <<>>, env, m)

\* The arguments from left to right, then the function.
EvalCall(f, es, vals, env, m) ==
    IF Len(vals) = Len(es) THEN Apply(f, vals, env, m)
    ELSE And(Eval(es[Len(vals) + 1], env, m), LAMBDA r :
             EvalCall(f, es, Append(vals, r.val), env, r))

RECURSIVE Exec(_, _, _)
RECURSIVE ExecAll(_, _, _, _)

\* The declarations of a block, each to a new cell; then its statements.
RECURSIVE Declared(_, _, _, _)
Declared(vars, env, m, global) ==
    IF vars = <<>> THEN [env |-> env, m |-> m]
    ELSE LET d == Head(vars)
             n == IF Len(d) = 4 THEN d[4] ELSE 1
             a == Allocate(m, n, IF global THEN Zero(d[2]) ELSE Undef)
         IN  Declared(Tail(vars),
                      Bound(env, d[3], <<IF Len(d) = 4 THEN "array" ELSE "cell", d[2], a.val[2]>>),
                      a, global)

ExecBlock(s, env, m) ==
    LET inside == Declared(s[2], env, m, FALSE) IN ExecAll(s[3], 1, inside.env, inside.m)

ExecAll(ss, k, env, m) ==
    IF k > Len(ss) THEN m
    ELSE And(Exec(ss[k], env, m), LAMBDA r : ExecAll(ss, k + 1, env, r))

Exec(s, env, m) ==
    CASE s[1] = "expr" -> Eval(s[2], env, m)
      [] s[1] = "skip" -> m
      [] s[1] = "block" -> ExecBlock(s, env, m)
      [] s[1] = "if" ->
             And(Eval(s[2], env, m), LAMBDA c :
                 CASE c.val[2] # 0 -> Exec(s[3], env, c)
                   [] c.val[2] = 0 /\ Len(s) = 4 -> Exec(s[4], env, c)
                   [] OTHER -> c)
      [] s[1] = "while" ->
             And(Eval(s[2], env, m), LAMBDA c :
                 IF c.val[2] = 0 THEN c
                 ELSE And(Exec(s[3], env, c), LAMBDA r : Exec(s, env, r)))
      [] s[1] = "return" ->
             IF Len(s) = 1 THEN [m EXCEPT !.status = "return", !.val = Undef]
             ELSE And(Eval(s[2], env, m), LAMBDA r : [r EXCEPT !.status = "return"])

\* A call: parameters are new cells, an array is passed by its address; the
\* body sees the global names and the parameters.  A function that ends without
\* a return gives zero.
RECURSIVE Passed(_, _, _, _)
Passed(qs, vals, env, m) ==
    IF qs = <<>> THEN [env |-> env, m |-> m]
    ELSE LET q == Head(qs)
             v == Convert(Head(vals), q[1])
             a == Allocate(m, 1, v)
         IN  IF Len(q) = 3 THEN Passed(Tail(qs), Tail(vals), Bound(env, q[2], <<"array", q[1], v[2]>>), m)
             ELSE Passed(Tail(qs), Tail(vals), Bound(env, q[2], <<"cell", q[1], a.val[2]>>), a)

LibraryParams == "input" :> <<>> @@ "output" :> <<"int">> @@ "outputFloat" :> <<"float">>
                 @@ "neg_idx_except" :> <<>>

\* env at a call holds the global environment under the name "global".
Apply(f, vals, env, m) ==
    IF f \in LibraryNames
    THEN RunLibrary(f, [k \in DOMAIN vals |-> Convert(vals[k], LibraryParams[f][k])], m)
    ELSE LET d == env["global"][f]
             called == Passed(d[4], vals, Bound(env["global"], "global", env["global"]), m)
             r == ExecBlock(d[5], called.env, called.m)
         IN  CASE r.status = "exit" -> r
               [] r.status = "return" ->
                      [r EXCEPT !.status = "run", !.val = IF d[2] = "void" THEN Undef ELSE Convert(@, d[2])]
               [] OTHER -> [r EXCEPT !.val = IF d[2] = "void" THEN Undef ELSE Zero(d[2])]

\* What is seen of a run: the output, whether it ended by an exception, and what
\* main returned.
Seen(m) == <<m.out, m.status, m.val>>

MeaningOf(ds, numbers) ==
    LET vars == SelectSeq(ds, LAMBDA d : d[1] = "var")
        funs == SelectSeq(ds, LAMBDA d : d[1] = "fun")
        start == Declared(vars, <<>>, Machine(numbers), TRUE)
        globals == [x \in DOMAIN start.env \cup {funs[k][3] : k \in DOMAIN funs} |->
                       IF x \in DOMAIN start.env THEN start.env[x]
                       ELSE funs[CHOOSE k \in DOMAIN funs : funs[k][3] = x]]
    IN  Seen(Apply("main", <<>>, [x \in {"global"} |-> globals], start.m))
=============================================================================
