----------------------------- MODULE MCFrontend -----------------------------
(***************************************************************************)
(* Two statements of a menu in main, after declarations that every         *)
(* statement can use.                                                      *)
(***************************************************************************)
EXTENDS Frontend

\* Short forms of the syntax.
I(n) == <<"int", n>>
F(n) == <<"float", n>>
V(x) == <<"var", x>>
At(x, e) == <<"at", x, e>>
Op(o, e, f) == <<"op", o, e, f>>
Set(x, e) == <<"expr", <<"set", x, e>>>>
Do(f, es) == <<"expr", <<"call", f, es>>>>
Block(decls, ss) == <<"block", decls, ss>>
Return(e) == <<"return", e>>

Prelude ==
    <<<<"var", "int", "g">>, <<"var", "float", "w">>, <<"var", "int", "a", 2>>,
      <<"fun", "int", "half", <<<<"int", "n">>, <<"float", "y">>>>,
        Block(<<>>, <<<<"if", Op("<", V("n"), V("y")), Return(V("y")),
                        Block(<<>>, <<Set(V("n"), Op("/", V("n"), I(2)))>>)>>,
                      Return(V("n"))>>)>>,
      <<"fun", "void", "shift", <<<<"int", "b", "[]">>>>,
        Block(<<>>, <<Set(At("b", I(1)), At("b", I(0))), <<"return">>>>)>>,
      <<"fun", "float", "fact", <<<<"int", "n">>>>,
        Block(<<>>, <<<<"if", Op("<=", V("n"), I(1)), Return(I(1))>>,
                      Return(Op("*", V("n"),
                                <<"call", "fact", <<Op("-", V("n"), I(1))>>>>))>>)>>>>

\* The statements: x, y and c are main's, g, w and a global.
Statements ==
    <<Set(V("x"), Op("+", V("y"), I(1))),
      Set(V("y"), Op("*", Op("-", V("x"), F(3)), I(2))),
      Block(<<<<"var", "float", "x">>>>, <<Set(V("x"), I(2)), Set(V("w"), V("x"))>>),
      <<"while", Op(">", V("x"), I(0)),
        Block(<<>>, <<Set(V("x"), Op("-", V("x"), I(1))), Set(V("g"), Op("+", V("g"), V("x")))>>)>>,
      <<"if", V("w"), Set(V("g"), I(5)), Block(<<>>, <<Return(V("y")), Set(V("g"), I(6))>>)>>,
      <<"if", Op("==", V("x"), V("y")),
        <<"while", I(1), Block(<<>>, <<Return(V("g"))>>)>>>>,
      Set(At("a", Op("-", V("x"), V("y"))), I(3)),
      Set(At("c", At("a", I(1))), V("y")),
      Set(V("x"), <<"set", V("g"), V("y")>>),
      Do("shift", <<V("c")>>),
      Set(V("y"), <<"call", "half", <<V("y"), V("x")>>>>),
      Set(V("w"), <<"call", "fact", <<V("y")>>>>),
      Do("outputFloat", <<At("c", F(1))>>),
      Set(V("x"), Op("+", <<"call", "input", <<>>>>, Op("!=", V("y"), I(0)))),
      Block(<<<<"var", "int", "z">>, <<"var", "int", "z">>>>, <<<<"skip">>, Set(V("z"), I(1))>>),
      <<"while", Op(">=", V("x"), I(1)),
        <<"if", Op("<", At("c", I(1)), V("x")),
          Set(At("c", I(1)), Op("+", At("c", I(1)), I(2))),
          Block(<<<<"var", "int", "y">>>>,
                <<Set(V("y"), V("x")), Set(V("x"), Op("-", V("y"), I(1)))>>)>>>>,
      <<"if", Op("<=", At("a", V("g")), I(0)), Do("shift", <<V("a")>>),
        <<"if", At("c", I(0)), Return(I(1)), Return(I(2))>>>>,
      Set(At("c", Op("==", V("x"), I(2))), Set(At("a", V("g")), V("w"))[2]),
      Block(<<<<"var", "float", "c">>>>,
            <<Set(V("c"), At("a", I(0))), Block(<<>>, <<>>),
              Set(V("w"), Op("/", Op("+", V("c"), I(7)), I(2)))>>),
      <<"if", Op("!=", V("g"), V("w")), <<"return", Op("-", V("w"), I(1))>>>>>>

Main(i, j) ==
    <<"fun", "int", "main", <<>>,
      Block(<<<<"var", "int", "x">>, <<"var", "float", "y">>, <<"var", "int", "c", 2>>>>,
            <<Set(V("x"), <<"call", "input", <<>>>>), Set(V("y"), V("x")),
              Set(At("c", I(0)), I(4)), Set(At("c", I(1)), I(0)),
              Statements[i], Statements[j],
              Do("output", <<V("x")>>), Do("outputFloat", <<V("y")>>), Do("output", <<V("g")>>),
              Do("outputFloat", <<V("w")>>), Do("output", <<At("c", I(1))>>)>>)>>

MCNumbers == <<2, 1, 3>>

MCName == {"input", "output", "outputFloat", "neg_idx_except", "half", "shift", "fact", "main",
           "g", "w", "a", "n", "y", "b", "x", "c", "z"}
MCVal ==
    {Instruction(b, k) : b \in 1 .. 40, k \in 1 .. 40}
    \cup {FunctionValue(f) : f \in {"input", "output", "outputFloat", "neg_idx_except",
                                    "half", "shift", "fact", "main"}}
    \cup {GlobalVariable("g", Int32Type), GlobalVariable("w", FloatType),
          GlobalVariable("a", ArrayType(Int32Type, 2))}

MCSource == {Append(Prelude, Main(i, j)) : i, j \in DOMAIN Statements}

\* The nodes of an AST, level by level.
Children(n) ==
    CASE n.kind = "program" -> Range(n.declarations)
      [] n.kind = "fun-declaration" -> {n.compound_stmt}
      [] n.kind = "compound-stmt" -> Range(n.local_declarations) \cup Range(n.statement_list)
      [] n.kind \in {"expression-stmt", "return-stmt", "var"} -> Range(n.expression)
      [] n.kind = "selection-stmt" -> {n.expression, n.if_statement} \cup Range(n.else_statement)
      [] n.kind = "iteration-stmt" -> {n.expression, n.statement}
      [] n.kind = "assign-expression" -> {n.var, n.expression}
      [] n.kind \in BinaryKinds -> Range(n.operands)
      [] n.kind = "call" -> Range(n.args)
      [] OTHER -> {}
RECURSIVE NodesOf(_)
NodesOf(level) ==
    IF level = {} THEN {} ELSE level \cup NodesOf(UNION {Children(n) : n \in level})

MCNode == NodesOf({Parsed(p) : p \in MCSource})
MCDeclNode == {n \in MCNode : n.kind \in {"var-declaration", "fun-declaration"}}
MCStmtNode ==
    {n \in MCNode : n.kind \in {"compound-stmt", "expression-stmt", "selection-stmt",
                                "iteration-stmt", "return-stmt"}}
MCExprNode ==
    {n \in MCNode : n.kind \in {"num", "var", "assign-expression", "call"} \cup BinaryKinds}
=============================================================================
