-------------------------------- MODULE Ast --------------------------------
(***************************************************************************)
(* AST::transform_node_iter (common/ast.cpp): from the syntax tree of the  *)
(* parser to the tree the builder visits.  A node of the syntax tree has a *)
(* name and children; one of the AST has its class as kind, a pointer that *)
(* may be null as a sequence of at most one node, and both operands of a   *)
(* binary expression in one sequence.  A numeral keeps its value as name,  *)
(* std::stoi and std::stof being left out.                                 *)
(***************************************************************************)
EXTENDS Sequences, Integers

\* The two ways a list of the grammar is flattened, by a stack of what was
\* found on the way down its left spine: w is the width of a longer list, base
\* tells whether a list of the last kind holds an item.
RECURSIVE Flatten(_, _, _)
Flatten(list, w, base) ==
    CASE Len(list.children) = w ->
             Append(Flatten(list.children[1], w, base), list.children[w])
      [] Len(list.children) # w /\ base -> <<list.children[1]>>
      [] OTHER -> <<>>

\* The keyword of a type-specifier: all but int is float for a variable or a
\* parameter.
Keyword(n) == n.children[1].children[1].name
VarKeyword(n) == IF Keyword(n) = "int" THEN "int" ELSE "float"

OpName(n) == n.children[2].children[1].name

RECURSIVE transform(_)
TransformAll(list) == [k \in DOMAIN list |-> transform(list[k])]

\* program: the declarations in order.
Program(n) ==
    [kind |-> "program", declarations |-> TransformAll(Flatten(n.children[1], 2, TRUE))]

VarDeclaration(n) ==
    [kind |-> "var-declaration", type |-> VarKeyword(n), id |-> n.children[2].name,
     num |-> IF Len(n.children) = 6 THEN <<n.children[4].name>> ELSE <<>>]

\* (void) has a leaf where a parameter list would be.
FunDeclaration(n) ==
    LET list == n.children[4].children[1]
    IN  [kind |-> "fun-declaration", type |-> Keyword(n), id |-> n.children[2].name,
         params |-> IF list.children = <<>> THEN <<>> ELSE TransformAll(Flatten(list, 3, TRUE)),
         compound_stmt |-> transform(n.children[6])]

Param(n) ==
    [kind |-> "param", type |-> VarKeyword(n), id |-> n.children[2].name,
     isarray |-> Len(n.children) > 2]

CompoundStmt(n) ==
    [kind |-> "compound-stmt",
     local_declarations |-> TransformAll(Flatten(n.children[2], 2, FALSE)),
     statement_list |-> TransformAll(Flatten(n.children[3], 2, FALSE))]

ExpressionStmt(n) ==
    [kind |-> "expression-stmt",
     expression |-> IF Len(n.children) = 2 THEN <<transform(n.children[1])>> ELSE <<>>]

SelectionStmt(n) ==
    [kind |-> "selection-stmt", expression |-> transform(n.children[3]),
     if_statement |-> transform(n.children[5]),
     else_statement |-> IF Len(n.children) = 7 THEN <<transform(n.children[7])>> ELSE <<>>]

IterationStmt(n) ==
    [kind |-> "iteration-stmt", expression |-> transform(n.children[3]),
     statement |-> transform(n.children[5])]

ReturnStmt(n) ==
    [kind |-> "return-stmt",
     expression |-> IF Len(n.children) = 3 THEN <<transform(n.children[2])>> ELSE <<>>]

Expression(n) ==
    IF Len(n.children) = 1 THEN transform(n.children[1])
    ELSE [kind |-> "assign-expression", var |-> transform(n.children[1]),
          expression |-> transform(n.children[3])]

Var(n) ==
    [kind |-> "var", id |-> n.children[1].name,
     expression |-> IF Len(n.children) = 4 THEN <<transform(n.children[3])>> ELSE <<>>]

\* simple-expression, additive-expression and term.
Binary(n, kind) ==
    IF Len(n.children) = 3
    THEN [kind |-> kind, op |-> OpName(n),
          operands |-> <<transform(n.children[1]), transform(n.children[3])>>]
    ELSE [kind |-> kind, op |-> "", operands |-> <<transform(n.children[1])>>]
SimpleExpression(n) == Binary(n, "simple-expression")
AdditiveExpression(n) == Binary(n, "additive-expression")
Term(n) == Binary(n, "term")

Factor(n) ==
    LET child == n.children[IF Len(n.children) = 3 THEN 2 ELSE 1]
    IN  IF child.name \in {"expression", "var", "call"} THEN transform(child)
        ELSE [kind |-> "num", type |-> IF child.name = "integer" THEN "int" ELSE "float",
              val |-> child.children[1].name]

Call(n) ==
    LET list == n.children[3].children[1]
    IN  [kind |-> "call", id |-> n.children[1].name,
         args |-> IF list.name = "arg-list" THEN TransformAll(Flatten(list, 3, TRUE)) ELSE <<>>]

transform(n) ==
    CASE n.name = "program" -> Program(n)
      [] n.name \in {"declaration", "statement"} -> transform(n.children[1])
      [] n.name = "var-declaration" -> VarDeclaration(n)
      [] n.name = "fun-declaration" -> FunDeclaration(n)
      [] n.name = "param" -> Param(n)
      [] n.name = "compound-stmt" -> CompoundStmt(n)
      [] n.name = "expression-stmt" -> ExpressionStmt(n)
      [] n.name = "selection-stmt" -> SelectionStmt(n)
      [] n.name = "iteration-stmt" -> IterationStmt(n)
      [] n.name = "return-stmt" -> ReturnStmt(n)
      [] n.name = "expression" -> Expression(n)
      [] n.name = "var" -> Var(n)
      [] n.name = "simple-expression" -> SimpleExpression(n)
      [] n.name = "additive-expression" -> AdditiveExpression(n)
      [] n.name = "term" -> Term(n)
      [] n.name = "factor" -> Factor(n)
      [] n.name = "call" -> Call(n)
=============================================================================
