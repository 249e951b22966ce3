------------------------------ MODULE Builder ------------------------------
(***************************************************************************)
(* CminusfBuilder (cminusf_builder.hpp, .cpp): the visitor that turns an   *)
(* AST into LightIR, from the program's syntax tree on.                    *)
(*                                                                         *)
(* The calls of accept are a stack of work: an item names the point a      *)
(* visit has come to, its node, and the locals it needs from there on.     *)
(* tmp_val, require_lvalue, pre_enter_scope and cur_fun are the globals    *)
(* through which the visits talk to one another.                           *)
(***************************************************************************)
EXTENDS LightIR, Scope, FiniteSets

CONSTANTS
    Source,         \* programs
    AstOf(_),       \* the AST of one, from the parser and module Ast
    DeclNode,       \* the nodes there are in these: declarations,
    StmtNode,       \* statements
    ExprNode        \* and expressions

-----------------------------------------------------------------------------
(* The classes of ast.hpp                                                  *)

BinaryKinds == {"simple-expression", "additive-expression", "term"}
Operators(kind) ==
    CASE kind = "simple-expression" -> {"<", "<=", ">", ">=", "==", "!="}
      [] kind = "additive-expression" -> {"+", "-"}
      [] kind = "term" -> {"*", "/"}

\* A vector of AST nodes.
Nodes(list, class) == list \in Seq(class)

IsDeclaration(n) ==
    \/ n.kind = "var-declaration"
    \/ /\ n.kind = "fun-declaration"
       /\ Len(n.params) \in Nat /\ DOMAIN n.params = 1 .. Len(n.params)
       /\ n.compound_stmt \in StmtNode /\ n.compound_stmt.kind = "compound-stmt"

IsStatement(n) ==
    \/ /\ n.kind = "compound-stmt"
       /\ Nodes(n.local_declarations, {d \in DeclNode : d.kind = "var-declaration"})
       /\ Nodes(n.statement_list, StmtNode)
    \/ n.kind \in {"expression-stmt", "return-stmt"} /\ Nodes(n.expression, ExprNode)
    \/ /\ n.kind = "selection-stmt"
       /\ n.expression \in ExprNode /\ n.if_statement \in StmtNode
       /\ Nodes(n.else_statement, StmtNode)
    \/ n.kind = "iteration-stmt" /\ n.expression \in ExprNode /\ n.statement \in StmtNode

IsExpression(n) ==
    \/ n.kind = "num"
    \/ n.kind = "var" /\ Nodes(n.expression, ExprNode)
    \/ /\ n.kind = "assign-expression"
       /\ n.var \in ExprNode /\ n.var.kind = "var" /\ n.expression \in ExprNode
    \/ /\ n.kind \in BinaryKinds
       /\ Nodes(n.operands, ExprNode) /\ Len(n.operands) \in {1, 2}
       /\ Len(n.operands) = 2 => n.op \in Operators(n.kind)
    \/ n.kind = "call" /\ Nodes(n.args, ExprNode)

\* An AST is made of the nodes its classes allow.
ASSUME BuilderAssumption ==
    /\ \A n \in DeclNode : IsDeclaration(n)
    /\ \A n \in StmtNode : IsStatement(n)
    /\ \A n \in ExprNode : IsExpression(n)
    /\ \A p \in Source : AstOf(p).kind = "program" /\ Nodes(AstOf(p).declarations, DeclNode)

VARIABLES
    source,         \* the program
    work,           \* the visits under way, the innermost first
    tmp_val,        \* the value of the last expression
    require_lvalue, \* the next variable is to give its address
    pre_enter_scope,\* the next block has its scope already
    cur_fun,        \* the function being built
    at,             \* the insert block
    functions,      \* the functions of the module
    globals,        \* its global variables
    phase

flags == <<require_lvalue, pre_enter_scope>>
irVars == <<at, functions>>
vars == <<source, work, inner, tmp_val, flags, cur_fun, irVars, globals, phase>>

Null == <<"nullptr">>

\* The functions of the runtime library.
Library ==
    <<<<"input", Function(Int32Type, <<>>)>>, <<"output", Function(VoidType, <<Int32Type>>)>>,
      <<"outputFloat", Function(VoidType, <<FloatType>>)>>,
      <<"neg_idx_except", Function(VoidType, <<>>)>>>>

-----------------------------------------------------------------------------
(* The work stack and the builder                                          *)

Item(step, node, saved) == [step |-> step, node |-> node, saved |-> saved]
Visit(node) == Item(node.kind, node, <<>>)
VisitAll(nodes) == [k \in DOMAIN nodes |-> Visit(nodes[k])]

Doing(step) == phase = "build" /\ work # <<>> /\ Head(work).step = step
Node == Head(work).node
Saved == Head(work).saved
Then(items) == work' = items \o Tail(work)

\* The builder at its insert block, and what an action leaves of it.
Here == BuilderAt(functions[cur_fun], at, Null)
Body == functions[cur_fun]
Emit(e) == functions' = [functions EXCEPT ![cur_fun] = e.body] /\ at' = e.at

ReturnType == Body.ret
DeclaredType(type) == IF type = "int" THEN Int32Type ELSE FloatType

\* The conversions.  The four places test different types, in ways that agree on
\* ints and floats.
ToInt(e, v) == create_fptosi(e, v, Int32Type)
ToFloat(e, v) == create_sitofp(e, v, FloatType)

\* A returned value, by the type that is wanted.
ConvertReturned(e, v) ==
    CASE TypeIn(e, v) = ReturnType -> WithValue(e, v)
      [] TypeIn(e, v) # ReturnType /\ is_integer_type(ReturnType) -> ToInt(e, v)
      [] OTHER -> ToFloat(e, v)

\* An index, if it is a float.
ConvertIndex(e, v) == IF TypeIn(e, v) = FloatType THEN ToInt(e, v) ELSE WithValue(e, v)

\* Mutant of ConvertStored: a float is left as it is.
ConvertIntOnly(e, v, type) ==
    IF TypeIn(e, v) # type /\ TypeIn(e, v) = Int32Type THEN ToFloat(e, v) ELSE WithValue(e, v)

\* An assigned value, by the type it has.
ConvertStored(e, v, type) ==
    CASE TypeIn(e, v) = type -> WithValue(e, v)
      [] TypeIn(e, v) # type /\ TypeIn(e, v) = Int32Type -> ToFloat(e, v)
      [] OTHER -> ToInt(e, v)

\* An argument, by the type it has; an address goes as it is.
ConvertArgument(e, v, type) ==
    CASE TypeIn(e, v) = type \/ is_pointer_type(TypeIn(e, v)) -> WithValue(e, v)
      [] TypeIn(e, v) # type /\ is_integer_type(TypeIn(e, v)) -> ToFloat(e, v)
      [] OTHER -> ToInt(e, v)

\* Mutant of Promote: both to the type of the left one.
PromoteToLeft(e, l, r) ==
    LET c == ConvertStored(e, r, TypeIn(e, l))
    IN  [e |-> c, l |-> l, r |-> c.val, is_int |-> is_integer_type(TypeIn(e, l))]

\* promote: both to float unless the types are one.
Promote(e, l, r) ==
    CASE TypeIn(e, l) = TypeIn(e, r) ->
             [e |-> e, l |-> l, r |-> r, is_int |-> is_integer_type(TypeIn(e, l))]
      [] TypeIn(e, l) # TypeIn(e, r) /\ is_integer_type(TypeIn(e, l)) ->
             LET c == create_sitofp(e, l, FloatType)
             IN  [e |-> c, l |-> c.val, r |-> r, is_int |-> FALSE]
      [] OTHER ->
             LET c == create_sitofp(e, r, FloatType)
             IN  [e |-> c, l |-> l, r |-> c.val, is_int |-> FALSE]

\* The condition of a selection or an iteration.
NotZero(e, v) ==
    IF is_integer_type(TypeIn(e, v)) THEN create_icmp(e, "ne", v, ConstantInt(0))
    ELSE create_fcmp(e, "ne", v, ConstantFP(0))

\* The return of a function that has given no value.
ReturnDefault(e) ==
    CASE ReturnType = VoidType -> create_void_ret(e)
      [] ReturnType = FloatType -> create_ret(e, ConstantFP(0))
      [] OTHER -> create_ret(e, ConstantInt(0))

-----------------------------------------------------------------------------
(* Declarations                                                            *)

Init ==
    /\ source \in Source
    /\ work = <<>>
    /\ ScopeInit
    /\ tmp_val = Null
    /\ require_lvalue = FALSE
    /\ pre_enter_scope = FALSE
    /\ cur_fun = ""
    /\ at = 0
    /\ functions = [f \in {} |-> <<>>]
    /\ globals = <<>>
    /\ phase = "parsed"

\* AST's constructor, the builder's, then run_visitor.
RunVisitor ==
    /\ phase = "parsed"
    /\ phase' = "build"
    /\ work' = [k \in DOMAIN Library |-> Item("library", Library[k], <<>>)]
                \o <<Visit(AstOf(source))>>
    /\ UNCHANGED <<source, inner, tmp_val, flags, cur_fun, irVars, globals>>

\* A function of this name joins the module.
WithFunction(f, fun) ==
    functions' = [g \in DOMAIN functions \cup {f} |-> IF g = f THEN fun ELSE functions[g]]

DeclareLibrary ==
    /\ Doing("library")
    /\ WithFunction(Node[1], Node[2])
    /\ inner' = push(inner, Node[1], FunctionValue(Node[1]))
    /\ Then(<<>>)
    /\ UNCHANGED <<source, tmp_val, flags, cur_fun, at, globals, phase>>

VisitProgram ==
    /\ Doing("program")
    /\ Then(VisitAll(Node.declarations))
    /\ UNCHANGED <<source, inner, tmp_val, flags, cur_fun, irVars, globals, phase>>

VisitVarDeclaration ==
    /\ Doing("var-declaration")
    /\ LET var_type == DeclaredType(Node.type)
           ty == IF Node.num = <<>> THEN var_type ELSE ArrayType(var_type, Node.num[1])
       IN  IF in_global(inner)
           THEN /\ globals' = Append(globals, <<Node.id, ty>>)
                /\ inner' = push(inner, Node.id, GlobalVariable(Node.id, ty))
                /\ UNCHANGED irVars
           ELSE LET e == create_alloca(Here, ty)
                IN  /\ Emit(e)
                    /\ inner' = push(inner, Node.id, e.val)
                    /\ UNCHANGED globals
    /\ Then(<<>>)
    /\ UNCHANGED <<source, tmp_val, flags, cur_fun, phase>>

ParamType(q) ==
    IF q.isarray THEN PointerType(DeclaredType(q.type)) ELSE DeclaredType(q.type)

VisitFunDeclaration ==
    \/ /\ Doing("fun-declaration")
       /\ LET ret_type == IF Node.type = "void" THEN VoidType ELSE DeclaredType(Node.type)
              fun == Function(ret_type, [k \in DOMAIN Node.params |-> ParamType(Node.params[k])])
          IN  WithFunction(Node.id, BasicBlockCreate(fun))
       /\ inner' = push(inner, Node.id, FunctionValue(Node.id))
       /\ cur_fun' = Node.id
       /\ at' = 1
       /\ Then(<<Item("scope", Node, <<>>)>>)
       /\ UNCHANGED <<source, tmp_val, flags, globals, phase>>
    \/ /\ Doing("scope")
       /\ inner' = enter(inner)
       /\ pre_enter_scope' = TRUE
       /\ Then([k \in DOMAIN Node.params |-> Item("param", Node, <<k>>)]
               \o <<Visit(Node.compound_stmt), Item("end", Node, <<>>)>>)
       /\ UNCHANGED <<source, tmp_val, require_lvalue, cur_fun, irVars, globals, phase>>
    \/ /\ Doing("param")
       /\ LET q == Node.params[Saved[1]]
              a == create_alloca(Here, ParamType(q))
          IN  /\ Emit(create_store(a, Argument(Saved[1]), a.val))
              /\ inner' = push(inner, q.id, a.val)
       /\ Then(<<>>)
       /\ UNCHANGED <<source, tmp_val, flags, cur_fun, globals, phase>>
    \/ /\ Doing("end")
       /\ Emit(IF Terminated(Body, at) THEN Here ELSE ReturnDefault(Here))
       /\ inner' = exit(inner)
       /\ Then(<<>>)
       /\ UNCHANGED <<source, tmp_val, flags, cur_fun, globals, phase>>

-----------------------------------------------------------------------------
(* Statements                                                              *)

\* The statements one by one, up to one that leaves a terminator behind.
VisitCompoundStmt ==
    \/ /\ Doing("compound-stmt")
       /\ inner' = IF pre_enter_scope THEN inner ELSE enter(inner)
       /\ pre_enter_scope' = FALSE
       /\ Then(VisitAll(Node.local_declarations)
               \o <<Item("statements", Node, <<1, ~ pre_enter_scope>>)>>)
       /\ UNCHANGED <<source, tmp_val, require_lvalue, cur_fun, irVars, globals, phase>>
    \/ /\ Doing("statements")
       /\ LET k == Saved[1]
              need_exit_scope == Saved[2]
          IN  IF k > Len(Node.statement_list) \/ (k > 1 /\ Terminated(Body, at))
              THEN Then(<<>>) /\ inner' = IF need_exit_scope THEN exit(inner) ELSE inner
              ELSE /\ Then(<<Visit(Node.statement_list[k]),
                             Item("statements", Node, <<k + 1, need_exit_scope>>)>>)
                   /\ UNCHANGED inner
       /\ UNCHANGED <<source, tmp_val, flags, cur_fun, irVars, globals, phase>>

VisitExpressionStmt ==
    /\ Doing("expression-stmt")
    /\ Then(VisitAll(Node.expression))
    /\ UNCHANGED <<source, inner, tmp_val, flags, cur_fun, irVars, globals, phase>>

\* Mutant of JumpTo: without the test for a terminator.
JumpAlways(b) == create_br(Here, b)

\* create_br, unless the block has its terminator.
JumpTo(b) == IF Terminated(Body, at) THEN Here ELSE create_br(Here, b)

Jump ==
    /\ Doing("jump")
    /\ Emit(JumpTo(Saved[1]))
    /\ Then(<<>>)
    /\ UNCHANGED <<source, inner, tmp_val, flags, cur_fun, globals, phase>>

SetInsertPoint ==
    /\ Doing("insert at")
    /\ Emit(set_insert_point(Here, Saved[1]))
    /\ Then(<<>>)
    /\ UNCHANGED <<source, inner, tmp_val, flags, cur_fun, globals, phase>>

VisitSelectionStmt ==
    \/ /\ Doing("selection-stmt")
       /\ Then(<<Visit(Node.expression), Item("branches", Node, <<>>)>>)
       /\ UNCHANGED <<source, inner, tmp_val, flags, cur_fun, irVars, globals, phase>>
    \/ /\ Doing("branches")
       /\ LET trueBB == Len(Body.code) + 1
              contBB == trueBB + 1
              falseBB == IF Node.else_statement = <<>> THEN contBB ELSE contBB + 1
              e == NewBlocks(Here, falseBB - Len(Body.code))
              c == NotZero(e, tmp_val)
          IN  /\ Emit(set_insert_point(create_cond_br(c, c.val, trueBB, falseBB), trueBB))
              /\ Then(<<Visit(Node.if_statement), Item("jump", Node, <<contBB>>)>>
                      \o (IF Node.else_statement = <<>> THEN <<>>
                          ELSE <<Item("insert at", Node, <<falseBB>>), Visit(Node.else_statement[1]),
                                 Item("jump", Node, <<contBB>>)>>)
                      \o <<Item("insert at", Node, <<contBB>>)>>)
       /\ UNCHANGED <<source, inner, tmp_val, flags, cur_fun, globals, phase>>

VisitIterationStmt ==
    \/ /\ Doing("iteration-stmt")
       /\ LET exprBB == Len(Body.code) + 1
              e == NewBlocks(Here, 1)
          IN  /\ Emit(set_insert_point(IF Terminated(Body, at) THEN e ELSE create_br(e, exprBB), exprBB))
              /\ Then(<<Visit(Node.expression), Item("loop", Node, <<exprBB>>)>>)
       /\ UNCHANGED <<source, inner, tmp_val, flags, cur_fun, globals, phase>>
    \/ /\ Doing("loop")
       /\ LET trueBB == Len(Body.code) + 1
              contBB == trueBB + 1
              c == NotZero(NewBlocks(Here, 2), tmp_val)
          IN  /\ Emit(set_insert_point(create_cond_br(c, c.val, trueBB, contBB), trueBB))
              /\ Then(<<Visit(Node.statement), Item("jump", Node, Saved),
                        Item("insert at", Node, <<contBB>>)>>)
       /\ UNCHANGED <<source, inner, tmp_val, flags, cur_fun, globals, phase>>

VisitReturnStmt ==
    \/ /\ Doing("return-stmt")
       /\ IF Node.expression = <<>> THEN Emit(create_void_ret(Here)) /\ Then(<<>>)
          ELSE /\ Then(<<Visit(Node.expression[1]), Item("return", Node, <<>>)>>)
               /\ UNCHANGED irVars
       /\ UNCHANGED <<source, inner, tmp_val, flags, cur_fun, globals, phase>>
    \/ /\ Doing("return")
       /\ LET e == ConvertReturned(Here, tmp_val)
          IN  Emit(create_ret(e, e.val)) /\ tmp_val' = e.val
       /\ Then(<<>>)
       /\ UNCHANGED <<source, inner, flags, cur_fun, globals, phase>>

-----------------------------------------------------------------------------
(* Expressions                                                             *)

VisitNum ==
    /\ Doing("num")
    /\ tmp_val' = IF Node.type = "int" THEN ConstantInt(Node.val) ELSE ConstantFP(Node.val)
    /\ Then(<<>>)
    /\ UNCHANGED <<source, inner, flags, cur_fun, irVars, globals, phase>>

\* What var stands for: a scalar, an array, or an array parameter's pointer.
Stored(var) == TypeOf(Body, var)[2]
IsArray(var) == Stored(var)[1] = "array"

\* A variable by itself.
WholeVar(e, var) ==
    IF IsArray(var) THEN create_gep(e, var, <<ConstantInt(0), ConstantInt(0)>>)
    ELSE create_load(e, var)

\* The test of the index: a negative one calls neg_idx_except and leaves the
\* function.
CheckIndex(e, val, exceptBB, contBB) ==
    LET neg == create_icmp(e, "lt", val, ConstantInt(0))
        branch == create_cond_br(neg, neg.val, exceptBB, contBB)
        fun == find(inner, "neg_idx_except")[2]
        thrown == create_call(set_insert_point(branch, exceptBB), fun, functions[fun].ret, <<>>)
    IN  set_insert_point(ReturnDefault(thrown), contBB)

ElementOf(e, var, val) ==
    CASE IsArray(var) -> create_gep(e, var, <<ConstantInt(0), val>>)
      [] is_pointer_type(Stored(var)) ->
             LET load == create_load(e, var) IN create_gep(load, load.val, <<val>>)
      [] OTHER -> create_gep(e, var, <<val>>)

\* Mutant of TakeRequest: taken back only where the variable's value is made.
TakeRequestLate == require_lvalue' = (require_lvalue /\ Node.expression # <<>>)

\* The request for an address is for this variable and none inside its index.
TakeRequest == require_lvalue' = FALSE

VisitVar ==
    \/ /\ Doing("var")
       /\ find(inner, Node.id) # NoValue
       /\ TakeRequest
       /\ LET var == find(inner, Node.id)
          IN  IF Node.expression = <<>>
              THEN /\ LET e == IF require_lvalue THEN WithValue(Here, var) ELSE WholeVar(Here, var)
                      IN  Emit(e) /\ tmp_val' = e.val
                   /\ Then(<<>>)
              ELSE /\ Then(<<Visit(Node.expression[1]), Item("index", Node, <<var, require_lvalue>>)>>)
                   /\ UNCHANGED <<irVars, tmp_val>>
       /\ UNCHANGED <<source, inner, pre_enter_scope, cur_fun, globals, phase>>
    \/ /\ Doing("index")
       /\ LET exceptBB == Len(Body.code) + 1
              i == ConvertIndex(NewBlocks(Here, 2), tmp_val)
              ptr == ElementOf(CheckIndex(i, i.val, exceptBB, exceptBB + 1), Saved[1], i.val)
              e == IF Saved[2] THEN ptr ELSE create_load(ptr, ptr.val)
          IN  Emit(e) /\ tmp_val' = e.val
       /\ Then(<<>>)
       /\ UNCHANGED <<source, inner, flags, cur_fun, globals, phase>>

VisitAssignExpression ==
    \/ /\ Doing("assign-expression")
       /\ Then(<<Visit(Node.expression), Item("address", Node, <<>>)>>)
       /\ UNCHANGED <<source, inner, tmp_val, flags, cur_fun, irVars, globals, phase>>
    \/ /\ Doing("address")
       /\ require_lvalue' = TRUE
       /\ Then(<<Visit(Node.var), Item("store", Node, <<tmp_val>>)>>)
       /\ UNCHANGED <<source, inner, tmp_val, pre_enter_scope, cur_fun, irVars, globals, phase>>
    \/ /\ Doing("store")
       /\ LET result == ConvertStored(Here, Saved[1], ElementType(Here, tmp_val))
          IN  Emit(create_store(result, result.val, tmp_val)) /\ tmp_val' = result.val
       /\ Then(<<>>)
       /\ UNCHANGED <<source, inner, flags, cur_fun, globals, phase>>

\* The operands of a binary expression, the right one if there is one; what is
\* made of the two follows.
VisitOperands(kind, right, made) ==
    \/ /\ Doing(kind)
       /\ Then(<<Visit(Node.operands[1])>>
               \o (IF Len(Node.operands) = 1 THEN <<>> ELSE <<Item(right, Node, <<>>)>>))
       /\ UNCHANGED <<source, inner, tmp_val, flags, cur_fun, irVars, globals, phase>>
    \/ /\ Doing(right)
       /\ Then(<<Visit(Node.operands[2]), Item(made, Node, <<tmp_val>>)>>)
       /\ UNCHANGED <<source, inner, tmp_val, flags, cur_fun, irVars, globals, phase>>

Made(made, create(_)) ==
    /\ Doing(made)
    /\ LET e == create(Promote(Here, Saved[1], tmp_val))
       IN  Emit(e) /\ tmp_val' = e.val
    /\ Then(<<>>)
    /\ UNCHANGED <<source, inner, flags, cur_fun, globals, phase>>

RelationOf(op) ==
    CASE op = "<" -> "lt" [] op = "<=" -> "le" [] op = ">" -> "gt" [] op = ">=" -> "ge"
      [] op = "==" -> "eq" [] op = "!=" -> "ne"

VisitSimpleExpression ==
    \/ VisitOperands("simple-expression", "relation right", "relation made")
    \/ Made("relation made", LAMBDA p :
           LET cmp == IF p.is_int THEN create_icmp(p.e, RelationOf(Node.op), p.l, p.r)
                      ELSE create_fcmp(p.e, RelationOf(Node.op), p.l, p.r)
           IN  create_zext(cmp, cmp.val, Int32Type))

VisitAdditiveExpression ==
    \/ VisitOperands("additive-expression", "sum right", "sum made")
    \/ Made("sum made", LAMBDA p :
           create_binary(p.e, CASE Node.op = "+" -> IF p.is_int THEN "add" ELSE "fadd"
                                [] Node.op = "-" -> IF p.is_int THEN "sub" ELSE "fsub", p.l, p.r))

VisitTerm ==
    \/ VisitOperands("term", "product right", "product made")
    \/ Made("product made", LAMBDA p :
           create_binary(p.e, CASE Node.op = "*" -> IF p.is_int THEN "mul" ELSE "fmul"
                                [] Node.op = "/" -> IF p.is_int THEN "sdiv" ELSE "fdiv", p.l, p.r))

\* The arguments one by one, then the call.
VisitCall ==
    \/ /\ Doing("call")
       /\ Then(<<Item("arguments", Node, <<find(inner, Node.id)[2], <<>>>>)>>)
       /\ UNCHANGED <<source, inner, tmp_val, flags, cur_fun, irVars, globals, phase>>
    \/ /\ Doing("arguments")
       /\ Len(Saved[2]) < Len(Node.args)
       /\ Then(<<Visit(Node.args[Len(Saved[2]) + 1]), Item("argument", Node, Saved)>>)
       /\ UNCHANGED <<source, inner, tmp_val, flags, cur_fun, irVars, globals, phase>>
    \/ /\ Doing("argument")
       /\ LET fun == functions[Saved[1]]
              e == ConvertArgument(Here, tmp_val, fun.params[Len(Saved[2]) + 1])
          IN  /\ Emit(e)
              /\ tmp_val' = e.val
              /\ Then(<<Item("arguments", Node, <<Saved[1], Append(Saved[2], e.val)>>)>>)
       /\ UNCHANGED <<source, inner, flags, cur_fun, globals, phase>>
    \/ /\ Doing("arguments")
       /\ Len(Saved[2]) = Len(Node.args)
       /\ LET e == create_call(Here, Saved[1], functions[Saved[1]].ret, Saved[2])
          IN  Emit(e) /\ tmp_val' = e.val
       /\ Then(<<>>)
       /\ UNCHANGED <<source, inner, flags, cur_fun, globals, phase>>

Done ==
    /\ phase = "build" /\ work = <<>>
    /\ phase' = "done"
    /\ UNCHANGED <<source, work, inner, tmp_val, flags, cur_fun, irVars, globals>>

Finished == phase = "done" /\ UNCHANGED vars

Step ==
    \/ RunVisitor \/ DeclareLibrary \/ VisitProgram \/ VisitVarDeclaration \/ VisitFunDeclaration
    \/ VisitCompoundStmt \/ VisitExpressionStmt \/ VisitSelectionStmt \/ VisitIterationStmt
    \/ Jump \/ SetInsertPoint \/ VisitReturnStmt \/ VisitNum \/ VisitVar \/ VisitAssignExpression
    \/ VisitSimpleExpression \/ VisitAdditiveExpression \/ VisitTerm \/ VisitCall \/ Done

Next == Step \/ Finished

Spec == Init /\ [][Next]_vars

-----------------------------------------------------------------------------
(* The graph of blocks                                                     *)

Built == {f \in DOMAIN functions : functions[f].code # <<>>}
IsTerminator(inst) == inst.op \in {"ret", "br"}

\* Where the terminator goes, in the order create_cond_br links the edges.
Targets(inst) ==
    CASE inst.op = "ret" -> <<>>
      [] inst.op = "br" /\ Len(inst.args) = 1 -> inst.args
      [] OTHER -> <<inst.args[3], inst.args[2]>>

Times(list, b) == Cardinality({k \in DOMAIN list : list[k] = b})

\* However selections, loops and early returns are nested: every block ends with
\* its one terminator, the lists of successors and predecessors say what the
\* terminators say, and nothing jumps to the entry (get_terminator is tested
\* before each jump; Mem2Reg and Dominators rely on it).
BlocksWellFormed ==
    phase = "done" =>
        \A f \in Built :
            LET F == functions[f]
                blocks == DOMAIN F.code
            IN  /\ \A b \in blocks :
                       /\ F.code[b] # <<>>
                       /\ \A k \in DOMAIN F.code[b] :
                              IsTerminator(F.code[b][k]) <=> k = Len(F.code[b])
                       /\ F.succ[b] = Targets(F.code[b][Len(F.code[b])])
                       /\ \A t \in blocks : Times(F.succ[b], t) = Times(F.pre[t], b)
                /\ F.pre[1] = <<>>

-----------------------------------------------------------------------------
(* What the visits leave to one another                                    *)

\* A request left in a global is taken by the visit it is meant for: an address
\* by the variable on the left of the assignment, the scope of a function by its
\* body; and every scope that was entered has been left in the end
\* (require_lvalue, pre_enter_scope, need_exit_scope).
RequestsServed ==
    /\ require_lvalue => work # <<>> /\ Head(work).step = "var"
    /\ pre_enter_scope => work # <<>> /\ Head(work).step \in {"param", "compound-stmt"}
    /\ phase = "done" => Len(inner) = 1
=============================================================================
