------------------------------ MODULE LightIR ------------------------------
(***************************************************************************)
(* Functions of LightIR while they are built: IRBuilder and the            *)
(* constructors of BasicBlock and of the instructions, as operators.       *)
(* Names and the printed form are left out; operator use-lists are those   *)
(* of module DefUse.                                                       *)
(***************************************************************************)
EXTENDS ConstFold, Sequences

Int32Type == <<"int32">>
Int1Type == <<"int1">>
FloatType == <<"float">>
VoidType == <<"void">>
PointerType(t) == <<"ptr", t>>
ArrayType(t, n) == <<"array", t, n>>
is_integer_type(t) == t \in {Int32Type, Int1Type}
is_pointer_type(t) == t[1] = "ptr"

\* A function: block b is the b-th that was created; succ_bbs_ and pre_bbs_ are
\* lists.  A library function has no block.
Function(ret, params) ==
    [ret |-> ret, params |-> params, code |-> <<>>, succ |-> <<>>, pre |-> <<>>]

Instruction(b, k) == <<"instr", b, k>>
Argument(k) == <<"argument", k>>
GlobalVariable(x, ty) == <<"global", x, PointerType(ty)>>
FunctionValue(f) == <<"function", f>>

\* get_type of a value in function F.
TypeOf(F, v) ==
    CASE v[1] = "int" -> Int32Type
      [] v[1] = "bool" -> Int1Type
      [] v[1] = "float" -> FloatType
      [] v[1] = "argument" -> F.params[v[2]]
      [] v[1] = "global" -> v[3]
      [] v[1] = "instr" -> F.code[v[2]][v[3]].ty

\* IRBuilder: the function, the insert block, and the value made last.
BuilderAt(F, b, v) == [body |-> F, at |-> b, val |-> v]
set_insert_point(e, b) == BuilderAt(e.body, b, e.val)
WithValue(e, v) == BuilderAt(e.body, e.at, v)
TypeIn(e, v) == TypeOf(e.body, v)
ElementType(e, ptr) == TypeIn(e, ptr)[2]

\* Blocks are appended to the function.
Longer(list, n) == list \o [k \in 1 .. n |-> <<>>]
WithBlocks(F, n) ==
    [ret |-> F.ret, params |-> F.params, code |-> Longer(F.code, n),
     succ |-> Longer(F.succ, n), pre |-> Longer(F.pre, n)]
BasicBlockCreate(F) == WithBlocks(F, 1)
NewBlocks(e, n) == BuilderAt(WithBlocks(e.body, n), e.at, e.val)

\* The constructor of Instruction appends it to its block.
Add(e, op, rel, ty, operands) ==
    LET inst == [op |-> op, rel |-> rel, ty |-> ty, args |-> operands]
    IN  BuilderAt([e.body EXCEPT !.code[e.at] = Append(@, inst)], e.at,
                  Instruction(e.at, Len(e.body.code[e.at]) + 1))

\* get_terminator() != nullptr.
Terminated(F, b) == F.code[b] # <<>> /\ F.code[b][Len(F.code[b])].op \in {"ret", "br"}

create_binary(e, op, l, r) == Add(e, op, "", IF op \in FloatOps THEN FloatType ELSE Int32Type, <<l, r>>)
create_icmp(e, rel, l, r) == Add(e, "cmp", rel, Int1Type, <<l, r>>)
create_fcmp(e, rel, l, r) == Add(e, "fcmp", rel, Int1Type, <<l, r>>)
create_zext(e, v, ty) == Add(e, "zext", "", ty, <<v>>)
create_sitofp(e, v, ty) == Add(e, "sitofp", "", ty, <<v>>)
create_fptosi(e, v, ty) == Add(e, "fptosi", "", ty, <<v>>)

create_alloca(e, ty) == Add(e, "alloca", "", PointerType(ty), <<>>)
create_load(e, ptr) == Add(e, "load", "", ElementType(e, ptr), <<ptr>>)
create_store(e, v, ptr) == Add(e, "store", "", VoidType, <<v, ptr>>)

\* get_element_type: the first index steps over the pointer, the others go into
\* the arrays (of which there is one level).
GepElement(ty, idxs) == IF ty[1] = "array" /\ Len(idxs) > 1 THEN ty[2] ELSE ty
create_gep(e, ptr, idxs) ==
    Add(e, "gep", "", PointerType(GepElement(ElementType(e, ptr), idxs)), <<ptr>> \o idxs)

create_call(e, f, ret, operands) == Add(e, "call", f, ret, operands)

create_ret(e, v) == Add(e, "ret", "", VoidType, <<v>>)
create_void_ret(e) == Add(e, "ret", "", VoidType, <<>>)

\* The edge goes into both lists before the branch is made.
Edge(F, b, t) == [F EXCEPT !.succ[b] = Append(@, t), !.pre[t] = Append(@, b)]
WithEdge(e, b) == BuilderAt(Edge(e.body, e.at, b), e.at, e.val)
create_br(e, b) == Add(WithEdge(e, b), "br", "", VoidType, <<b>>)
create_cond_br(e, cond, if_true, if_false) ==
    Add(WithEdge(WithEdge(e, if_false), if_true), "br", "", VoidType, <<cond, if_true, if_false>>)
=============================================================================
