------------------------------- MODULE MCGvn -------------------------------
(***************************************************************************)
(* Gvn on functions the builder and Mem2Reg make of straight code, of an   *)
(* if-else and of a while, with the lists of blocks and predecessors in    *)
(* the order the builder leaves them.                                      *)
(***************************************************************************)
EXTENDS Gvn

MCBlock == 0 .. 6
MCPure == {"pure"}

I(n) == ConstantInt(n)
A == <<"arg", 1>>
G == <<"global", 1>>
V(b, k) == Instruction(b, k)
Inst(op, rel, operands) == [op |-> op, rel |-> rel, args |-> operands, from |-> <<>>]
Op(op, x, y) == Inst(op, "", <<x, y>>)
Call(f, x) == Inst("call", f, <<x>>)
Phi(x, b, y, c) == [op |-> "phi", rel |-> "", args |-> <<x, y>>, from |-> <<b, c>>]
Br == Inst("br", "", <<>>)
CondBr(x) == Inst("br", "", <<x>>)
Ret(x) == Inst("ret", "", <<x>>)

\* The graph: edges and predecessors where there are any, the list of blocks.
Graph(edges, pres, list) ==
    /\ succ = [b \in MCBlock |-> IF b \in DOMAIN edges THEN edges[b] ELSE <<>>]
    /\ pre_bbs_ = [b \in MCBlock |-> IF b \in DOMAIN pres THEN pres[b] ELSE <<>>]
    /\ blocks = list
Code(lists) ==
    insts = [b \in MCBlock |-> IF b \in DOMAIN lists THEN lists[b] ELSE <<>>]

\* What an expression of the language becomes at place k of block b; its value
\* is that of the last instruction.
Compiled(b, k, x, y) ==
    {<<Op("add", x, y)>>, <<Op("mul", y, x)>>, <<Call("pure", x)>>, <<Call("effect", x)>>,
     <<Inst("cmp", "gt", <<x, y>>), Inst("zext", "", <<V(b, k)>>)>>,
     <<Inst("sitofp", "", <<x>>), Op("fmul", V(b, k), V(b, k)), Inst("fptosi", "", <<V(b, k + 1)>>)>>,
     <<Inst("sitofp", "", <<x>>), Inst("fcmp", "ne", <<V(b, k), ConstantFP(0)>>),
       Inst("zext", "", <<V(b, k + 1)>>)>>,
     <<Inst("gep", "int", <<G, x>>), Inst("load", "", <<V(b, k)>>)>>}

Straight ==
    /\ Graph(<<>>, <<>>, <<0>>)
    /\ \E x \in {A, I(2)} : \E u1 \in Compiled(0, 1, x, I(3)) :
       LET n1 == Len(u1)
       IN  \E u2 \in {Op("mul", V(0, n1), x), Call("pure", V(0, n1))},
              u3 \in Compiled(0, n1 + 2, x, I(3)) :
           Code(0 :> u1 \o <<u2>> \o u3
                  \o <<Inst("store", "", <<V(0, n1 + 1), G>>), Ret(V(0, n1 + 1 + Len(u3)))>>)

\* Two arms of different operators, a join of one or two phis.
IfElse ==
    /\ Graph(0 :> <<2, 1>> @@ 1 :> <<3>> @@ 2 :> <<3>>,
             1 :> <<0>> @@ 2 :> <<0>> @@ 3 :> <<1, 2>>, <<0, 1, 3, 2>>)
    /\ \E x \in {A, I(1)}, e2 \in {Op("sub", A, I(1)), Op("sub", I(3), I(1))},
          p2 \in {V(2, 1), I(2), V(0, 1)}, p3 \in {V(2, 3), V(2, 1)},
          j \in Compiled(3, 4, V(3, 1), V(3, 2)) :
       Code(0 :> <<Op("add", A, I(1)), CondBr(V(0, 1))>>
         @@ 1 :> <<Op("add", x, I(1)), Call("pure", A), Op("add", V(1, 1), V(1, 2)), Br>>
         @@ 2 :> <<e2, Op("mul", V(0, 1), I(2)), Op("add", p2, V(2, 2)), Br>>
         @@ 3 :> <<Phi(V(1, 1), 1, p2, 2), Phi(V(1, 2), 1, V(2, 2), 2), Phi(V(1, 3), 1, p3, 2)>>
                 \o j \o <<Op("sub", V(3, 3), V(3, 3 + Len(j))), Ret(V(3, 4 + Len(j)))>>)

\* A loop of three variables, each made anew in the body.
While ==
    /\ Graph(0 :> <<1>> @@ 1 :> <<3, 2>> @@ 2 :> <<1>>,
             1 :> <<0, 2>> @@ 2 :> <<1>> @@ 3 :> <<1>>, <<0, 1, 2, 3>>)
    /\ \E x0 \in {I(0), A}, y0 \in {I(0), A, V(0, 1)},
          i2 \in {Op("add", V(1, 1), I(1)), Op("add", A, I(1))},
          s2 \in {Op("add", V(1, 2), I(1)), Op("add", V(1, 2), V(1, 1)), Op("add", A, I(1)),
                  Op("add", V(2, 1), I(1)), Call("pure", V(1, 2)), Call("effect", V(1, 2))},
          r \in {Op("sub", V(1, 1), V(1, 2)), Op("add", A, I(1))} :
       Code(0 :> <<Op("add", A, I(1)), Br>>
         @@ 1 :> <<Phi(x0, 0, V(2, 1), 2), Phi(y0, 0, V(2, 2), 2), Phi(I(0), 0, V(2, 3), 2),
                   Inst("cmp", "lt", <<V(1, 1), A>>), CondBr(V(1, 4))>>
         @@ 2 :> <<i2, s2, Op("add", V(1, 3), V(1, 2)), Br>>
         @@ 3 :> <<r, Op("sub", V(1, 2), V(1, 3)), Ret(V(3, 1))>>)

MCInit == params = <<G, A>> /\ (Straight \/ IfElse \/ While) /\ Init
MCSpec == MCInit /\ [][Next]_vars /\ WF_vars(Step)

-----------------------------------------------------------------------------
\* if (p) x = 1; else x = 2; if (q) y = 1; else y = 2; and both plus e.
TwoJoins ==
    /\ Graph(0 :> <<2, 1>> @@ 1 :> <<3>> @@ 2 :> <<3>> @@ 3 :> <<5, 4>> @@ 4 :> <<6>> @@ 5 :> <<6>>,
             1 :> <<0>> @@ 2 :> <<0>> @@ 3 :> <<1, 2>> @@ 4 :> <<3>> @@ 5 :> <<3>> @@ 6 :> <<4, 5>>,
             <<0, 1, 3, 2, 4, 6, 5>>)
    /\ \E c \in {I(2), I(3)} :
       Code(0 :> <<Inst("cmp", "ne", <<A, I(0)>>), CondBr(V(0, 1))>>
         @@ 1 :> <<Br>> @@ 2 :> <<Br>> @@ 4 :> <<Br>> @@ 5 :> <<Br>>
         @@ 3 :> <<Phi(I(1), 1, I(2), 2), Inst("cmp", "gt", <<A, I(1)>>), CondBr(V(3, 2))>>
         @@ 6 :> <<Phi(I(1), 4, c, 5), Op("add", V(3, 1), A), Op("add", V(6, 1), A),
                   Op("mul", V(6, 2), V(6, 3)), Ret(V(6, 4))>>)

JoinsInit == params = <<G, A>> /\ TwoJoins /\ Init
JoinsSpec == JoinsInit /\ [][Next]_vars /\ WF_vars(Step)

\* last = 0; i = 0; while (i < a) { last = i; i = i + 1; } return i - last;
\* with the phis of i and last in either order.
Lagging ==
    /\ Graph(0 :> <<1>> @@ 1 :> <<3, 2>> @@ 2 :> <<1>>,
             1 :> <<0, 2>> @@ 2 :> <<1>> @@ 3 :> <<1>>, <<0, 1, 2, 3>>)
    /\ \E k \in {1, 2} :
       LET i == Phi(I(0), 0, V(2, 1), 2)
           last == Phi(I(0), 0, V(1, k), 2)
       IN  Code(0 :> <<Br>>
             @@ 1 :> (IF k = 1 THEN <<i, last>> ELSE <<last, i>>)
                     \o <<Inst("cmp", "lt", <<V(1, k), A>>), CondBr(V(1, 3))>>
             @@ 2 :> <<Op("add", V(1, k), I(1)), Br>>
             @@ 3 :> <<Op("sub", V(1, k), V(1, 3 - k)), Ret(V(3, 1))>>)

LaggingInit == params = <<G, A>> /\ Lagging /\ Init
LaggingSpec == LaggingInit /\ [][Next]_vars /\ WF_vars(Step)
=============================================================================
