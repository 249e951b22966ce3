----------------------------- MODULE MCMem2Reg -----------------------------
(***************************************************************************)
(* Mem2Reg on the control-flow graphs cminusf_builder.cpp emits for a      *)
(* selection with an else, an iteration, an iteration around a selection   *)
(* without an else, and a selection whose branches both return.  Two or    *)
(* three of the blocks besides the entry hold accesses to two variables.   *)
(***************************************************************************)
EXTENDS Mem2Reg, TLC

MCBlock == 0 .. 5
MCVar == {"x", "y"}

Load(x) == [op |-> "load", var |-> x, src |-> 0]
Store(x) == [op |-> "store", var |-> x, src |-> 0]
StoreLoaded(x, k) == [op |-> "store", var |-> x, src |-> k]

\* create_cond_br lists the block for false first.  Blocks beyond the last one of a graph are unreachable and empty.
Graph(edges) == [b \in MCBlock |-> IF b \in DOMAIN edges THEN edges[b] ELSE <<>>]

\* if (c) s1 else s2; s3
IfElse == Graph(0 :> <<2, 1>> @@ 1 :> <<3>> @@ 2 :> <<3>>)
\* while (c) s; s3
While == Graph(0 :> <<1>> @@ 1 :> <<3, 2>> @@ 2 :> <<1>>)
\* while (c) if (d) s; s5
WhileIf == Graph(0 :> <<1>> @@ 1 :> <<5, 2>> @@ 2 :> <<4, 3>> @@ 3 :> <<4>> @@ 4 :> <<1>>)
\* if (c) return s1; else return s2; s3
BothReturn == Graph(0 :> <<2, 1>>)

Blocks(g) ==
    CASE g \in {IfElse, While, BothReturn} -> {1, 2, 3}
      [] g = WhileIf -> {1, 3, 5}

\* int x; int y;  x = f(); y = f();  x = f();
EntryCode == {<<>>, <<Store("x"), Store("y")>>, <<Store("x")>>}

\* g(x); x = f(); x = g(x); x = y; y = x;
BlockCode == {<<>>, <<Load("x")>>, <<Store("x")>>, <<Load("x"), Store("x")>>,
              <<Load("y"), StoreLoaded("x", 1)>>, <<Load("x"), StoreLoaded("y", 1)>>}

MCFunction(graphs) ==
    /\ succ \in graphs
    /\ \E entry \in EntryCode, c1, c2, c3 \in BlockCode :
           code = [b \in MCBlock |->
                      CASE b = 0 -> entry
                        [] b = 1 /\ 1 \in Blocks(succ) -> c1
                        [] b = 2 /\ 2 \in Blocks(succ) -> c2
                        [] b = 3 -> c3
                        [] b = 5 /\ 5 \in Blocks(succ) -> c2
                        [] OTHER -> <<>>]

MCInit == MCFunction({IfElse, While, WhileIf, BothReturn}) /\ Init
MCSpec == MCInit /\ [][Next]_vars /\ WF_vars(Step)

\* { int x; if (c) x = f(); else h(); }: x has no value where the paths join.
MCInitOneBranch ==
    /\ succ = IfElse
    /\ code = [b \in MCBlock |-> IF b = 1 THEN <<Store("x")>> ELSE <<>>]
    /\ Init

MCSpecOneBranch == MCInitOneBranch /\ [][Next]_vars /\ WF_vars(Step)

\* { int x; x = f(); if (c) return s1; else return s2; g(x); }
MCInitBothReturn ==
    /\ succ = BothReturn
    /\ code = [b \in MCBlock |-> CASE b = 0 -> <<Store("x")>>
                                   [] b = 3 -> <<Load("x")>>
                                   [] OTHER -> <<>>]
    /\ Init

MCSpecBothReturn == MCInitBothReturn /\ [][Next]_vars /\ WF_vars(Step)
=============================================================================
