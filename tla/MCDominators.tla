---------------------------- MODULE MCDominators ----------------------------
(***************************************************************************)
(* Dominators on every control-flow graph of four blocks, in every order   *)
(* of the successor lists, up to renaming: the blocks the entry jumps to   *)
(* are called 1 and 2 in that order.  Irreducible loops, which make the    *)
(* iteration take more than one round that changes something, and          *)
(* unreachable blocks are among them.                                      *)
(***************************************************************************)
EXTENDS Dominators

MCBlock == 0 .. 3

\* The targets of a return, a jump and a branch.
Targets == {<<>>} \cup {<<s>> : s \in MCBlock \ {Entry}}
                  \cup {t \in (MCBlock \ {Entry}) \X (MCBlock \ {Entry}) : t[1] # t[2]}

MCGraph ==
    /\ succ \in [MCBlock -> Targets]
    /\ succ[Entry] \in {<<1>>, <<1, 2>>}

\* Graphs in which no unreachable block jumps to a reachable one.
MCInitTrimmed == MCGraph /\ Trimmed(succ) /\ Init
MCSpecTrimmed == MCInitTrimmed /\ [][Next]_vars /\ WF_vars(Step)

\* The graph cminusf_builder.cpp emits for
\*     while (c) { if (x) return 1; else return 2; }
\* 0 is the entry, 1 the condition, 2 the loop body, 3 and 4 the two branches,
\* 5 the block after the selection, where the body goes on and jumps back from,
\* and 6 the block after the loop.  create_cond_br lists the block for false first.
BuilderBlock == 0 .. 6
MCInitReturningBody ==
    /\ succ = [b \in BuilderBlock |->
                  CASE b = 0 -> <<1>>
                    [] b = 1 -> <<6, 2>>
                    [] b = 2 -> <<4, 3>>
                    [] b = 5 -> <<1>>
                    [] OTHER -> <<>>]
    /\ Init

MCSpecReturningBody == MCInitReturningBody /\ [][Next]_vars /\ WF_vars(Step)
=============================================================================
