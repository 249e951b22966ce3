-------------------------------- MODULE CFG --------------------------------
(***************************************************************************)
(* Control-flow graphs of LightIR functions and the dominance relation by  *)
(* its definition (Documentations/4.1-ssa/README.md: b dominates c if and  *)
(* only if b lies on every path from the entry to c).  The passes compute  *)
(* dominance some other way; this is what their results are held against.  *)
(***************************************************************************)
EXTENDS FiniteSets, Integers, Sequences

CONSTANTS
    Block,      \* the basic blocks of a function
    Entry       \* get_entry_block()

ASSUME CFGAssumption == IsFiniteSet(Block) /\ Entry \in Block

\* The blocks that succ_bbs_ and pre_bbs_ of b name, the lists succ being what
\* the branch constructors left there.
Succ(succ, b) == {succ[b][k] : k \in DOMAIN succ[b]}
Pre(succ, b) == {p \in Block : b \in Succ(succ, p)}

\* The blocks some path from the entry reaches without passing through Avoid.
ReachableAvoiding(succ, Avoid) ==
    LET Further(B) == B \cup ((UNION {Succ(succ, p) : p \in B}) \ Avoid)
        within[n \in Nat] == IF n = 0 THEN {Entry} \ Avoid ELSE Further(within[n - 1])
    IN  within[Cardinality(Block)]

Reachable(succ) == ReachableAvoiding(succ, {})

\* The blocks on every path from the entry to b.
Dom(succ, b) == {d \in Block : b \notin ReachableAvoiding(succ, {d})}

\* The strict dominator of b that all the others dominate.
IDom(succ, b) ==
    LET strict == Dom(succ, b) \ {b}
    IN  CHOOSE d \in strict : strict = Dom(succ, d)

\* Where the dominance of a ends: a dominates a predecessor, but not the block.
Frontier(succ, a) ==
    {b \in Reachable(succ) :
        /\ \E p \in Pre(succ, b) \cap Reachable(succ) : a \in Dom(succ, p)
        /\ ~ (a # b /\ a \in Dom(succ, b))}

\* Branches of the entry's kind only: nothing jumps back to the entry block,
\* and a block ends in a return, a jump or a two-way branch.
WellFormedCFG(succ) ==
    /\ succ \in [Block -> Seq(Block \ {Entry})]
    /\ \A b \in Block : Len(succ[b]) <= 2

\* No unreachable block jumps into the reachable part of the function.
Trimmed(succ) ==
    \A b \in Reachable(succ) : Pre(succ, b) \subseteq Reachable(succ)
=============================================================================
