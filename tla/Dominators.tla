----------------------------- MODULE Dominators -----------------------------
(***************************************************************************)
(* Dominators::run on one function (optimization/Dominators.cpp): a depth  *)
(* first search numbers the blocks in post order; immediate dominators are *)
(* then iterated over the reverse of that order until nothing changes,     *)
(* meeting the predecessors in the tree built so far; dominance frontiers  *)
(* and the children in the tree follow.  Each loop iteration is a step, so *)
(* that an assertion that fails, a walk that leaves the tree or a loop     *)
(* that does not end is a behaviour of the model.                          *)
(***************************************************************************)
EXTENDS CFG

CONSTANT Null               \* nullptr

ASSUME DominatorsAssumption == Null \notin Block

VARIABLES
    succ,           \* the function's control-flow graph
    pc,             \* which loop of run is executing
    stack,          \* frames of post_order_visit: block and next successor
    visited,
    reverse_post_order,     \* the list, as it grows in post order
    post_order_id,  \* 0 for blocks the search never leaves
    idom,           \* idom_, for nullptr too: get_idom(nullptr) inserts nullptr
    dom_frontier,
    dom_tree_succ_blocks,
    changed,
    pos,            \* position in reverse_post_order, counting down to 1
    preds,          \* predecessors the current loop has not reached yet
    new_idom,
    b1, b2          \* the two walks of intersect

cfgVars == <<succ>>
dfsVars == <<stack, visited, reverse_post_order, post_order_id>>
loopVars == <<changed, pos, preds, new_idom, b1, b2>>
vars == <<succ, pc, dfsVars, idom, dom_frontier, dom_tree_succ_blocks, loopVars>>

Maybe == Block \cup {Null}

TypeOK ==
    /\ succ \in [Block -> Seq(Block)]
    /\ pc \in {"dfs", "round", "pick", "meet", "intersect", "frontier", "runner",
               "tree", "done"}
    /\ stack \in Seq(Block \X Nat)
    /\ visited \subseteq Block
    /\ reverse_post_order \in Seq(Block)
    /\ post_order_id \in [Block -> Nat]
    /\ idom \in [Maybe -> Maybe]
    /\ dom_frontier \in [Maybe -> SUBSET Block]
    /\ dom_tree_succ_blocks \in [Maybe -> SUBSET Block]
    /\ changed \in BOOLEAN
    /\ pos \in Nat
    /\ preds \subseteq Block \X Block
    /\ new_idom \in Maybe /\ b1 \in Maybe /\ b2 \in Maybe

Init ==
    /\ WellFormedCFG(succ)
    /\ pc = "dfs"
    /\ stack = << <<Entry, 1>> >> /\ visited = {Entry}
    /\ reverse_post_order = <<>>
    /\ post_order_id = [b \in Block |-> 0]
    /\ idom = [b \in Maybe |-> Null]
    /\ dom_frontier = [b \in Maybe |-> {}]
    /\ dom_tree_succ_blocks = [b \in Maybe |-> {}]
    /\ changed = TRUE /\ pos = 0 /\ preds = {}
    /\ new_idom = Null /\ b1 = Null /\ b2 = Null

-----------------------------------------------------------------------------
(* create_reverse_post_order                                               *)

Top == stack[Len(stack)]
Below == SubSeq(stack, 1, Len(stack) - 1)

\* post_order_visit looks at the next successor and descends if it is new.
VisitSuccessor ==
    /\ pc = "dfs"
    /\ stack # <<>>
    /\ LET b == Top[1]
           k == Top[2]
       IN  /\ k <= Len(succ[b])
           /\ LET s == succ[b][k]
                  here == Append(Below, <<b, k + 1>>)
              IN  IF s \in visited
                  THEN /\ stack' = here
                       /\ UNCHANGED visited
                  ELSE /\ stack' = Append(here, <<s, 1>>)
                       /\ visited' = visited \cup {s}
    /\ UNCHANGED <<succ, pc, reverse_post_order, post_order_id, idom, dom_frontier,
                   dom_tree_succ_blocks, loopVars>>

\* Mutant: numbers start one too low.
MutLeave ==
    /\ pc = "dfs"
    /\ stack # <<>>
    /\ LET b == Top[1]
       IN  /\ Top[2] > Len(succ[b])
           /\ post_order_id' = [post_order_id EXCEPT ![b] = Len(reverse_post_order) - 1]
           /\ reverse_post_order' = Append(reverse_post_order, b)
           /\ stack' = Below
    /\ UNCHANGED <<succ, pc, visited, idom, dom_frontier, dom_tree_succ_blocks,
                   loopVars>>

\* All successors seen: the block is numbered and the call returns.
Leave ==
    /\ pc = "dfs"
    /\ stack # <<>>
    /\ LET b == Top[1]
       IN  /\ Top[2] > Len(succ[b])
           /\ post_order_id' = [post_order_id EXCEPT ![b] = Len(reverse_post_order)]
           /\ reverse_post_order' = Append(reverse_post_order, b)
           /\ stack' = Below
    /\ UNCHANGED <<succ, pc, visited, idom, dom_frontier, dom_tree_succ_blocks,
                   loopVars>>

-----------------------------------------------------------------------------
(* create_idom                                                             *)

\* The search has returned: every idom is null but the root's own.
StartIdom ==
    /\ pc = "dfs"
    /\ stack = <<>>
    /\ idom' = [b \in Maybe |-> IF b = Entry THEN Entry ELSE Null]
    /\ changed' = TRUE
    /\ pc' = "round"
    /\ UNCHANGED <<succ, dfsVars, dom_frontier, dom_tree_succ_blocks, pos, preds,
                   new_idom, b1, b2>>

\* while (changed)
StartRound ==
    /\ pc = "round"
    /\ changed
    /\ changed' = FALSE
    /\ pos' = Len(reverse_post_order)
    /\ pc' = "pick"
    /\ UNCHANGED <<succ, dfsVars, idom, dom_frontier, dom_tree_succ_blocks, preds,
                   new_idom, b1, b2>>

Current == reverse_post_order[pos]

\* if (bb == root) continue
SkipRoot ==
    /\ pc = "pick"
    /\ pos > 0
    /\ Current = Entry
    /\ pos' = pos - 1
    /\ UNCHANGED <<succ, pc, dfsVars, idom, dom_frontier, dom_tree_succ_blocks,
                   changed, preds, new_idom, b1, b2>>

\* Mutant: the first predecessor, with an idom or without.
MutPickPred(p) ==
    /\ pc = "pick"
    /\ pos > 0
    /\ Current # Entry
    /\ p \in Pre(succ, Current)
    /\ new_idom' = p
    /\ preds' = {<<q, Current>> : q \in Pre(succ, Current) \ {p}}
    /\ pc' = "meet"
    /\ UNCHANGED <<succ, dfsVars, idom, dom_frontier, dom_tree_succ_blocks, changed,
                   pos, b1, b2>>

\* A predecessor that has an idom, the first of pre_bbs_, whose order depends
\* on when the branches were made.  assert(pred) fails if there is none.
PickPred(p) ==
    /\ pc = "pick"
    /\ pos > 0
    /\ Current # Entry
    /\ p \in Pre(succ, Current)
    /\ idom[p] # Null
    /\ new_idom' = p
    /\ preds' = {<<q, Current>> : q \in Pre(succ, Current) \ {p}}
    /\ pc' = "meet"
    /\ UNCHANGED <<succ, dfsVars, idom, dom_frontier, dom_tree_succ_blocks, changed,
                   pos, b1, b2>>

\* Mutant: it replaces the new idom, there is no meeting of the two.
MutMeetPred(p) ==
    /\ pc = "meet"
    /\ <<p, Current>> \in preds
    /\ preds' = preds \ {<<p, Current>>}
    /\ IF idom[p] # Null THEN new_idom' = p ELSE UNCHANGED new_idom
    /\ UNCHANGED <<succ, pc, dfsVars, idom, dom_frontier, dom_tree_succ_blocks, changed,
                   pos, b1, b2>>

\* Another predecessor: one without an idom is passed over.
MeetPred(p) ==
    /\ pc = "meet"
    /\ <<p, Current>> \in preds
    /\ preds' = preds \ {<<p, Current>>}
    /\ IF idom[p] # Null
       THEN b1' = p /\ b2' = new_idom /\ pc' = "intersect"
       ELSE UNCHANGED <<b1, b2, pc>>
    /\ UNCHANGED <<succ, dfsVars, idom, dom_frontier, dom_tree_succ_blocks, changed,
                   pos, new_idom>>

\* Mutant: the walk with the larger number goes up.
MutWalkUp ==
    /\ pc = "intersect"
    /\ b1 # b2
    /\ \/ /\ post_order_id[b1] > post_order_id[b2]
          /\ b1' = idom[b1]
          /\ UNCHANGED b2
       \/ /\ post_order_id[b2] > post_order_id[b1]
          /\ b2' = idom[b2]
          /\ UNCHANGED b1
    /\ UNCHANGED <<succ, pc, dfsVars, idom, dom_frontier, dom_tree_succ_blocks,
                   changed, pos, preds, new_idom>>

\* intersect: the walk with the smaller number goes up to its idom, which is
\* asserted not to be null.
WalkUp ==
    /\ pc = "intersect"
    /\ b1 # b2
    /\ \/ /\ post_order_id[b1] < post_order_id[b2]
          /\ idom[b1] # Null
          /\ b1' = idom[b1]
          /\ UNCHANGED b2
       \/ /\ post_order_id[b2] < post_order_id[b1]
          /\ idom[b2] # Null
          /\ b2' = idom[b2]
          /\ UNCHANGED b1
    /\ UNCHANGED <<succ, pc, dfsVars, idom, dom_frontier, dom_tree_succ_blocks,
                   changed, pos, preds, new_idom>>

\* Mutant: the idom of the block where the walks met.
MutMet ==
    /\ pc = "intersect"
    /\ b1 = b2
    /\ new_idom' = idom[b1]
    /\ pc' = "meet"
    /\ UNCHANGED <<succ, dfsVars, idom, dom_frontier, dom_tree_succ_blocks, changed,
                   pos, preds, b1, b2>>

\* The walks met.
Met ==
    /\ pc = "intersect"
    /\ b1 = b2
    /\ new_idom' = b1
    /\ pc' = "meet"
    /\ UNCHANGED <<succ, dfsVars, idom, dom_frontier, dom_tree_succ_blocks, changed,
                   pos, preds, b1, b2>>

\* Mutant: the new idom is kept only where there was none before.
MutSetIdomOnce ==
    /\ pc = "meet"
    /\ preds = {}
    /\ IF idom[Current] = Null
       THEN idom' = [idom EXCEPT ![Current] = new_idom] /\ changed' = TRUE
       ELSE UNCHANGED <<idom, changed>>
    /\ pos' = pos - 1
    /\ pc' = "pick"
    /\ UNCHANGED <<succ, dfsVars, dom_frontier, dom_tree_succ_blocks, preds,
                   new_idom, b1, b2>>

\* All predecessors met: the idom is stored if it is not the old one.
SetIdom ==
    /\ pc = "meet"
    /\ preds = {}
    /\ IF idom[Current] # new_idom
       THEN idom' = [idom EXCEPT ![Current] = new_idom] /\ changed' = TRUE
       ELSE UNCHANGED <<idom, changed>>
    /\ pos' = pos - 1
    /\ pc' = "pick"
    /\ UNCHANGED <<succ, dfsVars, dom_frontier, dom_tree_succ_blocks, preds,
                   new_idom, b1, b2>>

EndRound ==
    /\ pc = "pick"
    /\ pos = 0
    /\ pc' = "round"
    /\ UNCHANGED <<succ, dfsVars, idom, dom_frontier, dom_tree_succ_blocks, loopVars>>

-----------------------------------------------------------------------------
(* create_dominance_frontier                                               *)

\* Nothing changed: for every block with two predecessors or more, each of them
\* starts a walk.  (A branch whose two targets are one block lists its block
\* twice; that block's idom is the single predecessor and the walks are empty.)
StartFrontier ==
    /\ pc = "round"
    /\ ~ changed
    /\ preds' = {e \in Block \X Block :
                    e[1] \in Pre(succ, e[2]) /\ Cardinality(Pre(succ, e[2])) >= 2}
    /\ pc' = "frontier"
    /\ UNCHANGED <<succ, dfsVars, idom, dom_frontier, dom_tree_succ_blocks, changed,
                   pos, new_idom, b1, b2>>

\* The next predecessor p of a join bb, in the order of the lists: runner = p.
StartRunner ==
    /\ pc = "frontier"
    /\ preds # {}
    /\ LET e == CHOOSE e \in preds : TRUE
       IN  b1' = e[1] /\ b2' = e[2] /\ preds' = preds \ {e}
    /\ pc' = "runner"
    /\ UNCHANGED <<succ, dfsVars, idom, dom_frontier, dom_tree_succ_blocks, changed,
                   pos, new_idom>>

\* Mutant: the block that immediately dominates the join gets it as well.
MutRunnerStop == b1 = idom[idom[b2]]

\* The walk from p, in b1, ends at the idom of the join, in b2.
RunnerStop == b1 = idom[b2]

RunnerStep ==
    /\ pc = "runner"
    /\ IF RunnerStop
       THEN pc' = "frontier" /\ UNCHANGED <<dom_frontier, b1>>
       ELSE /\ dom_frontier' = [dom_frontier EXCEPT ![b1] = @ \cup {b2}]
            /\ b1' = idom[b1]
            /\ UNCHANGED pc
    /\ UNCHANGED <<succ, dfsVars, idom, dom_tree_succ_blocks, changed, pos, preds,
                   new_idom, b2>>

StartTree ==
    /\ pc = "frontier"
    /\ preds = {}
    /\ pc' = "tree"
    /\ UNCHANGED <<succ, dfsVars, idom, dom_frontier, dom_tree_succ_blocks, loopVars>>

\* create_dom_tree_succ: blocks without an idom become children of nullptr.
create_dom_tree_succ ==
    /\ pc = "tree"
    /\ dom_tree_succ_blocks' =
           [a \in Maybe |-> {b \in Block : idom[b] = a /\ idom[b] # b}]
    /\ pc' = "done"
    /\ UNCHANGED <<succ, dfsVars, idom, dom_frontier, loopVars>>

Step ==
    \/ VisitSuccessor \/ Leave
    \/ StartIdom \/ StartRound \/ SkipRoot
    \/ (\E p \in Block : PickPred(p)) \/ (\E p \in Block : MeetPred(p))
    \/ WalkUp \/ Met \/ SetIdom \/ EndRound
    \/ StartFrontier \/ StartRunner \/ RunnerStep \/ StartTree
    \/ create_dom_tree_succ

\* run has returned.
Finished == pc = "done" /\ UNCHANGED vars

Next == Step \/ Finished

\* One thread: the pass goes on as long as it can.
Spec == Init /\ [][Next]_vars /\ WF_vars(Step)

-----------------------------------------------------------------------------
\* "The root has highest ID" (Dominators.h): every idom has a higher number
\* than its block, so the tree under construction has no cycle and the two
\* walks of intersect meet.
IdomHigher ==
    \A b \in Block \ {Entry} :
        idom[b] # Null => /\ idom[b] \in Block
                          /\ post_order_id[idom[b]] > post_order_id[b]

\* The assertions of create_idom and intersect hold: a block reached has a
\* predecessor with an idom when its turn comes, no walk leaves the tree, and the
\* tree grows towards higher numbers.
AssertionsHold ==
    /\ IdomHigher
    /\ pc = "pick" /\ pos > 0 /\ Current # Entry =>
          \E p \in Pre(succ, Current) : idom[p] # Null
    /\ pc = "intersect" /\ b1 # b2 =>
          IF post_order_id[b1] < post_order_id[b2]
          THEN idom[b1] # Null
          ELSE post_order_id[b2] < post_order_id[b1] /\ idom[b2] # Null

\* The blocks on the way from b to the root of the tree under construction.
Ancestors(b) ==
    LET Up(A) == A \cup {idom[a] : a \in A}
        up[n \in Nat] == IF n = 0 THEN {b} ELSE Up(up[n - 1])
    IN  up[Cardinality(Block)]

\* The iteration starts out optimistic and gives dominators up, never the other
\* way: at every moment a block that has an idom has all its true dominators
\* among its ancestors.
NoDominatorLost ==
    pc = "pick" =>
        \A b \in Block : idom[b] # Null => Dom(succ, b) \subseteq Ancestors(b)

\* An idom that has been set is never unset and only moves up the order, which
\* bounds the number of rounds.
IdomOnlyRises ==
    [][\A b \in Block :
          idom[b] # Null /\ idom'[b] # idom[b] =>
              idom'[b] # Null /\ post_order_id[idom'[b]] > post_order_id[idom[b]]]_vars

\* When run returns, idom_ is immediate dominance by its definition for every
\* block that can be reached, and nullptr for the others.
IdomExact ==
    pc \in {"frontier", "done"} =>
        \A b \in Block \ {Entry} :
            idom[b] = IF b \in Reachable(succ) THEN IDom(succ, b) ELSE Null

\* dom_frontier_ is the dominance frontier by its definition, and the children
\* of a block are those it immediately dominates; mem2reg walks both.
FrontierAndTreeExact ==
    pc = "done" =>
        \A a \in Reachable(succ) :
            /\ dom_frontier[a] = Frontier(succ, a)
            /\ dom_tree_succ_blocks[a] =
                  {b \in Reachable(succ) \ {Entry} : IDom(succ, b) = a}

\* run returns.
Terminates == <>(pc = "done")
=============================================================================
