-------------------------- MODULE DominatorsProofs --------------------------
(***************************************************************************)
(* Dominators::run computes dominance: for every control-flow graph, every *)
(* order of the successor lists and every order of the predecessor sets.   *)
(* Nothing is assumed of the graph but WellFormedCFG; where run does not   *)
(* return, what is stated about its end holds vacuously.                   *)
(***************************************************************************)
EXTENDS Dominators, CFGProofs

-----------------------------------------------------------------------------
(* Types                                                                   *)

\* An activation of post_order_visit.
Frame == Block \X (Nat \ {0})

\* TypeOK but for changed, and what it needs to be inductive.
TypeInv ==
    /\ succ \in [Block -> Seq(Block)] /\ WellFormedCFG(succ)
    /\ pc \in {"dfs", "round", "pick", "meet", "intersect", "frontier", "runner",
               "tree", "done"}
    /\ stack \in Seq(Frame) /\ visited \subseteq Block
    /\ reverse_post_order \in Seq(Block) /\ post_order_id \in [Block -> Nat]
    /\ idom \in [Maybe -> Maybe]
    /\ dom_frontier \in [Maybe -> SUBSET Block]
    /\ dom_tree_succ_blocks \in [Maybe -> SUBSET Block]
    /\ pos \in Nat /\ preds \subseteq Block \X Block
    /\ new_idom \in Maybe /\ b1 \in Maybe /\ b2 \in Maybe
    /\ pos <= Len(reverse_post_order)
    /\ pc \in {"meet", "intersect"} => pos > 0
    /\ pc = "runner" => b2 \in Block

LEMMA InitTypeInv == Init => TypeInv
BY CFGAssumption DEF Init, TypeInv, Frame, Maybe, WellFormedCFG

LEMMA ChangedType == changed \in BOOLEAN /\ [Next]_vars => changed' \in BOOLEAN
BY Zenon DEF Next, Step, Finished, VisitSuccessor, Leave, StartIdom, StartRound, SkipRoot,
   PickPred, MeetPred, WalkUp, Met, SetIdom, EndRound, StartFrontier, StartRunner,
   RunnerStep, StartTree, create_dom_tree_succ, vars, loopVars

LEMMA CurrentType ==
    ASSUME TypeInv, pos > 0 PROVE Current \in Block
BY DEF TypeInv, Current

\* What the two actions of the search make of its stack.
LEMMA StackOps ==
    ASSUME TypeInv, stack # <<>>
    PROVE  /\ Len(stack) \in Nat \ {0}
           /\ Top \in Frame /\ Top = stack[Len(stack)]
           /\ Below \in Seq(Frame) /\ Len(Below) = Len(stack) - 1
           /\ \A i \in 1 .. Len(stack) - 1 : Below[i] = stack[i]
<1>1. stack \in Seq(Frame)
  BY DEF TypeInv
<1>2. /\ Len(stack) \in Nat \ {0} /\ stack[Len(stack)] \in Frame
      /\ Below \in Seq(Frame) /\ Len(Below) = Len(stack) - 1
      /\ \A i \in 1 .. Len(stack) - 1 : Below[i] = stack[i]
  BY <1>1, SeqDrop DEF Below
<1> QED
  BY <1>2 DEF Top

LEMMA StackStay ==
    ASSUME TypeInv, stack # <<>>, NEW f \in Frame
    PROVE  LET t == Append(Below, f)
           IN  /\ t \in Seq(Frame) /\ Len(t) = Len(stack)
               /\ \A i \in 1 .. Len(stack) : t[i] = IF i = Len(stack) THEN f ELSE stack[i]
<1>1. stack \in Seq(Frame) /\ f \in Frame
  BY DEF TypeInv
<1>2. LET t == Append(Below, f)
      IN  /\ t \in Seq(Frame) /\ Len(t) = Len(stack)
          /\ \A i \in 1 .. Len(stack) : t[i] = IF i = Len(stack) THEN f ELSE stack[i]
  BY <1>1, SeqReplace DEF Below
<1> QED
  BY <1>2

LEMMA StackPush ==
    ASSUME TypeInv, stack # <<>>, NEW f \in Frame, NEW h \in Frame
    PROVE  LET t == Append(Append(Below, f), h)
           IN  /\ t \in Seq(Frame) /\ Len(t) = Len(stack) + 1
               /\ \A i \in 1 .. Len(stack) + 1 :
                     t[i] = IF i = Len(stack) + 1 THEN h
                            ELSE IF i = Len(stack) THEN f ELSE stack[i]
<1>1. stack \in Seq(Frame) /\ f \in Frame /\ h \in Frame
  BY DEF TypeInv
<1>2. LET t == Append(Append(Below, f), h)
      IN  /\ t \in Seq(Frame) /\ Len(t) = Len(stack) + 1
          /\ \A i \in 1 .. Len(stack) + 1 :
                t[i] = IF i = Len(stack) + 1 THEN h
                       ELSE IF i = Len(stack) THEN f ELSE stack[i]
  BY <1>1, SeqReplacePush DEF Below
<1> QED
  BY <1>2

LEMMA NextTypeInv == TypeInv /\ [Next]_vars => TypeInv'
<1> SUFFICES ASSUME TypeInv, [Next]_vars PROVE TypeInv'
  OBVIOUS
<1>1. CASE VisitSuccessor
  <2> DEFINE b == Top[1]
             k == Top[2]
             s == succ[b][k]
             here == Append(Below, <<b, k + 1>>)
  <2>1. b \in Block /\ k \in Nat \ {0} /\ k <= Len(succ[b]) /\ stack # <<>>
    <3>1. stack # <<>> /\ k <= Len(succ[b])
      BY <1>1 DEF TypeInv, VisitSuccessor
    <3>2. Top \in Frame
      BY <3>1, StackOps
    <3> QED
      BY <3>1, <3>2 DEF Frame
  <2>2. CASE s \in visited
    <3>1. stack' = here /\ visited' = visited
      BY <1>1, <2>2 DEF TypeInv, VisitSuccessor
    <3>2. stack' \in Seq(Frame)
      <4>1. <<b, k + 1>> \in Frame
        BY <2>1 DEF Frame
      <4> QED
        BY <2>1, <3>1, <4>1, StackStay
    <3> QED
      BY <1>1, <3>1, <3>2 DEF TypeInv, VisitSuccessor, loopVars
  <2>3. CASE s \notin visited
    <3>1. stack' = Append(here, <<s, 1>>) /\ visited' = visited \cup {s}
      BY <1>1, <2>3 DEF TypeInv, VisitSuccessor
    <3>2. s \in Block
      <4>1. succ[b] \in Seq(Block)
        BY <2>1 DEF TypeInv
      <4> QED
        BY <2>1, <4>1
    <3>3. stack' \in Seq(Frame)
      <4>1. <<b, k + 1>> \in Frame /\ <<s, 1>> \in Frame
        BY <2>1, <3>2 DEF Frame
      <4> QED
        BY <2>1, <3>1, <4>1, StackPush
    <3> QED
      BY <1>1, <3>1, <3>2, <3>3 DEF TypeInv, VisitSuccessor, loopVars
  <2> QED
    BY <2>2, <2>3
<1>2. CASE Leave
  <2>1. stack # <<>>
    BY <1>2 DEF TypeInv, Leave
  <2>2. Top[1] \in Block /\ Below \in Seq(Frame)
    BY <2>1, StackOps DEF Frame
  <2>3. /\ reverse_post_order' \in Seq(Block)
        /\ Len(reverse_post_order') = Len(reverse_post_order) + 1
    <3>1. reverse_post_order' = Append(reverse_post_order, Top[1])
      BY <1>2 DEF Leave
    <3> QED
      BY <2>2, <3>1, SeqAdd DEF TypeInv
  <2>4. post_order_id' \in [Block -> Nat]
    <3>1. Len(reverse_post_order) \in Nat
      BY DEF TypeInv
    <3>2. post_order_id' = [post_order_id EXCEPT ![Top[1]] = Len(reverse_post_order)]
      BY <1>2 DEF Leave
    <3>3. post_order_id \in [Block -> Nat]
      BY DEF TypeInv
    <3> QED
      BY ONLY <2>2, <3>1, <3>2, <3>3
  <2> QED
    BY <1>2, <2>2, <2>3, <2>4 DEF TypeInv, Leave, loopVars
<1>3. CASE StartIdom
  BY <1>3, CFGAssumption DEF TypeInv, StartIdom, dfsVars, Maybe
<1>4. CASE StartRound
  BY <1>4 DEF TypeInv, StartRound, dfsVars
<1>5. CASE SkipRoot
  BY <1>5 DEF TypeInv, SkipRoot, dfsVars
<1>6. ASSUME NEW p \in Block, PickPred(p) PROVE TypeInv'
  <2>1. Current \in Block
    BY <1>6, CurrentType DEF PickPred
  <2>2. preds' \subseteq Block \X Block
    BY <1>6, <2>1 DEF PickPred, Pre
  <2> QED
    BY <1>6, <2>2 DEF TypeInv, PickPred, dfsVars, Maybe
<1>7. ASSUME NEW p \in Block, MeetPred(p) PROVE TypeInv'
  BY <1>7 DEF TypeInv, MeetPred, dfsVars, Maybe
<1>8. CASE WalkUp
  <2>1. idom[b1] \in Maybe /\ idom[b2] \in Maybe
    BY DEF TypeInv
  <2>2. b1' \in Maybe /\ b2' \in Maybe
    BY <1>8, <2>1 DEF WalkUp, TypeInv
  <2>3. /\ UNCHANGED <<succ, pc, stack, visited, reverse_post_order, post_order_id, idom,
                       dom_frontier, dom_tree_succ_blocks, pos, preds, new_idom>>
        /\ pc = "intersect"
    BY <1>8 DEF WalkUp, dfsVars
  <2> QED
    BY <2>2, <2>3 DEF TypeInv
<1>9. CASE Met
  BY <1>9 DEF TypeInv, Met, dfsVars
<1>10. CASE SetIdom
  <2>1. idom' \in [Maybe -> Maybe]
    BY <1>10 DEF TypeInv, SetIdom
  <2>2. pos' \in Nat /\ pos' <= Len(reverse_post_order)
    BY <1>10 DEF TypeInv, SetIdom
  <2> QED
    BY <1>10, <2>1, <2>2 DEF TypeInv, SetIdom, dfsVars
<1>11. CASE EndRound
  BY <1>11 DEF TypeInv, EndRound, dfsVars, loopVars
<1>12. CASE StartFrontier
  BY <1>12 DEF TypeInv, StartFrontier, dfsVars
<1>13. CASE StartRunner
  BY <1>13 DEF TypeInv, StartRunner, dfsVars, Maybe
<1>14. CASE RunnerStep
  <2>1. b1' \in Maybe
    BY <1>14 DEF TypeInv, RunnerStep
  <2>2. dom_frontier' \in [Maybe -> SUBSET Block]
    <3>1. b2 \in Block
      BY <1>14 DEF TypeInv, RunnerStep
    <3>2. \/ dom_frontier' = dom_frontier
          \/ dom_frontier' = [dom_frontier EXCEPT ![b1] = @ \cup {b2}]
      BY <1>14 DEF RunnerStep
    <3>3. b1 \in Maybe /\ dom_frontier \in [Maybe -> SUBSET Block]
      BY DEF TypeInv
    <3>4. dom_frontier[b1] \cup {b2} \in SUBSET Block
      BY <3>1, <3>3
    <3> QED
      BY <3>2, <3>3, <3>4
  <2> QED
    BY <1>14, <2>1, <2>2 DEF TypeInv, RunnerStep, dfsVars
<1>15. CASE StartTree
  BY <1>15 DEF TypeInv, StartTree, dfsVars, loopVars
<1>16. CASE create_dom_tree_succ
  BY <1>16 DEF TypeInv, create_dom_tree_succ, dfsVars, loopVars
<1>17. CASE UNCHANGED vars
  BY <1>17 DEF TypeInv, vars, dfsVars, loopVars
<1> QED
  BY <1>1, <1>2, <1>3, <1>4, <1>5, <1>6, <1>7, <1>8, <1>9, <1>10, <1>11, <1>12,
     <1>13, <1>14, <1>15, <1>16, <1>17 DEF Next, Step, Finished

\* changed is kept apart: a Boolean-valued variable is no help in the steps above.
ChangedOK == changed \in BOOLEAN

\* The variables keep the types of the data structures of Dominators.
THEOREM DominatorsTypeCorrect == Spec => []TypeOK
<1>1. Init => TypeInv /\ ChangedOK
  BY InitTypeInv DEF Init, ChangedOK
<1>2. TypeInv /\ ChangedOK /\ [Next]_vars => TypeInv' /\ ChangedOK'
  BY NextTypeInv, ChangedType DEF ChangedOK
<1>3. TypeInv /\ ChangedOK => TypeOK
  <2> SUFFICES ASSUME TypeInv, ChangedOK PROVE TypeOK
    OBVIOUS
  <2>1. stack \in Seq(Block \X Nat)
    <3>1. Frame \subseteq Block \X Nat
      BY DEF Frame
    <3>2. Seq(Frame) \subseteq Seq(Block \X Nat)
      BY <3>1, SeqWider
    <3> QED
      BY <3>2 DEF TypeInv
  <2> QED
    BY <2>1, ZenonT(30) DEF TypeInv, TypeOK, ChangedOK
<1> QED
  BY <1>1, <1>2, <1>3, PTL DEF Spec

-----------------------------------------------------------------------------
(* The inductive invariant                                                 *)

OnStack == {stack[i][1] : i \in 1 .. Len(stack)}
Numbered == {reverse_post_order[i] : i \in 1 .. Len(reverse_post_order)}

\* The activations of post_order_visit are those of a path from the entry.
StackIsPath ==
    /\ \A i, j \in 1 .. Len(stack) : stack[i][1] = stack[j][1] => i = j
    /\ stack # <<>> => stack[1][1] = Entry
    /\ \A i \in 2 .. Len(stack) : stack[i][1] \in Succ(succ, stack[i - 1][1])

\* A block visited is either on the stack still or has its number.
VisitedSplit ==
    /\ visited = OnStack \cup Numbered /\ OnStack \cap Numbered = {}
    /\ visited \subseteq Reachable(succ) /\ Entry \in visited

Numbers ==
    \A i \in 1 .. Len(reverse_post_order) : post_order_id[reverse_post_order[i]] = i - 1

\* Successors the loops have passed are visited.
PassedVisited ==
    /\ \A i \in 1 .. Len(stack) : \A k \in 1 .. Len(succ[stack[i][1]]) :
          k < stack[i][2] => succ[stack[i][1]][k] \in visited
    /\ \A b \in Numbered : Succ(succ, b) \subseteq visited

\* The block the search came from is numbered later.
ParentLater ==
    \A b \in Numbered \ {Entry} : \E p \in Pre(succ, b) :
        \/ p \in OnStack
        \/ p \in Numbered /\ post_order_id[p] > post_order_id[b]

RootLast ==
    /\ reverse_post_order # <<>>
    /\ reverse_post_order[Len(reverse_post_order)] = Entry

SearchInv ==
    /\ StackIsPath /\ VisitedSplit /\ Numbers /\ PassedVisited /\ ParentLater
    /\ stack = <<>> => RootLast

\* What the search leaves behind: an order of the blocks it can reach in which
\* every block but the entry has a predecessor with a higher number.
Ordered ==
    /\ Numbered = Reachable(succ) /\ Numbers /\ RootLast
    /\ \A b \in Reachable(succ) \ {Entry} : \E p \in Pre(succ, b) \cap Reachable(succ) :
          post_order_id[p] > post_order_id[b]

\* The blocks with an idom, those of the tree under construction.
Placed == {b \in Block : idom[b] # Null}

\* The tree grows towards higher numbers and has lost no dominator.
TreeInv ==
    /\ idom[Entry] = Entry /\ idom[Null] = Null
    /\ Placed \subseteq Reachable(succ)
    /\ \A b \in Placed \ {Entry} :
          /\ idom[b] \in Placed /\ post_order_id[idom[b]] > post_order_id[b]
          /\ Dom(succ, b) \ {b} \subseteq Dom(succ, idom[b])

\* The blocks on the walk from p to the root.
Above(p) ==
    {a \in Block : \A S \in SUBSET Block :
        p \in S /\ (\A x \in S \cap Placed : idom[x] \in S) => a \in S}

\* The idom of b agrees with those of its predecessors.
Settled(b) ==
    b # Entry => \A p \in Pre(succ, b) \cap Placed : idom[b] \in Above(p)

Quiet == ~ changed

\* The blocks this round has done are placed and, if nothing changed, settled.
Behind ==
    \A i \in pos + 1 .. Len(reverse_post_order) :
        /\ reverse_post_order[i] \in Placed
        /\ Quiet => Settled(reverse_post_order[i])

RoundInv ==
    /\ pc # "round" \/ Quiet => Behind
    /\ pc \in {"frontier", "runner", "tree", "done"} => Quiet

\* The walks that have met: the candidate for the idom of Current is dominated
\* by what must dominate it and lies above every predecessor seen.
Candidate(a) ==
    a \in Placed /\ Dom(succ, Current) \ {Current} \subseteq Dom(succ, a)

MeetInv ==
    /\ Current # Entry
    /\ Candidate(new_idom)
    /\ \A e \in preds : e[1] \in Pre(succ, e[2])
    /\ pc = "meet" => \A q \in Pre(succ, Current) \cap Placed :
          <<q, Current>> \in preds \/ new_idom \in Above(q)
    /\ pc = "intersect" =>
          /\ Candidate(b1) /\ Candidate(b2)
          /\ \A q \in Pre(succ, Current) \cap Placed :
                <<q, Current>> \in preds \/ b1 \in Above(q) \/ b2 \in Above(q)

\* The frontiers hold nothing else, and what they lack is still to come.
FrontierInv ==
    \A a \in Reachable(succ) :
        /\ dom_frontier[a] \subseteq Frontier(succ, a)
        /\ \A b \in Frontier(succ, a) :
              \/ b \in dom_frontier[a]
              \/ \E p \in Pre(succ, b) \cap Reachable(succ) :
                    a \in Dom(succ, p) /\ <<p, b>> \in preds
              \/ pc = "runner" /\ b = b2 /\ b1 \in Reachable(succ) /\ a \in Dom(succ, b1)

\* A walk that starts in the tree stays between a predecessor and the idom.
RunnerInv ==
    b1 \in Reachable(succ) =>
        /\ b2 \in Reachable(succ) \ {Entry}
        /\ idom[b2] \in Dom(succ, b1)
        /\ \E p \in Pre(succ, b2) \cap Reachable(succ) : b1 \in Dom(succ, p)

\* The search and the iteration.
IterInv ==
    /\ pc = "dfs" => SearchInv /\ idom = [b \in Maybe |-> Null]
    /\ pc # "dfs" => Ordered /\ TreeInv /\ RoundInv
    /\ pc \notin {"pick", "meet", "intersect"} => pos = 0
    /\ pc \in {"meet", "intersect"} => MeetInv

\* The frontiers and the children.
ResultInv ==
    /\ pc \in {"dfs", "round", "pick", "meet", "intersect"} =>
          dom_frontier = [b \in Maybe |-> {}]
    /\ pc \in {"frontier", "runner"} => \A e \in preds : e[1] \in Pre(succ, e[2])
    /\ pc \in {"frontier", "runner", "tree", "done"} => FrontierInv
    /\ pc = "runner" => RunnerInv
    /\ pc \in {"tree", "done"} => preds = {}
    /\ pc = "done" =>
          dom_tree_succ_blocks = [a \in Maybe |-> {b \in Block : idom[b] = a /\ idom[b] # b}]

-----------------------------------------------------------------------------
(* The search                                                              *)

\* A frame of the stack after one turn of the loop that does not descend.
LEMMA TurnStack ==
    ASSUME TypeInv, VisitSuccessor, succ[Top[1]][Top[2]] \in visited
    PROVE  /\ Len(stack') = Len(stack) /\ visited' = visited
           /\ \A i \in 1 .. Len(stack) :
                 /\ stack'[i][1] = stack[i][1]
                 /\ stack'[i][2] = stack[i][2] \/ (i = Len(stack) /\ stack'[i][2] = Top[2] + 1)
<1> DEFINE here == Append(Below, <<Top[1], Top[2] + 1>>)
<1>1. stack # <<>> /\ stack' = here /\ visited' = visited
  BY DEF VisitSuccessor
<1>2. Top = stack[Len(stack)] /\ Top \in Frame
  BY <1>1, StackOps
<1>3. <<Top[1], Top[2] + 1>> \in Frame
  BY <1>2 DEF Frame
<1>4. /\ Len(here) = Len(stack)
      /\ \A i \in 1 .. Len(stack) :
            here[i] = IF i = Len(stack) THEN <<Top[1], Top[2] + 1>> ELSE stack[i]
  BY <1>1, <1>3, StackStay
<1> HIDE DEF here
<1> QED
  BY <1>1, <1>2, <1>4

\* The same when it descends.
LEMMA DescendStack ==
    ASSUME TypeInv, VisitSuccessor, succ[Top[1]][Top[2]] \notin visited
    PROVE  LET s == succ[Top[1]][Top[2]]
           IN  /\ Len(stack') = Len(stack) + 1 /\ visited' = visited \cup {s}
               /\ stack'[Len(stack) + 1] = <<s, 1>>
               /\ \A i \in 1 .. Len(stack) :
                     /\ stack'[i][1] = stack[i][1]
                     /\ stack'[i][2] = stack[i][2]
                        \/ (i = Len(stack) /\ stack'[i][2] = Top[2] + 1)
<1> DEFINE s == succ[Top[1]][Top[2]]
           t == Append(Append(Below, <<Top[1], Top[2] + 1>>), <<s, 1>>)
<1>1. stack # <<>> /\ stack' = t /\ visited' = visited \cup {s}
  BY DEF VisitSuccessor
<1>2. Top = stack[Len(stack)] /\ Top \in Frame /\ Len(stack) \in Nat
  BY <1>1, StackOps
<1>3. <<Top[1], Top[2] + 1>> \in Frame /\ <<s, 1>> \in Frame
  <2>1. Top[1] \in Block /\ Top[2] \in Nat \ {0}
    BY <1>2 DEF Frame
  <2>2. s \in Block
    <3>1. succ[Top[1]] \in Seq(Block)
      BY <2>1 DEF TypeInv
    <3>2. Top[2] \in 1 .. Len(succ[Top[1]])
      BY <2>1, <3>1 DEF VisitSuccessor
    <3> QED
      BY <3>1, <3>2
  <2> QED
    BY <2>1, <2>2 DEF Frame
<1>4. /\ Len(t) = Len(stack) + 1
      /\ \A i \in 1 .. Len(stack) + 1 :
            t[i] = IF i = Len(stack) + 1 THEN <<s, 1>>
                   ELSE IF i = Len(stack) THEN <<Top[1], Top[2] + 1>> ELSE stack[i]
  BY <1>1, <1>3, StackPush
<1> HIDE DEF t, s
<1>5. t[Len(stack) + 1] = <<s, 1>>
  BY <1>2, <1>4
<1>6. \A i \in 1 .. Len(stack) :
            t[i] = IF i = Len(stack) THEN <<Top[1], Top[2] + 1>> ELSE stack[i]
  BY <1>2, <1>4
<1>7. \A i \in 1 .. Len(stack) :
            /\ t[i][1] = stack[i][1]
            /\ t[i][2] = stack[i][2] \/ (i = Len(stack) /\ t[i][2] = Top[2] + 1)
  BY <1>2, <1>6
<1> QED
  BY <1>1, <1>4, <1>5, <1>7 DEF s

\* What an edge on the stack is.
LEMMA TopEdge ==
    ASSUME TypeInv, VisitSuccessor
    PROVE  /\ Top = stack[Len(stack)] /\ Len(stack) \in Nat \ {0}
           /\ Top[1] \in Block /\ Top[2] \in 1 .. Len(succ[Top[1]])
           /\ succ[Top[1]][Top[2]] \in Succ(succ, Top[1])
<1>1. Top = stack[Len(stack)] /\ Top \in Frame /\ Len(stack) \in Nat \ {0}
  BY StackOps DEF VisitSuccessor
<1>2. Top[1] \in Block /\ Top[2] \in Nat \ {0}
  BY <1>1 DEF Frame
<1>3. succ[Top[1]] \in Seq(Block)
  BY <1>2 DEF TypeInv
<1>4. Top[2] \in 1 .. Len(succ[Top[1]])
  BY <1>2, <1>3 DEF VisitSuccessor
<1> QED
  BY <1>1, <1>2, <1>3, <1>4 DEF Succ

LEMMA TurnSearchInv ==
    ASSUME TypeInv, SearchInv, VisitSuccessor, succ[Top[1]][Top[2]] \in visited
    PROVE  SearchInv'
<1>1. /\ Len(stack') = Len(stack) /\ visited' = visited
      /\ \A i \in 1 .. Len(stack) :
            /\ stack'[i][1] = stack[i][1]
            /\ stack'[i][2] = stack[i][2] \/ (i = Len(stack) /\ stack'[i][2] = Top[2] + 1)
  BY TurnStack
<1>2. /\ succ' = succ /\ reverse_post_order' = reverse_post_order
      /\ post_order_id' = post_order_id
  BY DEF VisitSuccessor
<1>3. /\ Top = stack[Len(stack)] /\ Len(stack) \in Nat \ {0}
      /\ Top[2] \in 1 .. Len(succ[Top[1]])
  BY TopEdge
<1>4. OnStack' = OnStack /\ Numbered' = Numbered
  BY <1>1, <1>2 DEF OnStack, Numbered
<1>5. StackIsPath'
  <2>1. \A i, j \in 1 .. Len(stack) : stack'[i][1] = stack'[j][1] => i = j
    BY <1>1 DEF SearchInv, StackIsPath
  <2>2. stack'[1][1] = Entry
    <3>1. 1 \in 1 .. Len(stack) /\ stack # <<>>
      BY <1>3 DEF VisitSuccessor
    <3> QED
      BY <1>1, <3>1 DEF SearchInv, StackIsPath
  <2>3. ASSUME NEW i \in 2 .. Len(stack) PROVE stack'[i][1] \in Succ(succ, stack'[i - 1][1])
    <3>1. i \in 1 .. Len(stack) /\ i - 1 \in 1 .. Len(stack)
      BY <1>3
    <3> QED
      BY <1>1, <3>1 DEF SearchInv, StackIsPath
  <2> QED
    BY <1>1, <1>2, <2>1, <2>2, <2>3 DEF StackIsPath
<1>6. VisitedSplit' /\ Numbers' /\ ParentLater'
  BY <1>1, <1>2, <1>4 DEF SearchInv, VisitedSplit, Numbers, ParentLater
<1>7. PassedVisited'
  <2>1. ASSUME NEW i \in 1 .. Len(stack), NEW k \in 1 .. Len(succ[stack[i][1]]),
               k < stack'[i][2]
        PROVE  succ[stack[i][1]][k] \in visited
    <3>1. CASE k < stack[i][2]
      BY <3>1 DEF SearchInv, PassedVisited
    <3>2. CASE ~ (k < stack[i][2])
      <4>1. i = Len(stack) /\ stack'[i][2] = Top[2] + 1
        BY <1>1, <2>1, <3>2
      <4>2. stack[i] = Top /\ k = Top[2]
        BY <1>3, <2>1, <3>2, <4>1
      <4> QED
        BY <4>2
    <3> QED
      BY <3>1, <3>2
  <2> QED
    BY <1>1, <1>2, <1>4, <2>1 DEF SearchInv, PassedVisited
<1>8. stack' # <<>>
  BY <1>1, <1>3
<1> QED
  BY <1>5, <1>6, <1>7, <1>8 DEF SearchInv

LEMMA DescendSearchInv ==
    ASSUME TypeInv, SearchInv, VisitSuccessor, succ[Top[1]][Top[2]] \notin visited
    PROVE  SearchInv'
<1> DEFINE s == succ[Top[1]][Top[2]]
           n == Len(stack)
<1>1. /\ Len(stack') = n + 1 /\ visited' = visited \cup {s}
      /\ stack'[n + 1] = <<s, 1>>
      /\ \A i \in 1 .. n : /\ stack'[i][1] = stack[i][1]
                           /\ stack'[i][2] = stack[i][2]
                              \/ (i = n /\ stack'[i][2] = Top[2] + 1)
  BY DescendStack
<1>2. /\ succ' = succ /\ reverse_post_order' = reverse_post_order
      /\ post_order_id' = post_order_id
  BY DEF VisitSuccessor
<1>3. /\ Top = stack[n] /\ n \in Nat \ {0} /\ Top[1] \in Block
      /\ Top[2] \in 1 .. Len(succ[Top[1]]) /\ s \in Succ(succ, Top[1])
  BY TopEdge
<1>4. s \notin visited /\ s \notin OnStack /\ s \notin Numbered
  BY DEF SearchInv, VisitedSplit
<1> HIDE DEF s, n
<1>5. stack'[n + 1][1] = s /\ stack'[n + 1][2] = 1
  BY <1>1
<1>6. OnStack' = OnStack \cup {s} /\ Numbered' = Numbered
  <2>1. \A i \in 1 .. n : stack[i][1] \in OnStack
    BY DEF OnStack, n
  <2>2. \A i \in 1 .. n + 1 : i \in 1 .. n \/ i = n + 1
    BY <1>3
  <2>3. OnStack' \subseteq OnStack \cup {s}
    BY <1>1, <1>5, <2>1, <2>2 DEF OnStack
  <2>4. OnStack \subseteq OnStack'
    BY <1>1, <1>3 DEF OnStack, n
  <2>5. s \in OnStack'
    BY <1>1, <1>3, <1>5 DEF OnStack
  <2> QED
    BY <1>2, <2>3, <2>4, <2>5 DEF Numbered
<1>7. StackIsPath'
  <2>1. ASSUME NEW i \in 1 .. n + 1, NEW j \in 1 .. n + 1, stack'[i][1] = stack'[j][1]
        PROVE  i = j
    <3>1. \A k \in 1 .. n : stack'[k][1] # s
      BY <1>1, <1>4 DEF OnStack, n
    <3>2. CASE i = n + 1 \/ j = n + 1
      BY <1>3, <1>5, <2>1, <3>1, <3>2
    <3>3. CASE i # n + 1 /\ j # n + 1
      <4>1. i \in 1 .. n /\ j \in 1 .. n
        BY <1>3, <3>3
      <4> QED
        BY <1>1, <2>1, <4>1 DEF SearchInv, StackIsPath, n
    <3> QED
      BY <3>2, <3>3
  <2>2. stack'[1][1] = Entry
    <3>1. 1 \in 1 .. n /\ stack # <<>>
      BY <1>3 DEF VisitSuccessor
    <3> QED
      BY <1>1, <3>1 DEF SearchInv, StackIsPath
  <2>3. ASSUME NEW i \in 2 .. n + 1 PROVE stack'[i][1] \in Succ(succ, stack'[i - 1][1])
    <3>1. CASE i = n + 1
      <4>1. i - 1 = n /\ n \in 1 .. n
        BY <1>3, <3>1
      <4>2. stack'[n][1] = Top[1]
        BY <1>1, <1>3, <4>1
      <4> QED
        BY <1>3, <1>5, <3>1, <4>1, <4>2
    <3>2. CASE i # n + 1
      <4>1. i \in 1 .. n /\ i - 1 \in 1 .. n /\ i \in 2 .. n
        BY <1>3, <3>2
      <4> QED
        BY <1>1, <4>1 DEF SearchInv, StackIsPath, n
    <3> QED
      BY <3>1, <3>2
  <2> QED
    BY <1>1, <1>2, <2>1, <2>2, <2>3 DEF StackIsPath
<1>8. VisitedSplit'
  <2>1. Top[1] \in Reachable(succ)
    <3>1. Top[1] \in OnStack
      BY <1>3 DEF OnStack, n
    <3> QED
      BY <3>1 DEF SearchInv, VisitedSplit
  <2>2. s \in Reachable(succ)
    BY <1>3, <2>1, ReachableStep DEF TypeInv
  <2> QED
    BY <1>1, <1>2, <1>4, <1>6, <2>2 DEF SearchInv, VisitedSplit
<1>9. Numbers' /\ ParentLater'
  <2>1. Numbers'
    BY <1>2 DEF SearchInv, Numbers
  <2>2. ParentLater'
    BY <1>2, <1>6 DEF SearchInv, ParentLater
  <2> QED
    BY <2>1, <2>2
<1>10. PassedVisited'
  <2>1. ASSUME NEW i \in 1 .. n, NEW k \in 1 .. Len(succ[stack[i][1]]), k < stack'[i][2]
        PROVE  succ[stack[i][1]][k] \in visited'
    <3>1. CASE k < stack[i][2]
      BY <1>1, <3>1 DEF SearchInv, PassedVisited, n
    <3>2. CASE ~ (k < stack[i][2])
      <4>1. i = n /\ stack'[i][2] = Top[2] + 1
        BY <1>1, <2>1, <3>2
      <4>2. stack[i] = Top /\ k = Top[2]
        BY <1>3, <2>1, <3>2, <4>1
      <4> QED
        BY <1>1, <4>2 DEF s
    <3> QED
      BY <3>1, <3>2
  <2>2. ASSUME NEW i \in 1 .. n + 1, NEW k \in 1 .. Len(succ[stack'[i][1]]), k < stack'[i][2]
        PROVE  succ[stack'[i][1]][k] \in visited'
    <3>1. CASE i = n + 1
      BY <1>5, <2>2, <3>1
    <3>2. CASE i # n + 1
      <4>1. i \in 1 .. n
        BY <1>3, <3>2
      <4>2. stack'[i][1] = stack[i][1]
        BY <1>1, <4>1
      <4> QED
        BY <2>1, <2>2, <4>1, <4>2
    <3> QED
      BY <3>1, <3>2
  <2>3. \A b \in Numbered : Succ(succ, b) \subseteq visited'
    BY <1>1 DEF SearchInv, PassedVisited
  <2> QED
    BY <1>1, <1>2, <1>6, <2>2, <2>3 DEF PassedVisited
<1>11. stack' # <<>>
  BY <1>1, <1>3
<1> QED
  BY <1>7, <1>8, <1>9, <1>10, <1>11 DEF SearchInv

LEMMA LeaveSearchInv ==
    ASSUME TypeInv, SearchInv, Leave
    PROVE  SearchInv'
<1> DEFINE b == Top[1]
           n == Len(stack)
           m == Len(reverse_post_order)
<1>1. /\ n \in Nat \ {0} /\ Len(stack') = n - 1 /\ \A i \in 1 .. n - 1 : stack'[i] = stack[i]
      /\ Top = stack[n] /\ b \in Block
  BY StackOps DEF Leave, Frame
<1>2. /\ m \in Nat /\ Len(reverse_post_order') = m + 1 /\ reverse_post_order'[m + 1] = b
      /\ \A i \in 1 .. m : reverse_post_order'[i] = reverse_post_order[i]
  <2>1. reverse_post_order' = Append(reverse_post_order, b) /\ reverse_post_order \in Seq(Block)
    BY DEF Leave, TypeInv
  <2> QED
    BY <1>1, <2>1, SeqAdd
<1>3. /\ succ' = succ /\ visited' = visited
      /\ post_order_id' = [post_order_id EXCEPT ![b] = m]
      /\ post_order_id \in [Block -> Nat]
  BY DEF Leave, TypeInv
<1>4. Top[2] > Len(succ[b]) /\ Len(succ[b]) \in Nat /\ Top[2] \in Nat
  <2>1. Top \in Frame
    BY StackOps DEF Leave
  <2> QED
    <3>1. Top[2] \in Nat
      BY <2>1 DEF Frame
    <3>2. succ[b] \in Seq(Block)
      BY <1>1 DEF TypeInv
    <3>3. Len(succ[b]) \in Nat
      BY <3>2
    <3>4. Top[2] > Len(succ[b])
      BY DEF Leave
    <3> QED
      BY <3>1, <3>3, <3>4
<1>5. b \in OnStack /\ b \notin Numbered
  BY <1>1 DEF SearchInv, VisitedSplit, OnStack
<1>6. \A i \in 1 .. n - 1 : i \in 1 .. n /\ stack[i][1] # b
  BY <1>1 DEF SearchInv, StackIsPath
<1> HIDE DEF b, n, m
<1>7. OnStack' = OnStack \ {b}
  <2>1. OnStack' \subseteq OnStack \ {b}
    BY <1>1, <1>6 DEF OnStack, n
  <2>2. ASSUME NEW i \in 1 .. n, stack[i][1] # b PROVE stack[i][1] \in OnStack'
    <3>1. i \in 1 .. n - 1
      BY <1>1, <2>2 DEF b
    <3> QED
      BY <1>1, <3>1 DEF OnStack
  <2> QED
    BY <2>1, <2>2 DEF OnStack, n
<1>8. Numbered' = Numbered \cup {b}
  <2>1. \A i \in 1 .. m + 1 : i \in 1 .. m \/ i = m + 1
    BY <1>2
  <2>2. Numbered' \subseteq Numbered \cup {b}
    BY <1>2, <2>1 DEF Numbered, m
  <2>3. Numbered \subseteq Numbered'
    BY <1>2 DEF Numbered, m
  <2>4. b \in Numbered'
    BY <1>2 DEF Numbered
  <2> QED
    BY <2>2, <2>3, <2>4
<1>9. StackIsPath'
  <2>1. \A i, j \in 1 .. n - 1 : stack'[i][1] = stack'[j][1] => i = j
    BY <1>1, <1>6 DEF SearchInv, StackIsPath, n
  <2>2. stack' # <<>> => stack'[1][1] = Entry
    <3>1. SUFFICES ASSUME stack' # <<>> PROVE stack'[1][1] = Entry
      OBVIOUS
    <3>2. stack' \in Seq(Frame)
      BY StackOps DEF Leave
    <3>3. 1 \in 1 .. n - 1
      BY <1>1, <3>1, <3>2
    <3> QED
      BY <1>1, <3>3 DEF SearchInv, StackIsPath, Leave
  <2>3. ASSUME NEW i \in 2 .. n - 1 PROVE stack'[i][1] \in Succ(succ, stack'[i - 1][1])
    <3>1. i \in 1 .. n - 1 /\ i - 1 \in 1 .. n - 1 /\ i \in 2 .. n
      BY <1>1
    <3> QED
      BY <1>1, <3>1 DEF SearchInv, StackIsPath, n
  <2> QED
    BY <1>1, <1>3, <2>1, <2>2, <2>3 DEF StackIsPath
<1>10. VisitedSplit'
  BY <1>3, <1>5, <1>7, <1>8 DEF SearchInv, VisitedSplit
<1>11. Numbers'
  <2>1. ASSUME NEW i \in 1 .. m + 1 PROVE post_order_id'[reverse_post_order'[i]] = i - 1
    <3>1. CASE i = m + 1
      BY <1>1, <1>2, <1>3, <3>1
    <3>2. CASE i # m + 1
      <4>1. i \in 1 .. m
        BY <1>2, <3>2
      <4>2. reverse_post_order[i] \in Numbered /\ reverse_post_order[i] # b
        BY <1>5, <4>1 DEF Numbered, m
      <4>3. post_order_id[reverse_post_order[i]] = i - 1
        BY <4>1 DEF SearchInv, Numbers, m
      <4> QED
        BY <1>2, <1>3, <4>1, <4>2, <4>3
    <3> QED
      BY <3>1, <3>2
  <2> QED
    BY <1>2, <2>1 DEF Numbers
<1>12. PassedVisited'
  <2>1. ASSUME NEW i \in 1 .. n - 1, NEW k \in 1 .. Len(succ[stack'[i][1]]), k < stack'[i][2]
        PROVE  succ[stack'[i][1]][k] \in visited
    <3>1. i \in 1 .. n /\ stack'[i] = stack[i]
      BY <1>1, <1>6
    <3> QED
      BY <2>1, <3>1 DEF SearchInv, PassedVisited, n
  <2>2. Succ(succ, b) \subseteq visited
    <3>1. ASSUME NEW k \in 1 .. Len(succ[b]) PROVE succ[b][k] \in visited
      <4>1. n \in 1 .. n /\ stack[n][1] = b /\ k < stack[n][2]
        BY <1>1, <1>4 DEF b
      <4> QED
        BY <4>1 DEF SearchInv, PassedVisited, n
    <3>2. DOMAIN succ[b] = 1 .. Len(succ[b])
      BY <1>1 DEF TypeInv
    <3> QED
      BY <3>1, <3>2 DEF Succ
  <2>3. \A c \in Numbered' : Succ(succ, c) \subseteq visited
    BY <1>8, <2>2 DEF SearchInv, PassedVisited
  <2> QED
    BY <1>1, <1>3, <2>1, <2>3 DEF PassedVisited
<1>13. ParentLater'
  <2>1. ASSUME NEW c \in Numbered, c # Entry
        PROVE  \E p \in Pre(succ, c) : \/ p \in OnStack'
                                       \/ p \in Numbered' /\ post_order_id'[p] > post_order_id'[c]
    <3>1. PICK p \in Pre(succ, c) : \/ p \in OnStack
                                    \/ p \in Numbered /\ post_order_id[p] > post_order_id[c]
      BY <2>1 DEF SearchInv, ParentLater
    <3>2. PICK i \in 1 .. m : c = reverse_post_order[i]
      BY DEF Numbered, m
    <3>3. post_order_id[c] = i - 1 /\ c # b /\ c \in Block
      BY <1>5, <3>2 DEF SearchInv, Numbers, m, TypeInv
    <3>4. post_order_id'[c] = post_order_id[c] /\ post_order_id[c] < m
      BY <1>2, <1>3, <3>3
    <3>5. CASE p = b
      <4>1. p \in Numbered' /\ post_order_id'[p] = m
        BY <1>1, <1>3, <1>8, <3>5
      <4> QED
        BY <1>2, <3>4, <4>1, <3>3
    <3>6. CASE p # b
      <4>1. post_order_id'[p] = post_order_id[p]
        BY <1>3, <3>6, PreType DEF TypeInv
      <4> QED
        BY <1>7, <1>8, <3>1, <3>4, <3>6, <4>1
    <3> QED
      BY <3>5, <3>6
  <2>2. ASSUME b # Entry
        PROVE  \E p \in Pre(succ, b) : p \in OnStack'
    <3>1. n # 1
      BY <1>1, <2>2 DEF SearchInv, StackIsPath, b, n, Leave
    <3>2. n \in 2 .. n /\ n - 1 \in 1 .. n - 1
      BY <1>1, <3>1
    <3>3. b \in Succ(succ, stack[n - 1][1])
      BY <1>1, <3>2 DEF SearchInv, StackIsPath, b, n
    <3>4. stack[n - 1][1] \in OnStack'
      BY <1>1, <3>2 DEF OnStack
    <3>5. stack[n - 1][1] \in Block
      <4>1. stack \in Seq(Frame) /\ n - 1 \in 1 .. Len(stack)
        BY <1>1, <1>6, <3>2 DEF TypeInv, n
      <4>2. stack[n - 1] \in Frame
        BY <4>1
      <4> QED
        BY <4>2 DEF Frame
    <3> QED
      BY <3>3, <3>4, <3>5 DEF Pre
  <2> QED
    BY <1>3, <1>8, <2>1, <2>2 DEF ParentLater
<1>14. stack' = <<>> => RootLast'
  <2>1. SUFFICES ASSUME stack' = <<>> PROVE RootLast'
    OBVIOUS
  <2>2. n = 1
    BY <1>1, <2>1
  <2>3. b = Entry
    BY <1>1, <2>2 DEF SearchInv, StackIsPath, b, n, Leave
  <2>4. reverse_post_order' # <<>>
    BY <1>2
  <2> QED
    BY <1>2, <2>3, <2>4 DEF RootLast
<1> QED
  BY <1>9, <1>10, <1>11, <1>12, <1>13, <1>14 DEF SearchInv

LEMMA InitSearchInv == Init => SearchInv
<1> SUFFICES ASSUME Init PROVE SearchInv
  OBVIOUS
<1>1. /\ stack = << <<Entry, 1>> >> /\ visited = {Entry} /\ reverse_post_order = <<>>
      /\ WellFormedCFG(succ)
  BY DEF Init
<1>2. Len(stack) = 1 /\ stack[1][1] = Entry /\ stack[1][2] = 1 /\ Len(reverse_post_order) = 0
  BY <1>1
<1>3. OnStack = {Entry} /\ Numbered = {}
  BY <1>2 DEF OnStack, Numbered
<1>4. StackIsPath /\ Numbers /\ PassedVisited /\ ParentLater
  BY <1>1, <1>2, <1>3 DEF StackIsPath, Numbers, PassedVisited, ParentLater
<1>5. VisitedSplit
  BY <1>1, <1>3, ReachableType DEF VisitedSplit
<1>6. stack # <<>>
  BY <1>1
<1> QED
  BY <1>4, <1>5, <1>6 DEF SearchInv

\* When the search returns it has numbered the blocks that can be reached.
LEMMA SearchOrders ==
    ASSUME TypeInv, SearchInv, stack = <<>>
    PROVE  Ordered
<1>1. OnStack = {}
  BY DEF OnStack
<1>2. visited = Numbered
  BY <1>1 DEF SearchInv, VisitedSplit
<1>3. Reachable(succ) \subseteq visited
  <2>1. \A p \in visited \cap Block : Succ(succ, p) \ {} \subseteq visited
    BY <1>2 DEF SearchInv, PassedVisited
  <2>2. Entry \in visited
    BY DEF SearchInv, VisitedSplit
  <2>3. ReachableAvoiding(succ, {}) \subseteq visited
    BY <2>1, <2>2, ReachLeast DEF TypeInv
  <2> QED
    BY <2>3 DEF Reachable
<1>4. Numbered = Reachable(succ)
  BY <1>2, <1>3 DEF SearchInv, VisitedSplit
<1>5. \A b \in Reachable(succ) \ {Entry} : \E p \in Pre(succ, b) \cap Reachable(succ) :
          post_order_id[p] > post_order_id[b]
  BY <1>1, <1>4 DEF SearchInv, ParentLater
<1> QED
  BY <1>4, <1>5 DEF Ordered, SearchInv

-----------------------------------------------------------------------------
(* Walks in the tree                                                       *)

\* What the finished search leaves: an order of the reached blocks.
LEMMA OrderFacts ==
    ASSUME TypeInv, Ordered
    PROVE  /\ Len(reverse_post_order) \in Nat \ {0}
           /\ \A i \in 1 .. Len(reverse_post_order) :
                 /\ reverse_post_order[i] \in Reachable(succ)
                 /\ post_order_id[reverse_post_order[i]] = i - 1
           /\ \A b \in Reachable(succ) :
                 /\ b \in Block /\ post_order_id[b] \in 0 .. Len(reverse_post_order) - 1
                 /\ reverse_post_order[post_order_id[b] + 1] = b
<1>1. Len(reverse_post_order) \in Nat \ {0}
  BY DEF TypeInv, Ordered, RootLast
<1>2. \A i \in 1 .. Len(reverse_post_order) :
          /\ reverse_post_order[i] \in Reachable(succ)
          /\ post_order_id[reverse_post_order[i]] = i - 1
  BY DEF Ordered, Numbers, Numbered
<1>3. ASSUME NEW b \in Reachable(succ)
      PROVE  /\ b \in Block /\ post_order_id[b] \in 0 .. Len(reverse_post_order) - 1
             /\ reverse_post_order[post_order_id[b] + 1] = b
  <2>1. PICK i \in 1 .. Len(reverse_post_order) : b = reverse_post_order[i]
    BY DEF Ordered, Numbered
  <2>2. post_order_id[b] = i - 1
    BY <1>2, <2>1
  <2>3. b \in Block
    BY ReachableType DEF TypeInv
  <2> QED
    BY <1>1, <2>1, <2>2, <2>3
<1> QED
  BY <1>1, <1>2, <1>3

\* Different blocks have different numbers.
LEMMA NumberInjective ==
    ASSUME TypeInv, Ordered, NEW a \in Reachable(succ), NEW b \in Reachable(succ),
           post_order_id[a] = post_order_id[b]
    PROVE  a = b
BY OrderFacts

\* Of some blocks that are numbered one has the highest number.
LEMMA Highest ==
    ASSUME TypeInv, Ordered, NEW T, T \subseteq Reachable(succ), T # {}
    PROVE  \E x \in T : \A y \in T : post_order_id[y] <= post_order_id[x]
<1> DEFINE R == {ss \in Nat \X Nat : ss[1] < ss[2]}
           n == Len(reverse_post_order)
           Left == {n - post_order_id[x] : x \in T}
<1>1. n \in Nat /\ \A x \in T : post_order_id[x] \in 0 .. n - 1
  BY OrderFacts
<1>2. Left \subseteq Nat /\ Left # {}
  <2> HIDE DEF n
  <2> QED
    BY <1>1
<1>3. IsWellFoundedOn(R, Nat)
  BY NatLessThanWellFounded DEF OpToRel
<1>4. PICK k \in Left : \A l \in Left : ~ (<<l, k>> \in R)
  <2> HIDE DEF Left, R
  <2> QED
    BY <1>2, <1>3, WFMin
<1> HIDE DEF n
<1>5. PICK x \in T : k = n - post_order_id[x]
  BY <1>4
<1>6. ASSUME NEW y \in T PROVE post_order_id[y] <= post_order_id[x]
  <2>1. n - post_order_id[y] \in Left
    OBVIOUS
  <2>2. ~ (n - post_order_id[y] < k)
    BY <1>2, <1>4, <2>1
  <2> QED
    BY <1>1, <1>5, <2>2
<1> QED
  BY <1>6

\* Every block is above itself in the tree of idoms.
LEMMA AboveSelf == ASSUME NEW p \in Block PROVE p \in Above(p)
BY DEF Above

\* A set that holds p and the idom of each of its members holds the walk.
LEMMA AboveLeast ==
    ASSUME NEW p, NEW S \in SUBSET Block, p \in S, \A x \in S \cap Placed : idom[x] \in S
    PROVE  Above(p) \subseteq S
BY DEF Above

\* The idom of a placed block is placed.
LEMMA PlacedFacts ==
    ASSUME TypeInv, TreeInv
    PROVE  /\ Placed \subseteq Block /\ Entry \in Placed
           /\ \A b \in Placed : idom[b] \in Placed
<1>1. Entry # Null
  BY CFGAssumption, DominatorsAssumption
<1>2. Entry \in Placed
  BY <1>1, CFGAssumption DEF TreeInv, Placed
<1> QED
  BY <1>2 DEF TreeInv, Placed

\* The idom of a block above p is above p.
LEMMA AboveStep ==
    ASSUME TypeInv, TreeInv, NEW p, NEW a \in Above(p), a \in Placed
    PROVE  idom[a] \in Above(p)
<1>1. idom[a] \in Block
  BY PlacedFacts
<1> QED
  BY <1>1 DEF Above

\* Above the above is above.
LEMMA AboveTransitive ==
    ASSUME TypeInv, TreeInv, NEW p, NEW q \in Above(p)
    PROVE  Above(q) \subseteq Above(p)
<1> DEFINE S == Above(p)
<1>1. S \in SUBSET Block
  BY DEF Above
<1>2. \A x \in S \cap Placed : idom[x] \in S
  BY AboveStep
<1> HIDE DEF S
<1>3. q \in S
  BY DEF S
<1>4. Above(q) \subseteq S
  BY <1>1, <1>2, <1>3, AboveLeast
<1> QED
  BY <1>4 DEF S

\* The walk from a block of the tree stays in the tree and goes up.
LEMMA AboveHigher ==
    ASSUME TypeInv, TreeInv, NEW p \in Placed
    PROVE  \A a \in Above(p) : a \in Placed /\ post_order_id[a] >= post_order_id[p]
<1> DEFINE S == {a \in Placed : post_order_id[a] >= post_order_id[p]}
<1>1. \A b \in Block : post_order_id[b] \in Nat
  BY DEF TypeInv
<1>2. S \in SUBSET Block /\ p \in S
  BY <1>1, PlacedFacts
<1>3. ASSUME NEW x \in S PROVE idom[x] \in S
  <2>1. CASE x = Entry
    BY <2>1 DEF TreeInv
  <2>2. CASE x # Entry
    <3>1. idom[x] \in Placed /\ post_order_id[idom[x]] > post_order_id[x]
      BY <2>2 DEF TreeInv
    <3>2. idom[x] \in Block /\ x \in Block /\ p \in Block
      BY <3>1, PlacedFacts
    <3> QED
      BY <1>1, <3>1, <3>2
  <2> QED
    BY <2>1, <2>2
<1>4. Above(p) \subseteq S
  <2> HIDE DEF S
  <2> QED
    BY <1>2, <1>3, AboveLeast
<1> QED
  BY <1>4

\* Nothing is above the entry.
LEMMA AboveEntry ==
    ASSUME TypeInv, TreeInv PROVE Above(Entry) = {Entry}
<1> DEFINE S == {Entry}
<1>1. S \in SUBSET Block /\ Entry \in S /\ \A x \in S \cap Placed : idom[x] \in S
  BY CFGAssumption DEF TreeInv
<1>2. Above(Entry) \subseteq S
  <2> HIDE DEF S
  <2> QED
    BY <1>1, AboveLeast
<1> QED
  BY <1>2, AboveSelf, CFGAssumption

\* The walk goes on from the idom.
LEMMA AboveIdom ==
    ASSUME TypeInv, TreeInv, NEW p \in Placed
    PROVE  Above(p) \subseteq {p} \cup Above(idom[p])
<1> DEFINE S == {p} \cup Above(idom[p])
<1>1. S \in SUBSET Block /\ p \in S
  BY PlacedFacts DEF Above
<1>2. ASSUME NEW x \in S \cap Placed PROVE idom[x] \in S
  <2>1. CASE x = p
    BY <2>1, PlacedFacts, AboveSelf
  <2>2. CASE x # p
    BY <2>2, AboveStep
  <2> QED
    BY <2>1, <2>2
<1>3. Above(p) \subseteq S
  <2> HIDE DEF S
  <2> QED
    BY <1>1, <1>2, AboveLeast
<1> QED
  BY <1>3

\* The dominators of a block of the tree are on its walk.
LEMMA DomAbove ==
    ASSUME TypeInv, Ordered, TreeInv, NEW p \in Placed
    PROVE  Dom(succ, p) \subseteq Above(p)
<1> SUFFICES ASSUME NEW d \in Dom(succ, p), NEW S \in SUBSET Block, p \in S,
                    \A x \in S \cap Placed : idom[x] \in S, d \notin S
             PROVE  FALSE
  BY DomType DEF Above
<1> DEFINE T == {x \in S \cap Placed : d \in Dom(succ, x)}
<1>1. T \subseteq Reachable(succ) /\ p \in T
  BY DEF TreeInv
<1>2. PICK x \in T : \A y \in T : post_order_id[y] <= post_order_id[x]
  <2> HIDE DEF T
  <2> QED
    BY <1>1, Highest
<1>3. x # Entry /\ x # d
  BY DomEntry DEF TypeInv
<1>4. /\ idom[x] \in Placed /\ post_order_id[idom[x]] > post_order_id[x]
      /\ d \in Dom(succ, idom[x]) /\ idom[x] \in S
  BY <1>3 DEF TreeInv
<1>5. idom[x] \in T
  BY <1>4
<1>6. post_order_id[idom[x]] \in Nat /\ post_order_id[x] \in Nat
  BY <1>4, PlacedFacts DEF TypeInv
<1> QED
  BY <1>2, <1>4, <1>5, <1>6

\* So they have no lower numbers.
LEMMA DomHigher ==
    ASSUME TypeInv, Ordered, TreeInv, NEW p \in Placed, NEW d \in Dom(succ, p)
    PROVE  d \in Placed /\ post_order_id[d] >= post_order_id[p]
BY DomAbove, AboveHigher

\* The walks depend on the idoms only.
LEMMA AboveSame ==
    ASSUME idom' = idom
    PROVE  Placed' = Placed /\ \A p : Above(p)' = Above(p)
<1>1. Placed' = Placed
  BY DEF Placed
<1> QED
  BY <1>1 DEF Above

-----------------------------------------------------------------------------
(* The iteration                                                           *)

\* What the steps make of changed.
LEMMA QuietSteps ==
    /\ StartIdom => ~ Quiet'
    /\ StartFrontier => Quiet
    /\ UNCHANGED changed => (Quiet' <=> Quiet)
    /\ SetIdom => \/ idom' = idom /\ idom[Current] = new_idom /\ (Quiet' <=> Quiet)
                  \/ idom' = [idom EXCEPT ![Current] = new_idom] /\ ~ Quiet'
BY Zenon DEF Quiet, StartIdom, StartFrontier, SetIdom

LEMMA OrderedSame ==
    ASSUME Ordered, succ' = succ, reverse_post_order' = reverse_post_order,
           post_order_id' = post_order_id
    PROVE  Ordered'
BY DEF Ordered, Numbered, Numbers, RootLast

LEMMA TreeSame ==
    ASSUME TreeInv, succ' = succ, post_order_id' = post_order_id, idom' = idom
    PROVE  TreeInv'
BY AboveSame DEF TreeInv

LEMMA SettledSame ==
    ASSUME succ' = succ, idom' = idom, NEW b, Settled(b) PROVE Settled(b)'
BY AboveSame DEF Settled

LEMMA BehindSame ==
    ASSUME Behind, succ' = succ, reverse_post_order' = reverse_post_order, idom' = idom,
           pos' = pos, Quiet' => Quiet
    PROVE  Behind'
BY AboveSame, SettledSame DEF Behind

\* All blocks done.
LEMMA BehindAll ==
    ASSUME TypeInv, Ordered, Behind, pos = 0
    PROVE  /\ Reachable(succ) \subseteq Placed
           /\ Quiet => \A b \in Reachable(succ) : Settled(b)
<1> SUFFICES ASSUME NEW b \in Reachable(succ)
             PROVE  b \in Placed /\ (Quiet => Settled(b))
  OBVIOUS
<1>1. PICK i \in 1 .. Len(reverse_post_order) : b = reverse_post_order[i]
  BY DEF Ordered, Numbered
<1> QED
  BY <1>1 DEF Behind

\* The current block, when it is not the entry, has a predecessor with a higher
\* number, which this round has done.
LEMMA CurrentFacts ==
    ASSUME TypeInv, Ordered, Behind, pos > 0, Current # Entry
    PROVE  /\ Current \in Reachable(succ)
           /\ \E p \in Pre(succ, Current) \cap Placed :
                 post_order_id[p] > post_order_id[Current]
<1>1. /\ pos \in 1 .. Len(reverse_post_order)
      /\ Current \in Reachable(succ) /\ post_order_id[Current] = pos - 1
  <2>1. pos \in 1 .. Len(reverse_post_order)
    BY DEF TypeInv
  <2>2. \A i \in 1 .. Len(reverse_post_order) :
            /\ reverse_post_order[i] \in Reachable(succ)
            /\ post_order_id[reverse_post_order[i]] = i - 1
    BY OrderFacts
  <2> QED
    BY <2>1, <2>2 DEF Current
<1>2. PICK p \in Pre(succ, Current) \cap Reachable(succ) :
          post_order_id[p] > post_order_id[Current]
  BY <1>1 DEF Ordered
<1>3. post_order_id[p] \in 0 .. Len(reverse_post_order) - 1
      /\ reverse_post_order[post_order_id[p] + 1] = p
  BY OrderFacts
<1>4. post_order_id[p] + 1 \in pos + 1 .. Len(reverse_post_order)
  BY <1>1, <1>2, <1>3
<1>5. p \in Placed
  BY <1>3, <1>4 DEF Behind
<1> QED
  BY <1>1, <1>2, <1>5

LEMMA StartIdomIter ==
    ASSUME TypeInv, IterInv, StartIdom PROVE IterInv'
<1>1. /\ pc = "dfs" /\ stack = <<>> /\ pc' = "round" /\ pos' = pos /\ succ' = succ
      /\ reverse_post_order' = reverse_post_order /\ post_order_id' = post_order_id
      /\ idom' = [b \in Maybe |-> IF b = Entry THEN Entry ELSE Null]
  BY DEF StartIdom, dfsVars
<1>2. Ordered'
  BY <1>1, SearchOrders, OrderedSame DEF IterInv
<1>3. TreeInv'
  <2>1. Entry \in Maybe /\ Null \in Maybe /\ Entry # Null /\ Block \subseteq Maybe
    BY CFGAssumption, DominatorsAssumption DEF Maybe
  <2>2. Placed' = {Entry}
    BY <1>1, <2>1, CFGAssumption DEF Placed
  <2>3. Entry \in Reachable(succ)
    BY ReachableType DEF TypeInv
  <2> QED
    BY <1>1, <2>1, <2>2, <2>3 DEF TreeInv
<1>4. RoundInv'
  BY <1>1, QuietSteps DEF RoundInv
<1> QED
  BY <1>1, <1>2, <1>3, <1>4 DEF IterInv

LEMMA StartRoundIter ==
    ASSUME TypeInv, IterInv, StartRound PROVE IterInv'
<1>1. /\ pc = "round" /\ pc' = "pick" /\ pos' = Len(reverse_post_order) /\ succ' = succ
      /\ reverse_post_order' = reverse_post_order /\ post_order_id' = post_order_id
      /\ idom' = idom /\ Len(reverse_post_order) \in Nat
  BY DEF StartRound, dfsVars, TypeInv
<1>2. Ordered' /\ TreeInv'
  BY <1>1, OrderedSame, TreeSame DEF IterInv
<1>3. RoundInv'
  BY <1>1 DEF RoundInv, Behind
<1> QED
  BY <1>1, <1>2, <1>3 DEF IterInv

LEMMA SkipRootIter ==
    ASSUME TypeInv, IterInv, SkipRoot PROVE IterInv'
<1>1. /\ pc = "pick" /\ pc' = "pick" /\ pos > 0 /\ pos' = pos - 1 /\ Current = Entry
      /\ succ' = succ /\ idom' = idom
      /\ reverse_post_order' = reverse_post_order /\ post_order_id' = post_order_id
      /\ changed' = changed /\ pos \in Nat
  BY DEF SkipRoot, dfsVars, TypeInv
<1>2. Ordered' /\ TreeInv'
  BY <1>1, OrderedSame, TreeSame DEF IterInv
<1>3. Behind'
  <2>1. Entry \in Placed
    BY <1>1, PlacedFacts DEF IterInv
  <2>2. reverse_post_order[pos] = Entry
    BY <1>1 DEF Current
  <2>3. Behind /\ (Quiet' <=> Quiet)
    BY <1>1, QuietSteps DEF IterInv, RoundInv
  <2>4. \A i \in pos .. Len(reverse_post_order) :
            reverse_post_order[i] \in Placed /\ (Quiet => Settled(reverse_post_order[i]))
    <3>1. \A i \in pos .. Len(reverse_post_order) :
              i = pos \/ i \in pos + 1 .. Len(reverse_post_order)
      BY <1>1
    <3>2. Settled(Entry)
      BY DEF Settled
    <3> QED
      BY <2>1, <2>2, <2>3, <3>1, <3>2 DEF Behind
  <2>5. pos' + 1 = pos
    BY <1>1
  <2> QED
    BY <1>1, <2>3, <2>4, <2>5, AboveSame, SettledSame DEF Behind
<1> QED
  BY <1>1, <1>2, <1>3 DEF IterInv, RoundInv

LEMMA EndRoundIter ==
    ASSUME TypeInv, IterInv, EndRound PROVE IterInv'
<1>1. /\ pc = "pick" /\ pc' = "round" /\ pos = 0 /\ pos' = pos
      /\ succ' = succ /\ idom' = idom
      /\ reverse_post_order' = reverse_post_order /\ post_order_id' = post_order_id
      /\ changed' = changed
  BY DEF EndRound, dfsVars, loopVars
<1>2. Ordered' /\ TreeInv'
  BY <1>1, OrderedSame, TreeSame DEF IterInv
<1>3. Behind'
  BY <1>1, BehindSame, QuietSteps DEF IterInv, RoundInv
<1> QED
  BY <1>1, <1>2, <1>3 DEF IterInv, RoundInv

\* The steps from here to SetIdom leave all but the walks alone.
LEMMA MeetingSame ==
    ASSUME TypeInv, IterInv, pc \in {"pick", "meet", "intersect"},
           pc' \in {"meet", "intersect"}, UNCHANGED <<succ, dfsVars, idom, changed, pos>>,
           MeetInv'
    PROVE  IterInv'
<1>1. /\ succ' = succ /\ idom' = idom /\ changed' = changed /\ pos' = pos
      /\ reverse_post_order' = reverse_post_order /\ post_order_id' = post_order_id
  BY DEF dfsVars
<1>2. Ordered' /\ TreeInv'
  BY <1>1, OrderedSame, TreeSame DEF IterInv
<1>3. Behind'
  BY <1>1, BehindSame, QuietSteps DEF IterInv, RoundInv
<1> QED
  BY <1>1, <1>2, <1>3 DEF IterInv, RoundInv

LEMMA CurrentSame ==
    ASSUME UNCHANGED <<succ, dfsVars, idom, pos>>
    PROVE  /\ Current' = Current /\ Placed' = Placed
           /\ \A p : Above(p)' = Above(p)
           /\ \A a : Candidate(a)' <=> Candidate(a)
           /\ Pre(succ, Current)' = Pre(succ, Current)
BY AboveSame DEF Current, Candidate, dfsVars

LEMMA PickPredIter ==
    ASSUME TypeInv, IterInv, NEW p \in Block, PickPred(p) PROVE IterInv'
<1>1. /\ pc = "pick" /\ pc' = "meet" /\ Current # Entry /\ p \in Pre(succ, Current)
      /\ idom[p] # Null /\ new_idom' = p /\ pos > 0
      /\ preds' = {<<q, Current>> : q \in Pre(succ, Current) \ {p}}
      /\ UNCHANGED <<succ, dfsVars, idom, changed, pos>>
  BY DEF PickPred
<1>2. p \in Placed
  BY <1>1 DEF Placed
<1>3. Candidate(p)
  BY <1>1, <1>2, DomPred DEF Candidate, TypeInv
<1>4. \A q \in Pre(succ, Current) : <<q, Current>> \in preds' \/ p \in Above(q)
  BY <1>1, AboveSelf
<1>5. MeetInv'
  BY <1>1, <1>3, <1>4, CurrentSame DEF MeetInv
<1> QED
  BY <1>1, <1>5, MeetingSame

LEMMA MeetPredIter ==
    ASSUME TypeInv, IterInv, NEW p \in Block, MeetPred(p) PROVE IterInv'
<1>1. /\ pc = "meet" /\ <<p, Current>> \in preds
      /\ preds' = preds \ {<<p, Current>>} /\ new_idom' = new_idom
      /\ UNCHANGED <<succ, dfsVars, idom, changed, pos>>
      /\ \/ idom[p] # Null /\ b1' = p /\ b2' = new_idom /\ pc' = "intersect"
         \/ idom[p] = Null /\ UNCHANGED <<b1, b2, pc>>
  BY DEF MeetPred
<1>2. MeetInv
  BY <1>1 DEF IterInv
<1>3. p \in Pre(succ, Current)
  BY <1>1 DEF IterInv, MeetInv
<1>4. CASE idom[p] = Null
  <2>1. p \notin Placed /\ pc' = "meet"
    BY <1>1, <1>4 DEF Placed
  <2>2. MeetInv'
    BY <1>1, <1>2, <2>1, CurrentSame DEF MeetInv
  <2> QED
    BY <1>1, <2>1, <2>2, MeetingSame
<1>5. CASE idom[p] # Null
  <2>1. p \in Placed /\ pc' = "intersect" /\ b1' = p /\ b2' = new_idom
    BY <1>1, <1>5 DEF Placed
  <2>2. Candidate(p)
    BY <1>3, <2>1, DomPred DEF Candidate, TypeInv
  <2>3. \A q \in Pre(succ, Current) \cap Placed :
            <<q, Current>> \in preds' \/ p \in Above(q) \/ new_idom \in Above(q)
    BY <1>1, <1>2, AboveSelf DEF MeetInv
  <2>4. MeetInv'
    BY <1>1, <1>2, <2>1, <2>2, <2>3, CurrentSame DEF MeetInv
  <2> QED
    BY <1>1, <2>1, <2>4, MeetingSame
<1> QED
  BY <1>4, <1>5

\* A walk goes up only where the dominators of Current are not left below.
LEMMA CandidateUp ==
    ASSUME TypeInv, Ordered, TreeInv, NEW a, NEW c, Candidate(a), Candidate(c),
           post_order_id[a] < post_order_id[c]
    PROVE  a # Entry /\ Candidate(idom[a])
<1>1. a \in Placed /\ c \in Placed /\ a \in Reachable(succ) /\ c \in Reachable(succ)
  BY DEF Candidate, TreeInv
<1>2. post_order_id[a] \in Nat /\ post_order_id[c] \in Nat
  BY <1>1, OrderFacts
<1>3. a # Entry
  <2>1. Entry \in Dom(succ, c)
    BY <1>1, EntryDom, PlacedFacts DEF TypeInv
  <2>2. post_order_id[Entry] >= post_order_id[c]
    BY <1>1, <2>1, DomHigher
  <2> QED
    BY <1>2, <2>2
<1>4. a \notin Dom(succ, c)
  BY <1>1, <1>2, DomHigher
<1>5. idom[a] \in Placed /\ Dom(succ, a) \ {a} \subseteq Dom(succ, idom[a])
  BY <1>1, <1>3 DEF TreeInv
<1> QED
  BY <1>3, <1>4, <1>5 DEF Candidate

LEMMA WalkUpIter ==
    ASSUME TypeInv, IterInv, WalkUp PROVE IterInv'
<1>1. /\ pc = "intersect" /\ pc' = "intersect" /\ preds' = preds /\ new_idom' = new_idom
      /\ UNCHANGED <<succ, dfsVars, idom, changed, pos>>
      /\ \/ /\ post_order_id[b1] < post_order_id[b2]
            /\ b1' = idom[b1] /\ b2' = b2
         \/ /\ post_order_id[b2] < post_order_id[b1]
            /\ b2' = idom[b2] /\ b1' = b1
  BY DEF WalkUp
<1>2. MeetInv /\ Ordered /\ TreeInv
  BY <1>1 DEF IterInv
<1>3. Candidate(b1) /\ Candidate(b2) /\ b1 \in Placed /\ b2 \in Placed
  BY <1>1, <1>2 DEF MeetInv, Candidate
<1>4. Candidate(b1') /\ Candidate(b2')
  BY <1>1, <1>2, <1>3, CandidateUp
<1>5. \A q \in Pre(succ, Current) \cap Placed :
          <<q, Current>> \in preds \/ b1' \in Above(q) \/ b2' \in Above(q)
  BY <1>1, <1>2, <1>3, AboveStep DEF MeetInv
<1>6. MeetInv'
  <2>1. Candidate(b1)' /\ Candidate(b2)'
    BY <1>1, <1>4, CurrentSame DEF Candidate
  <2> QED
    BY <1>1, <1>2, <1>5, <2>1, CurrentSame DEF MeetInv
<1> QED
  BY <1>1, <1>6, MeetingSame

LEMMA MetIter ==
    ASSUME TypeInv, IterInv, Met PROVE IterInv'
<1>1. /\ pc = "intersect" /\ pc' = "meet" /\ b1 = b2 /\ new_idom' = b1 /\ preds' = preds
      /\ UNCHANGED <<succ, dfsVars, idom, changed, pos>>
  BY DEF Met
<1>2. MeetInv
  BY <1>1 DEF IterInv
<1>3. MeetInv'
  BY <1>1, <1>2, CurrentSame DEF MeetInv
<1> QED
  BY <1>1, <1>3, MeetingSame

\* The walks met in a block of the tree above the current block.
LEMMA MetHigher ==
    ASSUME TypeInv, IterInv, SetIdom
    PROVE  /\ Current \in Reachable(succ) \ {Entry} /\ Candidate(new_idom)
           /\ post_order_id[new_idom] > post_order_id[Current]
           /\ \A q \in Pre(succ, Current) \cap Placed : new_idom \in Above(q)
<1>1. /\ pc = "meet" /\ preds = {} /\ pos > 0
  BY DEF SetIdom, TypeInv
<1>2. MeetInv /\ Ordered /\ TreeInv /\ Behind
  BY <1>1 DEF IterInv, RoundInv
<1>3. \A q \in Pre(succ, Current) \cap Placed : new_idom \in Above(q)
  BY <1>1, <1>2 DEF MeetInv
<1>4. PICK p \in Pre(succ, Current) \cap Placed : post_order_id[p] > post_order_id[Current]
  BY <1>1, <1>2, CurrentFacts DEF MeetInv
<1>5. Current \in Reachable(succ) /\ Current # Entry
  BY <1>1, <1>2, CurrentFacts DEF MeetInv
<1>6. new_idom \in Placed /\ post_order_id[new_idom] >= post_order_id[p]
  BY <1>2, <1>3, <1>4, AboveHigher
<1>7. /\ post_order_id[new_idom] \in Nat /\ post_order_id[p] \in Nat
      /\ post_order_id[Current] \in Nat
  BY <1>4, <1>5, <1>6, PlacedFacts, ReachableType, <1>2 DEF TypeInv
<1>8. Candidate(new_idom)
  BY <1>2 DEF MeetInv
<1> QED
  BY <1>3, <1>4, <1>5, <1>6, <1>7, <1>8

LEMMA SetIdomIter ==
    ASSUME TypeInv, IterInv, SetIdom PROVE IterInv'
<1>1. /\ pc = "meet" /\ pc' = "pick" /\ pos' = pos - 1 /\ pos \in Nat /\ pos > 0
      /\ succ' = succ /\ reverse_post_order' = reverse_post_order
      /\ post_order_id' = post_order_id
  BY DEF SetIdom, TypeInv, dfsVars
<1>2. Ordered /\ TreeInv /\ Behind
  BY <1>1 DEF IterInv, RoundInv
<1>3. Ordered'
  BY <1>1, <1>2, OrderedSame
<1>4. /\ Current \in Reachable(succ) \ {Entry} /\ Candidate(new_idom)
      /\ post_order_id[new_idom] > post_order_id[Current]
      /\ \A q \in Pre(succ, Current) \cap Placed : new_idom \in Above(q)
  BY MetHigher
<1>5. Current \in Block /\ Current = reverse_post_order[pos]
  BY <1>4, ReachableType DEF TypeInv, Current
<1>6. \A i \in pos' + 1 .. Len(reverse_post_order) :
          i = pos \/ i \in pos + 1 .. Len(reverse_post_order)
  BY <1>1 DEF TypeInv
<1>7. CASE idom' = idom /\ idom[Current] = new_idom /\ (Quiet' <=> Quiet)
  <2>1. TreeInv'
    BY <1>1, <1>2, <1>7, TreeSame
  <2>2. new_idom # Null
    BY <1>4, DominatorsAssumption DEF Candidate, Placed
  <2>3. Current \in Placed
    BY <1>5, <1>7, <2>2 DEF Placed
  <2>4. Settled(Current)
    BY <1>4, <1>7 DEF Settled
  <2>5. ASSUME NEW i \in pos' + 1 .. Len(reverse_post_order)
        PROVE  /\ reverse_post_order[i] \in Placed
               /\ Quiet => Settled(reverse_post_order[i])
    BY <1>2, <1>5, <1>6, <2>3, <2>4 DEF Behind
  <2>6. Behind'
    BY <1>1, <1>7, <2>5, AboveSame, SettledSame DEF Behind
  <2> QED
    BY <1>1, <1>3, <2>1, <2>6 DEF IterInv, RoundInv
<1>8. CASE idom' = [idom EXCEPT ![Current] = new_idom] /\ ~ Quiet'
  <2>1. idom \in [Maybe -> Maybe] /\ Current \in Maybe /\ Current # Null
    BY <1>5, DominatorsAssumption DEF TypeInv, Maybe
  <2>2. idom'[Current] = new_idom /\ \A b \in Maybe : b # Current => idom'[b] = idom[b]
    BY <1>8, <2>1
  <2>3. new_idom # Null /\ new_idom \in Placed
    BY <1>4, DominatorsAssumption DEF Candidate, Placed
  <2>4. Placed' = Placed \cup {Current}
    BY <1>5, <2>2, <2>3 DEF Placed, Maybe
  <2>5. idom'[Entry] = Entry /\ idom'[Null] = Null
    BY <1>2, <1>4, <2>1, <2>2, CFGAssumption DEF TreeInv, Maybe
  <2>6. ASSUME NEW b \in Placed', b # Entry
        PROVE  /\ idom'[b] \in Placed' /\ post_order_id[idom'[b]] > post_order_id[b]
               /\ Dom(succ, b) \ {b} \subseteq Dom(succ, idom'[b])
    <3>1. CASE b = Current
      BY <1>4, <2>2, <2>3, <2>4, <3>1 DEF Candidate
    <3>2. CASE b # Current
      <4>1. b \in Placed /\ idom'[b] = idom[b]
        BY <2>2, <2>4, <2>6, <3>2 DEF Placed, Maybe
      <4> QED
        BY <1>2, <2>4, <2>6, <4>1 DEF TreeInv
    <3> QED
      BY <3>1, <3>2
  <2>7. Placed' \subseteq Reachable(succ)
    BY <1>2, <1>4, <2>4 DEF TreeInv
  <2>8. TreeInv'
    BY <1>1, <2>5, <2>6, <2>7 DEF TreeInv
  <2>9. \A i \in pos' + 1 .. Len(reverse_post_order) : reverse_post_order[i] \in Placed'
    BY <1>2, <1>5, <1>6, <2>4 DEF Behind
  <2>10. Behind'
    BY <1>1, <1>8, <2>9 DEF Behind
  <2> QED
    BY <1>1, <1>3, <2>8, <2>10 DEF IterInv, RoundInv
<1> QED
  BY <1>7, <1>8, QuietSteps

\* After the iteration nothing it left is changed.
LEMMA LaterIter ==
    ASSUME TypeInv, IterInv, pc \in {"round", "frontier", "runner", "tree", "done"},
           pc' \in {"frontier", "runner", "tree", "done"},
           UNCHANGED <<succ, dfsVars, idom, changed, pos>>, Quiet
    PROVE  IterInv'
<1>1. /\ succ' = succ /\ idom' = idom /\ changed' = changed /\ pos' = pos
      /\ reverse_post_order' = reverse_post_order /\ post_order_id' = post_order_id
  BY DEF dfsVars
<1>2. Ordered' /\ TreeInv'
  BY <1>1, OrderedSame, TreeSame DEF IterInv
<1>3. Quiet'
  BY <1>1, QuietSteps
<1>4. Behind'
  BY <1>1, BehindSame, QuietSteps DEF IterInv, RoundInv
<1> QED
  BY <1>1, <1>2, <1>3, <1>4 DEF IterInv, RoundInv

LEMMA InitIter == Init => IterInv
BY InitSearchInv DEF Init, IterInv

LEMMA NextIter == TypeInv /\ IterInv /\ [Next]_vars => IterInv'
<1> SUFFICES ASSUME TypeInv, IterInv, [Next]_vars PROVE IterInv'
  OBVIOUS
<1>1. CASE VisitSuccessor
  <2>1. pc = "dfs" /\ pc' = "dfs" /\ pos' = pos /\ idom' = idom
    BY <1>1 DEF VisitSuccessor, loopVars
  <2>2. SearchInv
    BY <2>1 DEF IterInv
  <2>3. SearchInv'
    BY <1>1, <2>2, TurnSearchInv, DescendSearchInv
  <2> QED
    BY <2>1, <2>3 DEF IterInv
<1>2. CASE Leave
  <2>1. pc = "dfs" /\ pc' = "dfs" /\ pos' = pos /\ idom' = idom
    BY <1>2 DEF Leave, loopVars
  <2>2. SearchInv'
    BY <1>2, <2>1, LeaveSearchInv DEF IterInv
  <2> QED
    BY <2>1, <2>2 DEF IterInv
<1>3. CASE StartFrontier
  <2>1. Quiet /\ pc = "round" /\ pc' = "frontier"
        /\ UNCHANGED <<succ, dfsVars, idom, changed, pos>>
    BY <1>3, QuietSteps DEF StartFrontier
  <2> QED
    BY <2>1, LaterIter
<1>4. CASE StartRunner \/ RunnerStep \/ StartTree \/ create_dom_tree_succ
  <2>1. /\ pc \in {"frontier", "runner", "tree"}
        /\ pc' \in {"frontier", "runner", "tree", "done"}
        /\ UNCHANGED <<succ, dfsVars, idom, changed, pos>>
    BY <1>4 DEF StartRunner, RunnerStep, StartTree, create_dom_tree_succ, loopVars
  <2>2. Quiet
    BY <2>1 DEF IterInv, RoundInv
  <2> QED
    BY <2>1, <2>2, LaterIter
<1>5. CASE UNCHANGED vars
  <2>1. /\ UNCHANGED <<succ, pc, stack, visited, reverse_post_order, post_order_id, idom>>
        /\ UNCHANGED <<changed, pos, preds, new_idom, b1, b2>>
    BY <1>5 DEF vars, dfsVars, loopVars
  <2>2. Quiet' <=> Quiet
    BY <2>1, QuietSteps
  <2>3. SearchInv => SearchInv'
    <3>1. OnStack' = OnStack /\ Numbered' = Numbered
      BY <2>1 DEF OnStack, Numbered
    <3>2. /\ StackIsPath => StackIsPath'
          /\ VisitedSplit => VisitedSplit'
          /\ Numbers => Numbers'
          /\ RootLast => RootLast'
      BY <2>1, <3>1 DEF StackIsPath, VisitedSplit, Numbers, RootLast
    <3>3. /\ PassedVisited => PassedVisited'
          /\ ParentLater => ParentLater'
      BY <2>1, <3>1 DEF PassedVisited, ParentLater
    <3> QED
      BY <2>1, <3>2, <3>3 DEF SearchInv
  <2>4. pc # "dfs" => Ordered' /\ TreeInv' /\ RoundInv'
    BY <2>1, <2>2, OrderedSame, TreeSame, BehindSame DEF IterInv, RoundInv
  <2>5. pc \in {"meet", "intersect"} => MeetInv'
    BY <2>1, CurrentSame DEF IterInv, MeetInv, dfsVars
  <2> QED
    BY <2>1, <2>3, <2>4, <2>5 DEF IterInv
<1> QED
  BY <1>1, <1>2, <1>3, <1>4, <1>5, StartIdomIter, StartRoundIter, SkipRootIter,
     PickPredIter, MeetPredIter, WalkUpIter, MetIter, SetIdomIter, EndRoundIter
     DEF Next, Step, Finished

-----------------------------------------------------------------------------
(* Assertions and dominators kept                                          *)

IterationInv == TypeInv /\ IterInv

\* The invariants of the iteration hold throughout.
LEMMA IterationInvariant == Spec => []IterationInv
<1>1. Init => IterationInv
  BY InitTypeInv, InitIter DEF IterationInv
<1>2. IterationInv /\ [Next]_vars => IterationInv'
  BY NextTypeInv, NextIter DEF IterationInv
<1> QED
  BY <1>1, <1>2, PTL DEF Spec

\* None of the assertions of create_idom and intersect fails, on any graph: a
\* block whose turn it is has a predecessor with an idom, the two walks never
\* leave the tree, and idoms have higher numbers than their blocks.
THEOREM DominatorsAssertionsHold == Spec => []AssertionsHold
<1>1. IterationInv => AssertionsHold
  <2> SUFFICES ASSUME IterationInv PROVE AssertionsHold
    OBVIOUS
  <2>1. TypeInv /\ IterInv
    BY DEF IterationInv
  <2>2. IdomHigher
    <3>1. CASE pc = "dfs"
      BY <2>1, <3>1 DEF IterInv, IdomHigher, Maybe
    <3>2. CASE pc # "dfs"
      BY <2>1, <3>2, PlacedFacts DEF IterInv, IdomHigher, TreeInv, Placed
    <3> QED
      BY <3>1, <3>2
  <2>3. ASSUME pc = "pick", pos > 0, Current # Entry
        PROVE  \E p \in Pre(succ, Current) : idom[p] # Null
    <3>1. Ordered /\ Behind
      BY <2>1, <2>3 DEF IterInv, RoundInv
    <3> QED
      BY <2>1, <2>3, <3>1, CurrentFacts DEF Placed
  <2>4. ASSUME pc = "intersect", b1 # b2
        PROVE  IF post_order_id[b1] < post_order_id[b2]
               THEN idom[b1] # Null
               ELSE post_order_id[b2] < post_order_id[b1] /\ idom[b2] # Null
    <3>1. Ordered /\ TreeInv /\ MeetInv
      BY <2>1, <2>4 DEF IterInv
    <3>2. b1 \in Placed /\ b2 \in Placed
      BY <2>4, <3>1 DEF MeetInv, Candidate
    <3>3. b1 \in Reachable(succ) /\ b2 \in Reachable(succ)
      BY <3>1, <3>2 DEF TreeInv
    <3>4. post_order_id[b1] # post_order_id[b2]
      BY <2>1, <2>4, <3>1, <3>3, NumberInjective
    <3>5. post_order_id[b1] \in Nat /\ post_order_id[b2] \in Nat
      BY <2>1, <3>2 DEF Placed, TypeInv
    <3> QED
      BY <3>2, <3>4, <3>5 DEF Placed
  <2> QED
    BY <2>2, <2>3, <2>4 DEF AssertionsHold
<1> QED
  BY <1>1, IterationInvariant, PTL

\* up[n] is the first n steps of the walk from b.
WalkOf(up, b) ==
    /\ up \in [Nat -> SUBSET Placed]
    /\ up[0] = {b}
    /\ \A n \in Nat : up[n + 1] = up[n] \cup {idom[a] : a \in up[n]}

\* Ancestors, the walk up of as many steps as there are blocks, exists.
LEMMA WalkExists ==
    ASSUME TypeInv, TreeInv, NEW b \in Placed
    PROVE  \E up : WalkOf(up, b) /\ Ancestors(b) = up[Cardinality(Block)]
<1> DEFINE Up(A) == A \cup {idom[a] : a \in A}
           step == [x \in Nat \X SUBSET Placed |-> Up(x[2])]
           IsWalk(up) == up = [n \in Nat |-> IF n = 0 THEN {b} ELSE Up(up[n - 1])]
           walk == CHOOSE up : IsWalk(up)
<1>1. {b} \in SUBSET Placed
  OBVIOUS
<1>2. \A A \in SUBSET Placed : Up(A) \in SUBSET Placed
  BY PlacedFacts
<1>3. step \in [Nat \X SUBSET Placed -> SUBSET Placed]
  BY <1>2
<1>4. PICK f : Iterates(f, SUBSET Placed, {b}, step)
  <2> HIDE DEF step
  <2> QED
    BY <1>1, <1>3, Iteration, Zenon
<1>5. f[0] = {b} /\ (\A n \in Nat : f[n + 1] = Up(f[n])) /\ f \in [Nat -> SUBSET Placed]
  BY <1>4 DEF Iterates
<1>6. IsWalk(f)
  <2> HIDE DEF Up
  <2>1. ASSUME NEW n \in Nat, n # 0 PROVE f[n] = Up(f[n - 1])
    <3>1. n - 1 \in Nat /\ (n - 1) + 1 = n
      BY <2>1
    <3> QED
      BY <1>5, <3>1
  <2> QED
    BY <1>5, <2>1
<1>7. IsWalk(walk)
  <2>1. \E up : IsWalk(up)
    BY <1>6
  <2> HIDE DEF IsWalk
  <2> QED
    BY <2>1, Zenon
<1> HIDE DEF Up
<1>8. walk[0] = {b}
  <2> HIDE DEF walk
  <2> QED
    BY <1>7
<1>9. ASSUME NEW n \in Nat PROVE walk[n + 1] = Up(walk[n])
  <2> HIDE DEF walk
  <2>1. n + 1 \in Nat /\ n + 1 # 0 /\ (n + 1) - 1 = n
    OBVIOUS
  <2> QED
    BY <1>7, <2>1
<1>10. walk \in [Nat -> SUBSET Placed]
  <2> DEFINE Fine == {n \in Nat : walk[n] \in SUBSET Placed}
  <2>1. 0 \in Fine
    BY <1>1, <1>8
  <2>2. ASSUME NEW n \in Nat, n \in Fine PROVE n + 1 \in Fine
    <3> HIDE DEF walk
    <3> QED
      BY <1>2, <1>9, <2>2
  <2>3. Nat \subseteq Fine
    <3> HIDE DEF Fine
    <3> QED
      BY <2>1, <2>2, SetInduction
  <2>4. walk = [n \in Nat |-> walk[n]]
    <3> HIDE DEF walk
    <3> QED
      BY <1>7
  <2> HIDE DEF walk
  <2> QED
    BY <2>3, <2>4
<1>11. Ancestors(b) = walk[Cardinality(Block)]
  BY DEF Ancestors, Up
<1>12. WalkOf(walk, b)
  <2> HIDE DEF walk
  <2> QED
    BY <1>8, <1>9, <1>10 DEF WalkOf, Up
<1> QED
  BY <1>11, <1>12

\* The walk is over after as many steps as there are blocks.
LEMMA AncestorsClosed ==
    ASSUME TypeInv, TreeInv, NEW b \in Placed
    PROVE  /\ b \in Ancestors(b) /\ Ancestors(b) \subseteq Placed
           /\ \A a \in Ancestors(b) : idom[a] \in Ancestors(b)
<1>1. PICK up : WalkOf(up, b) /\ Ancestors(b) = up[Cardinality(Block)]
  BY WalkExists
<1> DEFINE F == [A \in SUBSET Block |-> A \cup {idom[a] : a \in A \cap Placed}]
           Start == {n \in Nat : b \in up[n]}
<1>2. \A a \in Placed : a \in Block /\ idom[a] \in Block
  BY PlacedFacts
<1>3. Cardinality(Block) \in Nat
  BY CFGAssumption, FS_CardinalityType
<1>4. F \in [SUBSET Block -> SUBSET Block] /\ \A A \in SUBSET Block : A \subseteq F[A]
  BY <1>2
<1>5. ASSUME NEW n \in Nat
      PROVE  up[n] \in SUBSET Placed /\ up[n] \in SUBSET Block /\ up[n + 1] = F[up[n]]
  <2>1. up[n] \in SUBSET Placed /\ up[n] \in SUBSET Block
    BY <1>1, <1>2 DEF WalkOf
  <2>2. up[n] \cap Placed = up[n]
    BY <2>1
  <2>3. F[up[n]] = up[n] \cup {idom[a] : a \in up[n] \cap Placed}
    BY <2>1
  <2> QED
    BY <1>1, <2>1, <2>2, <2>3 DEF WalkOf
<1>6. up \in [Nat -> SUBSET Block]
  BY <1>1, <1>5 DEF WalkOf
<1>7. F[up[Cardinality(Block)]] = up[Cardinality(Block)]
  <2>1. IsFiniteSet(Block) /\ \A n \in Nat : up[n + 1] = F[up[n]]
    BY <1>5, CFGAssumption
  <2> HIDE DEF F
  <2> QED
    BY ONLY <1>4, <1>6, <2>1, Saturates
<1>8. Nat \subseteq Start
  <2>1. 0 \in Start
    BY <1>1 DEF WalkOf
  <2>2. ASSUME NEW n \in Nat, n \in Start PROVE n + 1 \in Start
    BY <1>1, <2>2 DEF WalkOf
  <2> HIDE DEF Start
  <2> QED
    BY <2>1, <2>2, SetInduction
<1>9. b \in Ancestors(b)
  BY <1>1, <1>3, <1>8
<1> HIDE DEF F
<1>10. Ancestors(b) \subseteq Placed /\ F[Ancestors(b)] = Ancestors(b)
  BY <1>1, <1>3, <1>5, <1>7
<1>11. \A a \in Ancestors(b) : idom[a] \in F[Ancestors(b)]
  BY <1>2, <1>10 DEF F
<1> QED
  BY <1>9, <1>10, <1>11

\* The iteration starts out optimistic and gives dominators up, never the other
\* way: between two blocks of a round, a block with an idom has all its
\* dominators among its ancestors.
THEOREM DominatorsNoneLost == Spec => []NoDominatorLost
<1>1. IterationInv => NoDominatorLost
  <2> SUFFICES ASSUME IterationInv, pc = "pick", NEW b \in Block, idom[b] # Null
               PROVE  Dom(succ, b) \subseteq Ancestors(b)
    BY DEF NoDominatorLost
  <2>1. TypeInv /\ Ordered /\ TreeInv /\ b \in Placed
    BY DEF IterationInv, IterInv, Placed
  <2>2. Dom(succ, b) \subseteq Above(b)
    BY <2>1, DomAbove
  <2>3. Above(b) \subseteq Ancestors(b)
    <3>1. b \in Ancestors(b) /\ Ancestors(b) \subseteq Block
          /\ \A a \in Ancestors(b) : idom[a] \in Ancestors(b)
      BY <2>1, AncestorsClosed, PlacedFacts
    <3> QED
      BY <3>1, AboveLeast
  <2> QED
    BY <2>2, <2>3
<1> QED
  BY <1>1, IterationInvariant, PTL

-----------------------------------------------------------------------------
(* The result of the iteration                                             *)

\* Where every idom agrees with those of the predecessors, what lies above a block
\* is on all paths to it.
LEMMA SettledDom ==
    ASSUME TypeInv, Ordered, TreeInv, Reachable(succ) \subseteq Placed,
           \A x \in Reachable(succ) : Settled(x),
           NEW b \in Reachable(succ), NEW a \in Above(b)
    PROVE  a \in Dom(succ, b)
<1> DEFINE S == {x \in Reachable(succ) : a \in Above(x)}
<1>1. a \in Block /\ WellFormedCFG(succ)
  BY DEF Above, TypeInv
<1>2. a # Entry => Entry \notin S
  BY AboveEntry
<1>3. ASSUME NEW x \in S, x # a, NEW p \in Pre(succ, x) \cap Reachable(succ)
      PROVE  p \in S
  <2>1. x \in Placed /\ p \in Placed
    BY <1>3
  <2>2. a \in Above(idom[x])
    BY <1>3, <2>1, AboveIdom
  <2>3. x # Entry
    BY <1>1, <1>3, PreType
  <2>4. idom[x] \in Above(p)
    BY <1>3, <2>1, <2>3 DEF Settled
  <2>5. a \in Above(p)
    BY <2>2, <2>4, AboveTransitive
  <2> QED
    BY <1>3, <2>5
<1>4. \A x \in S : a \in Dom(succ, x)
  <2>1. \A x \in S \ {a} : Pre(succ, x) \cap Reachable(succ) \subseteq S
    BY <1>3
  <2> HIDE DEF S
  <2> QED
    BY <1>1, <1>2, <2>1, DomOfRegion
<1> QED
  BY <1>4

\* Then idom_ is immediate dominance.
LEMMA SettledIdom ==
    ASSUME TypeInv, Ordered, TreeInv, Behind, pos = 0, Quiet
    PROVE  /\ Placed = Reachable(succ)
           /\ \A b \in Reachable(succ) \ {Entry} :
                 /\ idom[b] \in Reachable(succ) /\ idom[b] = IDom(succ, b)
                 /\ Dom(succ, b) \ {b} = Dom(succ, idom[b])
           /\ \A b \in Block \ Reachable(succ) : idom[b] = Null
<1>1. Reachable(succ) \subseteq Placed /\ \A b \in Reachable(succ) : Settled(b)
  BY BehindAll
<1>2. Placed = Reachable(succ) /\ WellFormedCFG(succ)
  BY <1>1 DEF TreeInv, TypeInv
<1>3. ASSUME NEW b \in Reachable(succ), b # Entry
      PROVE  /\ idom[b] \in Reachable(succ) /\ idom[b] = IDom(succ, b)
             /\ Dom(succ, b) \ {b} = Dom(succ, idom[b])
  <2>1. /\ idom[b] \in Placed /\ post_order_id[idom[b]] > post_order_id[b]
        /\ Dom(succ, b) \ {b} \subseteq Dom(succ, idom[b])
    BY <1>2, <1>3 DEF TreeInv
  <2>2. idom[b] \in Above(b)
    BY <1>2, AboveSelf, AboveStep, PlacedFacts
  <2>3. idom[b] \in Dom(succ, b)
    BY <1>1, <2>2, SettledDom
  <2>4. Dom(succ, idom[b]) \subseteq Dom(succ, b)
    BY <1>2, <2>3, DomTransitive
  <2>5. b \notin Dom(succ, idom[b])
    <3>1. post_order_id[idom[b]] \in Nat /\ post_order_id[b] \in Nat
      BY <1>2, <2>1, PlacedFacts DEF TypeInv
    <3> QED
      BY <2>1, <3>1, DomHigher
  <2>6. Dom(succ, b) \ {b} = Dom(succ, idom[b])
    BY <2>1, <2>4, <2>5
  <2> QED
    BY <1>2, <1>3, <2>1, <2>6, IDomUnique, PlacedFacts
<1>4. \A b \in Block \ Reachable(succ) : idom[b] = Null
  BY <1>2 DEF Placed
<1> QED
  BY <1>2, <1>3, <1>4

\* Once the iteration is over.
LEMMA IterationOver ==
    ASSUME IterationInv, pc \in {"frontier", "runner", "tree", "done"} \/ (pc = "round" /\ Quiet)
    PROVE  /\ TypeInv /\ Ordered /\ TreeInv /\ Behind /\ pos = 0 /\ Quiet
BY DEF IterationInv, IterInv, RoundInv

\* When the iteration ends, idom_ is immediate dominance as it is defined: the
\* strict dominator that all the others dominate, and nullptr for the blocks that
\* cannot be reached.
THEOREM DominatorsIdomExact == Spec => []IdomExact
<1>1. IterationInv => IdomExact
  <2> SUFFICES ASSUME IterationInv, pc \in {"frontier", "done"}, NEW b \in Block, b # Entry
               PROVE  idom[b] = IF b \in Reachable(succ) THEN IDom(succ, b) ELSE Null
    BY DEF IdomExact
  <2>1. TypeInv /\ Ordered /\ TreeInv /\ Behind /\ pos = 0 /\ Quiet
    BY IterationOver
  <2> QED
    BY <2>1, SettledIdom
<1> QED
  BY <1>1, IterationInvariant, PTL

-----------------------------------------------------------------------------
(* Frontiers and children                                                  *)

\* A block in whose predecessors a dominance ends has two of them or more: the
\* test of create_dominance_frontier skips no block of a frontier.
LEMMA FrontierJoins ==
    ASSUME TypeInv, Ordered, TreeInv, Placed = Reachable(succ),
           NEW a \in Reachable(succ), NEW b \in Frontier(succ, a)
    PROVE  Cardinality(Pre(succ, b)) >= 2
<1> SUFFICES ASSUME ~ (Cardinality(Pre(succ, b)) >= 2) PROVE FALSE
  OBVIOUS
<1>1. WellFormedCFG(succ) /\ b \in Reachable(succ) /\ ~ (a # b /\ a \in Dom(succ, b))
  BY DEF TypeInv, Frontier
<1>2. PICK p \in Pre(succ, b) \cap Reachable(succ) : a \in Dom(succ, p)
  BY DEF Frontier
<1>3. b \in Block \ {Entry}
  BY <1>1, <1>2, PreType
<1>4. Pre(succ, b) = {p}
  <2>1. IsFiniteSet(Pre(succ, b))
    BY CFGAssumption, FS_Subset DEF Pre
  <2>2. Cardinality(Pre(succ, b)) \in Nat /\ Cardinality(Pre(succ, b)) # 0
    BY <1>2, <2>1, FS_CardinalityType, FS_EmptySet
  <2>3. Cardinality(Pre(succ, b)) = 1
    BY <2>2
  <2> QED
    BY <1>2, <2>1, <2>3, FS_Singleton
<1>5. post_order_id[p] > post_order_id[b]
  BY <1>1, <1>3, <1>4 DEF Ordered
<1>6. CASE a # b
  BY <1>1, <1>2, <1>3, <1>4, <1>6, DomOnlyPred
<1>7. CASE a = b
  <2>1. post_order_id[b] >= post_order_id[p]
    BY <1>2, <1>7, DomHigher
  <2>2. post_order_id[p] \in Nat /\ post_order_id[b] \in Nat
    BY <1>2, <1>3, ReachableType, <1>1 DEF TypeInv
  <2> QED
    BY <1>5, <2>1, <2>2
<1> QED
  BY <1>6, <1>7

LEMMA StartFrontierResult ==
    ASSUME IterationInv, ResultInv, StartFrontier PROVE ResultInv'
<1>1. /\ pc = "round" /\ pc' = "frontier" /\ succ' = succ /\ dom_frontier' = dom_frontier
      /\ preds' = {e \in Block \X Block :
                     e[1] \in Pre(succ, e[2]) /\ Cardinality(Pre(succ, e[2])) >= 2}
  BY DEF StartFrontier
<1>2. TypeInv /\ Ordered /\ TreeInv /\ Placed = Reachable(succ)
  BY <1>1, QuietSteps, IterationOver, SettledIdom
<1>3. dom_frontier = [b \in Maybe |-> {}] /\ Reachable(succ) \subseteq Maybe
  BY <1>1, <1>2, ReachableType DEF ResultInv, Maybe, TypeInv
<1>4. ASSUME NEW a \in Reachable(succ), NEW b \in Frontier(succ, a)
      PROVE  \E p \in Pre(succ, b) \cap Reachable(succ) :
                a \in Dom(succ, p) /\ <<p, b>> \in preds'
  <2>1. PICK p \in Pre(succ, b) \cap Reachable(succ) : a \in Dom(succ, p)
    BY DEF Frontier
  <2>2. p \in Block /\ b \in Block
    BY <1>2, <2>1, PreType DEF TypeInv
  <2>3. Cardinality(Pre(succ, b)) >= 2
    BY <1>2, FrontierJoins
  <2>4. <<p, b>> \in preds'
    BY <1>1, <2>1, <2>2, <2>3
  <2> QED
    BY <2>1, <2>4
<1>5. FrontierInv'
  BY <1>1, <1>3, <1>4 DEF FrontierInv
<1> QED
  BY <1>1, <1>5 DEF ResultInv

LEMMA StartRunnerResult ==
    ASSUME IterationInv, ResultInv, StartRunner PROVE ResultInv'
<1> DEFINE e == CHOOSE e \in preds : TRUE
<1>1. /\ pc = "frontier" /\ pc' = "runner" /\ succ' = succ /\ dom_frontier' = dom_frontier
      /\ idom' = idom /\ preds # {}
      /\ b1' = e[1] /\ b2' = e[2] /\ preds' = preds \ {e}
  BY DEF StartRunner
<1>2. e \in preds
  BY <1>1
<1> HIDE DEF e
<1>3. /\ TypeInv /\ WellFormedCFG(succ)
      /\ \A b \in Reachable(succ) \ {Entry} :
            idom[b] \in Reachable(succ) /\ Dom(succ, b) \ {b} = Dom(succ, idom[b])
  BY <1>1, IterationOver, SettledIdom DEF TypeInv
<1>4. e = <<e[1], e[2]>> /\ e[1] \in Pre(succ, e[2])
  BY <1>1, <1>2, <1>3 DEF ResultInv, TypeInv
<1>5. FrontierInv /\ \A f \in preds : f[1] \in Pre(succ, f[2])
  BY <1>1 DEF ResultInv
<1>6. ASSUME NEW a \in Reachable(succ), NEW b \in Frontier(succ, a), b \notin dom_frontier[a]
      PROVE  \/ \E p \in Pre(succ, b) \cap Reachable(succ) :
                   a \in Dom(succ, p) /\ <<p, b>> \in preds'
             \/ b = b2' /\ b1' \in Reachable(succ) /\ a \in Dom(succ, b1')
  <2>1. PICK p \in Pre(succ, b) \cap Reachable(succ) :
            a \in Dom(succ, p) /\ <<p, b>> \in preds
    BY <1>1, <1>5, <1>6 DEF FrontierInv
  <2>2. CASE <<p, b>> = e
    BY <1>1, <2>1, <2>2
  <2>3. CASE <<p, b>> # e
    BY <1>1, <2>1, <2>3
  <2> QED
    BY <2>2, <2>3
<1>7. FrontierInv'
  BY <1>1, <1>5, <1>6 DEF FrontierInv
<1>8. RunnerInv'
  <2>1. SUFFICES ASSUME e[1] \in Reachable(succ)
                 PROVE  /\ e[2] \in Reachable(succ) \ {Entry}
                        /\ idom[e[2]] \in Dom(succ, e[1])
                        /\ \E p \in Pre(succ, e[2]) \cap Reachable(succ) : e[1] \in Dom(succ, p)
    BY <1>1 DEF RunnerInv
  <2>2. e[2] \in Reachable(succ) \ {Entry} /\ e[1] \in Block
    BY <1>3, <1>4, <2>1, PreType, ReachableStep
  <2>3. idom[e[2]] \in Dom(succ, e[2]) \ {e[2]}
    <3>1. idom[e[2]] \in Block
      BY <1>3, <2>2, ReachableType
    <3> QED
      BY <1>3, <2>2, <3>1, DomSelf
  <2>4. idom[e[2]] \in Dom(succ, e[1])
    BY <1>3, <1>4, <2>3, DomPred
  <2>5. e[1] \in Dom(succ, e[1])
    BY <1>3, <2>2, DomSelf
  <2> QED
    BY <1>4, <2>1, <2>2, <2>4, <2>5
<1> QED
  BY <1>1, <1>5, <1>7, <1>8 DEF ResultInv

LEMMA RunnerStepResult ==
    ASSUME IterationInv, ResultInv, RunnerStep PROVE ResultInv'
<1>1. /\ pc = "runner" /\ succ' = succ /\ idom' = idom /\ preds' = preds /\ b2' = b2
      /\ \/ /\ b1 = idom[b2] /\ pc' = "frontier" /\ dom_frontier' = dom_frontier /\ b1' = b1
         \/ /\ b1 # idom[b2] /\ pc' = pc /\ b1' = idom[b1]
            /\ dom_frontier' = [dom_frontier EXCEPT ![b1] = @ \cup {b2}]
  BY DEF RunnerStep, RunnerStop
<1>2. /\ TypeInv /\ TreeInv /\ WellFormedCFG(succ)
      /\ \A b \in Reachable(succ) \ {Entry} :
            idom[b] \in Reachable(succ) /\ Dom(succ, b) \ {b} = Dom(succ, idom[b])
      /\ \A b \in Block \ Reachable(succ) : idom[b] = Null
  BY <1>1, IterationOver, SettledIdom DEF TypeInv
<1>3. FrontierInv /\ RunnerInv /\ \A f \in preds : f[1] \in Pre(succ, f[2])
  BY <1>1 DEF ResultInv
<1>4. dom_frontier \in [Maybe -> SUBSET Block] /\ b1 \in Maybe /\ b2 \in Block
  BY <1>1, <1>2 DEF TypeInv
<1>5. Reachable(succ) \subseteq Block /\ Reachable(succ) \subseteq Maybe /\ Null \notin Reachable(succ)
  BY <1>2, ReachableType, DominatorsAssumption DEF Maybe
<1>6. CASE b1 = idom[b2]
  <2>1. pc' = "frontier" /\ dom_frontier' = dom_frontier
    BY <1>1, <1>6
  <2>2. ASSUME NEW a \in Reachable(succ), NEW b \in Frontier(succ, a), b = b2,
               b1 \in Reachable(succ), a \in Dom(succ, b1)
        PROVE  FALSE
    <3>1. b2 \in Reachable(succ) \ {Entry}
      BY <1>3, <2>2 DEF RunnerInv
    <3>2. a \in Dom(succ, b2) \ {b2}
      BY <1>2, <1>6, <2>2, <3>1
    <3> QED
      BY <2>2, <3>2 DEF Frontier
  <2>3. FrontierInv'
    BY <1>1, <1>3, <2>1, <2>2 DEF FrontierInv
  <2> QED
    BY <1>1, <1>3, <2>1, <2>3 DEF ResultInv
<1>7. CASE b1 # idom[b2] /\ b1 \notin Reachable(succ)
  <2>1. pc' = "runner" /\ b1' = idom[b1]
        /\ dom_frontier' = [dom_frontier EXCEPT ![b1] = @ \cup {b2}]
    BY <1>1, <1>7
  <2>2. b1' = Null
    BY <1>2, <1>4, <1>7, <2>1 DEF Maybe, TreeInv
  <2>3. \A a \in Reachable(succ) : dom_frontier'[a] = dom_frontier[a]
    BY <1>4, <1>5, <1>7, <2>1
  <2>4. FrontierInv'
    BY <1>1, <1>3, <1>7, <2>3 DEF FrontierInv
  <2>5. RunnerInv'
    BY <1>1, <1>5, <2>2 DEF RunnerInv
  <2> QED
    BY <1>1, <1>3, <2>1, <2>4, <2>5 DEF ResultInv
<1>8. CASE b1 # idom[b2] /\ b1 \in Reachable(succ)
  <2>1. pc' = "runner" /\ b1' = idom[b1]
        /\ dom_frontier' = [dom_frontier EXCEPT ![b1] = @ \cup {b2}]
    BY <1>1, <1>8
  <2>2. b2 \in Reachable(succ) \ {Entry} /\ idom[b2] \in Dom(succ, b1)
    BY <1>3, <1>8 DEF RunnerInv
  <2>3. PICK p \in Pre(succ, b2) \cap Reachable(succ) : b1 \in Dom(succ, p)
    BY <1>3, <1>8 DEF RunnerInv
  <2>4. b1 # Entry
    <3>1. b1 = Entry => idom[b2] = Entry
      BY <1>2, <2>2, DomEntry
    <3> QED
      BY <1>8, <3>1
  <2>5. idom[b1] \in Reachable(succ) /\ Dom(succ, b1) \ {b1} = Dom(succ, idom[b1])
    BY <1>2, <1>8, <2>4
  <2>6. b1 \notin Dom(succ, b2) \ {b2}
    <3>1. SUFFICES ASSUME b1 \in Dom(succ, idom[b2]) PROVE FALSE
      BY <1>2, <2>2
    <3> QED
      BY <1>2, <1>8, <2>2, <3>1, DomAntisymmetric
  <2>7. b2 \in Frontier(succ, b1)
    BY <2>2, <2>3, <2>6 DEF Frontier
  <2>8. /\ dom_frontier'[b1] = dom_frontier[b1] \cup {b2}
        /\ \A a \in Reachable(succ) : a # b1 => dom_frontier'[a] = dom_frontier[a]
    BY <1>4, <1>5, <2>1
  <2>9. \A a \in Reachable(succ) : dom_frontier'[a] \subseteq Frontier(succ, a)
    BY <1>3, <2>7, <2>8 DEF FrontierInv
  <2>10. ASSUME NEW a \in Reachable(succ), NEW b \in Frontier(succ, a), b \notin dom_frontier'[a]
         PROVE  \/ \E q \in Pre(succ, b) \cap Reachable(succ) :
                      a \in Dom(succ, q) /\ <<q, b>> \in preds
                \/ b = b2 /\ idom[b1] \in Reachable(succ) /\ a \in Dom(succ, idom[b1])
    <3>1. b \notin dom_frontier[a]
      BY <2>8, <2>10
    <3>2. CASE b = b2 /\ a \in Dom(succ, b1)
      <4>1. a # b1
        BY <2>8, <2>10, <3>2
      <4> QED
        BY <2>5, <3>2, <4>1
    <3> QED
      BY <1>3, <2>10, <3>1, <3>2 DEF FrontierInv
  <2>11. FrontierInv'
    BY <1>1, <2>1, <2>9, <2>10 DEF FrontierInv
  <2>12. RunnerInv'
    <3>1. idom[b2] \in Dom(succ, idom[b1])
      BY <1>8, <2>2, <2>5
    <3>2. idom[b1] \in Dom(succ, b1)
      BY <1>2, <1>5, <2>5, DomSelf
    <3>3. idom[b1] \in Dom(succ, p)
      BY <1>2, <2>3, <3>2, DomTransitive
    <3> QED
      BY <1>1, <2>1, <2>2, <2>3, <3>1, <3>3 DEF RunnerInv
  <2> QED
    BY <1>1, <1>3, <2>1, <2>11, <2>12 DEF ResultInv
<1> QED
  BY <1>6, <1>7, <1>8

LEMMA NextResult == IterationInv /\ ResultInv /\ [Next]_vars => ResultInv'
<1> SUFFICES ASSUME IterationInv, ResultInv, [Next]_vars PROVE ResultInv'
  OBVIOUS
<1>1. CASE VisitSuccessor \/ Leave \/ StartIdom \/ StartRound \/ SkipRoot \/ EndRound
  <2>1. /\ pc \in {"dfs", "round", "pick", "meet", "intersect"}
        /\ pc' \in {"dfs", "round", "pick", "meet", "intersect"}
        /\ dom_frontier' = dom_frontier
    BY <1>1 DEF VisitSuccessor, Leave, StartIdom, StartRound, SkipRoot, EndRound
  <2> QED
    BY <2>1 DEF ResultInv
<1>2. ASSUME NEW p \in Block, PickPred(p) \/ MeetPred(p) PROVE ResultInv'
  <2>1. /\ pc \in {"dfs", "round", "pick", "meet", "intersect"}
        /\ pc' \in {"dfs", "round", "pick", "meet", "intersect"}
        /\ dom_frontier' = dom_frontier
    BY <1>2 DEF PickPred, MeetPred
  <2> QED
    BY <2>1 DEF ResultInv
<1>3. CASE WalkUp \/ Met \/ SetIdom
  <2>1. /\ pc \in {"dfs", "round", "pick", "meet", "intersect"}
        /\ pc' \in {"dfs", "round", "pick", "meet", "intersect"}
        /\ dom_frontier' = dom_frontier
    BY <1>3 DEF WalkUp, Met, SetIdom
  <2> QED
    BY <2>1 DEF ResultInv
<1>4. CASE StartTree
  <2>1. /\ pc = "frontier" /\ pc' = "tree" /\ preds = {} /\ preds' = {} /\ succ' = succ
        /\ dom_frontier' = dom_frontier
    BY <1>4 DEF StartTree, loopVars
  <2> QED
    BY <2>1 DEF ResultInv, FrontierInv
<1>5. CASE create_dom_tree_succ
  <2>1. /\ pc = "tree" /\ pc' = "done" /\ preds' = preds /\ succ' = succ
        /\ dom_frontier' = dom_frontier /\ idom' = idom
        /\ dom_tree_succ_blocks' =
               [a \in Maybe |-> {b \in Block : idom[b] = a /\ idom[b] # b}]
    BY <1>5 DEF create_dom_tree_succ, loopVars
  <2>2. FrontierInv'
    BY <2>1 DEF ResultInv, FrontierInv
  <2> QED
    BY <2>1, <2>2 DEF ResultInv
<1>6. CASE UNCHANGED vars
  <2>1. UNCHANGED <<succ, pc, idom, dom_frontier, dom_tree_succ_blocks, preds, b1, b2>>
    BY <1>6 DEF vars, loopVars
  <2>2. (FrontierInv => FrontierInv') /\ (RunnerInv => RunnerInv')
    BY <2>1 DEF FrontierInv, RunnerInv
  <2> QED
    BY <2>1, <2>2 DEF ResultInv
<1> QED
  BY <1>1, <1>2, <1>3, <1>4, <1>5, <1>6, StartFrontierResult, StartRunnerResult,
     RunnerStepResult DEF Next, Step, Finished

\* When run returns, dom_frontier_ and dom_tree_succ_blocks_ of every block that
\* can be reached are the dominance frontier and the children in the tree of
\* immediate dominance, by their definitions.
THEOREM DominatorsResultExact == Spec => []FrontierAndTreeExact
<1>1. Init => IterationInv /\ ResultInv
  BY InitTypeInv, InitIter DEF Init, IterationInv, ResultInv
<1>2. IterationInv /\ ResultInv /\ [Next]_vars => IterationInv' /\ ResultInv'
  BY NextTypeInv, NextIter, NextResult DEF IterationInv
<1>3. IterationInv /\ ResultInv => FrontierAndTreeExact
  <2> SUFFICES ASSUME IterationInv, ResultInv, pc = "done", NEW a \in Reachable(succ)
               PROVE  /\ dom_frontier[a] = Frontier(succ, a)
                      /\ dom_tree_succ_blocks[a] =
                            {b \in Reachable(succ) \ {Entry} : IDom(succ, b) = a}
    BY DEF FrontierAndTreeExact
  <2>1. /\ TypeInv /\ TreeInv /\ WellFormedCFG(succ)
        /\ \A b \in Reachable(succ) \ {Entry} :
              /\ idom[b] \in Reachable(succ) /\ idom[b] = IDom(succ, b)
              /\ Dom(succ, b) \ {b} = Dom(succ, idom[b])
        /\ \A b \in Block \ Reachable(succ) : idom[b] = Null
    BY IterationOver, SettledIdom DEF TypeInv
  <2>2. Reachable(succ) \subseteq Block /\ Reachable(succ) \subseteq Maybe /\ a # Null
    BY <2>1, ReachableType, DominatorsAssumption DEF Maybe
  <2>3. dom_frontier[a] = Frontier(succ, a)
    BY DEF ResultInv, FrontierInv
  <2>4. dom_tree_succ_blocks[a] = {b \in Block : idom[b] = a /\ idom[b] # b}
    BY <2>2 DEF ResultInv
  <2>5. ASSUME NEW b \in Block
        PROVE  (idom[b] = a /\ idom[b] # b) <=>
                   (b \in Reachable(succ) \ {Entry} /\ IDom(succ, b) = a)
    <3>1. CASE b \notin Reachable(succ)
      BY <2>1, <2>2, <3>1
    <3>2. CASE b = Entry
      BY <2>1, <3>2 DEF TreeInv
    <3>3. CASE b \in Reachable(succ) \ {Entry}
      <4>1. idom[b] # b
        BY <2>1, <3>3, DomSelf
      <4> QED
        BY <2>1, <3>3, <4>1
    <3> QED
      BY <3>1, <3>2, <3>3
  <2>6. dom_tree_succ_blocks[a] = {b \in Reachable(succ) \ {Entry} : IDom(succ, b) = a}
    BY <2>2, <2>4, <2>5
  <2> QED
    BY <2>3, <2>6
<1> QED
  BY <1>1, <1>2, <1>3, PTL DEF Spec

-----------------------------------------------------------------------------
(* Walks in two trees                                                      *)

\* Above in the tree f instead of idom.
Walk(f, p) ==
    {a \in Block : \A S \in SUBSET Block :
        p \in S /\ (\A x \in S : f[x] # Null => f[x] \in S) => a \in S}

\* f goes towards higher numbers.
Rising(f, id) ==
    /\ id \in [Block -> Nat] /\ f[Entry] = Entry
    /\ \A x \in Block \ {Entry} : f[x] # Null => f[x] \in Block /\ id[f[x]] > id[x]

LEMMA WalkIsAbove == \A p : Above(p) = Walk(idom, p) /\ Above(p)' = Walk(idom', p)
<1>1. ASSUME NEW p PROVE Above(p) = Walk(idom, p)
  BY DEF Above, Walk, Placed
<1>2. ASSUME NEW p PROVE Above(p)' = Walk(idom', p)
  BY DEF Above, Walk, Placed
<1> QED
  BY <1>1, <1>2

LEMMA WalkLeast ==
    ASSUME NEW f, NEW p, NEW S \in SUBSET Block, p \in S,
           \A x \in S : f[x] # Null => f[x] \in S
    PROVE  Walk(f, p) \subseteq S
BY DEF Walk

LEMMA WalkStep ==
    ASSUME NEW f, NEW id, Rising(f, id), NEW p \in Block
    PROVE  /\ p \in Walk(f, p) /\ Walk(f, p) \in SUBSET Block
           /\ \A x \in Walk(f, p) : f[x] # Null => f[x] \in Walk(f, p)
<1>1. p \in Walk(f, p) /\ Walk(f, p) \in SUBSET Block
  BY DEF Walk
<1>2. ASSUME NEW x \in Walk(f, p), f[x] # Null PROVE f[x] \in Walk(f, p)
  <2>1. x \in Block
    BY DEF Walk
  <2>2. f[x] \in Block
    BY <1>2, <2>1, CFGAssumption DEF Rising
  <2> QED
    BY <1>2, <2>2 DEF Walk
<1> QED
  BY <1>1, <1>2

\* The walk from a block of a walk is a part of it.
LEMMA WalkTransitive ==
    ASSUME NEW f, NEW id, Rising(f, id), NEW p \in Block, NEW q \in Walk(f, p)
    PROVE  Walk(f, q) \subseteq Walk(f, p)
<1> PICK S : S = Walk(f, p)
  OBVIOUS
<1>1. S \in SUBSET Block /\ q \in S /\ \A x \in S : f[x] # Null => f[x] \in S
  BY WalkStep
<1>2. Walk(f, q) \subseteq S
  BY ONLY <1>1, WalkLeast
<1> QED
  BY <1>2

\* After its first block a walk is the one from the idom.
LEMMA WalkFrom ==
    ASSUME NEW f, NEW id, Rising(f, id), NEW p \in Block, f[p] # Null
    PROVE  Walk(f, p) = {p} \cup Walk(f, f[p])
<1> PICK S : S = {p} \cup Walk(f, f[p])
  OBVIOUS
<1>1. f[p] \in Block
  BY CFGAssumption DEF Rising
<1>2. S \in SUBSET Block /\ p \in S /\ \A x \in S : f[x] # Null => f[x] \in S
  BY <1>1, WalkStep
<1>3. Walk(f, p) \subseteq S
  BY ONLY <1>2, WalkLeast
<1>4. p \in Walk(f, p) /\ f[p] \in Walk(f, p)
  BY WalkStep
<1>5. Walk(f, f[p]) \subseteq Walk(f, p)
  BY <1>4, WalkTransitive
<1> QED
  BY <1>3, <1>4, <1>5

\* It only goes up.
LEMMA WalkHigher ==
    ASSUME NEW f, NEW id, Rising(f, id), NEW p \in Block
    PROVE  \A a \in Walk(f, p) : a = p \/ id[a] > id[p] \/ a = Entry
<1> PICK S : S = {a \in Block : a = p \/ id[a] > id[p] \/ a = Entry}
  OBVIOUS
<1>1. S \in SUBSET Block /\ p \in S
  OBVIOUS
<1>2. ASSUME NEW x \in S, f[x] # Null PROVE f[x] \in S
  <2>1. CASE x = Entry
    BY <2>1 DEF Rising
  <2>2. CASE x # Entry
    <3>1. f[x] \in Block /\ id[f[x]] > id[x] /\ id[f[x]] \in Nat /\ id[x] \in Nat
          /\ id[p] \in Nat
      BY <1>2, <2>2 DEF Rising
    <3>2. x = p \/ id[x] > id[p]
      BY <2>2
    <3>3. id[f[x]] > id[p]
      BY <3>1, <3>2
    <3> QED
      BY <3>1, <3>3
  <2> QED
    BY <2>1, <2>2
<1>3. Walk(f, p) \subseteq S
  BY ONLY <1>1, <1>2, WalkLeast
<1> QED
  BY <1>3

\* Of two blocks of a walk one is above the other.
LEMMA WalkLinear ==
    ASSUME NEW f, NEW id, Rising(f, id), NEW p \in Block, NEW c \in Walk(f, p),
           NEW x \in Walk(f, p)
    PROVE  x \in Walk(f, c) \/ c \in Walk(f, x)
<1>0. c \in Block /\ x \in Block
  BY DEF Walk
<1> PICK S : S = {z \in Block : c \in Walk(f, z)} \cup Walk(f, c)
  OBVIOUS
<1>1. S \in SUBSET Block /\ p \in S
  BY <1>0, WalkStep
<1>2. ASSUME NEW z \in S, f[z] # Null PROVE f[z] \in S
  <2>1. CASE z \in Walk(f, c)
    BY <1>0, <1>2, <2>1, WalkStep
  <2>2. CASE c \in Walk(f, z) /\ z # c
    <3>1. z \in Block /\ f[z] \in Block
      BY <1>1, <1>2, CFGAssumption DEF Rising
    <3>2. Walk(f, z) = {z} \cup Walk(f, f[z])
      BY ONLY Rising(f, id), <1>2, <3>1, WalkFrom
    <3> QED
      BY <2>2, <3>1, <3>2
  <2>3. CASE z = c
    BY <1>0, <1>2, <2>3, WalkStep
  <2> QED
    BY <2>1, <2>2, <2>3
<1>3. Walk(f, p) \subseteq S
  BY ONLY <1>1, <1>2, WalkLeast
<1> QED
  BY <1>3

\* Two trees that differ in one idom have the same walks up to its block ...
LEMMA WalkBelow ==
    ASSUME NEW f, NEW g, NEW id, Rising(f, id), Rising(g, id), NEW c \in Block, c # Entry,
           \A x \in Block : x # c => g[x] = f[x], NEW p \in Block,
           NEW b \in Walk(f, p), b # Entry, id[b] <= id[c]
    PROVE  b \in Walk(g, p)
<1> PICK S : S = Walk(g, p) \cup {x \in Block : id[x] > id[c] \/ x = Entry}
  OBVIOUS
<1>1. S \in SUBSET Block /\ p \in S
  BY WalkStep
<1>2. ASSUME NEW x \in S, f[x] # Null PROVE f[x] \in S
  <2>0. x \in Block /\ f[x] \in Block /\ id[f[x]] \in Nat /\ id[x] \in Nat /\ id[c] \in Nat
    BY <1>1, <1>2, CFGAssumption DEF Rising
  <2>1. CASE x = Entry
    BY <1>1, <2>0, <2>1 DEF Rising
  <2>2. CASE x # Entry /\ (x = c \/ id[x] > id[c])
    <3>1. id[f[x]] > id[x]
      BY <1>2, <2>0, <2>2 DEF Rising
    <3>2. id[f[x]] > id[c]
      BY <2>0, <2>2, <3>1
    <3> QED
      BY <2>0, <3>2
  <2>3. CASE x \in Walk(g, p) /\ x # c
    <3>1. g[x] = f[x]
      BY <2>0, <2>3
    <3>2. f[x] \in Walk(g, p)
      BY <1>2, <2>3, <3>1, WalkStep
    <3> QED
      BY <3>2
  <2> QED
    BY <2>0, <2>1, <2>2, <2>3
<1>3. Walk(f, p) \subseteq S
  BY ONLY <1>1, <1>2, WalkLeast
<1>4. id[b] \in Nat /\ id[c] \in Nat
  BY DEF Rising, Walk
<1> QED
  BY <1>3, <1>4

\* ... and the same walks where it is not on them.
LEMMA WalkBeside ==
    ASSUME NEW f, NEW g, NEW id, Rising(f, id), Rising(g, id), NEW c,
           \A x \in Block : x # c => g[x] = f[x], NEW p \in Block, c \notin Walk(f, p)
    PROVE  Walk(g, p) = Walk(f, p)
<1>1. Walk(g, p) \subseteq Walk(f, p)
  <2> PICK S : S = Walk(f, p)
    OBVIOUS
  <2>1. S \in SUBSET Block /\ p \in S /\ \A x \in S : g[x] # Null => g[x] \in S
    BY WalkStep
  <2>2. Walk(g, p) \subseteq S
    BY ONLY <2>1, WalkLeast
  <2> QED
    BY <2>2
<1>2. Walk(f, p) \subseteq Walk(g, p)
  <2> PICK S : S = Walk(g, p)
    OBVIOUS
  <2>1. S \in SUBSET Block /\ p \in S /\ \A x \in S : g[x] # Null => g[x] \in S
    BY WalkStep
  <2>2. \A x \in S : f[x] # Null => f[x] \in S
    BY <1>1, <2>1
  <2>3. Walk(f, p) \subseteq S
    BY ONLY <2>1, <2>2, WalkLeast
  <2> QED
    BY <2>3
<1> QED
  BY <1>1, <1>2

\* Where the idom of one block moves up its walk, no walk gains a block.
LEMMA WalkShrinks ==
    ASSUME NEW f, NEW g, NEW id, Rising(f, id), Rising(g, id), NEW c \in Block,
           \A x \in Block : x # c => g[x] = f[x], g[c] \in Walk(f, c), NEW p \in Block
    PROVE  Walk(g, p) \subseteq Walk(f, p)
<1> PICK S : S = Walk(f, p)
  OBVIOUS
<1>1. S \in SUBSET Block /\ p \in S /\ \A x \in S : f[x] # Null => f[x] \in S
  BY WalkStep
<1>2. ASSUME NEW x \in S, g[x] # Null PROVE g[x] \in S
  <2>1. CASE x = c
    <3>1. Walk(f, c) \subseteq Walk(f, p)
      BY <2>1, WalkTransitive
    <3> QED
      BY <2>1, <3>1
  <2>2. CASE x # c
    <3>1. g[x] = f[x]
      BY <1>1, <2>2
    <3> QED
      BY <1>1, <1>2, <3>1
  <2> QED
    BY <2>1, <2>2
<1>3. Walk(g, p) \subseteq S
  BY ONLY <1>1, <1>2, WalkLeast
<1> QED
  BY <1>3

-----------------------------------------------------------------------------
(* Idoms only move up                                                      *)

\* The meeting under way has not passed the nearest block above all the
\* predecessors met.
NearestInv ==
    \A x \in Block :
        (\A q \in Pre(succ, Current) \cap Placed : <<q, Current>> \in preds \/ x \in Above(q)) =>
            /\ pc = "meet" => x \in Above(new_idom)
            /\ pc = "intersect" => x \in Above(b1) /\ x \in Above(b2)

\* A meeting of the predecessors of y would find a block above y.
AgreeInv ==
    \A y \in Placed \ {Entry} : \A x \in Block :
        (\A p \in Pre(succ, y) \cap Placed : x \in Above(p)) => x \in Above(y)

\* What is above y was above its earlier predecessors when y had its turn.  It
\* still is, until the round comes to such a block above y again: that is before
\* it comes to those predecessors.
KeptInv ==
    \A y \in Placed \ {Entry} : \A p \in Pre(succ, y) \cap Placed :
        post_order_id[p] > post_order_id[y] =>
            \A b \in Above(idom[y]) :
                (post_order_id[y] < pos => post_order_id[b] < pos) => b \in Above(p)

\* A block is placed after its earlier predecessors.
FirstInv ==
    \A y \in Placed \ {Entry} : \A p \in Pre(succ, y) \cap Reachable(succ) :
        post_order_id[p] > post_order_id[y] => p \in Placed

RiseInv ==
    pc \in {"round", "pick", "meet", "intersect"} =>
        NearestInv /\ AgreeInv /\ KeptInv /\ FirstInv

LEMMA TreeRising == ASSUME TypeInv, TreeInv PROVE Rising(idom, post_order_id)
BY PlacedFacts DEF TypeInv, TreeInv, Rising, Placed

\* The steps that leave the tree alone, but for the meeting.
LEMMA RiseSame ==
    ASSUME RiseInv, pc \in {"round", "pick", "meet", "intersect"},
           UNCHANGED <<succ, dfsVars, idom>>
    PROVE  /\ AgreeInv' /\ FirstInv'
           /\ pos' = pos => KeptInv'
<1>1. /\ succ' = succ /\ post_order_id' = post_order_id /\ idom' = idom
      /\ Placed' = Placed /\ \A p : Above(p)' = Above(p)
  BY AboveSame DEF dfsVars
<1>2. AgreeInv'
  BY <1>1 DEF RiseInv, AgreeInv
<1>3. FirstInv'
  BY <1>1 DEF RiseInv, FirstInv
<1>4. ASSUME pos' = pos PROVE KeptInv'
  BY <1>1, <1>4 DEF RiseInv, KeptInv
<1> QED
  BY <1>2, <1>3, <1>4

LEMMA StartIdomRise ==
    ASSUME TypeInv, IterInv, StartIdom PROVE RiseInv'
<1>1. pc' = "round" /\ idom' = [b \in Maybe |-> IF b = Entry THEN Entry ELSE Null]
  BY DEF StartIdom
<1>2. \A b \in Block : b # Entry => idom'[b] = Null
  BY <1>1 DEF Maybe
<1>3. Placed' \subseteq {Entry}
  BY <1>2 DEF Placed
<1>4. AgreeInv' /\ KeptInv' /\ FirstInv' /\ NearestInv'
  BY <1>1, <1>3 DEF AgreeInv, KeptInv, FirstInv, NearestInv
<1> QED
  BY <1>4 DEF RiseInv

LEMMA StartRoundRise ==
    ASSUME TypeInv, IterInv, RiseInv, StartRound PROVE RiseInv'
<1>1. /\ pc = "round" /\ pc' = "pick" /\ pos' = Len(reverse_post_order) /\ pos = 0
      /\ UNCHANGED <<succ, dfsVars, idom>>
  BY DEF StartRound, IterInv
<1>2. /\ succ' = succ /\ post_order_id' = post_order_id /\ idom' = idom
      /\ Placed' = Placed /\ \A p : Above(p)' = Above(p)
  BY <1>1, AboveSame DEF dfsVars
<1>3. KeptInv'
  <2>1. \A y \in Block : ~ (post_order_id[y] < 0)
    BY DEF TypeInv
  <2>2. \A y \in Placed \ {Entry} : \A p \in Pre(succ, y) \cap Placed :
            post_order_id[p] > post_order_id[y] => \A b \in Above(idom[y]) : b \in Above(p)
    BY <1>1, <2>1 DEF RiseInv, KeptInv, Placed
  <2> QED
    BY <1>2, <2>2 DEF KeptInv
<1>4. NearestInv'
  BY <1>1 DEF NearestInv
<1> QED
  BY <1>1, <1>3, <1>4, RiseSame DEF RiseInv

LEMMA SkipRootRise ==
    ASSUME TypeInv, IterInv, RiseInv, SkipRoot PROVE RiseInv'
<1>1. /\ pc = "pick" /\ pc' = "pick" /\ pos' = pos - 1 /\ pos > 0 /\ pos \in Nat
      /\ Current = Entry /\ UNCHANGED <<succ, dfsVars, idom>>
  BY DEF SkipRoot, TypeInv
<1>2. /\ succ' = succ /\ post_order_id' = post_order_id /\ idom' = idom
      /\ Placed' = Placed /\ \A p : Above(p)' = Above(p)
  BY <1>1, AboveSame DEF dfsVars
<1>3. Ordered /\ TreeInv
  BY <1>1 DEF IterInv
<1>4. \A y \in Placed \ {Entry} : post_order_id[y] \in Nat /\ post_order_id[y] # pos - 1
  <2>1. ASSUME NEW y \in Placed \ {Entry}, post_order_id[y] = pos - 1 PROVE FALSE
    <3>1. y \in Reachable(succ)
      BY <1>3 DEF TreeInv
    <3>2. reverse_post_order[post_order_id[y] + 1] = y
      BY <1>3, <3>1, OrderFacts
    <3>3. reverse_post_order[pos] = Entry
      BY <1>1 DEF Current
    <3> QED
      BY <1>1, <2>1, <3>2, <3>3
  <2> QED
    BY <2>1 DEF TypeInv, Placed
<1>5. ASSUME NEW y \in Placed \ {Entry}, NEW p \in Pre(succ, y) \cap Placed,
             post_order_id[p] > post_order_id[y], NEW b \in Above(idom[y]),
             post_order_id[y] < pos - 1 => post_order_id[b] < pos - 1
      PROVE  b \in Above(p)
  <2>1. post_order_id[b] \in Nat
    BY DEF TypeInv, Above
  <2>2. post_order_id[y] < pos => post_order_id[b] < pos
    BY <1>1, <1>4, <1>5, <2>1
  <2> QED
    BY <1>1, <1>5, <2>2 DEF RiseInv, KeptInv
<1>6. KeptInv'
  BY <1>1, <1>2, <1>5 DEF KeptInv
<1>7. NearestInv'
  BY <1>1 DEF NearestInv
<1> QED
  BY <1>1, <1>6, <1>7, RiseSame DEF RiseInv

LEMMA EndRoundRise ==
    ASSUME TypeInv, IterInv, RiseInv, EndRound PROVE RiseInv'
<1>1. pc = "pick" /\ pc' = "round" /\ pos' = pos /\ UNCHANGED <<succ, dfsVars, idom>>
  BY DEF EndRound, loopVars
<1>2. NearestInv'
  BY <1>1 DEF NearestInv
<1> QED
  BY <1>1, <1>2, RiseSame DEF RiseInv

LEMMA MeetingRise ==
    ASSUME TypeInv, IterInv, RiseInv,
           (\E p \in Block : PickPred(p) \/ MeetPred(p)) \/ WalkUp \/ Met
    PROVE  RiseInv'
<1>1. /\ pc \in {"pick", "meet", "intersect"} /\ pc' \in {"meet", "intersect"} /\ pos' = pos
      /\ UNCHANGED <<succ, dfsVars, idom, pos>>
  BY DEF PickPred, MeetPred, WalkUp, Met
<1>2. Current' = Current /\ Placed' = Placed /\ (\A p : Above(p)' = Above(p)) /\ succ' = succ
  BY <1>1, CurrentSame
<1>3. TreeInv /\ Ordered /\ NearestInv
  BY <1>1 DEF IterInv, RiseInv
<1>4. SUFFICES ASSUME NEW x \in Block,
                      \A q \in Pre(succ, Current) \cap Placed :
                          <<q, Current>> \in preds' \/ x \in Above(q)
               PROVE  /\ pc' = "meet" => x \in Above(new_idom')
                      /\ pc' = "intersect" => x \in Above(b1') /\ x \in Above(b2')
  <2>1. ASSUME \A x \in Block :
                  (\A q \in Pre(succ, Current) \cap Placed :
                      <<q, Current>> \in preds' \/ x \in Above(q)) =>
                  /\ pc' = "meet" => x \in Above(new_idom')
                  /\ pc' = "intersect" => x \in Above(b1') /\ x \in Above(b2')
        PROVE  NearestInv'
    <3>1. Above(new_idom)' = Walk(idom', new_idom') /\ Above(b1)' = Walk(idom', b1')
          /\ Above(b2)' = Walk(idom', b2')
      BY DEF Above, Walk, Placed
    <3>2. idom' = idom /\ \A p : Above(p) = Walk(idom, p)
      BY <1>1, WalkIsAbove
    <3> QED
      BY <1>2, <2>1, <3>1, <3>2 DEF NearestInv
  <2> QED
    BY <1>1, <2>1, RiseSame DEF RiseInv
<1>5. CASE \E p \in Block : PickPred(p)
  <2> PICK p \in Block : PickPred(p)
    BY <1>5
  <2>1. /\ pc' = "meet" /\ new_idom' = p /\ p \in Pre(succ, Current) /\ p \in Placed
        /\ preds' = {<<q, Current>> : q \in Pre(succ, Current) \ {p}}
    BY DEF PickPred, Placed
  <2>2. <<p, Current>> \notin preds'
    BY <2>1
  <2> QED
    BY <1>4, <2>1, <2>2
<1>6. CASE \E p \in Block : MeetPred(p)
  <2> PICK p \in Block : MeetPred(p)
    BY <1>6
  <2>1. /\ pc = "meet" /\ preds' = preds \ {<<p, Current>>} /\ new_idom' = new_idom
        /\ <<p, Current>> \in preds
        /\ \/ idom[p] # Null /\ b1' = p /\ b2' = new_idom /\ pc' = "intersect"
           \/ idom[p] = Null /\ pc' = "meet"
    BY DEF MeetPred
  <2>2. x \in Above(new_idom)
    BY <1>3, <1>4, <2>1 DEF NearestInv
  <2>3. CASE idom[p] # Null
    <3>1. p \in Pre(succ, Current) /\ p \in Placed
      BY <2>1, <2>3 DEF IterInv, MeetInv, Placed
    <3>2. x \in Above(p)
      BY <1>4, <2>1, <3>1
    <3> QED
      BY <2>1, <2>2, <2>3, <3>2
  <2> QED
    BY <2>1, <2>2, <2>3
<1>7. CASE WalkUp
  <2>1. /\ pc = "intersect" /\ pc' = "intersect" /\ preds' = preds
        /\ \/ /\ post_order_id[b1] < post_order_id[b2]
              /\ b1' = idom[b1] /\ b2' = b2
           \/ /\ post_order_id[b2] < post_order_id[b1]
              /\ b2' = idom[b2] /\ b1' = b1
    BY <1>7 DEF WalkUp
  <2>2. x \in Above(b1) /\ x \in Above(b2)
    BY <1>3, <1>4, <2>1 DEF NearestInv
  <2>3. b1 \in Placed /\ b2 \in Placed
    BY <2>1 DEF IterInv, MeetInv, Candidate
  <2>4. /\ post_order_id[x] >= post_order_id[b1] /\ post_order_id[x] >= post_order_id[b2]
        /\ post_order_id[x] \in Nat /\ post_order_id[b1] \in Nat /\ post_order_id[b2] \in Nat
    BY <1>3, <2>2, <2>3, AboveHigher DEF TypeInv, Placed
  <2>5. /\ Above(b1) \subseteq {b1} \cup Above(idom[b1])
        /\ Above(b2) \subseteq {b2} \cup Above(idom[b2])
    BY <1>3, <2>3, AboveIdom
  <2>6. CASE post_order_id[b1] < post_order_id[b2]
    <3>1. x # b1 /\ b1' = idom[b1] /\ b2' = b2
      BY <2>1, <2>4, <2>6
    <3> QED
      BY <2>1, <2>2, <2>5, <3>1
  <2>7. CASE post_order_id[b2] < post_order_id[b1]
    <3>1. x # b2 /\ b2' = idom[b2] /\ b1' = b1
      BY <2>1, <2>4, <2>7
    <3> QED
      BY <2>1, <2>2, <2>5, <3>1
  <2> QED
    BY <2>1, <2>6, <2>7
<1>8. CASE Met
  <2>1. pc = "intersect" /\ pc' = "meet" /\ preds' = preds /\ new_idom' = b1
    BY <1>8 DEF Met
  <2> QED
    BY <1>3, <1>4, <2>1 DEF NearestInv
<1> QED
  BY <1>5, <1>6, <1>7, <1>8

\* The entry has the highest number.
LEMMA EntryHighest ==
    ASSUME TypeInv, Ordered, NEW b \in Reachable(succ) \ {Entry}
    PROVE  post_order_id[b] < post_order_id[Entry]
<1>1. /\ post_order_id[Entry] = Len(reverse_post_order) - 1
      /\ post_order_id[b] \in 0 .. Len(reverse_post_order) - 1
      /\ reverse_post_order[post_order_id[b] + 1] = b
      /\ Len(reverse_post_order) \in Nat \ {0}
  <2>1. /\ Len(reverse_post_order) \in Nat \ {0}
        /\ \A i \in 1 .. Len(reverse_post_order) :
              post_order_id[reverse_post_order[i]] = i - 1
        /\ post_order_id[b] \in 0 .. Len(reverse_post_order) - 1
        /\ reverse_post_order[post_order_id[b] + 1] = b
    BY OrderFacts
  <2>2. reverse_post_order[Len(reverse_post_order)] = Entry
    BY DEF Ordered, RootLast
  <2>3. Len(reverse_post_order) \in 1 .. Len(reverse_post_order)
    BY <2>1
  <2>4. post_order_id[Entry] = Len(reverse_post_order) - 1
    BY <2>1, <2>2, <2>3
  <2> QED
    BY <2>1, <2>4
<1>2. post_order_id[b] # Len(reverse_post_order) - 1
  <2> SUFFICES ASSUME post_order_id[b] = Len(reverse_post_order) - 1 PROVE FALSE
    OBVIOUS
  <2>1. post_order_id[b] + 1 = Len(reverse_post_order)
    BY <1>1
  <2> QED
    BY <1>1, <2>1 DEF Ordered, RootLast
<1> QED
  BY <1>1, <1>2

\* A block that has an idom already gets one that is above it.
LEMMA NewAbove ==
    ASSUME TypeInv, IterInv, RiseInv, SetIdom
    PROVE  /\ Current \in Placed => new_idom \in Above(Current) /\ new_idom # Current
           /\ \A x \in Block : (\A q \in Pre(succ, Current) \cap Placed : x \in Above(q)) =>
                                   x \in Above(new_idom)
<1>1. pc = "meet" /\ preds = {}
  BY DEF SetIdom
<1>2. NearestInv /\ AgreeInv
  BY <1>1 DEF RiseInv
<1>3. /\ Current \in Reachable(succ) \ {Entry} /\ new_idom \in Placed
      /\ post_order_id[new_idom] > post_order_id[Current]
      /\ \A q \in Pre(succ, Current) \cap Placed : new_idom \in Above(q)
  BY MetHigher DEF Candidate
<1>4. new_idom \in Block /\ new_idom # Current
  <2>1. new_idom \in Block /\ post_order_id[new_idom] \in Nat
    BY <1>3 DEF Placed, TypeInv
  <2> QED
    BY <1>3, <2>1
<1>5. Current \in Placed => new_idom \in Above(Current)
  BY <1>2, <1>3, <1>4 DEF AgreeInv
<1> QED
  BY <1>1, <1>2, <1>4, <1>5 DEF NearestInv

\* One idom stored: c is the block, f and g the trees before and after.
LEMMA SetIdomRise ==
    ASSUME TypeInv, TypeInv', IterInv, IterInv', RiseInv, SetIdom,
           idom' = [idom EXCEPT ![Current] = new_idom]
    PROVE  AgreeInv' /\ KeptInv' /\ FirstInv'
<1> PICK c, f, g, id, a : /\ c = Current /\ f = idom /\ g = idom' /\ id = post_order_id
                          /\ a = new_idom
  OBVIOUS
<1>1. /\ pc = "meet" /\ pc' = "pick" /\ pos' = pos - 1 /\ pos \in Nat /\ pos > 0
      /\ succ' = succ /\ post_order_id' = post_order_id
  BY DEF SetIdom, TypeInv, dfsVars
<1>2. Ordered /\ TreeInv /\ Behind /\ TreeInv' /\ AgreeInv /\ KeptInv /\ FirstInv
  BY <1>1 DEF IterInv, RoundInv, RiseInv
<1>3. /\ c \in Reachable(succ) \ {Entry} /\ a \in Placed /\ id[a] > id[c]
      /\ \A q \in Pre(succ, c) \cap Placed : a \in Above(q)
  BY MetHigher DEF Candidate
<1>4. /\ c \in Block /\ a \in Block /\ a # Null /\ c \in Maybe /\ id[c] = pos - 1
      /\ \A x \in Block : id[x] \in Nat
  <2>1. c = reverse_post_order[pos] /\ pos \in 1 .. Len(reverse_post_order)
    BY <1>1 DEF Current, TypeInv
  <2>2. id[c] = pos - 1
    BY <1>2, <2>1, OrderFacts
  <2>3. c \in Block /\ c \in Maybe
    BY <1>2, <1>3, OrderFacts DEF Maybe
  <2>4. a \in Block /\ a # Null
    BY <1>3, DominatorsAssumption DEF Placed
  <2>5. \A x \in Block : id[x] \in Nat
    BY DEF TypeInv
  <2> QED
    BY <2>2, <2>3, <2>4, <2>5
<1>5. g[c] = a /\ \A x \in Block : x # c => g[x] = f[x]
  BY <1>4 DEF TypeInv, Maybe
<1>6. Rising(f, id) /\ Rising(g, id)
  <2>1. Rising(f, id)
    BY <1>2, TreeRising
  <2>2. Rising(g, id)
    <3>1. \A x \in Placed \ {Entry} : x \in Block /\ f[x] \in Block /\ id[f[x]] > id[x]
      BY <1>2, PlacedFacts DEF TreeInv
    <3>2. g[Entry] = Entry
      BY <1>3, <1>5, <2>1, CFGAssumption DEF Rising
    <3>3. ASSUME NEW x \in Block \ {Entry}, g[x] # Null
          PROVE  g[x] \in Block /\ id[g[x]] > id[x]
      <4>1. CASE x = c
        BY <1>3, <1>4, <1>5, <4>1
      <4>2. CASE x # c
        BY <1>5, <2>1, <3>3, <4>2 DEF Rising
      <4> QED
        BY <4>1, <4>2
    <3> QED
      BY <2>1, <3>2, <3>3 DEF Rising
  <2> QED
    BY <2>1, <2>2
<1>7. \A p : Above(p) = Walk(f, p) /\ Above(p)' = Walk(g, p)
  BY WalkIsAbove
<1>8. Placed' = Placed \cup {c} /\ Placed \subseteq Block
  BY <1>4, <1>5 DEF Placed
<1>9. \A x \in Block : (\A q \in Pre(succ, c) \cap Placed : x \in Walk(f, q)) => x \in Walk(f, a)
  BY <1>7, NewAbove
<1>10. \A p \in Placed : \A x \in Walk(f, p) : x \in Placed /\ id[x] >= id[p]
  BY <1>2, <1>7, AboveHigher
<1>11. \A b \in Reachable(succ) : id[b] <= id[c] => b # Entry
  <2>1. id[c] < id[Entry]
    BY <1>2, <1>3, EntryHighest
  <2> QED
    BY <1>4, <2>1, CFGAssumption
<1>12. ASSUME NEW p \in Block, c \notin Walk(f, p) PROVE Walk(g, p) = Walk(f, p)
  BY ONLY <1>5, <1>6, <1>12, WalkBeside
\* Up to c the walks stay as they were.
<1>13. ASSUME NEW p \in Block, NEW b \in Block, b # Entry, id[b] <= id[c]
       PROVE  b \in Walk(f, p) <=> b \in Walk(g, p)
  <2>1. ASSUME b \in Walk(f, p) PROVE b \in Walk(g, p)
    BY ONLY <1>3, <1>4, <1>5, <1>6, <1>13, <2>1, WalkBelow
  <2>2. ASSUME b \in Walk(g, p) PROVE b \in Walk(f, p)
    <3>1. \A x \in Block : x # c => f[x] = g[x]
      BY <1>5
    <3> QED
      BY ONLY <1>3, <1>4, <3>1, <1>6, <1>13, <2>2, WalkBelow
  <2> QED
    BY <2>1, <2>2
<1>14. Walk(g, a) = Walk(f, a) /\ a \in Walk(g, c) /\ Walk(g, a) \subseteq Walk(g, c)
  <2>1. c \notin Walk(f, a)
    BY <1>3, <1>4, <1>10
  <2>2. Walk(g, c) = {c} \cup Walk(g, a)
    BY ONLY <1>4, <1>5, <1>6, WalkFrom
  <2>3. a \in Walk(g, a)
    BY <1>4, <1>6, WalkStep
  <2> QED
    BY <1>4, <1>12, <2>1, <2>2, <2>3
\* What is above a block in the new tree was above it in the old one.
<1>15. \A p \in Placed : Walk(g, p) \subseteq Walk(f, p)
  <2>1. CASE c \in Placed
    <3>1. a \in Walk(f, c)
      BY <1>7, <2>1, NewAbove
    <3>2. g[c] \in Walk(f, c)
      BY <1>5, <3>1
    <3>3. \A p \in Block : Walk(g, p) \subseteq Walk(f, p)
      BY ONLY <1>4, <1>5, <1>6, <3>2, WalkShrinks
    <3> QED
      BY <1>8, <3>3
  <2>2. CASE c \notin Placed
    BY <1>8, <1>10, <1>12, <2>2
  <2> QED
    BY <2>1, <2>2
<1>16. \A p \in Pre(succ, c) : p # c => (p \in Placed' <=> p \in Placed)
  BY <1>8
<1>17. FirstInv'
  <2> SUFFICES ASSUME NEW y \in Placed', y # Entry, NEW p \in Pre(succ, y) \cap Reachable(succ),
                      id[p] > id[y]
               PROVE  p \in Placed'
    BY <1>1 DEF FirstInv
  <2>1. CASE y \in Placed
    BY <1>2, <1>8, <2>1 DEF FirstInv
  <2>2. CASE y = c
    <3>1. id[p] + 1 \in pos + 1 .. Len(reverse_post_order) /\ reverse_post_order[id[p] + 1] = p
      <4>1. id[p] \in 0 .. Len(reverse_post_order) - 1 /\ reverse_post_order[id[p] + 1] = p
            /\ Len(reverse_post_order) \in Nat
        BY <1>2, OrderFacts
      <4>2. id[p] > pos - 1
        BY <1>4, <2>2
      <4> QED
        BY <1>1, <4>1, <4>2
    <3> QED
      BY <1>2, <1>8, <3>1 DEF Behind
  <2> QED
    BY <1>8, <2>1, <2>2
\* Its own predecessors agree with c now ...
<1>18. ASSUME NEW x \in Block, \A p \in Pre(succ, c) \cap Placed' : x \in Walk(g, p)
       PROVE  x \in Walk(g, c)
  <2>1. \A q \in Pre(succ, c) \cap Placed : x \in Walk(f, q)
    BY <1>8, <1>15, <1>18
  <2>2. x \in Walk(f, a)
    BY <1>9, <2>1
  <2> QED
    BY <1>14, <2>2
\* ... and those of another block still do with it.
<1>19. ASSUME NEW y \in Placed, y # Entry, y # c, NEW x \in Block,
              \A p \in Pre(succ, y) \cap Placed' : x \in Walk(g, p)
       PROVE  x \in Walk(g, y)
  <2>1. \A p \in Pre(succ, y) \cap Placed : x \in Walk(f, p)
    BY <1>8, <1>15, <1>19
  <2>2. x \in Walk(f, y)
    BY <1>2, <1>7, <1>19, <2>1 DEF AgreeInv
  <2>3. y \in Block /\ y \in Reachable(succ)
    BY <1>2, <1>8 DEF TreeInv
  <2>4. CASE c \notin Walk(f, y)
    BY <1>12, <2>2, <2>3, <2>4
  <2>5. CASE c \in Walk(f, y)
    <3>1. c \in Placed /\ id[y] <= id[c] /\ id[y] # id[c]
      BY <1>2, <1>3, <1>10, <1>19, <2>3, <2>5, NumberInjective
    <3>2. PICK p \in Pre(succ, y) \cap Reachable(succ) : id[p] > id[y]
      BY <1>2, <1>19, <2>3 DEF Ordered
    <3>3. p \in Placed /\ p \in Block
      BY <1>2, <1>8, <1>19, <3>2 DEF FirstInv
    <3>4. f[y] \in Block /\ f[y] # Null
      BY <1>2, <1>19, PlacedFacts, DominatorsAssumption
    <3>5. c \in Walk(f, f[y])
      <4>1. Walk(f, y) = {y} \cup Walk(f, f[y])
        BY ONLY <1>6, <2>3, <3>4, WalkFrom
      <4> QED
        BY <1>19, <2>5, <4>1
    <3>6. c \in Walk(f, p)
      <4>1. id[c] < pos
        BY <1>1, <1>4
      <4> QED
        BY <1>2, <1>7, <1>19, <3>2, <3>3, <3>5, <4>1 DEF KeptInv
    <3>7. c \in Walk(g, p) /\ c \in Walk(g, y)
      <4>1. c \in Block /\ c # Entry /\ id[c] <= id[c]
        BY <1>3, <1>4
      <4>2. c \in Walk(g, p)
        BY ONLY <1>13, <3>3, <3>6, <4>1
      <4>3. c \in Walk(g, y)
        BY ONLY <1>13, <2>3, <2>5, <4>1
      <4> QED
        BY <4>2, <4>3
    <3>8. x \in Walk(g, p)
      BY <1>8, <1>19, <3>2, <3>3
    <3>9. x \in Walk(g, c) \/ c \in Walk(g, x)
      BY ONLY <1>6, <3>3, <3>7, <3>8, WalkLinear
    <3>10. CASE x \in Walk(g, c)
      <4>1. Walk(g, c) \subseteq Walk(g, y)
        BY ONLY <1>6, <2>3, <3>7, WalkTransitive
      <4> QED
        BY <3>10, <4>1
    <3>11. CASE c \in Walk(g, x)
      <4>1. c = x \/ id[c] > id[x] \/ c = Entry
        BY ONLY <1>6, <3>11, x \in Block, WalkHigher
      <4>2. id[x] <= id[c]
        BY <1>3, <1>4, <4>1
      <4>3. x \in Reachable(succ)
        BY <1>2, <1>10, <1>19, <2>2 DEF TreeInv
      <4>4. x # Entry
        BY <1>11, <4>2, <4>3
      <4> QED
        BY <1>13, <2>2, <2>3, <4>2, <4>4
    <3> QED
      BY <3>9, <3>10, <3>11
  <2> QED
    BY <2>4, <2>5
<1>20. AgreeInv'
  <2> SUFFICES ASSUME NEW y \in Placed', y # Entry, NEW x \in Block,
                      \A p \in Pre(succ, y) \cap Placed' : x \in Walk(g, p)
               PROVE  x \in Walk(g, y)
    BY <1>1, <1>7 DEF AgreeInv
  <2> QED
    BY <1>8, <1>18, <1>19
<1>21. KeptInv'
  <2> SUFFICES ASSUME NEW y \in Placed', y # Entry, NEW p \in Pre(succ, y) \cap Placed',
                      id[p] > id[y], NEW b \in Walk(g, g[y]),
                      id[y] < pos - 1 => id[b] < pos - 1
               PROVE  b \in Walk(g, p)
    <3>1. ASSUME \A y \in Placed' \ {Entry} : \A p \in Pre(succ, y) \cap Placed' :
                    id[p] > id[y] =>
                        \A b \in Walk(g, g[y]) :
                            (id[y] < pos - 1 => id[b] < pos - 1) => b \in Walk(g, p)
          PROVE  KeptInv'
      BY <1>1, <1>7, <3>1 DEF KeptInv
    <3> QED
      BY <3>1
  <2>0. /\ y \in Block /\ p \in Block /\ id[y] \in Nat /\ id[p] \in Nat /\ b \in Block
        /\ p \in Reachable(succ) /\ y \in Reachable(succ)
    BY <1>2, <1>3, <1>4, <1>8 DEF Walk, TreeInv
  <2>1. CASE y = c
    <3>1. p # c /\ p \in Placed
      BY <1>8, <2>0, <2>1
    <3>2. c \notin Walk(f, p)
      BY <1>4, <1>10, <2>0, <2>1, <3>1
    <3>3. Walk(g, p) = Walk(f, p)
      BY <1>12, <2>0, <3>2
    <3>4. a \in Walk(f, p)
      BY <1>3, <1>7, <2>1, <3>1
    <3>5. Walk(f, a) \subseteq Walk(f, p)
      BY ONLY <1>6, <2>0, <3>4, WalkTransitive
    <3> QED
      BY <1>5, <1>14, <2>1, <3>3, <3>5
  <2>2. CASE y # c
    <3>1. y \in Placed /\ g[y] = f[y] /\ f[y] \in Placed /\ f[y] \in Block
          /\ id[f[y]] > id[y]
      BY <1>2, <1>5, <1>8, <2>0, <2>2 DEF TreeInv
    <3>2. p \in Placed
      BY <1>2, <2>0, <3>1 DEF FirstInv
    <3>3. id[y] # pos - 1
      BY <1>2, <1>3, <1>4, <2>0, <2>2, NumberInjective
    <3>4. CASE id[y] >= pos
      <4>1. id[f[y]] \in Nat
        BY <1>4, <3>1
      <4>2. id[c] < id[p] /\ id[c] < id[f[y]]
        BY <1>1, <1>4, <2>0, <3>1, <3>4, <4>1
      <4>3. c \notin Walk(f, p) /\ c \notin Walk(f, f[y])
        BY <1>4, <1>10, <2>0, <3>1, <3>2, <4>1, <4>2
      <4>4. Walk(g, p) = Walk(f, p) /\ Walk(g, f[y]) = Walk(f, f[y])
        BY <1>12, <2>0, <3>1, <4>3
      <4>5. ~ (id[y] < pos)
        BY <1>1, <2>0, <3>4
      <4>6. \A z \in Walk(f, f[y]) : z \in Walk(f, p)
        BY <1>2, <1>7, <3>1, <3>2, <4>5 DEF KeptInv
      <4> QED
        BY <3>1, <4>4, <4>6
    <3>5. CASE id[y] < pos - 1
      <4>1. id[b] < id[c] /\ id[b] <= id[c] /\ id[b] < pos /\ id[b] \in Nat
        BY <1>1, <1>4, <2>0, <3>5
      <4>2. b # Entry
        <5>1. id[c] < id[Entry]
          BY <1>2, <1>3, EntryHighest
        <5> QED
          BY <1>4, <4>1, <5>1, CFGAssumption
      <4>3. b \in Walk(f, f[y])
        BY <1>13, <2>0, <3>1, <4>1, <4>2
      <4>4. b \in Walk(f, p)
        BY <1>2, <1>7, <3>1, <3>2, <4>1, <4>3 DEF KeptInv
      <4> QED
        BY <1>13, <2>0, <4>1, <4>2, <4>4
    <3> QED
      BY <1>1, <2>0, <3>3, <3>4, <3>5
  <2> QED
    BY <2>1, <2>2
<1> QED
  BY <1>17, <1>20, <1>21

\* The current block has its turn and keeps the idom it had.
LEMMA KeepIdomRise ==
    ASSUME TypeInv, IterInv, RiseInv, SetIdom, idom' = idom, idom[Current] = new_idom
    PROVE  AgreeInv' /\ KeptInv' /\ FirstInv'
<1>1. /\ pc = "meet" /\ pos' = pos - 1 /\ pos \in Nat /\ pos > 0
      /\ UNCHANGED <<succ, dfsVars, idom>>
  BY DEF SetIdom, TypeInv
<1>2. /\ succ' = succ /\ post_order_id' = post_order_id /\ idom' = idom
      /\ Placed' = Placed /\ \A p : Above(p)' = Above(p)
  BY <1>1, AboveSame DEF dfsVars
<1>3. Ordered /\ TreeInv /\ KeptInv
  BY <1>1 DEF IterInv, RiseInv
<1>4. /\ Current \in Reachable(succ)
      /\ \A q \in Pre(succ, Current) \cap Placed : new_idom \in Above(q)
  BY MetHigher
<1>5. post_order_id[Current] = pos - 1
  <2>1. Current = reverse_post_order[pos] /\ pos \in 1 .. Len(reverse_post_order)
    BY <1>1 DEF Current, TypeInv
  <2> QED
    BY <1>3, <2>1, OrderFacts
<1>6. ASSUME NEW y \in Placed \ {Entry}, NEW p \in Pre(succ, y) \cap Placed,
             post_order_id[p] > post_order_id[y], NEW b \in Above(idom[y]),
             post_order_id[y] < pos - 1 => post_order_id[b] < pos - 1
      PROVE  b \in Above(p)
  <2>0. post_order_id[b] \in Nat /\ post_order_id[y] \in Nat /\ y \in Reachable(succ)
    BY <1>3 DEF TypeInv, Above, Placed, TreeInv
  <2>1. CASE y = Current
    <3>1. idom[y] \in Above(p)
      BY <1>4, <2>1
    <3>2. Above(idom[y]) \subseteq Above(p)
      BY <1>3, <3>1, AboveTransitive
    <3> QED
      BY <3>2
  <2>2. CASE y # Current
    <3>1. post_order_id[y] # pos - 1
      BY <1>3, <1>4, <1>5, <2>0, <2>2, NumberInjective
    <3>2. post_order_id[y] < pos => post_order_id[b] < pos
      BY <1>1, <1>6, <2>0, <3>1
    <3> QED
      BY <1>3, <1>6, <3>2 DEF KeptInv
  <2> QED
    BY <2>1, <2>2
<1>7. KeptInv'
  BY <1>1, <1>2, <1>6 DEF KeptInv
<1> QED
  BY <1>1, <1>7, RiseSame

LEMMA RiseInit == Init => RiseInv
BY DEF Init, RiseInv

LEMMA RiseStep ==
    ASSUME TypeInv, TypeInv', IterInv, IterInv', RiseInv, [Next]_vars PROVE RiseInv'
<1>1. CASE VisitSuccessor \/ Leave
  <2>1. pc' = "dfs"
    BY <1>1 DEF VisitSuccessor, Leave
  <2> QED
    BY <2>1 DEF RiseInv
<1>2. CASE StartFrontier \/ StartRunner \/ RunnerStep \/ StartTree \/ create_dom_tree_succ
  <2>1. pc' \in {"frontier", "runner", "tree", "done"}
    BY <1>2 DEF StartFrontier, StartRunner, RunnerStep, StartTree, create_dom_tree_succ
  <2> QED
    BY <2>1 DEF RiseInv
<1>3. CASE SetIdom
  <2>1. pc' = "pick" /\ pc = "meet"
    BY <1>3 DEF SetIdom
  <2>2. AgreeInv' /\ KeptInv' /\ FirstInv'
    BY <1>3, QuietSteps, SetIdomRise, KeepIdomRise
  <2>3. NearestInv'
    BY <2>1 DEF NearestInv
  <2> QED
    BY <2>2, <2>3 DEF RiseInv
<1>4. CASE UNCHANGED vars
  <2>1. UNCHANGED <<succ, dfsVars, idom, pos, pc, preds, new_idom, b1, b2>>
    BY <1>4 DEF vars, loopVars
  <2>2. Current' = Current /\ Placed' = Placed /\ (\A p : Above(p)' = Above(p)) /\ succ' = succ
    BY <2>1, CurrentSame
  <2>3. NearestInv => NearestInv'
    BY <2>1, <2>2 DEF NearestInv
  <2> QED
    BY <2>1, <2>3, RiseSame DEF RiseInv
<1> QED
  BY <1>1, <1>2, <1>3, <1>4, StartIdomRise, StartRoundRise, SkipRootRise, EndRoundRise,
     MeetingRise DEF Next, Step, Finished

\* An idom, once set, is only ever replaced by one with a higher number, on any
\* graph and in any order of the predecessors, although the walks of intersect
\* go through idoms of this round and of the one before.  Every replacement is
\* in fact above the old idom: what all predecessors agree on is above the block
\* (AgreeInv), because an idom that moves up takes the walk of an earlier
\* predecessor along with that of the block (KeptInv).
THEOREM DominatorsIdomOnlyRises == Spec => IdomOnlyRises
<1> DEFINE Inv == IterationInv /\ RiseInv
           Rises == \A b \in Block :
              idom[b] # Null /\ idom'[b] # idom[b] =>
                  idom'[b] # Null /\ post_order_id[idom'[b]] > post_order_id[idom[b]]
<1>1. Init => Inv
  BY InitTypeInv, InitIter, RiseInit DEF IterationInv
<1>2. ASSUME Inv, [Next]_vars PROVE Inv'
  <2>1. TypeInv' /\ IterInv'
    BY <1>2, NextTypeInv, NextIter DEF IterationInv
  <2>2. RiseInv'
    BY <1>2, <2>1, RiseStep DEF IterationInv
  <2> QED
    BY <2>1, <2>2 DEF IterationInv
<1>3. ASSUME Inv, [Next]_vars PROVE [Rises]_vars
  <2>0. TypeInv /\ IterInv /\ RiseInv
    BY <1>3 DEF IterationInv
  <2>1. CASE SetIdom /\ idom' = [idom EXCEPT ![Current] = new_idom]
    <3> SUFFICES ASSUME NEW b \in Block, idom[b] # Null, idom'[b] # idom[b]
                 PROVE  /\ idom'[b] # Null
                        /\ post_order_id[idom'[b]] > post_order_id[idom[b]]
      OBVIOUS
    <3>1. pc = "meet" /\ TreeInv
      BY <2>0, <2>1 DEF SetIdom, IterInv
    <3>2. idom \in [Maybe -> Maybe] /\ b \in Maybe
      BY <2>0 DEF TypeInv, Maybe
    <3>3. b = Current /\ idom'[b] = new_idom /\ b \in Placed
      BY <2>1, <3>2 DEF Placed
    <3>4. new_idom \in Above(b) /\ new_idom # b /\ new_idom \in Placed /\ b # Entry
      BY <2>0, <2>1, <3>3, NewAbove, MetHigher DEF Candidate
    <3>5. new_idom \in Above(idom[b]) /\ idom[b] \in Placed
      BY <2>0, <3>1, <3>3, <3>4, AboveIdom, PlacedFacts
    <3>6. post_order_id[new_idom] >= post_order_id[idom[b]]
      BY <2>0, <3>1, <3>5, AboveHigher
    <3>7. post_order_id[new_idom] # post_order_id[idom[b]]
      <4>1. new_idom \in Reachable(succ) /\ idom[b] \in Reachable(succ) /\ Ordered
        BY <2>0, <3>1, <3>4, <3>5 DEF TreeInv, IterInv
      <4> QED
        BY <2>0, <2>1, <3>3, <4>1, NumberInjective
    <3>8. post_order_id[new_idom] \in Nat /\ post_order_id[idom[b]] \in Nat /\ new_idom # Null
      <4>1. new_idom \in Block /\ idom[b] \in Block
        BY <3>4, <3>5 DEF Placed
      <4> QED
        BY <2>0, <4>1, DominatorsAssumption DEF TypeInv
    <3> QED
      BY <3>3, <3>6, <3>7, <3>8
  <2>2. CASE StartIdom
    <3>1. \A b \in Block : idom[b] = Null
      BY <2>0, <2>2 DEF StartIdom, IterInv, Maybe
    <3> QED
      BY <3>1
  <2>3. CASE ~ StartIdom /\ ~ (SetIdom /\ idom' = [idom EXCEPT ![Current] = new_idom])
    <3>1. idom' = idom
      BY <1>3, <2>3, QuietSteps
         DEF Next, Step, Finished, VisitSuccessor, Leave, StartRound, SkipRoot, PickPred,
             MeetPred, WalkUp, Met, EndRound, StartFrontier, StartRunner, RunnerStep,
             StartTree, create_dom_tree_succ, vars
    <3> QED
      BY <3>1
  <2> QED
    BY <2>1, <2>2, <2>3
<1>4. Inv /\ [Next]_vars => Inv' /\ [Rises]_vars
  BY <1>2, <1>3
<1> QED
  BY <1>1, <1>4, PTL DEF Spec, IdomOnlyRises
=============================================================================
