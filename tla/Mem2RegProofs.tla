---------------------------- MODULE Mem2RegProofs ----------------------------
(***************************************************************************)
(* Mem2Reg::run keeps its stacks, phis and uses in order: for every graph, *)
(* every code of the blocks and every order in which children are renamed. *)
(***************************************************************************)
EXTENDS Mem2Reg, CFGProofs, FunctionTheorems

-----------------------------------------------------------------------------
(* Instructions and values                                                 *)

LEMMA LoadsSpec ==
    /\ \A i \in Loads : /\ i = <<i[1], i[2]>> /\ i[1] \in Block
                        /\ i[2] \in DOMAIN code[i[1]] /\ code[i[1]][i[2]].op = "load"
    /\ \A b \in Block : \A k \in DOMAIN code[b] :
          code[b][k].op = "load" => <<b, k>> \in Loads
BY DEF Loads

LEMMA StoresSpec ==
    /\ \A i \in Stores : /\ i = <<i[1], i[2]>> /\ i[1] \in Block
                         /\ i[2] \in DOMAIN code[i[1]] /\ code[i[1]][i[2]].op = "store"
    /\ \A b \in Block : \A k \in DOMAIN code[b] :
          code[b][k].op = "store" => <<b, k>> \in Stores
BY DEF Stores

\* Instructions of different blocks or places are different values.
LEMMA ValuesDiffer ==
    /\ \A i, j \in Loads : LoadValue(i) = LoadValue(j) => i = j
    /\ \A i, j : LoadValue(i) # OtherValue(j)
    /\ \A i, b, x : LoadValue(i) # PhiValue(b, x)
<1>1. \A i, j \in Loads : LoadValue(i) = LoadValue(j) => i = j
  BY LoadsSpec DEF LoadValue
<1> QED
  BY <1>1 DEF LoadValue, OtherValue, PhiValue

LEMMA ValuesType ==
    /\ \A i \in Loads : LoadValue(i) \in Values
    /\ \A i \in Stores : OtherValue(i) \in Values
    /\ \A b \in Block, x \in Var : PhiValue(b, x) \in Values
BY DEF Values

\* What every instruction record holds.
LEMMA CodeTyped ==
    ASSUME WellFormedCode(code), NEW b \in Block
    PROVE  /\ Len(code[b]) \in Nat /\ DOMAIN code[b] = 1 .. Len(code[b])
           /\ \A k \in DOMAIN code[b] : /\ code[b][k].op \in {"load", "store"}
                                        /\ code[b][k].var \in Var
                                        /\ code[b][k].src \in Nat
<1> DEFINE Instr == [op : {"load", "store"}, var : Var, src : Nat]
<1>1. code \in [Block -> Seq(Instr)]
  BY DEF WellFormedCode
<1>2. \A r \in Instr : r.op \in {"load", "store"} /\ r.var \in Var /\ r.src \in Nat
  OBVIOUS
<1> HIDE DEF Instr
<1>3. code[b] \in Seq(Instr)
  BY <1>1
<1> QED
  BY <1>2, <1>3

\* A store writes the result of a load only when that load comes before it in
\* its own block.
LEMMA StoredValueSpec ==
    ASSUME WellFormedCode(code), NEW i \in Stores
    PROVE  /\ Instruction(i).var \in Var
           /\ \/ StoredValue(i) = OtherValue(i)
              \/ \E j \in Loads : /\ StoredValue(i) = LoadValue(j)
                                  /\ j[1] = i[1] /\ j[2] < i[2]
<1> DEFINE b == i[1]
           k == i[2]
           s == code[b][k].src
<1>1. i = <<b, k>> /\ b \in Block /\ k \in DOMAIN code[b]
  BY StoresSpec
<1>2. code[b][k].var \in Var /\ s \in Nat /\ DOMAIN code[b] = 1 .. Len(code[b])
  BY <1>1, CodeTyped
<1>5. CASE s = 0
  BY <1>2, <1>5 DEF StoredValue, Instruction
<1>6. CASE s # 0
  <2>1. s \in 1 .. k - 1 /\ code[b][s].op = "load"
    <3> HIDE DEF b, k
    <3> QED
      BY ONLY WellFormedCode(code), <1>1, <1>6 DEF WellFormedCode
  <2>2. <<b, s>> \in Loads /\ s < k
    BY <1>1, <1>2, <2>1, LoadsSpec
  <2>3. StoredValue(i) = LoadValue(<<b, s>>)
    BY <1>6 DEF StoredValue, Instruction
  <2> QED
    BY <1>2, <2>2, <2>3 DEF Instruction
<1> QED
  BY <1>5, <1>6

-----------------------------------------------------------------------------
(* Types                                                                   *)

Phases == {"phis", "instrs", "succs", "children"}

\* An activation of re_name.
Call == [bb : Block, step : Phases, next : Nat \ {0}, children : SUBSET Block]

LEMMA CallEdits ==
    ASSUME NEW f \in Call
    PROVE  /\ f.bb \in Block /\ f.step \in Phases /\ f.next \in Nat \ {0}
           /\ f.children \in SUBSET Block
           /\ \A s \in Phases :
                 LET g == [f EXCEPT !.step = s]
                 IN  /\ g \in Call /\ g.bb = f.bb /\ g.step = s /\ g.next = f.next
                     /\ g.children = f.children
           /\ LET g == [f EXCEPT !.next = @ + 1]
              IN  /\ g \in Call /\ g.bb = f.bb /\ g.step = f.step /\ g.next = f.next + 1
                  /\ g.children = f.children
           /\ \A c :
                 LET g == [f EXCEPT !.children = @ \ {c}]
                 IN  /\ g \in Call /\ g.bb = f.bb /\ g.step = f.step /\ g.next = f.next
                     /\ g.children = f.children \ {c}
BY DEF Call

-----------------------------------------------------------------------------
(* The inductive invariant                                                 *)

\* The program and what Dominators found for it.
Program ==
    /\ WellFormedCFG(succ) /\ Trimmed(succ) /\ WellFormedCode(code)
    /\ dominators_ = DominatorsOf(succ)

TypeInv == Program /\ TypeOK

Depth == Len(calls)

\* How far an activation of re_name has come.
CallFits(f) ==
    /\ f.bb \in Reachable(succ)
    /\ f.next <= Len(code[f.bb]) + 1
    /\ f.step = "phis" => f.next = 1
    /\ f.step \in {"succs", "children"} => f.next = Len(code[f.bb]) + 1
    /\ f.children \subseteq DomTreeSucc(f.bb)
    /\ f.step # "children" => f.children = DomTreeSucc(f.bb)

\* The activations follow a path down the dominator tree: each one is waiting
\* for the call it made for a child, the last one is at work.
CallsInv ==
    /\ pc \in {"place", "visit", "done"} => calls = <<>>
    /\ \A n \in 1 .. Depth : CallFits(calls[n])
    /\ \A n \in 1 .. Depth : n < Depth =>
          /\ calls[n].step = "children"
          /\ calls[n + 1].bb \in DomTreeSucc(calls[n].bb) \ calls[n].children
    /\ calls # <<>> => calls[1].bb = Entry
    /\ \A m, n \in 1 .. Depth : m < n => calls[m].bb \in Dom(succ, calls[n].bb) \ {calls[n].bb}

\* Blocks re_name has still to be called for: they are in the subtree of a
\* child some activation has to do.
Pending(b) == \E n \in 1 .. Depth : \E c \in calls[n].children : c \in Dom(succ, b)

\* Loads and stores re_name has still to come to.
Ahead(i) ==
    \/ pc \in {"place", "visit"}
    \/ Pending(i[1])
    \/ \E n \in 1 .. Depth : calls[n].bb = i[1] /\ calls[n].next <= i[2]

\* A load that can be found on a stack is behind and stays, one that a store
\* is about to push comes before that store.
StacksFresh ==
    \A x \in Var : \A k \in DOMAIN var_val_stack[x] : \A i \in Loads :
        var_val_stack[x][k] = LoadValue(i) => i \notin erased /\ ~ Ahead(i)
StoresFresh ==
    \A j \in Stores : \A i \in Loads :
        rval[j] = LoadValue(i) =>
            i \notin erased /\ (Ahead(i) => i[1] = j[1] /\ i[2] < j[2])
UsesFresh ==
    /\ \A f \in Block \X Var : \A o \in phi_ops[f] : \A i \in Loads :
          o[1] = LoadValue(i) => i \notin erased
    /\ \A j \in Loads : \A i \in Loads : read[j] = LoadValue(i) => i \notin erased
FreshInv == StacksFresh /\ StoresFresh /\ UsesFresh

\* h[n] is what the first n activations have pushed.
Heights(h) ==
    /\ h \in [0 .. Depth -> [Var -> Nat]]
    /\ h[0] = [x \in Var |-> 0]
    /\ \A n \in 1 .. Depth : h[n] = [x \in Var |-> h[n - 1][x] + PushedSoFar(calls[n], x)]

\* A variable whose stack is not empty has an entry in the map.
KeysInv == \A x \in Var : var_val_stack[x] # <<>> => x \in keys

\* The stacks are as high as h says.
Balanced == \E h : Heights(h) /\ \A x \in Var : Len(var_val_stack[x]) = h[Depth][x]

BalanceInv ==
    /\ pc \in {"place", "visit"} => \A x \in Var : var_val_stack[x] = <<>>
    /\ pc # "abort" => Balanced
    /\ KeysInv

\* Blocks that have given their successors' phis their operands.
Filled(p) ==
    /\ p \in Reachable(succ)
    /\ pc \notin {"place", "visit"}
    /\ ~ Pending(p)
    /\ \A n \in 1 .. Depth : calls[n].bb = p => calls[n].step = "children"

\* A phi has one operand for a block, given by that block; in a function that
\* initialises its variables no predecessor that has come so far left any out.
OnePerBlock ==
    \A f \in Block \X Var : \A o1, o2 \in phi_ops[f] : o1[2] = o2[2] => o1 = o2
GivenByFilled == \A f \in Block \X Var : \A o \in phi_ops[f] : Filled(o[2])
NoneLeftOut ==
    Initialised =>
        \A b \in Block : \A x \in phis[b] :
            {o[2] : o \in phi_ops[<<b, x>>]} = {p \in Pre(succ, b) : Filled(p)}
PhiInv == OnePerBlock /\ GivenByFilled /\ NoneLeftOut

\* Nothing re_name has passed is left.
UseInv ==
    Initialised =>
        \A i \in Loads \cup Stores :
            i[1] \in Reachable(succ) => i \in erased \/ Ahead(i)

-----------------------------------------------------------------------------
(* What a step leaves alone                                                *)

\* No step changes the graph, the code or the dominator results.
LEMMA ProgramStays == ASSUME [Next]_vars PROVE UNCHANGED progVars
BY DEF Next, Step, Finished, vars, PlaceVar, VisitBlock, EndVar, StartRename, PushPhis,
   RenameLoad, RenameStore, EndInstrs, FillPhis, Recurse, PopBlock, remove_alloca

\* The pass leaves the function's blocks and instructions as they were.
LEMMA SameProgram ==
    ASSUME UNCHANGED progVars
    PROVE  /\ UNCHANGED <<succ, code, dominators_>>
           /\ Program => Program'
           /\ Loads' = Loads /\ Stores' = Stores /\ Values' = Values
           /\ \A b : DomTreeSucc(b)' = DomTreeSucc(b)
           /\ \A b : DominanceFrontier(b)' = DominanceFrontier(b)
           /\ Initialised' <=> Initialised
<1>1. UNCHANGED <<succ, code, dominators_>>
  BY DEF progVars
<1>2. Program => Program'
  BY <1>1 DEF Program
<1>3. Loads' = Loads /\ Stores' = Stores
  BY <1>1 DEF Loads, Stores
<1>4. Values' = Values
  BY <1>3 DEF Values
<1>5. Initialised' <=> Initialised
  BY <1>1 DEF Initialised
<1> QED
  BY <1>1, <1>2, <1>3, <1>4, <1>5 DEF DomTreeSucc, DominanceFrontier

\* The dominator tree: children are the blocks whose immediate dominator one is.
LEMMA TreeSpec ==
    ASSUME Program, NEW b \in Block
    PROVE  /\ \A c : c \in DomTreeSucc(b)
                        <=> c \in Reachable(succ) \ {Entry} /\ IDom(succ, c) = b
           /\ DomTreeSucc(b) \subseteq Block
           /\ DominanceFrontier(b) \subseteq Block
<1> DEFINE idom == [c \in Reachable(succ) \ {Entry} |-> IDom(succ, c)]
<1>1. DomTreeSucc(b) = {c \in DOMAIN idom : idom[c] = b}
  BY DEF Program, DomTreeSucc, DominatorsOf
<1>2. \A c : c \in DomTreeSucc(b)
                <=> c \in Reachable(succ) \ {Entry} /\ IDom(succ, c) = b
  BY <1>1
<1>3. Reachable(succ) \subseteq Block
  BY ReachableType DEF Program
<1>4. DominanceFrontier(b) \in
         {Frontier(succ, b),
          {j \in Block \ Reachable(succ) : b \in Pre(succ, j) /\ Cardinality(Pre(succ, j)) >= 2}}
  BY DEF Program, DominanceFrontier, DominatorsOf
<1>5. Frontier(succ, b) \subseteq Reachable(succ)
  BY DEF Frontier
<1> QED
  BY <1>2, <1>3, <1>4, <1>5

LEMMA CallsType == TypeOK => calls \in Seq(Call)
BY DEF TypeOK, Call, Phases

\* The topmost activation and those below it.
LEMMA TopSpec ==
    ASSUME calls \in Seq(Call), calls # <<>>
    PROVE  /\ Depth \in Nat \ {0} /\ Top = calls[Depth] /\ Top \in Call
           /\ Below \in Seq(Call) /\ Len(Below) = Depth - 1
           /\ \A n \in 1 .. Depth - 1 : Below[n] = calls[n]
BY SeqDrop DEF Depth, Top, Below

\* An activation that goes on changes nothing but itself.
LEMMA TopReplaced ==
    ASSUME calls \in Seq(Call), calls # <<>>, NEW f \in Call, calls' = Append(Below, f)
    PROVE  /\ calls' \in Seq(Call) /\ Depth' = Depth /\ calls' # <<>>
           /\ \A n \in 1 .. Depth : calls'[n] = IF n = Depth THEN f ELSE calls[n]
<1>1. /\ calls' \in Seq(Call) /\ Len(calls') = Len(calls)
      /\ \A n \in 1 .. Len(calls) : calls'[n] = IF n = Len(calls) THEN f ELSE calls[n]
  BY SeqReplace DEF Below
<1> QED
  BY <1>1, TopSpec DEF Depth

\* A call of re_name is an activation above the others.
LEMMA CallPushed ==
    ASSUME calls \in Seq(Call), calls # <<>>, NEW f \in Call, NEW g \in Call,
           calls' = Append(Append(Below, f), g)
    PROVE  /\ calls' \in Seq(Call) /\ Depth' = Depth + 1
           /\ \A n \in 1 .. Depth + 1 :
                 calls'[n] = IF n = Depth + 1 THEN g ELSE IF n = Depth THEN f ELSE calls[n]
<1>1. /\ calls' \in Seq(Call) /\ Len(calls') = Len(calls) + 1
      /\ \A n \in 1 .. Len(calls) + 1 :
            calls'[n] = IF n = Len(calls) + 1 THEN g
                        ELSE IF n = Len(calls) THEN f ELSE calls[n]
  BY SeqReplacePush DEF Below
<1> QED
  BY <1>1 DEF Depth

\* A return uncovers the activation below.
LEMMA CallPopped ==
    ASSUME calls \in Seq(Call), calls # <<>>, calls' = Below
    PROVE  /\ calls' \in Seq(Call) /\ Depth' = Depth - 1
           /\ \A n \in 1 .. Depth - 1 : calls'[n] = calls[n]
BY TopSpec DEF Depth

-----------------------------------------------------------------------------
(* Types                                                                   *)

LEMMA TypeInit == Init => TypeInv
<1> SUFFICES ASSUME Init PROVE TypeInv
  OBVIOUS
<1>1. Program
  BY DEF Init, Program
<1>2. rval \in [Stores -> Values] /\ read \in [Loads -> Values]
  <2>1. \A i \in Stores : StoredValue(i) \in Values
    BY <1>1, StoredValueSpec, ValuesType DEF Program
  <2>2. \A i \in Loads : LoadValue(i) \in Values
    BY ValuesType
  <2> QED
    BY <2>1, <2>2 DEF Init
<1>3. todo \subseteq Var
  BY <1>1, StoredValueSpec DEF Init, Program
<1>4. /\ pc = "place" /\ work_list = {} /\ erased = {} /\ keys = {}
      /\ phis = [b \in Block |-> {}] /\ phi_ops = [f \in Block \X Var |-> {}]
      /\ var_val_stack = [x \in Var |-> <<>>] /\ calls = <<>>
  BY DEF Init
<1>5. var_val_stack \in [Var -> Seq(Values)]
  BY <1>4
<1> QED
  BY <1>1, <1>2, <1>3, <1>4, <1>5 DEF TypeInv, TypeOK

\* The newest value of a stack that is not empty.
LEMMA LatestType ==
    ASSUME TypeOK, NEW x \in Var, var_val_stack[x] # <<>>
    PROVE  /\ Latest(x) \in Values
           /\ Len(var_val_stack[x]) \in DOMAIN var_val_stack[x]
<1>1. var_val_stack[x] \in Seq(Values)
  BY DEF TypeOK
<1> QED
  BY <1>1 DEF Latest

LEMMA ReplaceType ==
    ASSUME TypeOK, NEW v, NEW w \in Values, ReplaceAllUses(v, w)
    PROVE  /\ rval' \in [Stores -> Values] /\ read' \in [Loads -> Values]
           /\ phi_ops' \in [Block \X Var -> SUBSET (Values \X Block)]
<1>1. rval' \in [Stores -> Values] /\ read' \in [Loads -> Values]
  BY DEF TypeOK, ReplaceAllUses
<1>2. DOMAIN phi_ops = Block \X Var
  BY DEF TypeOK
<1>3. ASSUME NEW f \in Block \X Var
      PROVE  {<<IF o[1] = v THEN w ELSE o[1], o[2]>> : o \in phi_ops[f]}
                \subseteq Values \X Block
  <2>1. phi_ops[f] \subseteq Values \X Block
    BY DEF TypeOK
  <2> QED
    BY <2>1
<1>4. phi_ops' = [f \in Block \X Var |->
                    {<<IF o[1] = v THEN w ELSE o[1], o[2]>> : o \in phi_ops[f]}]
  BY <1>2 DEF ReplaceAllUses
<1> QED
  BY <1>1, <1>3, <1>4

\* The load or store an activation has come to.
LEMMA AtInstructionSpec ==
    ASSUME TypeInv, NEW op, AtInstruction(op)
    PROVE  /\ Top.bb \in Block /\ Top.next \in DOMAIN code[Top.bb]
           /\ code[Top.bb][Top.next].op = op /\ code[Top.bb][Top.next].var \in Var
           /\ op = "load" => <<Top.bb, Top.next>> \in Loads
           /\ op = "store" => <<Top.bb, Top.next>> \in Stores
<1>1. Top.bb \in Block /\ Top.next \in Nat \ {0}
  BY TopSpec, CallsType, CallEdits DEF AtInstruction, TypeInv
<1>2. Top.next \in DOMAIN code[Top.bb] /\ code[Top.bb][Top.next].op = op
  BY <1>1, CodeTyped DEF AtInstruction, TypeInv, Program
<1>3. code[Top.bb][Top.next].var \in Var
  BY <1>1, <1>2, CodeTyped DEF TypeInv, Program
<1> QED
  BY <1>1, <1>2, <1>3, LoadsSpec, StoresSpec

LEMMA FrameType == ASSUME Program, NEW b \in Block PROVE Frame(b) \in Call
BY TreeSpec DEF Frame, Call, Phases

\* Whatever an action does to the activations, they stay well typed.
LEMMA CallsStayTyped == ASSUME TypeInv, Next PROVE calls' \in Seq(Call)
<1>1. calls \in Seq(Call)
  BY CallsType DEF TypeInv
<1>2. calls # <<>> => Top \in Call /\ Below \in Seq(Call)
  BY <1>1, TopSpec
<1>3. CASE UNCHANGED calls
  BY <1>1, <1>3
<1>4. CASE StartRename
  <2>1. Frame(Entry) \in Call
    BY CFGAssumption, FrameType DEF TypeInv
  <2> QED
    BY <1>4, <2>1 DEF StartRename
<1>5. CASE Advance /\ calls # <<>>
  BY <1>1, <1>2, <1>5, CallEdits, TopReplaced DEF Advance
<1>6. CASE \E s \in Phases : calls # <<>> /\ calls' = Append(Below, [Top EXCEPT !.step = s])
  BY <1>1, <1>2, <1>6, CallEdits, TopReplaced
<1>7. CASE \E c \in Block : Recurse(c)
  <2> PICK c \in Block : Recurse(c)
    BY <1>7
  <2>1. Frame(c) \in Call /\ [Top EXCEPT !.children = @ \ {c}] \in Call
    BY <1>2, FrameType, CallEdits DEF Recurse, TypeInv
  <2> QED
    BY <1>1, <2>1, CallPushed DEF Recurse
<1>8. CASE PopBlock
  BY <1>2, <1>8 DEF PopBlock
<1>9. PushPhis \/ EndInstrs \/ FillPhis
        => UNCHANGED calls
           \/ \E s \in Phases : calls # <<>> /\ calls' = Append(Below, [Top EXCEPT !.step = s])
  BY DEF PushPhis, EndInstrs, FillPhis, Phases
<1>10. RenameLoad \/ RenameStore => UNCHANGED calls \/ (Advance /\ calls # <<>>)
  BY DEF RenameLoad, RenameStore, AtInstruction
<1>11. (\E x \in Var : PlaceVar(x)) \/ (\E b \in Block : VisitBlock(b)) \/ EndVar
          \/ remove_alloca \/ Finished => UNCHANGED calls
  BY DEF PlaceVar, VisitBlock, EndVar, remove_alloca, Finished, vars
<1> QED
  BY <1>3, <1>4, <1>5, <1>6, <1>7, <1>8, <1>9, <1>10, <1>11 DEF Next, Step

\* The stores to x among the first n loads and stores of block b.
StoresTo(b, x, n) == {k \in 1 .. n : code[b][k].op = "store" /\ code[b][k].var = x}

LEMMA StoresToType ==
    ASSUME NEW b, NEW x, NEW n \in Nat
    PROVE  /\ IsFiniteSet(StoresTo(b, x, n)) /\ Cardinality(StoresTo(b, x, n)) \in Nat
           /\ \A k \in StoresTo(b, x, n) : Cardinality(StoresTo(b, x, n)) > 0
<1>1. IsFiniteSet(1 .. n)
  BY FS_Interval
<1>2. IsFiniteSet(StoresTo(b, x, n)) /\ Cardinality(StoresTo(b, x, n)) \in Nat
  BY <1>1, FS_Subset, FS_CardinalityType DEF StoresTo
<1> HIDE DEF StoresTo
<1> QED
  BY <1>2, FS_EmptySet

\* What a block has pushed when all of it is done.
LEMMA PushesSpec ==
    ASSUME Program, NEW b \in Block, NEW x
    PROVE  /\ Pushes(b, x) = Cardinality(StoresTo(b, x, Len(code[b])))
                                + (IF x \in phis[b] THEN 1 ELSE 0)
           /\ Pushes(b, x) \in Nat
<1>1. Len(code[b]) \in Nat /\ DOMAIN code[b] = 1 .. Len(code[b])
  BY CodeTyped DEF Program
<1>2. Pushes(b, x) = Cardinality(StoresTo(b, x, Len(code[b])))
                        + (IF x \in phis[b] THEN 1 ELSE 0)
  BY <1>1 DEF Pushes, StoresTo
<1>3. Cardinality(StoresTo(b, x, Len(code[b]))) \in Nat
  BY <1>1, StoresToType
<1> QED
  BY <1>2, <1>3

LEMMA TypeStep == ASSUME TypeInv, Next PROVE TypeInv'
<1>0. UNCHANGED progVars
  BY ProgramStays DEF Next
<1>1. /\ Program' /\ Loads' = Loads /\ Stores' = Stores /\ Values' = Values
  BY <1>0, SameProgram DEF TypeInv
<1>2. calls' \in Seq(Call) /\ (calls # <<>> => Top \in Call)
  BY CallsStayTyped, CallsType, TopSpec DEF TypeInv
<1>3. TypeOK /\ Program
  BY DEF TypeInv
<1>4. calls' \in Seq([bb : Block, step : {"phis", "instrs", "succs", "children"},
                      next : Nat \ {0}, children : SUBSET Block])
  BY <1>2 DEF Call, Phases
<1> SUFFICES TypeOK'
  BY <1>1 DEF TypeInv
<1>5. CASE \E x \in Var : PlaceVar(x)
  <2> PICK x \in Var : PlaceVar(x)
    BY <1>5
  <2>1. {i[1] : i \in {s \in Stores : Instruction(s).var = x}} \subseteq Block
    BY StoresSpec
  <2> QED
    BY <1>1, <1>3, <1>4, <2>1 DEF PlaceVar, TypeOK
<1>6. CASE \E b \in Block : VisitBlock(b)
  <2> PICK b \in Block : VisitBlock(b)
    BY <1>6
  <2> DEFINE new == {j \in DominanceFrontier(b) : cur \notin phis[j]}
  <2>1. new \subseteq Block
    BY <1>3, TreeSpec
  <2>2. /\ pc = "visit" /\ cur \in Var
        /\ phis' = [j \in Block |-> IF j \in new THEN phis[j] \cup {cur} ELSE phis[j]]
        /\ work_list' = (work_list \ {b}) \cup new
        /\ UNCHANGED <<rval, read, pc, todo, cur, phi_ops, keys, var_val_stack, erased>>
    BY <1>3 DEF VisitBlock, TypeOK
  <2>3. phis' \in [Block -> SUBSET Var] /\ work_list' \subseteq Block
    <3> HIDE DEF new
    <3> QED
      BY <1>3, <2>1, <2>2 DEF TypeOK
  <2> QED
    BY <1>1, <1>3, <1>4, <2>2, <2>3 DEF TypeOK
<1>7. CASE EndVar \/ StartRename \/ EndInstrs \/ remove_alloca \/ Finished
           \/ \E c \in Block : Recurse(c)
  BY <1>1, <1>3, <1>4, <1>7
     DEF EndVar, StartRename, EndInstrs, remove_alloca, Finished, vars, Recurse, TypeOK
<1>8. CASE PushPhis
  <2>1. Top.bb \in Block
    BY <1>2, <1>8, CallEdits DEF PushPhis
  <2>2. \A x \in Var : PhiValue(Top.bb, x) \in Values
    BY <2>1, ValuesType
  <2>3. var_val_stack' \in [Var -> Seq(Values)]
    BY <1>3, <1>8, <2>2 DEF PushPhis, TypeOK
  <2>4. keys' \subseteq Var
    BY <1>3, <1>8, <2>1 DEF PushPhis, TypeOK
  <2> QED
    BY <1>1, <1>3, <1>4, <1>8, <2>3, <2>4 DEF PushPhis, TypeOK
<1>9. CASE RenameLoad
  <2> DEFINE i == <<Top.bb, Top.next>>
             x == code[Top.bb][Top.next].var
  <2>1. i \in Loads /\ x \in Var
    BY <1>9, AtInstructionSpec DEF RenameLoad
  <2>2. CASE ReplaceAllUses(LoadValue(i), Latest(x)) /\ var_val_stack[x] # <<>>
             /\ erased' = erased \cup {i} /\ UNCHANGED pc
    <3>1. Latest(x) \in Values
      BY <1>3, <2>1, <2>2, LatestType
    <3>2. /\ rval' \in [Stores -> Values] /\ read' \in [Loads -> Values]
          /\ phi_ops' \in [Block \X Var -> SUBSET (Values \X Block)]
      BY <1>3, <2>2, <3>1, ReplaceType
    <3> QED
      BY <1>1, <1>3, <1>4, <1>9, <2>1, <2>2, <3>2 DEF RenameLoad, TypeOK
  <2>3. CASE UNCHANGED <<read, rval, phi_ops, erased>> /\ pc' \in {pc, "abort"}
    BY <1>1, <1>3, <1>4, <1>9, <2>3 DEF RenameLoad, TypeOK
  <2> QED
    BY <1>9, <2>2, <2>3 DEF RenameLoad
<1>10. CASE RenameStore
  <2> DEFINE i == <<Top.bb, Top.next>>
             x == code[Top.bb][Top.next].var
  <2>1. i \in Stores /\ x \in Var
    BY <1>10, AtInstructionSpec DEF RenameStore
  <2>2. rval[i] \in Values
    BY <1>3, <2>1 DEF TypeOK
  <2>3. /\ var_val_stack' = [var_val_stack EXCEPT ![x] = Append(@, rval[i])]
        /\ keys' = keys \cup {x} /\ erased' = erased \cup {i}
        /\ UNCHANGED <<rval, read, pc, todo, cur, work_list, phis, phi_ops>>
    BY <1>10 DEF RenameStore
  <2>4. var_val_stack' \in [Var -> Seq(Values)]
    <3>1. var_val_stack \in [Var -> Seq(Values)]
      BY <1>3 DEF TypeOK
    <3> PICK q, w, s : q = var_val_stack[x] /\ w = rval[i] /\ s = Append(q, w)
      OBVIOUS
    <3>2. q \in Seq(Values) /\ w \in Values
      BY <2>1, <2>2, <3>1
    <3>3. s \in Seq(Values)
      BY ONLY <3>2, s = Append(q, w)
    <3>4. var_val_stack' = [var_val_stack EXCEPT ![x] = s]
      BY <2>3
    <3> QED
      BY ONLY <3>1, <3>3, <3>4
  <2> QED
    BY <1>1, <1>3, <1>4, <2>1, <2>3, <2>4 DEF TypeOK
<1>11. CASE FillPhis
  <2>1. Top.bb \in Block
    BY <1>2, <1>11, CallEdits DEF FillPhis
  <2>2. CASE UNCHANGED phi_ops /\ pc' = "abort"
    BY <1>1, <1>3, <1>4, <1>11, <2>2 DEF FillPhis, TypeOK
  <2>3. CASE /\ \A f \in PhisToFill(Top.bb) : var_val_stack[f[2]] # <<>>
             /\ phi_ops' = [f \in DOMAIN phi_ops |->
                       IF f \in PhisToFill(Top.bb)
                       THEN phi_ops[f] \cup {<<Latest(f[2]), Top.bb>>} ELSE phi_ops[f]]
             /\ UNCHANGED pc
    <3>1. \A f \in PhisToFill(Top.bb) : f[2] \in Var
      BY DEF PhisToFill
    <3>2. \A f \in PhisToFill(Top.bb) : <<Latest(f[2]), Top.bb>> \in Values \X Block
      BY <1>3, <2>1, <2>3, <3>1, LatestType
    <3>3. phi_ops' \in [Block \X Var -> SUBSET (Values \X Block)]
      BY <1>3, <2>3, <3>2 DEF TypeOK
    <3> QED
      BY <1>1, <1>3, <1>4, <1>11, <2>3, <3>3 DEF FillPhis, TypeOK
  <2> QED
    BY <1>11, <2>2, <2>3 DEF FillPhis
<1>12. CASE PopBlock
  <2>1. Top.bb \in Block
    BY <1>2, <1>12, CallEdits DEF PopBlock
  <2>2. var_val_stack' \in [Var -> Seq(Values)]
    <3>1. ASSUME NEW x \in Var
          PROVE  SubSeq(var_val_stack[x], 1, Len(var_val_stack[x]) - Pushes(Top.bb, x))
                    \in Seq(Values)
      <4>1. var_val_stack[x] \in Seq(Values) /\ Pushes(Top.bb, x) \in Nat
        BY <1>3, <2>1, PushesSpec DEF TypeOK
      <4> QED
        BY <4>1
    <3> QED
      BY <1>12, <3>1 DEF PopBlock
  <2> QED
    BY <1>1, <1>3, <1>4, <1>12, <2>2 DEF PopBlock, TypeOK
<1> QED
  BY <1>5, <1>6, <1>7, <1>8, <1>9, <1>10, <1>11, <1>12 DEF Next, Step

LEMMA TypeStutter == ASSUME TypeInv, UNCHANGED vars PROVE TypeInv'
<1>1. Program' /\ Loads' = Loads /\ Stores' = Stores /\ Values' = Values
  BY SameProgram DEF TypeInv, vars
<1> QED
  BY <1>1 DEF TypeInv, TypeOK, vars

\* Through all of Mem2Reg::run the operands of phis, the uses of loads and the
\* stacks hold values of the function, and each activation of re_name has a
\* block and a place in it.
THEOREM Mem2RegTypeCorrect == Spec => []TypeOK
<1>1. TypeInv /\ [Next]_vars => TypeInv'
  BY TypeStep, TypeStutter
<1>2. TypeInv => TypeOK
  BY DEF TypeInv
<1> QED
  BY TypeInit, <1>1, <1>2, PTL DEF Spec

-----------------------------------------------------------------------------
(* The activations of re_name follow the dominator tree                    *)

LEMMA SameFits ==
    ASSUME UNCHANGED progVars
    PROVE  \A f : CallFits(f)' <=> CallFits(f)
BY SameProgram DEF CallFits

LEMMA EntryFits == ASSUME Program PROVE CallFits(Frame(Entry))
BY CFGAssumption, CodeTyped, ReachableType DEF Program, CallFits, Frame

\* A child in the dominator tree can be called, and is strictly dominated.
LEMMA ChildFits ==
    ASSUME Program, NEW b \in Block, NEW c \in DomTreeSucc(b)
    PROVE  /\ CallFits(Frame(c)) /\ c \in Block /\ c \in Reachable(succ) \ {Entry}
           /\ b \in Dom(succ, c) \ {c} /\ Dom(succ, c) \ {c} = Dom(succ, b)
<1>1. c \in Reachable(succ) \ {Entry} /\ IDom(succ, c) = b
  BY TreeSpec
<1>2. c \in Block /\ Len(code[c]) \in Nat
  BY <1>1, ReachableType, CodeTyped DEF Program
<1>3. CallFits(Frame(c))
  BY <1>1, <1>2 DEF CallFits, Frame
<1> QED
  BY <1>1, <1>2, <1>3, IDomSpec DEF Program

LEMMA CallsInit == Init => CallsInv
BY DEF Init, CallsInv, Depth

\* An activation that goes on in its block.
LEMMA CallsReplaced ==
    ASSUME TypeInv, CallsInv, UNCHANGED progVars, calls # <<>>, pc' \in {"rename", "abort"},
           NEW f \in Call, calls' = Append(Below, f), f.bb = Top.bb, CallFits(f)
    PROVE  CallsInv'
<1>1. /\ calls \in Seq(Call) /\ Depth \in Nat \ {0} /\ Top = calls[Depth]
      /\ Depth' = Depth /\ calls' # <<>>
      /\ \A n \in 1 .. Depth : calls'[n] = IF n = Depth THEN f ELSE calls[n]
  BY CallsType, TopSpec, TopReplaced DEF TypeInv
<1>2. \A n \in 1 .. Depth : calls'[n].bb = calls[n].bb
  BY <1>1
<1>3. \A n \in 1 .. Depth' : CallFits(calls[n])'
  BY <1>1, SameFits DEF CallsInv
<1>4. \A n \in 1 .. Depth' : n < Depth' =>
          /\ calls'[n].step = "children"
          /\ calls'[n + 1].bb \in DomTreeSucc(calls[n].bb)' \ calls'[n].children
  <2> TAKE n \in 1 .. Depth'
  <2> HAVE n < Depth'
  <2>0. Depth \in Nat \ {0} /\ Depth' = Depth
    BY <1>1
  <2>10. n \in 1 .. Depth /\ n # Depth /\ n + 1 \in 1 .. Depth
    BY <2>0
  <2>1. calls'[n] = calls[n] /\ n + 1 \in 1 .. Depth
    BY <1>1, <2>10
  <2>2. calls'[n + 1].bb = calls[n + 1].bb
    BY <1>2, <2>1
  <2>3. DomTreeSucc(calls[n].bb)' = DomTreeSucc(calls[n].bb)
    BY <2>1, SameProgram
  <2> QED
    BY <1>1, <2>1, <2>2, <2>3 DEF CallsInv
<1>5. \A m, n \in 1 .. Depth' : m < n =>
          calls'[m].bb \in Dom(succ', calls'[n].bb) \ {calls'[n].bb}
  <2>1. \A m, n \in 1 .. Depth : m < n =>
            calls[m].bb \in Dom(succ, calls[n].bb) \ {calls[n].bb}
    BY <1>1 DEF CallsInv
  <2>2. Depth' = Depth /\ succ' = succ
    BY <1>1, SameProgram
  <2> QED
    BY ONLY <1>2, <2>1, <2>2
<1>6. calls'[1].bb = Entry
  BY <1>1, <1>2 DEF CallsInv
<1> QED
  BY <1>1, <1>3, <1>4, <1>5, <1>6 DEF CallsInv

\* Step seven: the child's activation is put on top.
LEMMA CallsRecurse ==
    ASSUME TypeInv, CallsInv, NEW c \in Block, Recurse(c)
    PROVE  /\ CallsInv' /\ Depth' = Depth + 1 /\ c \in DomTreeSucc(Top.bb)
           /\ calls'[Depth + 1] = Frame(c)
           /\ \A n \in 1 .. Depth : /\ calls'[n].bb = calls[n].bb
                                    /\ calls'[n].step = calls[n].step
                                    /\ calls'[n].next = calls[n].next
           /\ \A n \in 1 .. Depth : n < Depth => calls'[n].children = calls[n].children
           /\ calls'[Depth].children = calls[Depth].children \ {c}
           /\ c \in calls[Depth].children
<1> DEFINE f == [Top EXCEPT !.children = @ \ {c}]
           g == Frame(c)
<1>1. /\ calls \in Seq(Call) /\ Depth \in Nat \ {0} /\ Top = calls[Depth] /\ Top \in Call
  BY CallsType, TopSpec DEF TypeInv, Recurse
<1>2. /\ f \in Call /\ f.bb = Top.bb /\ f.step = "children" /\ f.next = Top.next
      /\ f.children = Top.children \ {c} /\ Top.step = "children" /\ c \in Top.children
  <2>1. Top.step = "children" /\ c \in Top.children
    BY DEF Recurse
  <2>2. /\ f \in Call /\ f.bb = Top.bb /\ f.step = Top.step /\ f.next = Top.next
        /\ f.children = Top.children \ {c}
    <3> PICK e : e = Top
      OBVIOUS
    <3>1. e \in Call
      BY <1>1
    <3>2. /\ [e EXCEPT !.children = @ \ {c}] \in Call
          /\ [e EXCEPT !.children = @ \ {c}].bb = e.bb
          /\ [e EXCEPT !.children = @ \ {c}].step = e.step
          /\ [e EXCEPT !.children = @ \ {c}].next = e.next
          /\ [e EXCEPT !.children = @ \ {c}].children = e.children \ {c}
      BY ONLY <3>1 DEF Call
    <3> QED
      BY <3>2
  <2> QED
    BY <2>1, <2>2
<1>3. Program /\ UNCHANGED progVars /\ pc = "rename" /\ pc' = "rename"
      /\ calls' = Append(Append(Below, f), g) /\ calls # <<>>
  BY DEF TypeInv, Recurse
<1>4. g \in Call /\ g.bb = c /\ Top.bb \in Block
  BY <1>1, <1>3, FrameType, CallEdits DEF Frame
<1> HIDE DEF f, g
<1>5. /\ Depth' = Depth + 1
      /\ \A n \in 1 .. Depth + 1 :
            calls'[n] = IF n = Depth + 1 THEN g ELSE IF n = Depth THEN f ELSE calls[n]
  BY <1>1, <1>2, <1>3, <1>4, CallPushed
<1>6. c \in DomTreeSucc(Top.bb) /\ CallFits(Top)
  BY <1>1, <1>2 DEF CallsInv, CallFits
<1>7. /\ CallFits(g) /\ Top.bb \in Dom(succ, c) \ {c}
      /\ Dom(succ, c) \ {c} = Dom(succ, Top.bb)
  BY <1>3, <1>4, <1>6, ChildFits DEF g
<1>8. CallFits(f)
  BY <1>2, <1>6 DEF CallFits
<1>9. \A n \in 1 .. Depth : calls'[n].bb = calls[n].bb
  BY <1>1, <1>2, <1>5
<1>10. \A n \in 1 .. Depth' : CallFits(calls[n])'
  <2>1. ASSUME NEW n \in 1 .. Depth + 1 PROVE CallFits(calls'[n])
    BY <1>1, <1>5, <1>7, <1>8 DEF CallsInv
  <2>2. \A n \in 1 .. Depth' : CallFits(calls'[n])
    BY <1>5, <2>1
  <2>3. \A e : CallFits(e)' <=> CallFits(e)
    BY <1>3, SameFits
  <2> QED
    BY <2>2, <2>3
<1>11. \A n \in 1 .. Depth' : n < Depth' =>
          /\ calls'[n].step = "children"
          /\ calls'[n + 1].bb \in DomTreeSucc(calls[n].bb)' \ calls'[n].children
  <2> TAKE n \in 1 .. Depth'
  <2> HAVE n < Depth'
  <2>1. calls'[n].bb = calls[n].bb /\ n \in 1 .. Depth
    BY <1>1, <1>5, <1>9
  <2>2. DomTreeSucc(calls[n].bb)' = DomTreeSucc(calls[n].bb)
    BY <1>3, <2>1, SameProgram
  <2>3. CASE n = Depth
    BY <1>1, <1>2, <1>4, <1>5, <1>6, <2>1, <2>2, <2>3
  <2>4. CASE n < Depth
    <3>1. calls'[n] = calls[n] /\ n + 1 \in 1 .. Depth /\ calls'[n + 1].bb = calls[n + 1].bb
      BY <1>1, <1>5, <1>9, <2>4
    <3> QED
      BY <1>1, <2>2, <2>4, <3>1 DEF CallsInv
  <2> QED
    BY <1>1, <2>1, <2>3, <2>4
<1>12. ASSUME NEW m \in 1 .. Depth', NEW n \in 1 .. Depth', m < n
       PROVE  calls'[m].bb \in Dom(succ', calls'[n].bb) \ {calls'[n].bb}
  <2>1. succ' = succ
    BY <1>3, SameProgram
  <2>2. m \in 1 .. Depth /\ calls'[m].bb = calls[m].bb
    BY <1>1, <1>5, <1>9, <1>12
  <2>3. CASE n = Depth + 1
    <3>1. calls'[n].bb = c
      BY <1>1, <1>4, <1>5, <2>3
    <3>2. CASE m = Depth
      BY <1>1, <1>7, <2>1, <2>2, <3>1, <3>2
    <3>3. CASE m < Depth
      <4>1. calls[m].bb \in Dom(succ, Top.bb)
        <5>1. Depth \in 1 .. Depth /\ m \in 1 .. Depth /\ Top = calls[Depth]
          BY <1>1, <2>2
        <5>2. calls[m].bb \in Dom(succ, calls[Depth].bb)
          BY <3>3, <5>1 DEF CallsInv
        <5> QED
          BY <5>1, <5>2
      <4> QED
        BY <1>7, <2>1, <2>2, <3>1, <4>1
    <3> QED
      BY <1>1, <2>2, <3>2, <3>3
  <2>4. CASE n # Depth + 1
    <3>1. n \in 1 .. Depth /\ calls'[n].bb = calls[n].bb
      BY <1>1, <1>5, <1>9, <2>4
    <3> QED
      BY <1>12, <2>1, <2>2, <3>1 DEF CallsInv
  <2> QED
    BY <2>3, <2>4
<1>13. calls'[1].bb = Entry
  BY <1>1, <1>3, <1>9 DEF CallsInv
<1>14. CallsInv'
  BY <1>3, <1>10, <1>11, <1>12, <1>13 DEF CallsInv
<1> QED
  <2>1. Depth \in Nat \ {0} /\ Top = calls[Depth]
    BY <1>1
  <2>2. calls'[Depth + 1] = Frame(c)
    BY <1>5, <2>1 DEF g
  <2>3. calls'[Depth] = f
    BY <1>5, <2>1
  <2>4. \A n \in 1 .. Depth : n < Depth => calls'[n] = calls[n]
    BY <1>5, <2>1
  <2>5. ASSUME NEW n \in 1 .. Depth
        PROVE  /\ calls'[n].bb = calls[n].bb /\ calls'[n].step = calls[n].step
               /\ calls'[n].next = calls[n].next
    <3>1. CASE n = Depth
      BY <1>2, <2>1, <2>3, <3>1
    <3>2. CASE n # Depth
      BY <2>1, <2>4, <3>2
    <3> QED
      BY <3>1, <3>2
  <2>6. /\ calls'[Depth].children = calls[Depth].children \ {c}
        /\ c \in calls[Depth].children
    BY <1>2, <2>1, <2>3
  <2> QED
    BY <1>5, <1>6, <1>14, <2>2, <2>4, <2>5, <2>6

\* Step eight: the activation on top is gone.
LEMMA CallsPop ==
    ASSUME TypeInv, CallsInv, PopBlock
    PROVE  /\ CallsInv' /\ Depth' = Depth - 1
           /\ \A n \in 1 .. Depth - 1 : calls'[n] = calls[n]
<1>1. /\ Depth \in Nat \ {0} /\ Depth' = Depth - 1
      /\ \A n \in 1 .. Depth - 1 : calls'[n] = calls[n]
      /\ calls' \in Seq(Call)
  BY CallsType, TopSpec, CallPopped DEF TypeInv, PopBlock
<1>2. UNCHANGED progVars /\ pc' = "rename" /\ calls # <<>>
  BY DEF PopBlock
<1>3. \A n \in 1 .. Depth' : CallFits(calls[n])'
  BY <1>1, <1>2, SameFits DEF CallsInv
<1>4. \A n \in 1 .. Depth' : n < Depth' =>
          /\ calls'[n].step = "children"
          /\ calls'[n + 1].bb \in DomTreeSucc(calls[n].bb)' \ calls'[n].children
  <2> TAKE n \in 1 .. Depth'
  <2> HAVE n < Depth'
  <2>1. calls'[n] = calls[n] /\ calls'[n + 1] = calls[n + 1] /\ n < Depth /\ n \in 1 .. Depth
    BY <1>1
  <2>2. DomTreeSucc(calls[n].bb)' = DomTreeSucc(calls[n].bb)
    BY <1>2, <2>1, SameProgram
  <2> QED
    BY <2>1, <2>2 DEF CallsInv
<1>5. ASSUME NEW m \in 1 .. Depth', NEW n \in 1 .. Depth', m < n
      PROVE  calls'[m].bb \in Dom(succ', calls'[n].bb) \ {calls'[n].bb}
  <2>1. /\ m \in 1 .. Depth /\ n \in 1 .. Depth
        /\ calls'[m] = calls[m] /\ calls'[n] = calls[n]
    BY <1>1
  <2> QED
    BY <1>2, <1>5, <2>1, SameProgram DEF CallsInv
<1>6. calls' # <<>> => calls'[1].bb = Entry
  <2> HAVE calls' # <<>>
  <2>1. 1 \in 1 .. Depth - 1
    BY <1>1 DEF Depth
  <2> QED
    BY <1>1, <1>2, <2>1 DEF CallsInv
<1> QED
  BY <1>1, <1>2, <1>3, <1>4, <1>5, <1>6 DEF CallsInv

\* The activation on top goes on as f, in the same block.
Moves(f) ==
    /\ calls # <<>> /\ calls' = Append(Below, f)
    /\ f \in Call /\ CallFits(f)
    /\ f.bb = Top.bb /\ f.children = Top.children

LEMMA TopFits ==
    ASSUME TypeInv, CallsInv, calls # <<>>
    PROVE  /\ CallFits(Top) /\ Top \in Call /\ Top.bb \in Block /\ Top.next \in Nat \ {0}
           /\ Len(code[Top.bb]) \in Nat
<1>1. Top = calls[Depth] /\ Depth \in 1 .. Depth /\ Top \in Call
  BY CallsType, TopSpec DEF TypeInv
<1>2. Top.bb \in Block /\ Top.next \in Nat \ {0}
  BY <1>1, CallEdits
<1> QED
  BY <1>1, <1>2, CodeTyped DEF CallsInv, TypeInv, Program

LEMMA PushPhisMoves ==
    ASSUME TypeInv, CallsInv, PushPhis
    PROVE  \E f : Moves(f) /\ f.step = "instrs" /\ f.next = 1 /\ Top.next = 1
<1> DEFINE f == [Top EXCEPT !.step = "instrs"]
<1>1. calls # <<>> /\ calls' = Append(Below, f) /\ Top.step = "phis"
  BY DEF PushPhis
<1>2. CallFits(Top) /\ Top \in Call
  BY <1>1, TopFits
<1>3. /\ f \in Call /\ f.bb = Top.bb /\ f.step = "instrs" /\ f.next = Top.next
      /\ f.children = Top.children
  BY <1>2, CallEdits DEF Phases
<1>4. CallFits(f) /\ Top.next = 1
  BY <1>1, <1>2, <1>3 DEF CallFits
<1> QED
  BY <1>1, <1>3, <1>4 DEF Moves

LEMMA AdvanceMoves ==
    ASSUME TypeInv, CallsInv, NEW op, AtInstruction(op), Advance
    PROVE  \E f : Moves(f) /\ f.step = "instrs" /\ f.next = Top.next + 1
<1> DEFINE f == [Top EXCEPT !.next = @ + 1]
<1>1. /\ calls # <<>> /\ calls' = Append(Below, f) /\ Top.step = "instrs"
      /\ Top.next <= Len(code[Top.bb])
  BY DEF AtInstruction, Advance
<1>2. /\ CallFits(Top) /\ Top \in Call /\ Top.next \in Nat \ {0}
      /\ Len(code[Top.bb]) \in Nat
  BY <1>1, TopFits
<1>3. /\ f \in Call /\ f.bb = Top.bb /\ f.step = "instrs" /\ f.next = Top.next + 1
      /\ f.children = Top.children
  BY <1>1, <1>2, CallEdits
<1>4. CallFits(f)
  BY <1>1, <1>2, <1>3 DEF CallFits
<1> QED
  BY <1>1, <1>3, <1>4 DEF Moves

LEMMA EndInstrsMoves ==
    ASSUME TypeInv, CallsInv, EndInstrs
    PROVE  \E f : Moves(f) /\ f.step = "succs" /\ f.next = Top.next
<1> DEFINE f == [Top EXCEPT !.step = "succs"]
<1>1. /\ calls # <<>> /\ calls' = Append(Below, f) /\ Top.step = "instrs"
      /\ Top.next > Len(code[Top.bb])
  BY DEF EndInstrs
<1>2. /\ CallFits(Top) /\ Top \in Call /\ Top.next \in Nat \ {0}
      /\ Len(code[Top.bb]) \in Nat
  BY <1>1, TopFits
<1>3. /\ f \in Call /\ f.bb = Top.bb /\ f.step = "succs" /\ f.next = Top.next
      /\ f.children = Top.children
  BY <1>2, CallEdits DEF Phases
<1>4. CallFits(f)
  BY <1>1, <1>2, <1>3 DEF CallFits
<1> QED
  BY <1>1, <1>3, <1>4 DEF Moves

LEMMA FillPhisMoves ==
    ASSUME TypeInv, CallsInv, FillPhis, pc' # "abort"
    PROVE  \E f : Moves(f) /\ f.step = "children" /\ f.next = Top.next
<1> DEFINE f == [Top EXCEPT !.step = "children"]
<1>1. calls # <<>> /\ calls' = Append(Below, f) /\ Top.step = "succs"
  BY DEF FillPhis
<1>2. CallFits(Top) /\ Top \in Call
  BY <1>1, TopFits
<1>3. /\ f \in Call /\ f.bb = Top.bb /\ f.step = "children" /\ f.next = Top.next
      /\ f.children = Top.children
  BY <1>2, CallEdits DEF Phases
<1>4. CallFits(f)
  BY <1>1, <1>2, <1>3 DEF CallFits
<1> QED
  BY <1>1, <1>3, <1>4 DEF Moves

\* The steps of re_name inside one block, and what they do to its activation.
InBlock == PushPhis \/ RenameLoad \/ RenameStore \/ EndInstrs \/ FillPhis

LEMMA InBlockMoves ==
    ASSUME TypeInv, CallsInv, InBlock
    PROVE  /\ pc = "rename" /\ pc' \in {"rename", "abort"} /\ calls # <<>>
           /\ \/ UNCHANGED calls /\ pc' = "abort"
              \/ \E f : Moves(f) /\ f.next \in {Top.next, Top.next + 1}
<1>1. CASE PushPhis
  BY <1>1, PushPhisMoves DEF PushPhis
<1>2. CASE RenameLoad
  <2>1. AtInstruction("load")
    BY <1>2 DEF RenameLoad
  <2> QED
    BY <1>2, <2>1, AdvanceMoves DEF RenameLoad, AtInstruction
<1>3. CASE RenameStore
  BY <1>3, AdvanceMoves DEF RenameStore, AtInstruction
<1>4. CASE EndInstrs
  BY <1>4, EndInstrsMoves DEF EndInstrs
<1>5. CASE FillPhis
  BY <1>5, FillPhisMoves DEF FillPhis
<1> QED
  BY <1>1, <1>2, <1>3, <1>4, <1>5 DEF InBlock

\* The steps that do not touch the activations.
Elsewhere == (\E x \in Var : PlaceVar(x)) \/ (\E b \in Block : VisitBlock(b)) \/ EndVar
             \/ remove_alloca \/ Finished

\* The steps, by what they do to the activations.
LEMMA NextCases ==
    Next => \/ Elsewhere \/ StartRename \/ InBlock
            \/ (\E c \in Block : Recurse(c)) \/ PopBlock
BY DEF Next, Step, Elsewhere, InBlock

LEMMA StartRenameCalls ==
    ASSUME TypeInv, CallsInv, StartRename
    PROVE  /\ CallsInv' /\ Depth' = 1 /\ calls'[1] = Frame(Entry)
           /\ pc = "place" /\ pc' = "rename" /\ calls = <<>>
<1>1. /\ calls' = <<Frame(Entry)>> /\ pc' = "rename" /\ pc = "place" /\ UNCHANGED progVars
  BY DEF StartRename
<1>2. Depth' = 1 /\ calls'[1] = Frame(Entry) /\ Frame(Entry).bb = Entry
  BY <1>1 DEF Depth, Frame
<1>3. CallFits(calls[1])'
  BY <1>1, <1>2, EntryFits, SameFits DEF TypeInv
<1> QED
  BY <1>1, <1>2, <1>3 DEF CallsInv

LEMMA CallsUnchanged ==
    ASSUME CallsInv, UNCHANGED <<progVars, calls>>,
           pc' \in {"place", "visit", "done"} => calls = <<>>
    PROVE  CallsInv'
<1>1. /\ Depth' = Depth /\ succ' = succ /\ calls' = calls
      /\ \A f : CallFits(f)' <=> CallFits(f)
      /\ \A b : DomTreeSucc(b)' = DomTreeSucc(b)
  BY SameFits, SameProgram DEF Depth
<1> QED
  BY <1>1 DEF CallsInv

LEMMA CallsStep == ASSUME TypeInv, CallsInv, Next PROVE CallsInv'
<1>0. UNCHANGED progVars
  BY ProgramStays DEF Next
<1>1. CASE Elsewhere
  BY <1>0, <1>1, CallsUnchanged
     DEF Elsewhere, PlaceVar, VisitBlock, EndVar, remove_alloca, Finished, vars, CallsInv
<1>2. CASE InBlock
  <2>1. CASE UNCHANGED calls /\ pc' = "abort"
    BY <1>0, <2>1, CallsUnchanged
  <2>2. CASE \E f : Moves(f)
    <3> PICK f : Moves(f)
      BY <2>2
    <3> QED
      BY <1>0, <1>2, InBlockMoves, CallsReplaced DEF Moves
  <2> QED
    BY <1>2, <2>1, <2>2, InBlockMoves
<1> QED
  BY <1>1, <1>2, NextCases, StartRenameCalls, CallsRecurse, CallsPop

LEMMA CallsStutter == ASSUME CallsInv, UNCHANGED vars PROVE CallsInv'
BY CallsUnchanged DEF vars, CallsInv

-----------------------------------------------------------------------------
(* What is still to be renamed                                             *)

\* No block has two activations.
LEMMA OneActivation ==
    ASSUME TypeInv, CallsInv, NEW m \in 1 .. Depth, NEW n \in 1 .. Depth,
           calls[m].bb = calls[n].bb
    PROVE  m = n
<1>1. m \in Nat /\ n \in Nat
  OBVIOUS
<1>2. ~ m < n /\ ~ n < m
  BY DEF CallsInv
<1> QED
  BY <1>1, <1>2

\* A block that is being renamed is not to be renamed again.
LEMMA ActiveNotPending ==
    ASSUME TypeInv, CallsInv, NEW m \in 1 .. Depth
    PROVE  ~ Pending(calls[m].bb)
<1> SUFFICES ASSUME NEW n \in 1 .. Depth, NEW c \in calls[n].children,
                    c \in Dom(succ, calls[m].bb)
             PROVE  FALSE
  BY DEF Pending
<1> DEFINE a == calls[n].bb
           b == calls[m].bb
<1>1. /\ Program /\ WellFormedCFG(succ) /\ calls \in Seq(Call) /\ m \in Nat /\ n \in Nat
      /\ Depth \in Nat
  BY CallsType DEF TypeInv, Program, Depth
<1>2. a \in Block /\ b \in Reachable(succ) /\ b \in Block /\ c \in DomTreeSucc(a)
  <2>1. calls[n] \in Call /\ calls[m] \in Call
    BY <1>1 DEF Depth
  <2>2. CallFits(calls[n]) /\ CallFits(calls[m])
    BY DEF CallsInv
  <2> QED
    BY <2>1, <2>2, CallEdits DEF CallFits
<1>3. /\ c \in Block /\ c \in Reachable(succ) \ {Entry} /\ a \in Dom(succ, c) \ {c}
      /\ Dom(succ, c) \ {c} = Dom(succ, a)
  BY <1>1, <1>2, ChildFits
<1>4. CASE m <= n
  <2>1. b \in Dom(succ, a)
    <3>1. CASE m = n
      BY <1>1, <1>2, <3>1, DomSelf
    <3>2. CASE m < n
      BY <3>2 DEF CallsInv
    <3> QED
      BY <1>1, <1>4, <3>1, <3>2
  <2>2. c \in Dom(succ, a)
    BY <1>1, <2>1, DomTransitive
  <2> QED
    BY <1>3, <2>2
<1>5. CASE n < m
  <2> DEFINE d == calls[n + 1].bb
  <2>1. n + 1 \in 1 .. Depth /\ n < Depth
    BY <1>1, <1>5
  <2>2. d \in DomTreeSucc(a) \ calls[n].children
    BY <2>1 DEF CallsInv
  <2>3. d \in Reachable(succ) \ {Entry} /\ Dom(succ, d) \ {d} = Dom(succ, a) /\ d \in Block
    BY <1>1, <1>2, <2>2, ChildFits
  <2>4. d \in Dom(succ, b)
    <3>1. CASE n + 1 = m
      BY <1>1, <1>2, <3>1, DomSelf
    <3>2. CASE n + 1 < m
      BY <2>1, <3>2 DEF CallsInv
    <3> QED
      BY <1>1, <1>5, <3>1, <3>2
  <2>5. c # d
    BY <2>2
  <2>6. c \in Dom(succ, d) \/ d \in Dom(succ, c)
    BY <1>1, <1>2, <2>4, DomChain
  <2>7. CASE c \in Dom(succ, d)
    <3>1. c \in Dom(succ, a)
      BY <2>3, <2>5, <2>7
    <3> QED
      BY <1>3, <3>1
  <2>8. CASE d \in Dom(succ, c)
    <3>1. d \in Dom(succ, a)
      BY <1>3, <2>5, <2>8
    <3> QED
      BY <2>3, <3>1
  <2> QED
    BY <2>6, <2>7, <2>8
<1> QED
  BY <1>1, <1>4, <1>5

\* The steps that change what is to be renamed: re_name(entry) begins with all
\* blocks but the entry before it, a call takes its own block out.
LEMMA PendingStart ==
    ASSUME TypeInv, CallsInv, StartRename, NEW b \in Reachable(succ)
    PROVE  Pending(b)' <=> b # Entry
<1>1. Program /\ WellFormedCFG(succ) /\ b \in Block /\ succ' = succ
  BY ReachableType, SameProgram DEF TypeInv, Program, StartRename
<1>2. /\ Depth' = 1 /\ calls'[1].children = DomTreeSucc(Entry)
  BY StartRenameCalls DEF Frame
<1>3. Pending(b)' <=> \E c \in DomTreeSucc(Entry) : c \in Dom(succ, b)
  BY <1>1, <1>2 DEF Pending
<1>4. CASE b = Entry
  BY <1>1, <1>3, <1>4, CFGAssumption, ChildFits, DomEntry
<1>5. CASE b # Entry
  <2>1. Entry \in Dom(succ, b) \ {b}
    BY <1>1, <1>5, EntryDom
  <2>2. \E c \in Dom(succ, b) : c \in Reachable(succ) \ {Entry} /\ IDom(succ, c) = Entry
    BY <1>1, <2>1, IDomBetween
  <2> QED
    BY <1>1, <1>3, <1>5, <2>2, CFGAssumption, TreeSpec
<1> QED
  BY <1>4, <1>5

LEMMA PendingRecurse ==
    ASSUME TypeInv, CallsInv, NEW c \in Block, Recurse(c), NEW b \in Reachable(succ)
    PROVE  Pending(b)' <=> Pending(b) /\ b # c
<1>1. Program /\ WellFormedCFG(succ) /\ b \in Block /\ succ' = succ
  BY ReachableType, SameProgram DEF TypeInv, Program, Recurse
<1>2. /\ Depth' = Depth + 1 /\ Depth \in Nat \ {0} /\ calls'[Depth + 1] = Frame(c)
      /\ \A n \in 1 .. Depth : n < Depth => calls'[n].children = calls[n].children
      /\ calls'[Depth].children = calls[Depth].children \ {c}
      /\ c \in calls[Depth].children /\ CallsInv'
  BY CallsRecurse, TopSpec, CallsType DEF Recurse, TypeInv
<1>3. calls'[Depth + 1].children = DomTreeSucc(c) /\ calls'[Depth + 1].bb = c
  BY <1>2 DEF Frame
<1>4. ASSUME Pending(b), b # c PROVE Pending(b)'
  <2> PICK n \in 1 .. Depth : \E e \in calls[n].children : e \in Dom(succ, b)
    BY <1>4 DEF Pending
  <2> PICK e \in calls[n].children : e \in Dom(succ, b)
    OBVIOUS
  <2>1. CASE n = Depth /\ e = c
    <3>1. PICK d \in Dom(succ, b) : d \in Reachable(succ) \ {Entry} /\ IDom(succ, d) = c
      BY <1>1, <1>4, <2>1, IDomBetween
    <3>2. d \in calls'[Depth + 1].children
      BY <1>1, <1>3, <3>1, TreeSpec
    <3>3. Depth + 1 \in 1 .. Depth'
      BY <1>2
    <3> QED
      BY <1>1, <3>1, <3>2, <3>3 DEF Pending
  <2>2. CASE ~ (n = Depth /\ e = c)
    <3>1. n \in 1 .. Depth' /\ e \in calls'[n].children
      BY <1>2, <2>2
    <3> QED
      BY <1>1, <3>1 DEF Pending
  <2> QED
    BY <2>1, <2>2
<1>5. ASSUME Pending(b)' PROVE Pending(b)
  <2> PICK n \in 1 .. Depth' : \E e \in calls'[n].children : e \in Dom(succ, b)
    BY <1>1, <1>5 DEF Pending
  <2> PICK e \in calls'[n].children : e \in Dom(succ, b)
    OBVIOUS
  <2>1. CASE n = Depth + 1
    <3>1. c \in Dom(succ, e)
      BY <1>1, <1>3, <2>1, ChildFits
    <3>2. c \in Dom(succ, b)
      BY <1>1, <3>1, DomTransitive
    <3>3. Depth \in 1 .. Depth
      BY <1>2
    <3> QED
      BY <1>2, <3>2, <3>3 DEF Pending
  <2>2. CASE n # Depth + 1
    <3>1. n \in 1 .. Depth
      BY <1>2, <2>2
    <3>2. e \in calls[n].children
      BY <1>2, <3>1
    <3> QED
      BY <3>1, <3>2 DEF Pending
  <2> QED
    BY <2>1, <2>2
<1>6. ~ Pending(c)'
  <2> SUFFICES ASSUME NEW n \in 1 .. Depth', NEW e \in calls'[n].children, e \in Dom(succ, c)
               PROVE  FALSE
    BY <1>1 DEF Pending
  <2>1. /\ c \in DomTreeSucc(Top.bb) /\ Top = calls[Depth] /\ Top.bb \in Block
        /\ IDom(succ, c) = Top.bb /\ c \in Reachable(succ)
        /\ Dom(succ, c) \ {c} = Dom(succ, Top.bb)
    <3>1. c \in DomTreeSucc(Top.bb) /\ calls # <<>>
      BY CallsRecurse DEF Recurse
    <3>2. Top.bb \in Block /\ Top = calls[Depth]
      BY <3>1, TopFits, TopSpec, CallsType DEF TypeInv
    <3> QED
      BY <1>1, <3>1, <3>2, ChildFits, TreeSpec
  <2>2. CASE n = Depth + 1
    <3>1. c \in Dom(succ, e) \ {e}
      BY <1>1, <1>3, <2>2, ChildFits
    <3> QED
      BY <1>1, <2>1, <3>1, DomAntisymmetric
  <2>3. CASE n # Depth + 1
    <3>1. n \in 1 .. Depth /\ Depth \in 1 .. Depth
      BY <1>2, <2>3
    <3>2. e \in calls[n].children
      BY <1>2, <3>1
    <3>3. CASE e # c
      <4>1. e \in Dom(succ, Top.bb)
        BY <2>1, <3>3
      <4>2. Pending(Top.bb)
        BY <3>1, <3>2, <4>1 DEF Pending
      <4> QED
        BY <2>1, <3>1, <4>2, ActiveNotPending
    <3>4. CASE e = c
      <4>1. CallFits(calls[n]) /\ calls[n].bb \in Block
        BY <1>1, <3>1, ReachableType DEF CallsInv, CallFits
      <4>2. IDom(succ, c) = calls[n].bb
        BY <1>1, <3>2, <3>4, <4>1, TreeSpec DEF CallFits
      <4>3. n = Depth
        BY <2>1, <3>1, <4>2, OneActivation
      <4> QED
        BY <1>2, <3>4, <4>3
    <3> QED
      BY <3>3, <3>4
  <2> QED
    BY <2>2, <2>3
<1> QED
  BY <1>4, <1>5, <1>6

LEMMA MovesSpec ==
    ASSUME TypeInv, NEW f, Moves(f)
    PROVE  /\ Depth \in Nat \ {0} /\ Depth' = Depth /\ Top = calls[Depth]
           /\ \A n \in 1 .. Depth : calls'[n] = IF n = Depth THEN f ELSE calls[n]
           /\ \A n \in 1 .. Depth : /\ calls'[n].bb = calls[n].bb
                                    /\ calls'[n].children = calls[n].children
<1>1. /\ Depth \in Nat \ {0} /\ Depth' = Depth /\ Top = calls[Depth]
      /\ \A n \in 1 .. Depth : calls'[n] = IF n = Depth THEN f ELSE calls[n]
  BY CallsType, TopSpec, TopReplaced DEF TypeInv, Moves
<1>2. f.bb = calls[Depth].bb /\ f.children = calls[Depth].children
  BY <1>1 DEF Moves
<1> QED
  BY <1>1, <1>2

LEMMA PendingMoves ==
    ASSUME TypeInv, NEW f, Moves(f), UNCHANGED progVars, NEW b
    PROVE  Pending(b)' <=> Pending(b)
<1>1. /\ Depth' = Depth /\ succ' = succ
      /\ \A n \in 1 .. Depth : calls'[n].children = calls[n].children
  BY MovesSpec, SameProgram
<1> QED
  BY <1>1 DEF Pending

LEMMA PendingPop ==
    ASSUME TypeInv, CallsInv, PopBlock, NEW b
    PROVE  Pending(b)' <=> Pending(b)
<1>1. /\ Depth' = Depth - 1 /\ succ' = succ /\ Depth \in Nat \ {0} /\ Top = calls[Depth]
      /\ \A n \in 1 .. Depth - 1 : calls'[n] = calls[n]
      /\ calls[Depth].children = {}
  BY CallsPop, TopSpec, CallsType, SameProgram DEF TypeInv, PopBlock
<1>2. ASSUME Pending(b)' PROVE Pending(b)
  <2> PICK n \in 1 .. Depth - 1 : \E c \in calls'[n].children : c \in Dom(succ, b)
    BY <1>1, <1>2 DEF Pending
  <2>1. n \in 1 .. Depth /\ calls'[n] = calls[n]
    BY <1>1
  <2> QED
    BY <2>1 DEF Pending
<1>3. ASSUME Pending(b) PROVE Pending(b)'
  <2> PICK n \in 1 .. Depth : \E c \in calls[n].children : c \in Dom(succ, b)
    BY <1>3 DEF Pending
  <2>1. n # Depth
    BY <1>1
  <2>2. n \in 1 .. Depth' /\ calls'[n] = calls[n]
    BY <1>1, <2>1
  <2> QED
    BY <1>1, <2>2 DEF Pending
<1> QED
  BY <1>2, <1>3

\* Loads and stores name a place of a block.
LEMMA PlaceOf ==
    ASSUME Program, NEW i \in Loads \cup Stores
    PROVE  /\ i = <<i[1], i[2]>> /\ i[1] \in Block /\ i[2] \in Nat \ {0}
           /\ i[2] <= Len(code[i[1]]) /\ Len(code[i[1]]) \in Nat
<1>1. i = <<i[1], i[2]>> /\ i[1] \in Block /\ i[2] \in DOMAIN code[i[1]]
  BY LoadsSpec, StoresSpec
<1> QED
  BY <1>1, CodeTyped DEF Program

\* What is behind re_name stays behind it.
LEMMA AheadShrinks ==
    ASSUME TypeInv, CallsInv, Next, NEW i \in Loads \cup Stores, Ahead(i)'
    PROVE  Ahead(i)
<1>0. Program /\ UNCHANGED progVars /\ i[1] \in Block /\ i[2] \in Nat \ {0}
  BY ProgramStays, PlaceOf DEF Next, TypeInv
<1>1. CASE Elsewhere
  <2>1. UNCHANGED calls /\ (pc' \in {"place", "visit"} => pc \in {"place", "visit"})
    BY <1>1 DEF Elsewhere, PlaceVar, VisitBlock, EndVar, remove_alloca, Finished, vars
  <2>2. Depth' = Depth /\ succ' = succ
    BY <1>0, <2>1, SameProgram DEF Depth
  <2>3. Pending(i[1])' <=> Pending(i[1])
    BY <2>1, <2>2 DEF Pending
  <2> QED
    BY <2>1, <2>2, <2>3 DEF Ahead
<1>2. CASE StartRename
  BY <1>2 DEF StartRename, Ahead
<1>3. CASE InBlock
  <2>1. pc = "rename" /\ pc' \in {"rename", "abort"} /\ calls # <<>>
    BY <1>3, InBlockMoves
  <2>2. CASE UNCHANGED calls
    <3>1. Depth' = Depth /\ succ' = succ
      BY <1>0, <2>2, SameProgram DEF Depth
    <3>2. Pending(i[1])' <=> Pending(i[1])
      BY <2>2, <3>1 DEF Pending
    <3> QED
      BY <2>1, <2>2, <3>1, <3>2 DEF Ahead
  <2>3. CASE \E f : Moves(f) /\ f.next \in {Top.next, Top.next + 1}
    <3> PICK f : Moves(f) /\ f.next \in {Top.next, Top.next + 1}
      BY <2>3
    <3>1. /\ Depth \in Nat \ {0} /\ Depth' = Depth /\ Top = calls[Depth]
          /\ \A n \in 1 .. Depth : calls'[n] = IF n = Depth THEN f ELSE calls[n]
          /\ \A n \in 1 .. Depth : calls'[n].bb = calls[n].bb
      BY MovesSpec
    <3>2. Top.next \in Nat
      BY <2>1, TopFits
    <3>3. Pending(i[1])' <=> Pending(i[1])
      BY <1>0, PendingMoves
    <3>4. ASSUME NEW n \in 1 .. Depth', calls'[n].bb = i[1], calls'[n].next <= i[2]
          PROVE  calls[n].bb = i[1] /\ calls[n].next <= i[2] /\ n \in 1 .. Depth
      <4>1. n \in 1 .. Depth /\ calls[n].bb = i[1]
        BY <3>1, <3>4
      <4>2. CASE n = Depth
        BY <1>0, <3>1, <3>2, <3>4, <4>1, <4>2
      <4>3. CASE n # Depth
        BY <3>1, <3>4, <4>1, <4>3
      <4> QED
        BY <4>1, <4>2, <4>3
    <3> QED
      BY <2>1, <3>3, <3>4 DEF Ahead
  <2> QED
    BY <1>3, <2>2, <2>3, InBlockMoves
<1>4. CASE \E c \in Block : Recurse(c)
  <2> PICK c \in Block : Recurse(c)
    BY <1>4
  <2>1. /\ Depth' = Depth + 1 /\ calls'[Depth + 1] = Frame(c) /\ Depth \in Nat \ {0}
        /\ \A n \in 1 .. Depth : calls'[n].bb = calls[n].bb /\ calls'[n].next = calls[n].next
        /\ c \in calls[Depth].children /\ pc = "rename" /\ pc' = "rename"
        /\ c \in DomTreeSucc(Top.bb) /\ Top.bb \in Block
    BY CallsRecurse, TopSpec, TopFits, CallsType DEF Recurse, TypeInv
  <2>2. c \in Dom(succ, c) /\ c \in Reachable(succ)
    BY <1>0, <2>1, DomSelf, ChildFits DEF Program
  <2>3. CASE Pending(i[1])'
    <3>1. PICK n \in 1 .. Depth' : \E d \in calls'[n].children : d \in Dom(succ, i[1])
      BY <1>0, <2>3, SameProgram DEF Pending
    <3>2. i[1] \in Reachable(succ) => Pending(i[1])
      BY <2>3, PendingRecurse
    <3>3. CASE i[1] \notin Reachable(succ)
      \* every block dominates one that no path reaches
      <4>1. Dom(succ, i[1]) = Block
        BY <1>0, <3>3, ReachAvoidingLess DEF Dom, Program
      <4>2. Depth \in 1 .. Depth /\ c \in Dom(succ, i[1])
        BY <2>1, <4>1
      <4> QED
        BY <2>1, <4>2 DEF Ahead, Pending
    <3> QED
      BY <3>2, <3>3 DEF Ahead
  <2>4. CASE ~ Pending(i[1])'
    <3>1. PICK n \in 1 .. Depth' : calls'[n].bb = i[1] /\ calls'[n].next <= i[2]
      BY <2>1, <2>4 DEF Ahead
    <3>2. CASE n = Depth + 1
      <4>1. i[1] = c /\ Depth \in 1 .. Depth
        BY <2>1, <3>1, <3>2 DEF Frame
      <4> QED
        BY <2>1, <2>2, <4>1 DEF Ahead, Pending
    <3>3. CASE n # Depth + 1
      <4>1. n \in 1 .. Depth
        BY <2>1, <3>3
      <4> QED
        BY <2>1, <3>1, <4>1 DEF Ahead
    <3> QED
      BY <3>2, <3>3
  <2> QED
    BY <2>3, <2>4
<1>5. CASE PopBlock
  <2>1. /\ Depth' = Depth - 1 /\ Depth \in Nat \ {0} /\ pc = "rename" /\ pc' = "rename"
        /\ \A n \in 1 .. Depth - 1 : calls'[n] = calls[n]
    BY <1>5, CallsPop, TopSpec, CallsType DEF TypeInv, PopBlock
  <2>2. Pending(i[1])' <=> Pending(i[1])
    BY <1>5, PendingPop
  <2>3. ASSUME NEW n \in 1 .. Depth', calls'[n].bb = i[1], calls'[n].next <= i[2]
        PROVE  n \in 1 .. Depth /\ calls[n].bb = i[1] /\ calls[n].next <= i[2]
    BY <2>1, <2>3
  <2> QED
    BY <2>1, <2>2, <2>3 DEF Ahead
<1> QED
  BY <1>1, <1>2, <1>3, <1>4, <1>5, NextCases

-----------------------------------------------------------------------------
(* No erased load is left anywhere                                         *)

\* What an activation has passed is behind.
LEMMA BehindInBlock ==
    ASSUME TypeInv, CallsInv, calls # <<>>, NEW k \in Nat, k < Top.next
    PROVE  ~ Ahead(<<Top.bb, k>>)
<1>1. Depth \in 1 .. Depth /\ Top = calls[Depth] /\ Top.next \in Nat
  BY CallsType, TopSpec, TopFits DEF TypeInv
<1>2. ~ Pending(Top.bb)
  BY <1>1, ActiveNotPending
<1>3. pc \notin {"place", "visit"}
  BY DEF CallsInv
<1>4. ASSUME NEW n \in 1 .. Depth, calls[n].bb = Top.bb PROVE ~ calls[n].next <= k
  BY <1>1, <1>4, OneActivation
<1> QED
  BY <1>2, <1>3, <1>4 DEF Ahead

\* The load or store at hand is still ahead, and no longer once it is done.
LEMMA AtHand ==
    ASSUME TypeInv, CallsInv, NEW op, AtInstruction(op), NEW i, i = <<Top.bb, Top.next>>
    PROVE  /\ Ahead(i)
           /\ (Advance /\ UNCHANGED progVars /\ UNCHANGED pc) => ~ Ahead(i)'
<1>1. /\ Depth \in Nat \ {0} /\ Depth \in 1 .. Depth /\ Top = calls[Depth] /\ calls # <<>>
      /\ pc = "rename" /\ Top.next \in Nat /\ Top.bb \in Block
  BY CallsType, TopSpec, TopFits DEF TypeInv, AtInstruction
<1>2. Ahead(i)
  BY <1>1 DEF Ahead
<1>3. ASSUME Advance, UNCHANGED progVars, UNCHANGED pc PROVE ~ Ahead(i)'
  <2> PICK f : Moves(f) /\ f.step = "instrs" /\ f.next = Top.next + 1
    BY <1>3, AdvanceMoves
  <2>1. /\ Depth' = Depth
        /\ \A n \in 1 .. Depth : calls'[n] = IF n = Depth THEN f ELSE calls[n]
        /\ \A n \in 1 .. Depth : calls'[n].bb = calls[n].bb
    BY MovesSpec
  <2>2. ~ Pending(Top.bb)
    BY <1>1, ActiveNotPending
  <2>3. ~ Pending(i[1])'
    BY <1>3, <2>2, PendingMoves
  <2>4. ASSUME NEW n \in 1 .. Depth', calls'[n].bb = Top.bb PROVE ~ calls'[n].next <= i[2]
    <3>1. n = Depth
      BY <1>1, <2>1, <2>4, OneActivation
    <3> QED
      BY <1>1, <2>1, <3>1
  <2> QED
    BY <1>1, <1>3, <2>3, <2>4 DEF Ahead
<1> QED
  BY <1>2, <1>3

LEMMA FreshInit == Init => FreshInv
<1> SUFFICES ASSUME Init PROVE FreshInv
  OBVIOUS
<1>1. erased = {} /\ pc = "place" /\ WellFormedCode(code)
  BY DEF Init
<1>2. StacksFresh /\ UsesFresh
  BY <1>1 DEF Init, StacksFresh, UsesFresh
<1>3. StoresFresh
  <2>1. ASSUME NEW j \in Stores, NEW i \in Loads, StoredValue(j) = LoadValue(i)
        PROVE  i[1] = j[1] /\ i[2] < j[2]
    BY <1>1, <2>1, StoredValueSpec, ValuesDiffer
  <2> QED
    BY <1>1, <2>1 DEF Init, StoresFresh
<1> QED
  BY <1>2, <1>3 DEF FreshInv

LEMMA FreshUnchanged ==
    ASSUME TypeInv, CallsInv, FreshInv, Next,
           UNCHANGED <<rval, read, phi_ops, var_val_stack, erased>>
    PROVE  FreshInv'
<1>1. Loads' = Loads /\ Stores' = Stores
  BY ProgramStays, SameProgram DEF Next
<1>2. \A i \in Loads : Ahead(i)' => Ahead(i)
  BY AheadShrinks
<1> QED
  BY <1>1, <1>2 DEF FreshInv, StacksFresh, StoresFresh, UsesFresh

\* A push of a value that is no load, or a load that is fresh.
LEMMA FreshPush ==
    ASSUME TypeInv, CallsInv, FreshInv, Next, UNCHANGED <<rval, read, phi_ops>>,
           erased' \cap Loads = erased \cap Loads,
           NEW P \in SUBSET Var, NEW v \in [Var -> Values],
           var_val_stack' = [x \in Var |-> IF x \in P THEN Append(var_val_stack[x], v[x])
                                           ELSE var_val_stack[x]],
           \A x \in P : \A i \in Loads : v[x] = LoadValue(i) => i \notin erased /\ ~ Ahead(i)
    PROVE  FreshInv'
<1>1. Loads' = Loads /\ Stores' = Stores
  BY ProgramStays, SameProgram DEF Next
<1>2. \A i \in Loads : (Ahead(i)' => Ahead(i)) /\ (i \in erased' <=> i \in erased)
  BY AheadShrinks
<1>3. StacksFresh'
  <2>1. ASSUME NEW x \in Var, NEW k \in DOMAIN var_val_stack'[x], NEW i \in Loads,
               var_val_stack'[x][k] = LoadValue(i)
        PROVE  i \notin erased /\ ~ Ahead(i)
    <3>1. var_val_stack[x] \in Seq(Values) /\ v[x] \in Values
      BY DEF TypeInv, TypeOK
    <3>2. CASE x \in P
      <4>1. var_val_stack'[x] = Append(var_val_stack[x], v[x])
        BY <3>2
      <4>2. k \in DOMAIN var_val_stack[x] \/ var_val_stack'[x][k] = v[x]
        BY <3>1, <4>1
      <4>3. k \in DOMAIN var_val_stack[x] => var_val_stack'[x][k] = var_val_stack[x][k]
        BY <3>1, <4>1
      <4> QED
        BY <2>1, <3>2, <4>2, <4>3 DEF FreshInv, StacksFresh
    <3>3. CASE x \notin P
      BY <2>1, <3>3 DEF FreshInv, StacksFresh
    <3> QED
      BY <3>2, <3>3
  <2> QED
    BY <1>1, <1>2, <2>1 DEF StacksFresh
<1>4. StoresFresh'
  BY <1>1, <1>2 DEF FreshInv, StoresFresh
<1>5. UsesFresh'
  BY <1>1, <1>2 DEF FreshInv, UsesFresh
<1> QED
  BY <1>3, <1>4, <1>5 DEF FreshInv

\* The uses of a load go to a fresh value and the load is erased.
LEMMA FreshReplace ==
    ASSUME TypeInv, CallsInv, FreshInv, Next, UNCHANGED var_val_stack,
           NEW i0 \in Loads, Ahead(i0), erased' = erased \cup {i0},
           NEW w \in Values, ReplaceAllUses(LoadValue(i0), w),
           \A i \in Loads : w = LoadValue(i) => i \notin erased /\ ~ Ahead(i)
    PROVE  FreshInv'
<1>1. Loads' = Loads /\ Stores' = Stores
  BY ProgramStays, SameProgram DEF Next
<1>2. \A i \in Loads : Ahead(i)' => Ahead(i)
  BY AheadShrinks
<1>3. /\ rval \in [Stores -> Values] /\ read \in [Loads -> Values]
      /\ phi_ops \in [Block \X Var -> SUBSET (Values \X Block)]
  BY DEF TypeInv, TypeOK
<1>4. ASSUME NEW i \in Loads, w = LoadValue(i)
      PROVE  i \notin erased' /\ ~ Ahead(i)
  BY <1>4
<1>5. StacksFresh'
  <2>1. ASSUME NEW x \in Var, NEW k \in DOMAIN var_val_stack[x], NEW i \in Loads,
               var_val_stack[x][k] = LoadValue(i)
        PROVE  i \notin erased' /\ ~ Ahead(i)
    BY <2>1 DEF FreshInv, StacksFresh
  <2> QED
    BY <1>1, <1>2, <2>1 DEF StacksFresh
<1>6. StoresFresh'
  <2>1. ASSUME NEW j \in Stores, NEW i \in Loads, rval'[j] = LoadValue(i)
        PROVE  i \notin erased' /\ (Ahead(i) => i[1] = j[1] /\ i[2] < j[2])
    <3>1. rval'[j] = IF rval[j] = LoadValue(i0) THEN w ELSE rval[j]
      BY <1>3 DEF ReplaceAllUses
    <3>2. CASE rval[j] = LoadValue(i0)
      BY <1>4, <2>1, <3>1, <3>2
    <3>3. CASE rval[j] # LoadValue(i0)
      <4>1. rval[j] = LoadValue(i) /\ i # i0
        BY <2>1, <3>1, <3>3
      <4> QED
        BY <4>1 DEF FreshInv, StoresFresh
    <3> QED
      BY <3>2, <3>3
  <2> QED
    BY <1>1, <1>2, <2>1 DEF StoresFresh
<1>7. UsesFresh'
  <2>1. ASSUME NEW j \in Loads, NEW i \in Loads, read'[j] = LoadValue(i)
        PROVE  i \notin erased'
    <3>1. read'[j] = IF read[j] = LoadValue(i0) THEN w ELSE read[j]
      BY <1>3 DEF ReplaceAllUses
    <3>2. CASE read[j] = LoadValue(i0)
      BY <1>4, <2>1, <3>1, <3>2
    <3>3. CASE read[j] # LoadValue(i0)
      <4>1. read[j] = LoadValue(i) /\ i # i0
        BY <2>1, <3>1, <3>3
      <4> QED
        BY <4>1 DEF FreshInv, UsesFresh
    <3> QED
      BY <3>2, <3>3
  <2>2. ASSUME NEW f \in Block \X Var, NEW o \in phi_ops'[f], NEW i \in Loads,
               o[1] = LoadValue(i)
        PROVE  i \notin erased'
    <3>1. phi_ops'[f] = {<<IF p[1] = LoadValue(i0) THEN w ELSE p[1], p[2]>> : p \in phi_ops[f]}
      BY <1>3 DEF ReplaceAllUses
    <3>2. PICK p \in phi_ops[f] : o = <<IF p[1] = LoadValue(i0) THEN w ELSE p[1], p[2]>>
      BY <3>1
    <3>3. CASE p[1] = LoadValue(i0)
      BY <1>4, <2>2, <3>2, <3>3
    <3>4. CASE p[1] # LoadValue(i0)
      <4>1. p[1] = LoadValue(i) /\ i # i0
        BY <2>2, <3>2, <3>4
      <4> QED
        BY <4>1 DEF FreshInv, UsesFresh
    <3> QED
      BY <3>3, <3>4
  <2> QED
    BY <1>1, <2>1, <2>2 DEF UsesFresh
<1> QED
  BY <1>5, <1>6, <1>7 DEF FreshInv

LEMMA FreshRenameLoad ==
    ASSUME TypeInv, CallsInv, FreshInv, RenameLoad PROVE FreshInv'
<1> DEFINE i0 == <<Top.bb, Top.next>>
           x == code[Top.bb][Top.next].var
<1>0. Next
  BY DEF Next, Step
<1>1. i0 \in Loads /\ x \in Var /\ AtInstruction("load")
  BY AtInstructionSpec DEF RenameLoad
<1>2. UNCHANGED var_val_stack
  BY DEF RenameLoad
<1>3. CASE UNCHANGED <<rval, read, phi_ops, erased>>
  BY <1>0, <1>2, <1>3, FreshUnchanged
<1>4. CASE /\ var_val_stack[x] # <<>> /\ ReplaceAllUses(LoadValue(i0), Latest(x))
           /\ erased' = erased \cup {i0}
  <2>1. /\ Latest(x) \in Values
        /\ Len(var_val_stack[x]) \in DOMAIN var_val_stack[x]
    BY <1>1, <1>4, LatestType DEF TypeInv
  <2>2. \A i \in Loads : Latest(x) = LoadValue(i) => i \notin erased /\ ~ Ahead(i)
    BY <1>1, <2>1 DEF FreshInv, StacksFresh, Latest
  <2>3. Ahead(i0)
    BY <1>1, AtHand
  <2> QED
    BY <1>0, <1>1, <1>2, <1>4, <2>1, <2>2, <2>3, FreshReplace
<1> QED
  BY <1>3, <1>4 DEF RenameLoad

LEMMA FreshRenameStore ==
    ASSUME TypeInv, CallsInv, FreshInv, RenameStore PROVE FreshInv'
<1> DEFINE i0 == <<Top.bb, Top.next>>
           x == code[Top.bb][Top.next].var
           v == [y \in Var |-> rval[i0]]
<1>0. Next
  BY DEF Next, Step
<1>1. i0 \in Stores /\ x \in Var /\ calls # <<>>
  BY AtInstructionSpec DEF RenameStore, AtInstruction
<1>2. /\ var_val_stack' = [var_val_stack EXCEPT ![x] = Append(@, rval[i0])]
      /\ erased' = erased \cup {i0} /\ UNCHANGED <<rval, read, phi_ops>>
  BY DEF RenameStore
<1>3. var_val_stack \in [Var -> Seq(Values)] /\ v \in [Var -> Values]
  BY <1>1 DEF TypeInv, TypeOK
<1>4. var_val_stack' = [y \in Var |-> IF y \in {x} THEN Append(var_val_stack[y], v[y])
                                      ELSE var_val_stack[y]]
  BY <1>1, <1>2, <1>3
<1>5. i0 \notin Loads
  BY <1>1, LoadsSpec, StoresSpec
<1>6. ASSUME NEW i \in Loads, rval[i0] = LoadValue(i) PROVE i \notin erased /\ ~ Ahead(i)
  <2>1. i \notin erased /\ (Ahead(i) => i[1] = i0[1] /\ i[2] < i0[2])
    BY <1>1, <1>6 DEF FreshInv, StoresFresh
  <2>2. i = <<i[1], i[2]>> /\ i[2] \in Nat
    BY PlaceOf DEF TypeInv
  <2>3. i[1] = Top.bb /\ i[2] < Top.next => ~ Ahead(<<Top.bb, i[2]>>)
    BY <1>1, <2>2, BehindInBlock
  <2> QED
    BY <2>1, <2>2, <2>3
<1> HIDE DEF v, x, i0
<1>7. \A y \in {x} : \A i \in Loads : v[y] = LoadValue(i) => i \notin erased /\ ~ Ahead(i)
  BY <1>1, <1>6 DEF v
<1> QED
  BY <1>0, <1>1, <1>2, <1>3, <1>4, <1>5, <1>7, FreshPush

LEMMA FreshFillPhis ==
    ASSUME TypeInv, CallsInv, FreshInv, FillPhis PROVE FreshInv'
<1> DEFINE b == Top.bb
<1>0. Next /\ UNCHANGED <<rval, read, var_val_stack, erased>>
  BY DEF Next, Step, FillPhis
<1>1. CASE UNCHANGED phi_ops
  BY <1>0, <1>1, FreshUnchanged
<1>2. CASE /\ \A f \in PhisToFill(b) : var_val_stack[f[2]] # <<>>
           /\ phi_ops' = [f \in DOMAIN phi_ops |->
                     IF f \in PhisToFill(b)
                     THEN phi_ops[f] \cup {<<Latest(f[2]), b>>} ELSE phi_ops[f]]
  <2>1. Loads' = Loads /\ Stores' = Stores
    BY <1>0, ProgramStays, SameProgram DEF Next
  <2>2. \A i \in Loads : Ahead(i)' => Ahead(i)
    BY <1>0, AheadShrinks
  <2>3. StacksFresh' /\ StoresFresh'
    BY <1>0, <2>1, <2>2 DEF FreshInv, StacksFresh, StoresFresh
  <2>4. ASSUME NEW f \in Block \X Var, NEW o \in phi_ops'[f], NEW i \in Loads,
               o[1] = LoadValue(i)
        PROVE  i \notin erased
    <3>1. phi_ops'[f] = IF f \in PhisToFill(b)
                        THEN phi_ops[f] \cup {<<Latest(f[2]), b>>} ELSE phi_ops[f]
      BY <1>2 DEF TypeInv, TypeOK
    <3>2. CASE o \in phi_ops[f]
      BY <2>4, <3>2 DEF FreshInv, UsesFresh
    <3>3. CASE f \in PhisToFill(b) /\ o = <<Latest(f[2]), b>>
      <4>1. f[2] \in Var /\ Len(var_val_stack[f[2]]) \in DOMAIN var_val_stack[f[2]]
        BY <1>2, <3>3, LatestType DEF PhisToFill, TypeInv
      <4> QED
        BY <2>4, <3>3, <4>1 DEF FreshInv, StacksFresh, Latest
    <3> QED
      BY <3>1, <3>2, <3>3
  <2>5. UsesFresh'
    BY <1>0, <2>1, <2>4 DEF FreshInv, UsesFresh
  <2> QED
    BY <2>3, <2>5 DEF FreshInv
<1> QED
  BY <1>1, <1>2 DEF FillPhis

LEMMA FreshPop ==
    ASSUME TypeInv, CallsInv, FreshInv, PopBlock PROVE FreshInv'
<1>0. Next /\ UNCHANGED <<rval, read, phi_ops, erased>> /\ calls # <<>>
  BY DEF Next, Step, PopBlock
<1>1. Loads' = Loads /\ Stores' = Stores
  BY <1>0, ProgramStays, SameProgram DEF Next
<1>2. \A i \in Loads : Ahead(i)' => Ahead(i)
  BY <1>0, AheadShrinks
<1>3. ASSUME NEW x \in Var, NEW k \in DOMAIN var_val_stack'[x]
      PROVE  k \in DOMAIN var_val_stack[x] /\ var_val_stack'[x][k] = var_val_stack[x][k]
  <2> DEFINE s == var_val_stack[x]
             m == Pushes(Top.bb, x)
  <2>1. s \in Seq(Values) /\ m \in Nat
    BY <1>0, TopFits, PushesSpec DEF TypeInv, TypeOK
  <2>2. var_val_stack'[x] = SubSeq(s, 1, Len(s) - m)
    BY DEF PopBlock
  <2> HIDE DEF s, m
  <2>3. k \in DOMAIN s /\ var_val_stack'[x][k] = s[k]
    BY <1>3, <2>1, <2>2
  <2> QED
    BY <2>3 DEF s
<1>4. StacksFresh'
  BY <1>0, <1>1, <1>2, <1>3 DEF FreshInv, StacksFresh
<1>5. StoresFresh' /\ UsesFresh'
  BY <1>0, <1>1, <1>2 DEF FreshInv, StoresFresh, UsesFresh
<1> QED
  BY <1>4, <1>5 DEF FreshInv

LEMMA FreshPushPhis ==
    ASSUME TypeInv, CallsInv, FreshInv, PushPhis PROVE FreshInv'
<1> DEFINE b == Top.bb
           v == [x \in Var |-> PhiValue(b, x)]
<1>0. Next /\ UNCHANGED <<rval, read, phi_ops, erased>> /\ calls # <<>>
  BY DEF Next, Step, PushPhis
<1>1. b \in Block /\ phis[b] \in SUBSET Var
  BY <1>0, TopFits DEF TypeInv, TypeOK
<1>2. v \in [Var -> Values]
  BY <1>1, ValuesType
<1>3. var_val_stack' = [x \in Var |-> IF x \in phis[b] THEN Append(var_val_stack[x], v[x])
                                      ELSE var_val_stack[x]]
  BY DEF PushPhis
<1>4. \A x \in phis[b] : \A i \in Loads : v[x] # LoadValue(i)
  BY <1>1, ValuesDiffer
<1> DEFINE P == phis[b]
<1> HIDE DEF v, b
<1>5. /\ \A x \in P : \A i \in Loads : v[x] = LoadValue(i) => i \notin erased /\ ~ Ahead(i)
      /\ P \in SUBSET Var /\ erased' \cap Loads = erased \cap Loads
      /\ var_val_stack' = [x \in Var |-> IF x \in P THEN Append(var_val_stack[x], v[x])
                                         ELSE var_val_stack[x]]
  BY <1>0, <1>1, <1>3, <1>4
<1> HIDE DEF P
<1> QED
  BY <1>0, <1>2, <1>5, FreshPush

LEMMA FreshStep == ASSUME TypeInv, CallsInv, FreshInv, Next PROVE FreshInv'
<1>1. CASE Elsewhere \/ StartRename \/ EndInstrs \/ \E c \in Block : Recurse(c)
  <2>1. UNCHANGED <<rval, read, phi_ops, var_val_stack, erased>>
    BY <1>1 DEF Elsewhere, PlaceVar, VisitBlock, EndVar, remove_alloca, Finished, vars,
       StartRename, EndInstrs, Recurse
  <2> QED
    BY <2>1, FreshUnchanged
<1> QED
  BY <1>1, NextCases, FreshPushPhis, FreshRenameLoad, FreshRenameStore, FreshFillPhis, FreshPop
     DEF InBlock

LEMMA FreshStutter == ASSUME FreshInv, UNCHANGED vars PROVE FreshInv'
<1>1. Loads' = Loads /\ Stores' = Stores /\ succ' = succ
  BY SameProgram DEF vars
<1>2. \A i : Ahead(i)' <=> Ahead(i)
  BY <1>1 DEF vars, Ahead, Pending, Depth
<1> QED
  BY <1>1, <1>2 DEF vars, FreshInv, StacksFresh, StoresFresh, UsesFresh

\* The inductive invariant gives the property.
LEMMA FreshMeans == TypeInv /\ FreshInv => NoStaleValue
BY DEF TypeInv, TypeOK, FreshInv, StacksFresh, UsesFresh, NoStaleValue, ErasedValues

\* replace_all_use_with reaches operands but not the stacks, which hold plain
\* pointers.  Still no load that re_name erases is ever on a stack, in a phi or
\* what a use reads: it is replaced everywhere before any store pushes it.
THEOREM Mem2RegNoStaleValue == Spec => []NoStaleValue
<1>1. Init => TypeInv /\ CallsInv /\ FreshInv
  BY TypeInit, CallsInit, FreshInit
<1>2. TypeInv /\ CallsInv /\ FreshInv /\ [Next]_vars => TypeInv' /\ CallsInv' /\ FreshInv'
  BY TypeStep, TypeStutter, CallsStep, CallsStutter, FreshStep, FreshStutter
<1> QED
  BY <1>1, <1>2, FreshMeans, PTL DEF Spec

-----------------------------------------------------------------------------
(* Pushes and pops pair up                                                 *)

\* What an activation has pushed so far is a number.
LEMMA PushedSpec ==
    ASSUME TypeInv, NEW f \in Call, CallFits(f), NEW x \in Var
    PROVE  /\ f.step = "phis" => PushedSoFar(f, x) = 0
           /\ f.step # "phis" =>
                 PushedSoFar(f, x) = Cardinality(StoresTo(f.bb, x, f.next - 1))
                                        + (IF x \in phis[f.bb] THEN 1 ELSE 0)
           /\ Cardinality(StoresTo(f.bb, x, f.next - 1)) \in Nat
           /\ PushedSoFar(f, x) \in Nat
<1>1. f.next - 1 \in Nat
  <2>1. f.next \in Nat \ {0}
    BY CallEdits
  <2> QED
    BY <2>1
<1>2. Cardinality(StoresTo(f.bb, x, f.next - 1)) \in Nat
  BY <1>1, StoresToType
<1>3. f.step = "phis" => PushedSoFar(f, x) = 0
  BY DEF PushedSoFar
<1> DEFINE c == Cardinality(StoresTo(f.bb, x, f.next - 1))
<1>4. f.step # "phis" => PushedSoFar(f, x) = (IF x \in phis[f.bb] THEN 1 ELSE 0) + c
  BY DEF PushedSoFar, StoresTo
<1> HIDE DEF c
<1>5. c \in Nat
  BY <1>2 DEF c
<1>6. f.step # "phis" => /\ PushedSoFar(f, x) = c + (IF x \in phis[f.bb] THEN 1 ELSE 0)
                         /\ PushedSoFar(f, x) \in Nat
  BY <1>4, <1>5
<1> QED
  BY <1>2, <1>3, <1>6 DEF c

LEMMA SamePushed ==
    ASSUME UNCHANGED <<progVars, phis>>
    PROVE  \A f, x : PushedSoFar(f, x)' = PushedSoFar(f, x)
BY SameProgram DEF PushedSoFar

\* The heights with another value at the top.
LEMMA HeightsMove ==
    ASSUME TypeInv, TypeInv', CallsInv, Balanced, UNCHANGED <<progVars, phis>>,
           NEW f, Moves(f),
           \A x \in Var : Len(var_val_stack'[x]) + PushedSoFar(Top, x)
                             = Len(var_val_stack[x]) + PushedSoFar(f, x)
    PROVE  Balanced'
<1> PICK h : Heights(h) /\ \A x \in Var : Len(var_val_stack[x]) = h[Depth][x]
  BY DEF Balanced
<1>1. /\ Depth \in Nat \ {0} /\ Depth' = Depth /\ Top = calls[Depth]
      /\ \A n \in 1 .. Depth : calls'[n] = IF n = Depth THEN f ELSE calls[n]
  BY MovesSpec
<1>2. /\ h \in [0 .. Depth -> [Var -> Nat]] /\ h[0] = [x \in Var |-> 0]
      /\ \A n \in 1 .. Depth : h[n] = [x \in Var |-> h[n - 1][x] + PushedSoFar(calls[n], x)]
  BY DEF Heights
<1>3. \A e, x : PushedSoFar(e, x)' = PushedSoFar(e, x)
  BY SamePushed
<1>4. \A x \in Var : PushedSoFar(f, x) \in Nat /\ PushedSoFar(Top, x) \in Nat
  BY PushedSpec, TopFits DEF Moves
<1>41. PICK last : last = [x \in Var |-> h[Depth - 1][x] + PushedSoFar(f, x)]
  OBVIOUS
<1>42. PICK g : g = [n \in 0 .. Depth |-> IF n = Depth THEN last ELSE h[n]]
  OBVIOUS
<1>5. h[Depth - 1] \in [Var -> Nat] /\ h[Depth] \in [Var -> Nat]
  BY <1>1, <1>2
<1>6. last \in [Var -> Nat]
  BY <1>4, <1>5, <1>41
<1>7. g \in [0 .. Depth -> [Var -> Nat]] /\ g[0] = [x \in Var |-> 0]
  BY <1>1, <1>2, <1>6, <1>42
<1>8. ASSUME NEW n \in 1 .. Depth
      PROVE  g[n] = [x \in Var |-> g[n - 1][x] + PushedSoFar(calls'[n], x)]
  <2>1. n - 1 \in 0 .. Depth /\ n - 1 # Depth /\ n \in 0 .. Depth
    BY <1>1
  <2>2. g[n - 1] = h[n - 1]
    BY <1>42, <2>1
  <2>3. CASE n = Depth
    <3>1. calls'[n] = f /\ g[n] = last
      BY <1>1, <1>42, <2>1, <2>3
    <3> QED
      BY <1>41, <2>2, <2>3, <3>1
  <2>4. CASE n # Depth
    <3>1. calls'[n] = calls[n] /\ g[n] = h[n]
      BY <1>1, <1>42, <2>1, <2>4
    <3> QED
      BY <1>2, <2>2, <3>1
  <2> QED
    BY <2>3, <2>4
<1>9. ASSUME NEW x \in Var PROVE Len(var_val_stack'[x]) = last[x]
  <2> DEFINE a == Len(var_val_stack'[x])
             b == Len(var_val_stack[x])
             p == PushedSoFar(Top, x)
             q == PushedSoFar(f, x)
             r == h[Depth - 1][x]
  <2>1. TypeOK /\ b \in Nat
    BY DEF TypeInv, TypeOK
  <2>2. a + p = b + q /\ p \in Nat /\ q \in Nat /\ r \in Nat
    BY <1>4, <1>5
  <2>3. b = r + p
    <3>1. Depth \in 1 .. Depth
      BY <1>1
    <3>2. h[Depth] = [y \in Var |-> h[Depth - 1][y] + PushedSoFar(Top, y)]
      BY <1>1, <1>2, <3>1
    <3>3. h[Depth][x] = h[Depth - 1][x] + PushedSoFar(Top, x)
      BY <3>2
    <3> QED
      BY <3>3
  <2>4. last[x] = r + q
    BY <1>41
  <2>5. a \in Nat
    BY DEF TypeInv, TypeOK
  <2> HIDE DEF a, b, p, q, r
  <2> QED
    BY <2>1, <2>2, <2>3, <2>4, <2>5 DEF a
<1>10. Heights(g)'
  BY <1>1, <1>3, <1>7, <1>8 DEF Heights
<1>11. g[Depth'] = last
  BY <1>1, <1>42
<1> QED
  BY <1>9, <1>10, <1>11 DEF Balanced

\* The stacks as long as re_name has no activation.
LEMMA NoHeights ==
    ASSUME calls = <<>>
    PROVE  Balanced <=> \A x \in Var : Len(var_val_stack[x]) = 0
<1>1. Depth = 0
  BY DEF Depth
<1>2. ASSUME NEW h, Heights(h) PROVE h[Depth] = [x \in Var |-> 0]
  BY <1>1, <1>2 DEF Heights
<1>3. Heights([n \in 0 .. 0 |-> [x \in Var |-> 0]])
  BY <1>1 DEF Heights
<1> QED
  BY <1>1, <1>2, <1>3 DEF Balanced

\* StoresTo grows by the store at hand.
LEMMA StoresToNext ==
    ASSUME NEW b, NEW x, NEW k \in Nat \ {0}
    PROVE  Cardinality(StoresTo(b, x, (k + 1) - 1)) =
              Cardinality(StoresTo(b, x, k - 1))
                + (IF code[b][k].op = "store" /\ code[b][k].var = x THEN 1 ELSE 0)
<1>1. IsFiniteSet(StoresTo(b, x, k - 1)) /\ Cardinality(StoresTo(b, x, k - 1)) \in Nat
  BY StoresToType
<1>2. (k + 1) - 1 = k /\ k \notin StoresTo(b, x, k - 1)
  BY DEF StoresTo
<1>3. CASE code[b][k].op = "store" /\ code[b][k].var = x
  <2>1. StoresTo(b, x, k) = StoresTo(b, x, k - 1) \cup {k}
    BY <1>3 DEF StoresTo
  <2> QED
    BY <1>1, <1>2, <1>3, <2>1, FS_AddElement
<1>4. CASE ~ (code[b][k].op = "store" /\ code[b][k].var = x)
  <2>1. StoresTo(b, x, k) = StoresTo(b, x, k - 1)
    BY <1>4 DEF StoresTo
  <2> QED
    BY <1>1, <1>2, <1>4, <2>1
<1> QED
  BY <1>3, <1>4

LEMMA BalancedPushPhis ==
    ASSUME TypeInv, TypeInv', CallsInv, Balanced, PushPhis PROVE Balanced'
<1>1. PICK f : Moves(f) /\ f.step = "instrs" /\ f.next = 1 /\ Top.next = 1
  BY PushPhisMoves
<1>2. /\ Top.step = "phis" /\ calls # <<>> /\ UNCHANGED <<progVars, phis>>
      /\ var_val_stack' = [x \in Var |->
             IF x \in phis[Top.bb] THEN Append(var_val_stack[x], PhiValue(Top.bb, x))
             ELSE var_val_stack[x]]
  BY DEF PushPhis
<1>3. CallFits(Top) /\ Top \in Call /\ f \in Call /\ CallFits(f) /\ f.bb = Top.bb
  BY <1>1, <1>2, TopFits DEF Moves
<1>4. ASSUME NEW x \in Var
      PROVE  Len(var_val_stack'[x]) + PushedSoFar(Top, x)
                = Len(var_val_stack[x]) + PushedSoFar(f, x)
  <2>1. var_val_stack[x] \in Seq(Values)
    BY DEF TypeInv, TypeOK
  <2>2. PushedSoFar(Top, x) = 0
    BY <1>2, <1>3, PushedSpec
  <2>3. PushedSoFar(f, x) = IF x \in phis[Top.bb] THEN 1 ELSE 0
    <3>1. StoresTo(f.bb, x, f.next - 1) = {}
      BY <1>1 DEF StoresTo
    <3>2. f.step # "phis"
      BY <1>1
    <3>3. PushedSoFar(f, x) = 0 + (IF x \in phis[Top.bb] THEN 1 ELSE 0)
      BY <1>3, <3>1, <3>2, PushedSpec, FS_EmptySet
    <3> QED
      BY <3>3
  <2>4. Len(var_val_stack[x]) \in Nat
    BY <2>1
  <2>5. CASE x \in phis[Top.bb]
    <3>1. var_val_stack'[x] = Append(var_val_stack[x], PhiValue(Top.bb, x))
      BY <1>2, <2>5
    <3>2. Len(var_val_stack'[x]) = Len(var_val_stack[x]) + 1
      BY <2>1, <3>1
    <3> QED
      BY <2>2, <2>3, <2>4, <2>5, <3>2
  <2>6. CASE x \notin phis[Top.bb]
    <3>1. var_val_stack'[x] = var_val_stack[x]
      BY <1>2, <2>6
    <3> QED
      BY <2>2, <2>3, <2>4, <2>6, <3>1
  <2> QED
    BY <2>5, <2>6
<1> QED
  BY <1>1, <1>2, <1>4, HeightsMove

LEMMA BalancedAdvance ==
    ASSUME TypeInv, TypeInv', CallsInv, Balanced, NEW op, AtInstruction(op), Advance,
           UNCHANGED <<progVars, phis>>,
           op = "load" => UNCHANGED var_val_stack,
           op # "load" =>
              /\ op = "store"
              /\ \E v : var_val_stack' = [var_val_stack EXCEPT
                           ![code[Top.bb][Top.next].var] = Append(@, v)]
    PROVE  Balanced'
<1>1. PICK f : Moves(f) /\ f.step = "instrs" /\ f.next = Top.next + 1
  BY AdvanceMoves
<1>2. Top.step = "instrs" /\ calls # <<>> /\ code[Top.bb][Top.next].op = op
  BY DEF AtInstruction
<1>3. /\ CallFits(Top) /\ Top \in Call /\ f \in Call /\ CallFits(f) /\ f.bb = Top.bb
      /\ Top.next \in Nat \ {0}
  BY <1>1, <1>2, TopFits DEF Moves
<1>4. ASSUME NEW x \in Var
      PROVE  Len(var_val_stack'[x]) + PushedSoFar(Top, x)
                = Len(var_val_stack[x]) + PushedSoFar(f, x)
  <2>a. PICK b, k, y : b = Top.bb /\ k = Top.next /\ y = code[Top.bb][Top.next].var
    OBVIOUS
  <2>b. PICK more, phi, c, d :
        /\ more = IF op = "store" /\ y = x THEN 1 ELSE 0
        /\ phi = IF x \in phis[b] THEN 1 ELSE 0
        /\ c = Cardinality(StoresTo(b, x, k - 1))
        /\ d = Cardinality(StoresTo(b, x, k))
    OBVIOUS
  <2>c. PICK m, n, p, q : /\ m = Len(var_val_stack[x]) /\ n = Len(var_val_stack'[x])
                        /\ p = PushedSoFar(Top, x) /\ q = PushedSoFar(f, x)
    OBVIOUS
  <2>0. more \in Nat /\ phi \in Nat
    BY ONLY <2>b
  <2>1. var_val_stack \in [Var -> Seq(Values)]
    BY DEF TypeInv, TypeOK
  <2>2. p = c + phi /\ c \in Nat
    <3>1. PushedSoFar(Top, x) = Cardinality(StoresTo(Top.bb, x, Top.next - 1))
                                   + (IF x \in phis[Top.bb] THEN 1 ELSE 0)
          /\ Cardinality(StoresTo(Top.bb, x, Top.next - 1)) \in Nat
      <4>1. Top.step # "phis"
        BY <1>2
      <4> QED
        BY ONLY <1>3, <4>1, TypeInv, x \in Var, PushedSpec
    <3> QED
      BY ONLY <2>a, <2>b, <2>c, <3>1
  <2>3. q = d + phi
    <3>1. f.next - 1 = k /\ f.bb = b
      BY ONLY <1>1, <1>3, <2>a
    <3>2. PushedSoFar(f, x) = Cardinality(StoresTo(f.bb, x, f.next - 1))
                                 + (IF x \in phis[f.bb] THEN 1 ELSE 0)
      <4>1. f.step # "phis"
        BY <1>1
      <4> QED
        BY ONLY <1>3, <4>1, TypeInv, x \in Var, PushedSpec
    <3> QED
      BY ONLY <2>a, <2>b, <2>c, <3>1, <3>2
  <2>4. d = c + more
    <3>1. k \in Nat \ {0} /\ (k + 1) - 1 = k /\ code[b][k].op = op /\ code[b][k].var = y
      BY ONLY <1>2, <1>3, <2>a
    <3>2. Cardinality(StoresTo(b, x, (k + 1) - 1)) =
             Cardinality(StoresTo(b, x, k - 1))
               + (IF code[b][k].op = "store" /\ code[b][k].var = x THEN 1 ELSE 0)
      BY ONLY <3>1, StoresToNext
    <3> QED
      BY ONLY <2>b, <3>1, <3>2
  <2>5. n = m + more /\ m \in Nat
    <3> PICK s : s = var_val_stack[x]
      OBVIOUS
    <3>0. s \in Seq(Values) /\ m = Len(s) /\ m \in Nat
      BY ONLY <2>1, <2>c, x \in Var, s = var_val_stack[x]
    <3>1. CASE op = "load"
      <4>1. more = 0 /\ n = m
        BY <2>b, <2>c, <3>1
      <4> QED
        BY ONLY <3>0, <4>1
    <3>2. CASE op # "load"
      <4>1. op = "store"
        BY <3>2
      <4>2. PICK v : var_val_stack' = [var_val_stack EXCEPT ![y] = Append(@, v)]
        BY <2>a, <3>2
      <4>3. CASE x = y
        <5>1. var_val_stack'[x] = Append(s, v)
          BY ONLY <2>1, <4>2, <4>3, x \in Var, s = var_val_stack[x]
        <5>2. Len(Append(s, v)) = Len(s) + 1
          BY ONLY <3>0
        <5>3. more = 1
          BY ONLY <2>b, <4>1, <4>3
        <5> QED
          BY ONLY <3>0, <5>1, <5>2, <5>3, <2>c
      <4>4. CASE x # y
        <5>1. var_val_stack'[x] = s
          BY ONLY <2>1, <4>2, <4>4, x \in Var, s = var_val_stack[x]
        <5>2. more = 0
          BY ONLY <2>b, <4>4
        <5> QED
          <6>1. n = m
            BY ONLY <3>0, <5>1, <2>c
          <6> QED
            BY ONLY <3>0, <5>2, <6>1
      <4> QED
        BY <4>3, <4>4
    <3> QED
      BY <3>1, <3>2
  <2>6. n + p = m + q
    BY ONLY <2>0, <2>2, <2>3, <2>4, <2>5
  <2> QED
    BY ONLY <2>c, <2>6
<1> QED
  BY <1>1, <1>4, HeightsMove

\* Steps inside a block that push nothing and pass no instruction.
LEMMA BalancedSame ==
    ASSUME TypeInv, TypeInv', CallsInv, Balanced, UNCHANGED <<progVars, phis, var_val_stack>>,
           NEW f, Moves(f), f.next = Top.next, f.step # "phis", Top.step # "phis"
    PROVE  Balanced'
<1>1. f.bb = Top.bb
  BY DEF Moves
<1>2. \A x : PushedSoFar(f, x) = PushedSoFar(Top, x)
  BY <1>1 DEF PushedSoFar
<1> QED
  BY <1>2, HeightsMove

LEMMA BalancedRecurse ==
    ASSUME TypeInv, CallsInv, Balanced, NEW c \in Block, Recurse(c) PROVE Balanced'
<1> PICK h : Heights(h) /\ \A x \in Var : Len(var_val_stack[x]) = h[Depth][x]
  BY DEF Balanced
<1>1. /\ Depth' = Depth + 1 /\ calls'[Depth + 1] = Frame(c) /\ Depth \in Nat \ {0}
      /\ \A n \in 1 .. Depth : /\ calls'[n].bb = calls[n].bb
                               /\ calls'[n].step = calls[n].step
                               /\ calls'[n].next = calls[n].next
  BY CallsRecurse, TopSpec, CallsType DEF Recurse, TypeInv
<1>2. /\ h \in [0 .. Depth -> [Var -> Nat]] /\ h[0] = [x \in Var |-> 0]
      /\ \A n \in 1 .. Depth : h[n] = [x \in Var |-> h[n - 1][x] + PushedSoFar(calls[n], x)]
  BY DEF Heights
<1>3. \A e, x : PushedSoFar(e, x)' = PushedSoFar(e, x)
  BY SamePushed DEF Recurse
<1>4. \A n \in 1 .. Depth : \A x : PushedSoFar(calls'[n], x) = PushedSoFar(calls[n], x)
  <2> SUFFICES ASSUME NEW n \in 1 .. Depth, NEW x
               PROVE  PushedSoFar(calls'[n], x) = PushedSoFar(calls[n], x)
    OBVIOUS
  <2> PICK e, f : e = calls[n] /\ f = calls'[n]
    OBVIOUS
  <2>1. f.bb = e.bb /\ f.step = e.step /\ f.next = e.next
    BY <1>1
  <2>2. PushedSoFar(f, x) = PushedSoFar(e, x)
    BY ONLY <2>1 DEF PushedSoFar
  <2> QED
    BY <2>2
<1>5. \A x : PushedSoFar(calls'[Depth + 1], x) = 0
  BY <1>1 DEF PushedSoFar, Frame
<1>6. PICK g : g = [n \in 0 .. Depth + 1 |-> IF n = Depth + 1 THEN h[Depth] ELSE h[n]]
  OBVIOUS
<1>7. g \in [0 .. Depth + 1 -> [Var -> Nat]] /\ g[0] = [x \in Var |-> 0]
  BY <1>1, <1>2, <1>6
<1>8. ASSUME NEW n \in 1 .. Depth + 1
      PROVE  g[n] = [x \in Var |-> g[n - 1][x] + PushedSoFar(calls'[n], x)]
  <2>1. n - 1 \in 0 .. Depth /\ n - 1 # Depth + 1 /\ n \in 0 .. Depth + 1
    BY <1>1
  <2>2. g[n - 1] = h[n - 1] /\ h[n - 1] \in [Var -> Nat]
    BY <1>1, <1>2, <1>6, <2>1
  <2>3. CASE n = Depth + 1
    <3>1. g[n] = h[n - 1]
      BY <1>1, <1>6, <2>3
    <3>2. \A x \in Var : h[n - 1][x] = g[n - 1][x] + PushedSoFar(calls'[n], x)
      BY <1>5, <2>2, <2>3
    <3> QED
      BY <2>2, <3>1, <3>2
  <2>4. CASE n # Depth + 1
    <3>1. n \in 1 .. Depth /\ g[n] = h[n]
      BY <1>1, <1>6, <2>1, <2>4
    <3>2. h[n] = [x \in Var |-> h[n - 1][x] + PushedSoFar(calls[n], x)]
      BY <1>2, <3>1
    <3>3. \A x \in Var : PushedSoFar(calls'[n], x) = PushedSoFar(calls[n], x)
      BY <1>4, <3>1
    <3> QED
      BY <2>2, <3>1, <3>2, <3>3
  <2> QED
    BY <2>3, <2>4
<1>9. Heights(g)'
  BY <1>1, <1>3, <1>7, <1>8 DEF Heights
<1>10. g[Depth'] = h[Depth] /\ UNCHANGED var_val_stack
  BY <1>1, <1>6 DEF Recurse
<1> QED
  BY <1>9, <1>10 DEF Balanced

\* Step eight takes away what the block has pushed, no more and no less.
LEMMA BalancedPop ==
    ASSUME TypeInv, CallsInv, Balanced, PopBlock PROVE Balanced'
<1> PICK h : Heights(h) /\ \A x \in Var : Len(var_val_stack[x]) = h[Depth][x]
  BY DEF Balanced
<1>1. /\ Depth' = Depth - 1 /\ Depth \in Nat \ {0} /\ Top = calls[Depth]
      /\ \A n \in 1 .. Depth - 1 : calls'[n] = calls[n]
      /\ calls # <<>> /\ Top.step = "children" /\ UNCHANGED <<progVars, phis>>
  BY CallsPop, TopSpec, CallsType DEF PopBlock, TypeInv
<1>2. /\ h \in [0 .. Depth -> [Var -> Nat]] /\ h[0] = [x \in Var |-> 0]
      /\ \A n \in 1 .. Depth : h[n] = [x \in Var |-> h[n - 1][x] + PushedSoFar(calls[n], x)]
  BY DEF Heights
<1>3. \A e, x : PushedSoFar(e, x)' = PushedSoFar(e, x)
  BY <1>1, SamePushed
<1>4. PICK g : g = [n \in 0 .. Depth - 1 |-> h[n]]
  OBVIOUS
<1>5. g \in [0 .. Depth - 1 -> [Var -> Nat]] /\ g[0] = [x \in Var |-> 0]
  BY <1>1, <1>2, <1>4
<1>6. ASSUME NEW n \in 1 .. Depth - 1
      PROVE  g[n] = [x \in Var |-> g[n - 1][x] + PushedSoFar(calls'[n], x)]
  <2>1. /\ n - 1 \in 0 .. Depth - 1 /\ n \in 0 .. Depth - 1 /\ n \in 1 .. Depth
    BY <1>1
  <2>2. g[n - 1] = h[n - 1] /\ g[n] = h[n] /\ calls'[n] = calls[n]
    BY <1>1, <1>4, <2>1
  <2> QED
    BY <1>2, <2>1, <2>2
<1>7. Heights(g)'
  BY <1>1, <1>3, <1>5, <1>6 DEF Heights
<1>8. ASSUME NEW x \in Var PROVE Len(var_val_stack'[x]) = g[Depth'][x]
  <2> DEFINE s == var_val_stack[x]
             p == Pushes(Top.bb, x)
             r == h[Depth - 1][x]
  <2>1. s \in Seq(Values)
    BY DEF TypeInv, TypeOK
  <2>2. PushedSoFar(Top, x) = p /\ p \in Nat
    <3>1. CallFits(Top) /\ Top \in Call /\ Top.bb \in Block /\ Len(code[Top.bb]) \in Nat
      BY <1>1, TopFits
    <3>2. Top.next - 1 = Len(code[Top.bb])
      BY <1>1, <3>1 DEF CallFits
    <3> QED
      BY <1>1, <3>1, <3>2, PushedSpec, PushesSpec DEF TypeInv
  <2>3. r \in Nat /\ g[Depth'] = h[Depth - 1]
    BY <1>1, <1>2, <1>4
  <2>4. Len(s) = r + p
    <3>1. Depth \in 1 .. Depth
      BY <1>1
    <3>2. h[Depth] = [y \in Var |-> h[Depth - 1][y] + PushedSoFar(Top, y)]
      <4>1. Top = calls[Depth]
        BY <1>1
      <4> QED
        BY <1>2, <3>1, <4>1
    <3>3. h[Depth][x] = h[Depth - 1][x] + PushedSoFar(Top, x)
      BY <3>2
    <3> QED
      BY <2>2, <3>3
  <2>5. var_val_stack'[x] = SubSeq(s, 1, Len(s) - p)
    BY DEF PopBlock
  <2> HIDE DEF s, p, r
  <2>6. Len(s) - p = r /\ r <= Len(s)
    BY <2>2, <2>3, <2>4
  <2>7. Len(SubSeq(s, 1, r)) = r
    BY <2>1, <2>3, <2>6
  <2> QED
    BY <2>3, <2>5, <2>6, <2>7 DEF r
<1> QED
  BY <1>7, <1>8 DEF Balanced

LEMMA BalancedStart ==
    ASSUME TypeInv, CallsInv, StartRename, \A x \in Var : var_val_stack[x] = <<>>
    PROVE  Balanced'
<1>1. /\ Depth' = 1 /\ calls'[1] = Frame(Entry) /\ UNCHANGED var_val_stack
  BY StartRenameCalls DEF StartRename
<1>2. \A x : PushedSoFar(calls[1], x)' = 0
  BY <1>1 DEF PushedSoFar, Frame
<1> DEFINE g == [n \in 0 .. 1 |-> [x \in Var |-> 0]]
<1>3. Heights(g)'
  BY <1>1, <1>2 DEF Heights
<1>4. \A x \in Var : Len(var_val_stack'[x]) = g[Depth'][x]
  BY <1>1
<1> QED
  BY <1>3, <1>4 DEF Balanced

LEMMA BalanceInit == Init => BalanceInv
BY NoHeights DEF Init, BalanceInv, KeysInv

LEMMA BalancedInBlock ==
    ASSUME TypeInv, TypeInv', CallsInv, Balanced, InBlock, pc' # "abort" PROVE Balanced'
<1>1. CASE PushPhis
  BY <1>1, BalancedPushPhis
<1>2. CASE RenameLoad
  <2>1. /\ AtInstruction("load") /\ Advance /\ UNCHANGED <<progVars, phis, var_val_stack>>
    BY <1>2 DEF RenameLoad
  <2> QED
    BY <2>1, BalancedAdvance
<1>3. CASE RenameStore
  <2>1. /\ AtInstruction("store") /\ Advance /\ UNCHANGED <<progVars, phis>>
        /\ var_val_stack' = [var_val_stack EXCEPT
               ![code[Top.bb][Top.next].var] = Append(@, rval[<<Top.bb, Top.next>>])]
    BY <1>3 DEF RenameStore
  <2> QED
    BY <2>1, BalancedAdvance
<1>4. CASE EndInstrs
  <2>1. PICK f : Moves(f) /\ f.step = "succs" /\ f.next = Top.next
    BY <1>4, EndInstrsMoves
  <2>2. UNCHANGED <<progVars, phis, var_val_stack>> /\ Top.step = "instrs"
    BY <1>4 DEF EndInstrs
  <2> QED
    BY <2>1, <2>2, BalancedSame
<1>5. CASE FillPhis
  <2>1. PICK f : Moves(f) /\ f.step = "children" /\ f.next = Top.next
    BY <1>5, FillPhisMoves
  <2>2. UNCHANGED <<progVars, phis, var_val_stack>> /\ Top.step = "succs"
    BY <1>5 DEF FillPhis
  <2> QED
    BY <2>1, <2>2, BalancedSame
<1> QED
  BY <1>1, <1>2, <1>3, <1>4, <1>5 DEF InBlock

LEMMA KeysStep == ASSUME TypeInv, KeysInv, Next PROVE KeysInv'
<1>1. CASE UNCHANGED var_val_stack /\ keys \subseteq keys'
  BY <1>1 DEF KeysInv
<1>2. CASE PushPhis
  BY <1>2 DEF PushPhis, KeysInv
<1>3. CASE RenameStore
  BY <1>3 DEF RenameStore, KeysInv, TypeInv, TypeOK
<1>4. CASE PopBlock
  <2>1. ASSUME NEW x \in Var, var_val_stack[x] = <<>> PROVE var_val_stack'[x] = <<>>
    <3>1. calls # <<>> /\ Top.bb \in Block
      BY <1>4, TopSpec, CallsType, CallEdits DEF PopBlock, TypeInv
    <3>2. Pushes(Top.bb, x) \in Nat
      BY <3>1, PushesSpec DEF TypeInv
    <3>3. var_val_stack'[x] = SubSeq(<<>>, 1, 0 - Pushes(Top.bb, x))
      BY <1>4, <2>1 DEF PopBlock
    <3> HIDE DEF Pushes
    <3> QED
      BY <3>2, <3>3
  <2> QED
    BY <1>4, <2>1 DEF PopBlock, KeysInv
<1>5. \/ UNCHANGED var_val_stack /\ keys \subseteq keys'
      \/ PushPhis \/ RenameStore \/ PopBlock
  BY DEF Next, Step, Finished, vars, PlaceVar, VisitBlock, EndVar, StartRename,
     RenameLoad, EndInstrs, FillPhis, Recurse, remove_alloca
<1> QED
  BY <1>1, <1>2, <1>3, <1>4, <1>5

LEMMA BalanceStep ==
    ASSUME TypeInv, TypeInv', CallsInv, BalanceInv, Next PROVE BalanceInv'
<1>1. KeysInv'
  BY KeysStep DEF BalanceInv, KeysInv
<1>2. CASE Elsewhere
  <2>1. UNCHANGED <<calls, var_val_stack>> /\ (pc' \in {"place", "visit"} => pc \in {"place", "visit"})
    BY <1>2 DEF Elsewhere, PlaceVar, VisitBlock, EndVar, remove_alloca, Finished, vars
  <2>2. CASE calls = <<>>
    <3>1. pc # "abort" => \A x \in Var : Len(var_val_stack[x]) = 0
      BY <2>2, NoHeights DEF BalanceInv
    <3>2. pc' # "abort" => pc # "abort"
      BY <1>2 DEF Elsewhere, PlaceVar, VisitBlock, EndVar, remove_alloca, Finished, vars
    <3>3. Depth' = 0
      BY <2>1, <2>2 DEF Depth
    <3>4. Heights([n \in 0 .. 0 |-> [x \in Var |-> 0]])'
      BY <3>3 DEF Heights
    <3>5. (\A x \in Var : Len(var_val_stack'[x]) = 0) => Balanced'
      BY <3>3, <3>4 DEF Balanced
    <3> QED
      BY <1>1, <2>1, <3>1, <3>2, <3>5 DEF BalanceInv, KeysInv
  <2>3. CASE calls # <<>>
    <3>1. Finished
      BY <1>2, <2>3 DEF Elsewhere, PlaceVar, VisitBlock, EndVar, remove_alloca, CallsInv
    <3>2. pc' = "abort"
      BY <2>3, <3>1 DEF Finished, CallsInv, vars
    <3> QED
      BY <1>1, <3>2 DEF BalanceInv, KeysInv
  <2> QED
    BY <2>2, <2>3
<1>3. CASE StartRename
  <2>1. pc = "place" /\ pc' = "rename"
    BY <1>3 DEF StartRename
  <2>2. Balanced'
    BY <1>3, <2>1, BalancedStart DEF BalanceInv
  <2> QED
    BY <1>1, <2>1, <2>2 DEF BalanceInv, KeysInv
<1>4. CASE InBlock \/ (\E c \in Block : Recurse(c)) \/ PopBlock
  <2>1. pc = "rename" /\ pc' \in {"rename", "abort"}
    BY <1>4, InBlockMoves DEF Recurse, PopBlock
  <2>2. Balanced
    BY <2>1 DEF BalanceInv
  <2>3. pc' # "abort" => Balanced'
    BY <1>4, <2>2, BalancedInBlock, BalancedRecurse, BalancedPop
  <2> QED
    BY <1>1, <2>1, <2>3 DEF BalanceInv, KeysInv
<1> QED
  BY <1>2, <1>3, <1>4, NextCases

LEMMA BalanceStutter == ASSUME BalanceInv, UNCHANGED vars PROVE BalanceInv'
<1>1. Depth' = Depth /\ UNCHANGED <<calls, phis, code, var_val_stack, pc, keys>>
  BY DEF vars, progVars, Depth
<1>2. \A f, x : PushedSoFar(f, x)' = PushedSoFar(f, x)
  BY <1>1 DEF PushedSoFar
<1>3. \A h : Heights(h)' <=> Heights(h)
  BY <1>1, <1>2 DEF Heights
<1> QED
  BY <1>1, <1>3 DEF BalanceInv, Balanced, KeysInv

\* The heights h are what the recursion in StackBalanced computes.
LEMMA BalanceMeans == TypeInv /\ BalanceInv => StackBalanced
<1> SUFFICES ASSUME TypeInv, BalanceInv, pc # "abort" PROVE StackBalanced
  BY DEF StackBalanced
<1> DEFINE IsHeld(w) == w = [n \in 0 .. Len(calls) |->
                 IF n = 0 THEN [x \in Var |-> 0]
                 ELSE [x \in Var |-> w[n - 1][x] + PushedSoFar(calls[n], x)]]
           held == CHOOSE w : IsHeld(w)
<1>1. PICK h : Heights(h) /\ \A x \in Var : Len(var_val_stack[x]) = h[Depth][x]
  BY DEF BalanceInv, Balanced
<1>2. /\ h \in [0 .. Depth -> [Var -> Nat]] /\ h[0] = [x \in Var |-> 0]
      /\ \A n \in 1 .. Depth : h[n] = [x \in Var |-> h[n - 1][x] + PushedSoFar(calls[n], x)]
      /\ Depth \in Nat /\ Depth = Len(calls)
  BY <1>1, CallsType DEF Heights, TypeInv, Depth
<1>3. IsHeld(h)
  <2> DEFINE value(n) == IF n = 0 THEN [x \in Var |-> 0]
                         ELSE [x \in Var |-> h[n - 1][x] + PushedSoFar(calls[n], x)]
  <2>1. ASSUME NEW n \in 0 .. Depth PROVE h[n] = value(n)
    <3>1. CASE n = 0
      BY <1>2, <3>1
    <3>2. CASE n # 0
      <4>1. n \in 1 .. Depth
        BY <1>2, <3>2
      <4> QED
        BY <1>2, <3>2, <4>1
    <3> QED
      BY <3>1, <3>2
  <2>2. h = [n \in 0 .. Depth |-> h[n]]
    BY <1>2
  <2> HIDE DEF value
  <2>3. h = [n \in 0 .. Depth |-> value(n)]
    BY <2>1, <2>2
  <2> QED
    BY <1>2, <2>3 DEF value
<1>4. IsHeld(held)
  <2>1. \E w : IsHeld(w)
    BY <1>3
  <2> HIDE DEF IsHeld
  <2> QED
    BY <2>1, Zenon
<1>5. held[Len(calls)] = h[Depth]
  <2> DEFINE T == {n \in Nat : n <= Depth => held[n] = h[n]}
  <2> HIDE DEF held
  <2>1. 0 \in T
    BY <1>2, <1>4
  <2>2. ASSUME NEW n \in Nat, n \in T PROVE n + 1 \in T
    <3>1. CASE n + 1 <= Depth
      <4>1. n + 1 \in 1 .. Depth /\ (n + 1) - 1 = n /\ n <= Depth /\ n + 1 # 0
            /\ n + 1 \in 0 .. Len(calls)
        BY <1>2, <3>1
      <4>2. held[n] = h[n]
        BY <2>2, <4>1
      <4>3. held[n + 1] = [x \in Var |-> held[n][x] + PushedSoFar(calls[n + 1], x)]
        BY <1>4, <4>1
      <4>4. h[n + 1] = [x \in Var |-> h[n][x] + PushedSoFar(calls[n + 1], x)]
        BY <1>2, <4>1
      <4> QED
        BY <4>2, <4>3, <4>4
    <3>2. CASE ~ (n + 1 <= Depth)
      BY <3>2
    <3> QED
      BY <3>1, <3>2
  <2>3. Nat \subseteq T
    <3> HIDE DEF T
    <3> QED
      BY <2>1, <2>2, SetInduction
  <2> QED
    BY <1>2, <2>3
<1>6. \A x \in Var : Len(var_val_stack[x]) = held[Len(calls)][x]
  <2> HIDE DEF held
  <2> QED
    BY <1>1, <1>5
<1> QED
  BY <1>6 DEF StackBalanced

\* What re_name pushes in a block (its phis in step three, its stores in step
\* five) is what step eight pops when its call returns, so that the block's
\* siblings in the dominator tree find the stacks as their parent left them.
THEOREM Mem2RegStackBalanced == Spec => []StackBalanced
<1>1. Init => TypeInv /\ CallsInv /\ BalanceInv
  BY TypeInit, CallsInit, BalanceInit
<1>2. TypeInv /\ CallsInv /\ BalanceInv /\ [Next]_vars => TypeInv' /\ CallsInv' /\ BalanceInv'
  BY TypeStep, TypeStutter, CallsStep, CallsStutter, BalanceStep, BalanceStutter
<1> QED
  BY <1>1, <1>2, BalanceMeans, PTL DEF Spec

-----------------------------------------------------------------------------
(* Functions that initialise their variables                               *)

\* The stacks are at least as high as the first activation has made them.
LEMMA HeightsGrow ==
    ASSUME TypeInv, NEW h, Heights(h), calls # <<>>, NEW x \in Var,
           \A n \in 1 .. Depth : PushedSoFar(calls[n], x) \in Nat
    PROVE  /\ h[1][x] = PushedSoFar(calls[1], x)
           /\ h[1][x] <= h[Depth][x] /\ h[Depth][x] \in Nat
<1>1. /\ Depth \in Nat \ {0} /\ h \in [0 .. Depth -> [Var -> Nat]] /\ h[0] = [y \in Var |-> 0]
      /\ \A n \in 1 .. Depth : h[n] = [y \in Var |-> h[n - 1][y] + PushedSoFar(calls[n], y)]
  BY TopSpec, CallsType DEF TypeInv, Heights
<1>2. ASSUME NEW n \in 1 .. Depth PROVE h[n][x] = h[n - 1][x] + PushedSoFar(calls[n], x)
  <2>1. h[n] = [y \in Var |-> h[n - 1][y] + PushedSoFar(calls[n], y)]
    BY <1>1
  <2> QED
    BY <2>1
<1>3. \A n \in 0 .. Depth : h[n][x] \in Nat
  BY <1>1
<1>4. h[0][x] = 0 /\ 1 \in 1 .. Depth /\ 1 - 1 = 0
  BY <1>1
<1>5. h[1][x] = PushedSoFar(calls[1], x)
  BY <1>2, <1>4
<1> DEFINE T == {n \in Nat : n + 1 <= Depth => h[1][x] <= h[n + 1][x]}
<1>6. 0 \in T
  BY <1>1, <1>3, <1>4
<1>7. ASSUME NEW n \in Nat, n \in T PROVE n + 1 \in T
  <2>1. CASE (n + 1) + 1 <= Depth
    <3>1. /\ n + 1 <= Depth /\ n + 1 \in 0 .. Depth /\ (n + 1) + 1 \in 1 .. Depth
          /\ ((n + 1) + 1) - 1 = n + 1
      BY <1>1, <2>1
    <3>2. h[(n + 1) + 1][x] = h[n + 1][x] + PushedSoFar(calls[(n + 1) + 1], x)
      BY <1>2, <3>1
    <3>3. h[1][x] <= h[n + 1][x]
      BY <1>7, <3>1
    <3>4. h[1][x] \in Nat /\ h[n + 1][x] \in Nat /\ PushedSoFar(calls[(n + 1) + 1], x) \in Nat
      BY <1>3, <1>4, <3>1
    <3>5. h[1][x] <= h[(n + 1) + 1][x]
      BY <3>2, <3>3, <3>4
    <3> QED
      BY <3>5
  <2>2. CASE ~ ((n + 1) + 1 <= Depth)
    BY <2>2
  <2> QED
    BY <2>1, <2>2
<1>8. Nat \subseteq T
  <2> HIDE DEF T
  <2> QED
    BY <1>6, <1>7, SetInduction
<1>9. Depth - 1 \in Nat /\ (Depth - 1) + 1 = Depth /\ Depth <= Depth /\ Depth \in 0 .. Depth
  BY <1>1
<1>10. Depth - 1 \in T
  <2> HIDE DEF T
  <2> QED
    BY <1>8, <1>9
<1>11. h[1][x] <= h[(Depth - 1) + 1][x]
  BY <1>9, <1>10
<1> QED
  BY <1>3, <1>5, <1>9, <1>11

\* What the entry block has stored to stays on the stacks until the end.
LEMMA EntryPushed ==
    ASSUME TypeInv, CallsInv, BalanceInv, pc # "abort", calls # <<>>,
           calls[1].step # "phis", NEW x \in Var, NEW k \in Nat \ {0}, k < calls[1].next,
           code[Entry][k].op = "store", code[Entry][k].var = x
    PROVE  var_val_stack[x] # <<>> /\ x \in keys
<1>1. PICK h : Heights(h) /\ \A y \in Var : Len(var_val_stack[y]) = h[Depth][y]
  BY DEF BalanceInv, Balanced
<1>2. /\ Depth \in Nat \ {0} /\ 1 \in 1 .. Depth /\ calls \in Seq(Call)
      /\ \A n \in 1 .. Depth : calls[n] \in Call /\ CallFits(calls[n])
      /\ calls[1].bb = Entry
  BY TopSpec, CallsType DEF TypeInv, CallsInv, Depth
<1>3. \A n \in 1 .. Depth : PushedSoFar(calls[n], x) \in Nat
  BY <1>2, PushedSpec
<1> DEFINE c == Cardinality(StoresTo(Entry, x, calls[1].next - 1))
<1>4. calls[1].next - 1 \in Nat /\ k \in 1 .. calls[1].next - 1
  <2>1. calls[1].next \in Nat \ {0}
    BY <1>2, CallEdits
  <2> QED
    BY <2>1
<1>5. k \in StoresTo(Entry, x, calls[1].next - 1)
  BY <1>4 DEF StoresTo
<1>6. c > 0 /\ c \in Nat
  BY <1>4, <1>5, StoresToType
<1>7. PushedSoFar(calls[1], x) = c + (IF x \in phis[Entry] THEN 1 ELSE 0)
  BY <1>2, PushedSpec
<1> HIDE DEF c
<1>8. PushedSoFar(calls[1], x) > 0
  BY <1>6, <1>7
<1>9. h[1][x] = PushedSoFar(calls[1], x) /\ h[1][x] <= h[Depth][x] /\ h[Depth][x] \in Nat
  BY <1>1, <1>3, HeightsGrow
<1>10. Len(var_val_stack[x]) > 0
  BY <1>1, <1>2, <1>3, <1>8, <1>9
<1> QED
  BY <1>10 DEF BalanceInv, KeysInv

\* At a load, and when the phis of the successors are filled, every variable
\* has a newest value.
LEMMA StacksFull ==
    ASSUME TypeInv, CallsInv, BalanceInv, Initialised, pc = "rename", calls # <<>>,
           AtInstruction("load") \/ Top.step = "succs", NEW x \in Var
    PROVE  var_val_stack[x] # <<>> /\ x \in keys
<1>1. /\ Depth \in Nat \ {0} /\ 1 \in 1 .. Depth /\ Top = calls[Depth] /\ calls \in Seq(Call)
      /\ \A n \in 1 .. Depth : calls[n] \in Call /\ CallFits(calls[n])
      /\ calls[1].bb = Entry
  BY TopSpec, CallsType DEF TypeInv, CallsInv, Depth
<1>2. PICK k \in DOMAIN code[Entry] :
          /\ code[Entry][k] = [op |-> "store", var |-> x, src |-> 0]
          /\ \A j \in 1 .. k : code[Entry][j].op = "store"
  BY DEF Initialised
<1>3. k \in Nat \ {0} /\ k <= Len(code[Entry]) /\ Len(code[Entry]) \in Nat
  BY <1>2, CFGAssumption, CodeTyped DEF TypeInv, Program
<1>4. code[Entry][k].op = "store" /\ code[Entry][k].var = x
  BY <1>2
<1>5. calls[1].step # "phis" /\ k < calls[1].next
  <2>1. CASE Depth > 1
    <3>1. calls[1].step = "children"
      BY <1>1, <2>1 DEF CallsInv
    <3>2. calls[1].next = Len(code[Entry]) + 1
      BY <1>1, <3>1 DEF CallFits
    <3> QED
      BY <1>3, <3>1, <3>2
  <2>2. CASE Depth = 1 /\ Top.step = "succs"
    <3>1. calls[1].next = Len(code[Entry]) + 1
      BY <1>1, <2>2 DEF CallFits
    <3> QED
      BY <1>1, <1>3, <2>2, <3>1
  <2>3. CASE Depth = 1 /\ AtInstruction("load")
    <3>1. Top.step = "instrs" /\ code[Entry][Top.next].op = "load" /\ Top.next \in Nat \ {0}
      BY <1>1, <2>3, CallEdits DEF AtInstruction
    <3>2. ~ Top.next \in 1 .. k
      BY <1>2, <3>1
    <3> QED
      BY <1>1, <1>3, <2>3, <3>1, <3>2
  <2> QED
    BY <1>1, <2>1, <2>2, <2>3
<1> QED
  BY <1>3, <1>4, <1>5, EntryPushed

LEMMA NeverEmptyStep ==
    ASSUME TypeInv, CallsInv, BalanceInv, NeverEmpty, Next PROVE NeverEmpty'
<1>1. Initialised' <=> Initialised
  BY ProgramStays, SameProgram DEF Next
<1> SUFFICES ASSUME Initialised, pc' = "abort" PROVE FALSE
  BY <1>1 DEF NeverEmpty
<1>2. pc # "abort"
  BY DEF NeverEmpty
<1>3. CASE RenameLoad
  <2>1. /\ AtInstruction("load") /\ pc = "rename" /\ calls # <<>>
        /\ var_val_stack[code[Top.bb][Top.next].var] = <<>>
    BY <1>2, <1>3 DEF RenameLoad, AtInstruction
  <2>2. code[Top.bb][Top.next].var \in Var
    BY <2>1, AtInstructionSpec
  <2> QED
    BY <2>1, <2>2, StacksFull
<1>4. CASE FillPhis
  <2>1. PICK f \in PhisToFill(Top.bb) : var_val_stack[f[2]] = <<>>
    BY <1>2, <1>4 DEF FillPhis
  <2>2. f[2] \in Var /\ Top.step = "succs" /\ pc = "rename" /\ calls # <<>>
    BY <1>4 DEF FillPhis, PhisToFill
  <2> QED
    BY <2>1, <2>2, StacksFull
<1>5. ~ RenameLoad /\ ~ FillPhis => FALSE
  BY <1>2 DEF Next, Step, Finished, vars, PlaceVar, VisitBlock, EndVar, StartRename, PushPhis,
     RenameStore, EndInstrs, Recurse, PopBlock, remove_alloca
<1> QED
  BY <1>3, <1>4, <1>5

\* In a function whose entry block first gives every variable a value neither
\* back() is called on an empty stack nor the assertion of step six fails.
THEOREM Mem2RegNeverEmpty == Spec => []NeverEmpty
<1>1. Init => TypeInv /\ CallsInv /\ BalanceInv /\ NeverEmpty
  BY TypeInit, CallsInit, BalanceInit DEF Init, NeverEmpty
<1>2. TypeInv /\ CallsInv /\ BalanceInv /\ NeverEmpty /\ Next
        => TypeInv' /\ CallsInv' /\ BalanceInv' /\ NeverEmpty'
  BY TypeStep, CallsStep, BalanceStep, NeverEmptyStep
<1>3. NeverEmpty /\ UNCHANGED vars => NeverEmpty'
  BY SameProgram DEF NeverEmpty, vars
<1>4. TypeInv /\ CallsInv /\ BalanceInv /\ NeverEmpty /\ [Next]_vars
        => TypeInv' /\ CallsInv' /\ BalanceInv' /\ NeverEmpty'
  BY <1>2, <1>3, TypeStutter, CallsStutter, BalanceStutter
<1> QED
  BY <1>1, <1>4, PTL DEF Spec

-----------------------------------------------------------------------------
(* The operands of the phis                                                *)

\* A step inside a block, but for the one that fills the phis of its
\* successors, fills none.
LEMMA FilledMoves ==
    ASSUME TypeInv, CallsInv, NEW f, Moves(f), UNCHANGED progVars, pc = "rename",
           pc' \notin {"place", "visit"}, f.step # "children", Top.step # "children", NEW p
    PROVE  Filled(p)' <=> Filled(p)
<1>1. /\ Depth \in Nat \ {0} /\ Depth' = Depth /\ Top = calls[Depth]
      /\ \A n \in 1 .. Depth : calls'[n] = IF n = Depth THEN f ELSE calls[n]
      /\ \A n \in 1 .. Depth : calls'[n].bb = calls[n].bb
  BY MovesSpec
<1>2. Pending(p)' <=> Pending(p)
  BY PendingMoves
<1>3. succ' = succ
  BY SameProgram
<1>4. \A n \in 1 .. Depth : calls'[n].step = "children" <=> calls[n].step = "children"
  BY <1>1
<1> QED
  BY <1>1, <1>2, <1>3, <1>4 DEF Filled

\* The call for a child begins with a block that was to be renamed.
LEMMA FilledRecurse ==
    ASSUME TypeInv, CallsInv, NEW c \in Block, Recurse(c), NEW p
    PROVE  Filled(p)' <=> Filled(p)
<1>1. /\ Depth' = Depth + 1 /\ Depth \in Nat \ {0} /\ calls'[Depth + 1] = Frame(c)
      /\ \A n \in 1 .. Depth : calls'[n].bb = calls[n].bb /\ calls'[n].step = calls[n].step
      /\ c \in calls[Depth].children /\ pc = "rename" /\ pc' = "rename" /\ succ' = succ
  BY CallsRecurse, TopSpec, CallsType, SameProgram DEF Recurse, TypeInv
<1>2. CASE p \notin Reachable(succ)
  BY <1>1, <1>2 DEF Filled
<1>3. CASE p = c
  <2>1. c \in Dom(succ, c) /\ Depth \in 1 .. Depth
    BY <1>1, DomSelf DEF TypeInv, Program
  <2>2. Pending(c)
    BY <1>1, <2>1 DEF Pending
  <2>3. Depth + 1 \in 1 .. Depth' /\ calls'[Depth + 1].bb = c /\ calls'[Depth + 1].step = "phis"
    BY <1>1 DEF Frame
  <2>4. ~ Filled(p)
    BY <1>3, <2>2 DEF Filled
  <2>5. ~ Filled(p)'
    BY <1>3, <2>3 DEF Filled
  <2> QED
    BY <2>4, <2>5
<1>4. CASE p # c /\ p \in Reachable(succ)
  <2>1. Pending(p)' <=> Pending(p)
    BY <1>4, PendingRecurse
  <2>2. calls'[Depth + 1].bb # p
    BY <1>1, <1>4 DEF Frame
  <2>3. \A n \in 1 .. Depth' : n \in 1 .. Depth \/ n = Depth + 1
    BY <1>1
  <2>4. 1 .. Depth \subseteq 1 .. Depth'
    BY <1>1
  <2>5. (\A n \in 1 .. Depth' : calls'[n].bb = p => calls'[n].step = "children")
          <=> (\A n \in 1 .. Depth : calls[n].bb = p => calls[n].step = "children")
    BY <1>1, <2>2, <2>3, <2>4
  <2> QED
    BY <1>1, <2>1, <2>5 DEF Filled
<1> QED
  BY <1>2, <1>3, <1>4

LEMMA FilledPop ==
    ASSUME TypeInv, CallsInv, PopBlock, NEW p
    PROVE  Filled(p)' <=> Filled(p)
<1>1. /\ Depth' = Depth - 1 /\ succ' = succ /\ Depth \in Nat \ {0} /\ Top = calls[Depth]
      /\ \A n \in 1 .. Depth - 1 : calls'[n] = calls[n]
      /\ calls[Depth].step = "children" /\ pc = "rename" /\ pc' = "rename"
  BY CallsPop, TopSpec, CallsType, SameProgram DEF TypeInv, PopBlock
<1>2. Pending(p)' <=> Pending(p)
  BY PendingPop
<1>3. \A n \in 1 .. Depth : n \in 1 .. Depth' \/ n = Depth
  BY <1>1
<1>4. 1 .. Depth' \subseteq 1 .. Depth
  BY <1>1
<1>5. (\A n \in 1 .. Depth' : calls'[n].bb = p => calls'[n].step = "children")
        <=> (\A n \in 1 .. Depth : calls[n].bb = p => calls[n].step = "children")
  BY <1>1, <1>3, <1>4
<1> QED
  BY <1>1, <1>2, <1>5 DEF Filled

LEMMA FilledStart ==
    ASSUME TypeInv, CallsInv, StartRename, NEW p
    PROVE  ~ Filled(p) /\ ~ Filled(p)'
<1>1. pc = "place" /\ Depth' = 1 /\ calls'[1] = Frame(Entry) /\ succ' = succ
  BY StartRenameCalls, SameProgram DEF StartRename
<1>2. ~ Filled(p)
  BY <1>1 DEF Filled
<1>3. CASE p \notin Reachable(succ)
  BY <1>1, <1>3 DEF Filled
<1>4. CASE p = Entry
  <2>1. 1 \in 1 .. Depth' /\ calls'[1].bb = p /\ calls'[1].step = "phis"
    BY <1>1, <1>4 DEF Frame
  <2> QED
    BY <1>2, <2>1 DEF Filled
<1>5. CASE p # Entry /\ p \in Reachable(succ)
  BY <1>2, <1>5, PendingStart DEF Filled
<1> QED
  BY <1>2, <1>3, <1>4, <1>5

\* Step six is the only one to fill the phis of a block's successors ...
LEMMA FilledSame ==
    ASSUME TypeInv, CallsInv, Next, FillPhis => pc' = "abort", NEW p
    PROVE  Filled(p)' <=> Filled(p)
<1>0. UNCHANGED progVars /\ succ' = succ
  BY ProgramStays, SameProgram DEF Next
<1>1. ASSUME UNCHANGED calls, pc' \in {"place", "visit"} <=> pc \in {"place", "visit"}
      PROVE  Filled(p)' <=> Filled(p)
  <2>1. Depth' = Depth
    BY <1>1 DEF Depth
  <2>2. Pending(p)' <=> Pending(p)
    BY <1>0, <1>1, <2>1 DEF Pending
  <2> QED
    BY <1>0, <1>1, <2>1, <2>2 DEF Filled
<1>2. CASE Elsewhere
  <2>1. UNCHANGED calls /\ (pc' \in {"place", "visit"} <=> pc \in {"place", "visit"})
    BY <1>2 DEF Elsewhere, PlaceVar, VisitBlock, EndVar, remove_alloca, Finished, vars
  <2> QED
    BY <1>1, <2>1
<1>3. CASE StartRename
  BY <1>3, FilledStart
<1>4. CASE InBlock
  <2>1. pc = "rename" /\ pc' \in {"rename", "abort"} /\ calls # <<>>
    BY <1>4, InBlockMoves
  <2>2. CASE UNCHANGED calls
    BY <1>1, <2>1, <2>2
  <2>3. ASSUME NEW f, Moves(f), f.step # "children", Top.step # "children"
        PROVE  Filled(p)' <=> Filled(p)
    BY <1>0, <2>1, <2>3, FilledMoves
  <2>4. CASE PushPhis
    <3>1. \E f : Moves(f) /\ f.step = "instrs"
      BY <2>4, PushPhisMoves
    <3> QED
      BY <2>3, <2>4, <3>1 DEF PushPhis
  <2>5. CASE AtInstruction("load") /\ Advance
    <3>1. \E f : Moves(f) /\ f.step = "instrs"
      BY <2>5, AdvanceMoves
    <3> QED
      BY <2>3, <2>5, <3>1 DEF AtInstruction
  <2>6. CASE AtInstruction("store") /\ Advance
    <3>1. \E f : Moves(f) /\ f.step = "instrs"
      BY <2>6, AdvanceMoves
    <3> QED
      BY <2>3, <2>6, <3>1 DEF AtInstruction
  <2>7. CASE EndInstrs
    <3>1. \E f : Moves(f) /\ f.step = "succs"
      BY <2>7, EndInstrsMoves
    <3> QED
      BY <2>3, <2>7, <3>1 DEF EndInstrs
  <2>8. CASE FillPhis
    <3>1. UNCHANGED calls
      BY <2>1, <2>8 DEF FillPhis
    <3> QED
      BY <2>2, <3>1
  <2> QED
    BY <1>4, <2>2, <2>4, <2>5, <2>6, <2>7, <2>8 DEF InBlock, RenameLoad, RenameStore
<1> QED
  BY <1>2, <1>3, <1>4, NextCases, FilledRecurse, FilledPop

\* ... and does so once, for the block at hand.
LEMMA FilledFill ==
    ASSUME TypeInv, CallsInv, FillPhis, pc' # "abort"
    PROVE  /\ ~ Filled(Top.bb)
           /\ \A p : Filled(p)' <=> Filled(p) \/ p = Top.bb
<1>0. /\ UNCHANGED progVars /\ succ' = succ /\ pc = "rename" /\ pc' = "rename"
      /\ calls # <<>> /\ Top.step = "succs"
  BY SameProgram DEF FillPhis
<1>1. PICK f : Moves(f) /\ f.step = "children"
  BY FillPhisMoves
<1>2. /\ Depth \in Nat \ {0} /\ Depth' = Depth /\ Top = calls[Depth] /\ Depth \in 1 .. Depth
      /\ \A n \in 1 .. Depth : calls'[n] = IF n = Depth THEN f ELSE calls[n]
      /\ \A n \in 1 .. Depth : calls'[n].bb = calls[n].bb
  BY <1>1, MovesSpec
<1>3. \A p : Pending(p)' <=> Pending(p)
  BY <1>0, <1>1, PendingMoves
<1>4. ~ Filled(Top.bb)
  BY <1>0, <1>2 DEF Filled
<1>5. \A n \in 1 .. Depth : calls[n].bb = Top.bb => n = Depth
  BY <1>2, OneActivation
<1>6. Top.bb \in Reachable(succ) /\ ~ Pending(Top.bb)
  BY <1>0, <1>2, TopFits, ActiveNotPending DEF CallFits
<1>7. ASSUME NEW p, p = Top.bb PROVE Filled(p)'
  <2>1. ASSUME NEW n \in 1 .. Depth', calls'[n].bb = p PROVE calls'[n].step = "children"
    <3>1. n = Depth
      BY <1>2, <1>5, <1>7, <2>1
    <3> QED
      BY <1>1, <1>2, <3>1
  <2>2. ~ Pending(p)'
    BY <1>3, <1>6, <1>7
  <2> QED
    BY <1>0, <1>6, <1>7, <2>1, <2>2 DEF Filled
<1>8. ASSUME NEW p, p # Top.bb PROVE Filled(p)' <=> Filled(p)
  <2>1. \A n \in 1 .. Depth : calls[n].bb = p => calls'[n] = calls[n]
    BY <1>2, <1>8
  <2>2. (\A n \in 1 .. Depth' : calls'[n].bb = p => calls'[n].step = "children")
          <=> (\A n \in 1 .. Depth : calls[n].bb = p => calls[n].step = "children")
    BY <1>2, <2>1
  <2> QED
    BY <1>0, <1>3, <2>2 DEF Filled
<1> QED
  BY <1>4, <1>7, <1>8

LEMMA PhiInit == Init => PhiInv
BY DEF Init, PhiInv, OnePerBlock, GivenByFilled, NoneLeftOut

LEMMA PhiSame ==
    ASSUME TypeInv, CallsInv, PhiInv, Next, FillPhis => pc' = "abort",
           UNCHANGED <<phi_ops, phis>>
    PROVE  PhiInv'
<1>1. \A p : Filled(p)' <=> Filled(p)
  BY FilledSame
<1>2. succ' = succ /\ (Initialised' <=> Initialised)
  BY ProgramStays, SameProgram DEF Next
<1>3. OnePerBlock'
  BY DEF PhiInv, OnePerBlock
<1>4. GivenByFilled'
  BY <1>1 DEF PhiInv, GivenByFilled
<1>5. NoneLeftOut'
  BY <1>1, <1>2 DEF PhiInv, NoneLeftOut
<1> QED
  BY <1>3, <1>4, <1>5 DEF PhiInv

\* A phi that is put in place has no operand yet, and no block has given one.
LEMMA PhiVisit ==
    ASSUME TypeInv, CallsInv, PhiInv, NEW b \in Block, VisitBlock(b)
    PROVE  PhiInv'
<1>1. pc = "visit" /\ pc' = "visit" /\ UNCHANGED phi_ops
  BY DEF VisitBlock
<1>2. \A p : ~ Filled(p)
  BY <1>1 DEF Filled
<1>3. \A p : ~ Filled(p)'
  BY <1>1 DEF Filled
<1>4. \A f \in Block \X Var : phi_ops[f] = {}
  BY <1>2 DEF PhiInv, GivenByFilled
<1>5. phis' \in [Block -> SUBSET Var]
  BY TypeStep DEF TypeInv, TypeOK, Next, Step
<1>6. OnePerBlock' /\ GivenByFilled'
  BY <1>1, <1>4 DEF OnePerBlock, GivenByFilled
<1>7. NoneLeftOut'
  <2>1. ASSUME NEW c \in Block, NEW x \in phis'[c]
        PROVE  {o[2] : o \in phi_ops'[<<c, x>>]} = {p \in Pre(succ', c) : Filled(p)'}
    <3>1. <<c, x>> \in Block \X Var
      BY <1>5
    <3>2. phi_ops'[<<c, x>>] = {}
      BY <1>1, <1>4, <3>1
    <3> QED
      BY <1>3, <3>2
  <2> QED
    BY <2>1 DEF NoneLeftOut
<1> QED
  BY <1>6, <1>7 DEF PhiInv

\* Replacing a value in the phis leaves the blocks they have it from.
LEMMA PhiReplace ==
    ASSUME TypeInv, CallsInv, PhiInv, RenameLoad, NEW v, NEW w, ReplaceAllUses(v, w)
    PROVE  PhiInv'
<1>1. Next /\ UNCHANGED phis /\ ~ FillPhis
  BY DEF Next, Step, RenameLoad, FillPhis, AtInstruction
<1>2. \A p : Filled(p)' <=> Filled(p)
  BY <1>1, FilledSame
<1>3. succ' = succ /\ (Initialised' <=> Initialised)
  BY <1>1, ProgramStays, SameProgram DEF Next
<1>4. ASSUME NEW f \in Block \X Var
      PROVE  phi_ops'[f] = {<<IF o[1] = v THEN w ELSE o[1], o[2]>> : o \in phi_ops[f]}
  BY DEF ReplaceAllUses, TypeInv, TypeOK
<1>5. ASSUME NEW f \in Block \X Var
      PROVE  {o[2] : o \in phi_ops'[f]} = {o[2] : o \in phi_ops[f]}
  <2>1. ASSUME NEW n \in phi_ops'[f] PROVE \E o \in phi_ops[f] : n[2] = o[2]
    BY <1>4
  <2>2. ASSUME NEW o \in phi_ops[f] PROVE \E n \in phi_ops'[f] : n[2] = o[2]
    <3>1. <<IF o[1] = v THEN w ELSE o[1], o[2]>> \in phi_ops'[f]
      BY <1>4
    <3> QED
      BY <3>1
  <2> QED
    BY <2>1, <2>2
<1>6. OnePerBlock'
  <2> SUFFICES ASSUME NEW f \in Block \X Var, NEW n1 \in phi_ops'[f], NEW n2 \in phi_ops'[f],
                      n1[2] = n2[2]
               PROVE  n1 = n2
    BY DEF OnePerBlock
  <2>1. PICK o1 \in phi_ops[f] : n1 = <<IF o1[1] = v THEN w ELSE o1[1], o1[2]>>
    BY <1>4
  <2>2. PICK o2 \in phi_ops[f] : n2 = <<IF o2[1] = v THEN w ELSE o2[1], o2[2]>>
    BY <1>4
  <2>3. o1 = o2
    BY <2>1, <2>2 DEF PhiInv, OnePerBlock
  <2> QED
    BY <2>1, <2>2, <2>3
<1>7. GivenByFilled'
  <2> SUFFICES ASSUME NEW f \in Block \X Var, NEW o \in phi_ops'[f] PROVE Filled(o[2])
    BY <1>2 DEF GivenByFilled
  <2>1. PICK q \in phi_ops[f] : o[2] = q[2]
    BY <1>5
  <2> QED
    BY <2>1 DEF PhiInv, GivenByFilled
<1>8. NoneLeftOut'
  <2>1. ASSUME NEW b \in Block, NEW x \in phis[b] PROVE <<b, x>> \in Block \X Var
    BY DEF TypeInv, TypeOK
  <2> QED
    BY <1>1, <1>2, <1>3, <1>5, <2>1 DEF PhiInv, NoneLeftOut
<1> QED
  BY <1>6, <1>7, <1>8 DEF PhiInv

\* Step six adds the operand for its own block, to all phis of the successors.
LEMMA PhiFill ==
    ASSUME TypeInv, CallsInv, BalanceInv, PhiInv, FillPhis, pc' # "abort"
    PROVE  PhiInv'
<1> DEFINE b == Top.bb
<1>0. /\ Next /\ UNCHANGED phis /\ succ' = succ /\ (Initialised' <=> Initialised)
      /\ calls # <<>> /\ pc = "rename" /\ Top.step = "succs"
  <2>1. Next /\ UNCHANGED phis /\ calls # <<>> /\ pc = "rename" /\ Top.step = "succs"
    BY DEF Next, Step, FillPhis
  <2> QED
    BY <2>1, ProgramStays, SameProgram DEF Next
<1>1. /\ ~ Filled(b)
      /\ \A p : Filled(p)' <=> Filled(p) \/ p = b
  BY FilledFill
<1>2. b \in Block
  BY <1>0, TopFits
<1>3. ASSUME NEW f \in Block \X Var
      PROVE  phi_ops'[f] = IF f \in PhisToFill(b)
                           THEN phi_ops[f] \cup {<<Latest(f[2]), b>>} ELSE phi_ops[f]
  <2>1. DOMAIN phi_ops = Block \X Var
    BY DEF TypeInv, TypeOK
  <2> QED
    BY <2>1 DEF FillPhis
<1>4. \A f \in Block \X Var : \A o \in phi_ops[f] : Filled(o[2]) /\ o[2] # b
  BY <1>1 DEF PhiInv, GivenByFilled
<1> HIDE DEF b
<1>5. OnePerBlock'
  <2> SUFFICES ASSUME NEW f \in Block \X Var, NEW n1 \in phi_ops'[f], NEW n2 \in phi_ops'[f],
                      n1[2] = n2[2]
               PROVE  n1 = n2
    BY DEF OnePerBlock
  <2> DEFINE new == <<Latest(f[2]), b>>
  <2>1. new[2] = b
    OBVIOUS
  <2> HIDE DEF new
  <2>2. n1 \in phi_ops[f] \/ n1 = new
    BY <1>3 DEF new
  <2>3. n2 \in phi_ops[f] \/ n2 = new
    BY <1>3 DEF new
  <2> QED
    BY <1>4, <2>1, <2>2, <2>3 DEF PhiInv, OnePerBlock
<1>6. GivenByFilled'
  <2> SUFFICES ASSUME NEW f \in Block \X Var, NEW o \in phi_ops'[f] PROVE Filled(o[2])'
    BY DEF GivenByFilled
  <2>1. o \in phi_ops[f] \/ o = <<Latest(f[2]), b>>
    BY <1>3
  <2>2. o \in phi_ops[f] \/ o[2] = b
    BY <2>1
  <2> QED
    BY <1>1, <1>4, <2>2
<1>7. NoneLeftOut'
  <2> SUFFICES ASSUME Initialised, NEW c \in Block, NEW x \in phis[c]
               PROVE  {o[2] : o \in phi_ops'[<<c, x>>]} = {p \in Pre(succ, c) : Filled(p)'}
    BY <1>0 DEF NoneLeftOut
  <2>1. x \in Var /\ <<c, x>> \in Block \X Var
    BY DEF TypeInv, TypeOK
  <2>2. {o[2] : o \in phi_ops[<<c, x>>]} = {p \in Pre(succ, c) : Filled(p)}
    BY DEF PhiInv, NoneLeftOut
  <2>3. x \in keys
    BY <1>0, <2>1, StacksFull
  <2>4. c \in Succ(succ, b) <=> b \in Pre(succ, c)
    BY <1>2 DEF Pre
  <2>5. CASE c \in Succ(succ, b)
    <3>1. <<c, x>> \in PhisToFill(b)
      BY <2>1, <2>3, <2>5 DEF PhisToFill
    <3>2. phi_ops'[<<c, x>>] = phi_ops[<<c, x>>] \cup {<<Latest(x), b>>}
      BY <1>3, <2>1, <3>1
    <3>3. {o[2] : o \in phi_ops'[<<c, x>>]} = {o[2] : o \in phi_ops[<<c, x>>]} \cup {b}
      <4> DEFINE new == <<Latest(x), b>>
      <4>1. new[2] = b
        OBVIOUS
      <4> HIDE DEF new
      <4>2. phi_ops'[<<c, x>>] = phi_ops[<<c, x>>] \cup {new}
        BY <3>2 DEF new
      <4> QED
        BY <4>1, <4>2
    <3> QED
      BY <1>1, <2>2, <2>4, <2>5, <3>3
  <2>6. CASE c \notin Succ(succ, b)
    <3>1. phi_ops'[<<c, x>>] = phi_ops[<<c, x>>]
      BY <1>3, <2>1, <2>6 DEF PhisToFill
    <3> QED
      BY <1>1, <2>2, <2>4, <2>6, <3>1
  <2> QED
    BY <2>5, <2>6
<1> QED
  BY <1>5, <1>6, <1>7 DEF PhiInv

LEMMA PhiStep == ASSUME TypeInv, CallsInv, BalanceInv, PhiInv, Next PROVE PhiInv'
<1>1. CASE FillPhis
  <2>1. pc' = "abort" => UNCHANGED <<phi_ops, phis>>
    BY <1>1 DEF FillPhis
  <2> QED
    BY <1>1, <2>1, PhiFill, PhiSame
<1>2. CASE RenameLoad
  <2>1. \/ \E v, w : ReplaceAllUses(v, w)
        \/ UNCHANGED <<phi_ops, phis>>
    BY <1>2 DEF RenameLoad
  <2>2. ~ FillPhis
    BY <1>2 DEF RenameLoad, FillPhis, AtInstruction
  <2> QED
    BY <1>2, <2>1, <2>2, PhiReplace, PhiSame
<1>3. CASE \E b \in Block : VisitBlock(b)
  BY <1>3, PhiVisit
<1>4. CASE ~ FillPhis /\ ~ RenameLoad /\ ~ \E b \in Block : VisitBlock(b)
  <2>1. UNCHANGED <<phi_ops, phis>>
    BY <1>4 DEF Next, Step, Finished, vars, PlaceVar, EndVar, StartRename, PushPhis, RenameStore,
       EndInstrs, Recurse, PopBlock, remove_alloca
  <2> QED
    BY <1>4, <2>1, PhiSame
<1> QED
  BY <1>1, <1>2, <1>3, <1>4

LEMMA PhiStutter == ASSUME PhiInv, UNCHANGED vars PROVE PhiInv'
<1>1. succ' = succ /\ (Initialised' <=> Initialised) /\ UNCHANGED <<calls, pc, phi_ops, phis>>
  BY SameProgram DEF vars
<1>2. \A p : Filled(p)' <=> Filled(p)
  BY <1>1 DEF Filled, Pending, Depth
<1> QED
  BY <1>1, <1>2 DEF PhiInv, OnePerBlock, GivenByFilled, NoneLeftOut

\* The inductive invariant gives the property.
LEMMA PhiMeans == TypeInv /\ CallsInv /\ PhiInv => PhisComplete
<1> SUFFICES ASSUME TypeInv, CallsInv, PhiInv, pc = "done", Initialised,
                    NEW b \in Reachable(succ), NEW x \in phis[b]
             PROVE  /\ {o[2] : o \in phi_ops[<<b, x>>]} = Pre(succ, b)
                    /\ Cardinality(phi_ops[<<b, x>>]) = Cardinality(Pre(succ, b))
  BY DEF PhisComplete
<1> DEFINE ops == phi_ops[<<b, x>>]
           P == Pre(succ, b)
<1>1. /\ b \in Block /\ <<b, x>> \in Block \X Var /\ P \subseteq Reachable(succ)
      /\ Depth = 0 /\ P \subseteq Block
  <2>1. b \in Block
    BY ReachableType DEF TypeInv, Program
  <2>2. <<b, x>> \in Block \X Var
    BY <2>1 DEF TypeInv, TypeOK
  <2> QED
    BY <2>1, <2>2 DEF TypeInv, Program, Trimmed, CallsInv, Depth, Pre
<1>2. \A p \in P : Filled(p)
  BY <1>1 DEF Filled, Pending
<1>3. {o[2] : o \in ops} = P
  BY <1>1, <1>2 DEF PhiInv, NoneLeftOut
<1> DEFINE g == [o \in ops |-> o[2]]
<1>4. \A o1, o2 \in ops : o1[2] = o2[2] => o1 = o2
  BY <1>1 DEF PhiInv, OnePerBlock
<1>5. IsFiniteSet(P)
  BY <1>1, CFGAssumption, FS_Subset
<1> HIDE DEF ops, P
<1>6. ExistsBijection(P, ops)
  <2>1. g \in Bijection(ops, P)
    BY <1>3, <1>4, Fun_IsBij
  <2> QED
    BY <2>1, Fun_ExistsBij, Fun_ExistsBijSymmetric
<1>7. IsFiniteSet(ops) /\ Cardinality(ops) = Cardinality(P)
  BY <1>5, <1>6, FS_Bijection
<1> QED
  BY <1>3, <1>7 DEF ops, P

\* In a function whose entry block first gives every variable a value every phi
\* of a block that can be reached has, when the pass returns, one operand for
\* each predecessor: step six fills it in from each of them, once.
THEOREM Mem2RegPhisComplete == Spec => []PhisComplete
<1>1. Init => TypeInv /\ CallsInv /\ BalanceInv /\ PhiInv
  BY TypeInit, CallsInit, BalanceInit, PhiInit
<1>2. TypeInv /\ CallsInv /\ BalanceInv /\ PhiInv /\ [Next]_vars
        => TypeInv' /\ CallsInv' /\ BalanceInv' /\ PhiInv'
  BY TypeStep, TypeStutter, CallsStep, CallsStutter, BalanceStep, BalanceStutter,
     PhiStep, PhiStutter
<1> QED
  BY <1>1, <1>2, PhiMeans, PTL DEF Spec

-----------------------------------------------------------------------------
(* No use of an alloca is passed by                                        *)

\* A load or store that is still ahead stays so until re_name comes to it.
LEMMA AheadStays ==
    ASSUME TypeInv, CallsInv, Next, NEW i \in Loads \cup Stores, i[1] \in Reachable(succ),
           Ahead(i), RenameLoad \/ RenameStore => i # <<Top.bb, Top.next>>
    PROVE  Ahead(i)'
<1>0. /\ Program /\ UNCHANGED progVars /\ succ' = succ /\ i[1] \in Block
      /\ i = <<i[1], i[2]>> /\ i[2] \in Nat \ {0} /\ i[2] <= Len(code[i[1]])
      /\ Len(code[i[1]]) \in Nat
  BY ProgramStays, SameProgram, PlaceOf DEF Next, TypeInv
<1>1. ASSUME UNCHANGED calls, pc \in {"place", "visit"} => pc' \in {"place", "visit"}
      PROVE  Ahead(i)'
  <2>1. Depth' = Depth
    BY <1>1 DEF Depth
  <2>2. Pending(i[1])' <=> Pending(i[1])
    BY <1>0, <1>1, <2>1 DEF Pending
  <2> QED
    BY <1>1, <2>1, <2>2 DEF Ahead
<1>2. CASE Elsewhere
  <2>1. UNCHANGED calls /\ (pc \in {"place", "visit"} => pc' \in {"place", "visit"})
    BY <1>2 DEF Elsewhere, PlaceVar, VisitBlock, EndVar, remove_alloca, Finished, vars
  <2> QED
    BY <1>1, <2>1
<1>3. CASE StartRename
  <2>1. Depth' = 1 /\ calls'[1] = Frame(Entry)
    BY <1>3, StartRenameCalls
  <2>2. CASE i[1] = Entry
    <3>1. 1 \in 1 .. Depth' /\ calls'[1].bb = i[1] /\ calls'[1].next <= i[2]
      BY <1>0, <2>1, <2>2 DEF Frame
    <3> QED
      BY <3>1 DEF Ahead
  <2>3. CASE i[1] # Entry
    BY <1>3, <2>3, PendingStart DEF Ahead
  <2> QED
    BY <2>2, <2>3
<1>4. CASE InBlock
  <2>1. pc = "rename" /\ pc' \in {"rename", "abort"} /\ calls # <<>>
    BY <1>4, InBlockMoves
  <2>2. CASE UNCHANGED calls
    BY <1>1, <2>1, <2>2
  <2>3. ASSUME NEW f, Moves(f),
               \/ f.next = Top.next
               \/ f.next = Top.next + 1 /\ i # <<Top.bb, Top.next>>
        PROVE  Ahead(i)'
    <3>1. /\ Depth \in Nat \ {0} /\ Depth' = Depth /\ Top = calls[Depth]
          /\ \A n \in 1 .. Depth : calls'[n] = IF n = Depth THEN f ELSE calls[n]
          /\ \A n \in 1 .. Depth : calls'[n].bb = calls[n].bb
      BY <2>3, MovesSpec
    <3>2. Pending(i[1])' <=> Pending(i[1])
      BY <1>0, <2>3, PendingMoves
    <3>3. CASE Pending(i[1])
      BY <3>2, <3>3 DEF Ahead
    <3>4. CASE \E n \in 1 .. Depth : calls[n].bb = i[1] /\ calls[n].next <= i[2]
      <4> PICK n \in 1 .. Depth : calls[n].bb = i[1] /\ calls[n].next <= i[2]
        BY <3>4
      <4>1. n \in 1 .. Depth' /\ calls'[n].bb = i[1]
        BY <3>1
      <4>2. calls'[n].next <= i[2]
        <5>1. CASE n # Depth
          BY <3>1, <5>1
        <5>2. CASE n = Depth
          <6>1. calls'[n].next = f.next /\ Top.next \in Nat /\ Top.next <= i[2]
                /\ Top.bb = i[1]
            BY <2>1, <3>1, <5>2, TopFits
          <6> QED
            BY <1>0, <2>3, <6>1
        <5> QED
          BY <5>1, <5>2
      <4> QED
        BY <4>1, <4>2 DEF Ahead
    <3> QED
      BY <2>1, <3>3, <3>4 DEF Ahead
  <2>4. CASE PushPhis
    <3>1. \E f : Moves(f) /\ f.next = Top.next
      <4> PICK f : Moves(f) /\ f.next = 1 /\ Top.next = 1
        BY <2>4, PushPhisMoves
      <4> QED
        OBVIOUS
    <3> QED
      BY <2>3, <3>1
  <2>5. CASE EndInstrs
    BY <2>3, <2>5, EndInstrsMoves
  <2>6. CASE FillPhis
    <3>1. pc' = "abort" => UNCHANGED calls
      BY <2>1, <2>6 DEF FillPhis
    <3> QED
      BY <2>2, <2>3, <2>6, <3>1, FillPhisMoves
  <2>7. CASE RenameLoad \/ RenameStore
    <3>1. AtInstruction("load") \/ AtInstruction("store")
      BY <2>7 DEF RenameLoad, RenameStore
    <3>2. UNCHANGED calls \/ Advance
      BY <2>7 DEF RenameLoad, RenameStore
    <3>3. ASSUME Advance PROVE Ahead(i)'
      <4>1. \E f : Moves(f) /\ f.next = Top.next + 1
        BY <3>1, <3>3, AdvanceMoves
      <4> QED
        BY <2>3, <2>7, <4>1
    <3> QED
      BY <2>2, <3>2, <3>3
  <2> QED
    BY <1>4, <2>4, <2>5, <2>6, <2>7 DEF InBlock
<1>5. ASSUME NEW c \in Block, Recurse(c) PROVE Ahead(i)'
  <2>1. /\ Depth' = Depth + 1 /\ calls'[Depth + 1] = Frame(c) /\ Depth \in Nat \ {0}
        /\ \A n \in 1 .. Depth : calls'[n].bb = calls[n].bb /\ calls'[n].next = calls[n].next
        /\ pc = "rename"
    BY <1>5, CallsRecurse, TopSpec, CallsType DEF Recurse, TypeInv
  <2>2. CASE i[1] = c
    <3>1. Depth + 1 \in 1 .. Depth' /\ calls'[Depth + 1].bb = i[1]
          /\ calls'[Depth + 1].next <= i[2]
      BY <1>0, <2>1, <2>2 DEF Frame
    <3> QED
      BY <3>1 DEF Ahead
  <2>3. CASE i[1] # c /\ Pending(i[1])
    BY <1>5, <2>3, PendingRecurse DEF Ahead
  <2>4. CASE \E n \in 1 .. Depth : calls[n].bb = i[1] /\ calls[n].next <= i[2]
    <3> PICK n \in 1 .. Depth : calls[n].bb = i[1] /\ calls[n].next <= i[2]
      BY <2>4
    <3>1. n \in 1 .. Depth' /\ calls'[n].bb = i[1] /\ calls'[n].next <= i[2]
      BY <2>1
    <3> QED
      BY <3>1 DEF Ahead
  <2> QED
    BY <2>1, <2>2, <2>3, <2>4 DEF Ahead
<1>6. CASE PopBlock
  <2>1. /\ Depth' = Depth - 1 /\ Depth \in Nat \ {0} /\ pc = "rename" /\ Top = calls[Depth]
        /\ \A n \in 1 .. Depth - 1 : calls'[n] = calls[n]
        /\ Top.step = "children" /\ CallFits(Top)
    BY <1>6, CallsPop, TopSpec, TopFits, CallsType DEF TypeInv, PopBlock
  <2>2. Pending(i[1])' <=> Pending(i[1])
    BY <1>6, PendingPop
  <2>3. CASE Pending(i[1])
    BY <2>2, <2>3 DEF Ahead
  <2>4. CASE \E n \in 1 .. Depth : calls[n].bb = i[1] /\ calls[n].next <= i[2]
    <3> PICK n \in 1 .. Depth : calls[n].bb = i[1] /\ calls[n].next <= i[2]
      BY <2>4
    <3>1. n # Depth
      <4> SUFFICES ASSUME n = Depth PROVE FALSE
        OBVIOUS
      <4>1. Top.next = Len(code[i[1]]) + 1 /\ Top.next <= i[2]
        BY <2>1 DEF CallFits
      <4> QED
        BY <1>0, <4>1
    <3>2. n \in 1 .. Depth' /\ calls'[n].bb = i[1] /\ calls'[n].next <= i[2]
      BY <2>1, <3>1
    <3> QED
      BY <3>2 DEF Ahead
  <2> QED
    BY <2>1, <2>3, <2>4 DEF Ahead
<1> QED
  BY <1>2, <1>3, <1>4, <1>5, <1>6, NextCases

LEMMA UseInit == Init => UseInv
BY DEF Init, UseInv, Ahead

LEMMA UseStep == ASSUME TypeInv, CallsInv, BalanceInv, UseInv, Next PROVE UseInv'
<1>1. /\ Loads' = Loads /\ Stores' = Stores /\ succ' = succ
      /\ Initialised' <=> Initialised
  BY ProgramStays, SameProgram DEF Next
<1> SUFFICES ASSUME Initialised, NEW i \in Loads \cup Stores, i[1] \in Reachable(succ)
             PROVE  i \in erased' \/ Ahead(i)'
  BY <1>1 DEF UseInv
<1>2. erased \subseteq erased'
  BY DEF Next, Step, Finished, vars, PlaceVar, VisitBlock, EndVar, StartRename, PushPhis,
     RenameLoad, RenameStore, EndInstrs, FillPhis, Recurse, PopBlock, remove_alloca
<1>3. CASE i \in erased
  BY <1>2, <1>3
<1>4. CASE Ahead(i) /\ RenameLoad /\ i = <<Top.bb, Top.next>>
  <2> DEFINE x == code[Top.bb][Top.next].var
  <2>1. AtInstruction("load") /\ pc = "rename" /\ calls # <<>> /\ x \in Var
    BY <1>4, AtInstructionSpec DEF RenameLoad, AtInstruction
  <2>2. x \in keys /\ var_val_stack[x] # <<>>
    BY <2>1, StacksFull
  <2> QED
    BY <1>4, <2>2 DEF RenameLoad
<1>5. CASE Ahead(i) /\ RenameStore /\ i = <<Top.bb, Top.next>>
  BY <1>5 DEF RenameStore
<1>6. CASE Ahead(i) /\ (RenameLoad \/ RenameStore => i # <<Top.bb, Top.next>>)
  BY <1>6, AheadStays
<1> QED
  BY <1>3, <1>4, <1>5, <1>6 DEF UseInv

LEMMA UseStutter == ASSUME UseInv, UNCHANGED vars PROVE UseInv'
<1>1. /\ Loads' = Loads /\ Stores' = Stores /\ succ' = succ
      /\ Initialised' <=> Initialised
      /\ UNCHANGED <<calls, pc, erased>>
  BY SameProgram DEF vars
<1>2. \A i : Ahead(i)' <=> Ahead(i)
  BY <1>1 DEF Ahead, Pending, Depth
<1> QED
  BY <1>1, <1>2 DEF UseInv

\* The inductive invariant gives the property.
LEMMA UseMeans == TypeInv /\ CallsInv /\ UseInv => NoUseLeft
<1> SUFFICES ASSUME TypeInv, CallsInv, UseInv, pc = "done", Initialised,
                    \A i \in Loads \cup Stores : i[1] \in Reachable(succ)
             PROVE  erased = Loads \cup Stores
  BY DEF NoUseLeft
<1>1. calls = <<>> /\ Depth = 0
  BY DEF CallsInv, Depth
<1>2. \A i : ~ Ahead(i)
  BY <1>1 DEF Ahead, Pending
<1>3. erased \subseteq Loads \cup Stores
  BY DEF TypeInv, TypeOK
<1> QED
  BY <1>2, <1>3 DEF UseInv

\* In a function whose entry block first gives every variable a value, and
\* whose loads and stores can all be reached, re_name has erased each of them
\* when remove_alloca erases the allocas: none is left with a use.
THEOREM Mem2RegNoUseLeft == Spec => []NoUseLeft
<1>1. Init => TypeInv /\ CallsInv /\ BalanceInv /\ UseInv
  BY TypeInit, CallsInit, BalanceInit, UseInit
<1>2. TypeInv /\ CallsInv /\ BalanceInv /\ UseInv /\ [Next]_vars
        => TypeInv' /\ CallsInv' /\ BalanceInv' /\ UseInv'
  BY TypeStep, TypeStutter, CallsStep, CallsStutter, BalanceStep, BalanceStutter,
     UseStep, UseStutter
<1> QED
  BY <1>1, <1>2, UseMeans, PTL DEF Spec
=============================================================================
