--------------------------- MODULE DeadCodeProofs ---------------------------
(***************************************************************************)
(* Proofs about dead code elimination: sweeping leaves no dangling operand *)
(* in whatever order it erases, and the purity computed before the sweeps  *)
(* stays safe to use during them.                                          *)
(***************************************************************************)
EXTENDS DeadCode, FuncInfoProofs

\* Instructions read instructions of their own function.
SameFunction ==
    \A i \in insts : \A d \in operands[i] \cap Instr :
        FunctionOf[d] = FunctionOf[i]

\* Which variables mean something at which point of the run.
Phases ==
    /\ pc # "funcinfo" => fi_pc = "idle"
    /\ wait_del \subseteq insts
    /\ pc \notin {"detach", "erase"} => wait_del = {}
    /\ pc = "erase" => detached = wait_del

\* What the marking loop has achieved.
Marking ==
    pc = "mark" =>
        /\ work_list \subseteq marked
        /\ marked \subseteq insts
        /\ \A i \in insts : FunctionOf[i] = cur /\ is_critical(i) => i \in marked
        /\ \A i \in marked : FunctionOf[i] = cur
        /\ \A i \in marked \ work_list : operands[i] \cap Instr \subseteq marked

\* Nothing critical is collected.
Deletable ==
    pc \in {"detach", "erase"} => \A i \in wait_del : ~ is_critical(i)

\* Until the first instruction is erased every operand exists.
OperandsPresent ==
    pc # "erase" => \A i \in insts : operands[i] \cap Instr \subseteq insts

\* The inductive invariant of the pass.
DCInv ==
    /\ TypeOK /\ FIInv /\ SameFunction /\ UsesAgree /\ CachedPuritySafe
    /\ Phases /\ Marking /\ Deletable /\ OperandsPresent /\ NoDanglingOperand

LEMMA InitInv == Init => DCInv
<1> SUFFICES ASSUME Init PROVE DCInv
  OBVIOUS
<1>1. TypeOK /\ FIInv
  BY FuncInfoAssumption
     DEF Init, WellFormed, TypeOK, FITypeOK, FIInv, UsesOfFunctions,
         TrivialFound, PurityPartial, PurityExact, Value
<1>2. SameFunction /\ UsesAgree /\ CachedPuritySafe /\ Phases /\ Marking
      /\ Deletable /\ OperandsPresent /\ NoDanglingOperand
  BY DEF Init, WellFormed, SameFunction, UsesAgree, CachedPuritySafe, Phases,
         Marking, Deletable, OperandsPresent, NoDanglingOperand, Staying
<1> QED
  BY <1>1, <1>2 DEF DCInv

\* The parts of the invariant that only speak of the program, when it and the
\* purity found for it do not change.
LEMMA SameProgram ==
    ASSUME DCInv, UNCHANGED irVars, UNCHANGED <<is_pure, worklist>>,
           fi_pc' \in {fi_pc, "idle"}
    PROVE  /\ FIInv' /\ SameFunction'
           /\ \A S : Closed(S)' = Closed(S)
           /\ ImpureFound' = ImpureFound
           /\ \A i : is_critical(i)' = is_critical(i)
<1>1. /\ \A f : TriviallyImpure(f)' = TriviallyImpure(f)
      /\ \A S : Closed(S)' = Closed(S)
      /\ \A f : ReallyImpure(f)' = ReallyImpure(f)
  BY MeaningUnchanged
<1>2. ImpureFound' = ImpureFound
  BY DEF ImpureFound
<1>3. FITypeOK' /\ UsesOfFunctions'
  BY DEF DCInv, FIInv, FITypeOK, UsesOfFunctions, irVars
<1>4. TrivialFound' /\ PurityPartial' /\ PurityExact'
  BY <1>1, <1>2 DEF DCInv, FIInv, TrivialFound, PurityPartial, PurityExact, irVars
<1>5. SameFunction' /\ \A i : is_critical(i)' = is_critical(i)
  BY DEF DCInv, SameFunction, is_critical, irVars
<1> QED
  BY <1>1, <1>2, <1>3, <1>4, <1>5 DEF FIInv

\* The use lists of functions that FuncInfo::run walks name their callers.
LEMMA StartRunInv == ASSUME DCInv, StartRun PROVE DCInv'
<1>1. /\ pc = "idle" /\ pc' = "funcinfo" /\ fi_pc' = "mark"
      /\ UNCHANGED <<is_pure, worklist, todo, cur, changed, marked, work_list,
                     wait_del, detached, runs, replaced>>
      /\ UNCHANGED irVars
  BY DEF StartRun, gvnVars
<1>2. detached = {} /\ wait_del = {}
  BY <1>1 DEF DCInv, Phases, TypeOK
<1>3. TypeOK' /\ SameFunction' /\ UsesAgree'
  BY <1>1 DEF DCInv, TypeOK, FITypeOK, SameFunction, UsesAgree, irVars
<1>4. FIInv'
  <2>1. UsesOfFunctions'
    BY <1>1, <1>2, FuncInfoAssumption
       DEF DCInv, UsesAgree, UsesOfFunctions, Value, irVars
  <2> QED
    BY <1>1, <1>3, <2>1 DEF FIInv, TypeOK, TrivialFound, PurityPartial, PurityExact
<1> QED
  BY <1>1, <1>2, <1>3, <1>4 DEF DCInv, irVars, CachedPuritySafe, Phases, Marking,
     Deletable, OperandsPresent, NoDanglingOperand, Staying

\* A step of the purity analysis leaves the pass where it is.
LEMMA RunFuncInfoInv == ASSUME DCInv, RunFuncInfo PROVE DCInv'
<1>1. FIInv' /\ UNCHANGED irVars
  BY FINextInv DEF DCInv, RunFuncInfo, FINext, trivial_mark, process, FIReturn
<1>2. SameFunction' /\ UsesAgree'
  BY <1>1 DEF DCInv, SameFunction, UsesAgree, RunFuncInfo, dcVars, irVars
<1>3. TypeOK'
  BY <1>1 DEF DCInv, TypeOK, FIInv, RunFuncInfo, dcVars, gvnVars
<1> QED
  BY <1>1, <1>2, <1>3 DEF DCInv, RunFuncInfo, irVars, dcVars, CachedPuritySafe,
     Phases, Marking, Deletable, OperandsPresent, NoDanglingOperand, Staying

LEMMA FirstRoundInv == ASSUME DCInv, FirstRound PROVE DCInv'
<1>1. /\ FIInv' /\ SameFunction'
      /\ \A S : Closed(S)' = Closed(S)
      /\ ImpureFound' = ImpureFound
  BY SameProgram DEF FirstRound
<1>2. CachedPuritySafe'
  BY <1>1 DEF DCInv, FIInv, PurityExact, FirstRound, CachedPuritySafe
<1>3. TypeOK' /\ UsesAgree'
  BY <1>1 DEF DCInv, FirstRound, TypeOK, FIInv, irVars, gvnVars, UsesAgree
<1> QED
  BY <1>1, <1>2, <1>3 DEF DCInv, FirstRound, irVars,
     Phases, Marking, Deletable, OperandsPresent, NoDanglingOperand, Staying

LEMMA MarkCriticalInv == ASSUME DCInv, MarkCritical PROVE DCInv'
<1> DEFINE f == CHOOSE g \in todo : TRUE
           critical == {i \in insts : FunctionOf[i] = f /\ is_critical(i)}
<1>1. /\ FIInv' /\ SameFunction'
      /\ \A S : Closed(S)' = Closed(S)
      /\ ImpureFound' = ImpureFound
      /\ \A i : is_critical(i)' = is_critical(i)
  BY SameProgram DEF MarkCritical, fiVars
<1>2. /\ pc = "func" /\ pc' = "mark" /\ f \in todo
      /\ cur' = f /\ todo' = todo \ {f} /\ marked' = critical
      /\ work_list' = critical
      /\ UNCHANGED <<changed, wait_del, detached, runs, replaced>>
      /\ UNCHANGED irVars /\ UNCHANGED fiVars
  BY DEF MarkCritical, gvnVars
<1>3. critical \subseteq insts
  OBVIOUS
<1>4. TypeOK' /\ UsesAgree'
  BY <1>1, <1>2, <1>3 DEF DCInv, TypeOK, FIInv, FITypeOK, UsesAgree, irVars
<1>5. Marking'
  BY <1>1, <1>2 DEF Marking, irVars
<1>6. CachedPuritySafe'
  BY <1>1, <1>2 DEF DCInv, CachedPuritySafe
<1> QED
  BY <1>1, <1>2, <1>4, <1>5, <1>6 DEF DCInv, irVars, fiVars,
     Phases, Deletable, OperandsPresent, NoDanglingOperand, Staying

LEMMA MarkOperandsInv ==
    ASSUME DCInv, NEW i \in Instr, MarkOperands(i) PROVE DCInv'
<1> DEFINE found == {d \in operands[i] \cap Instr :
                        d \notin marked /\ FunctionOf[d] = FunctionOf[i]}
<1>1. /\ FIInv' /\ SameFunction'
      /\ \A S : Closed(S)' = Closed(S)
      /\ ImpureFound' = ImpureFound
      /\ \A j : is_critical(j)' = is_critical(j)
  BY SameProgram DEF MarkOperands, fiVars
<1>2. /\ pc = "mark" /\ i \in work_list
      /\ marked' = marked \cup found
      /\ work_list' = (work_list \ {i}) \cup found
      /\ UNCHANGED <<pc, todo, cur, changed, wait_del, detached, runs, replaced>>
      /\ UNCHANGED irVars /\ UNCHANGED fiVars
  BY DEF MarkOperands, gvnVars
<1>3. i \in marked /\ i \in insts /\ FunctionOf[i] = cur
  BY <1>2 DEF DCInv, Marking
<1>4. found \subseteq insts
  BY <1>2, <1>3 DEF DCInv, OperandsPresent
<1>5. operands[i] \cap Instr \subseteq marked \cup found
  BY <1>3 DEF DCInv, SameFunction
<1>6. TypeOK' /\ UsesAgree'
  BY <1>1, <1>2, <1>4 DEF DCInv, TypeOK, FIInv, FITypeOK, UsesAgree, irVars
<1>7. Marking'
  <2>1. \A j \in marked' \ work_list' : operands[j] \cap Instr \subseteq marked'
    BY <1>2, <1>5 DEF DCInv, Marking
  <2>2. \A j \in marked' : FunctionOf[j] = cur
    BY <1>2, <1>3 DEF DCInv, Marking
  <2> QED
    BY <1>1, <1>2, <1>4, <2>1, <2>2 DEF DCInv, Marking, irVars
<1>8. CachedPuritySafe'
  BY <1>1, <1>2 DEF DCInv, CachedPuritySafe
<1> QED
  BY <1>1, <1>2, <1>6, <1>7, <1>8 DEF DCInv, irVars, fiVars,
     Phases, Deletable, OperandsPresent, NoDanglingOperand, Staying

LEMMA CollectInv == ASSUME DCInv, Collect PROVE DCInv'
<1> DEFINE dead == {i \in insts : FunctionOf[i] = cur /\ i \notin marked}
<1>1. /\ FIInv' /\ SameFunction'
      /\ \A S : Closed(S)' = Closed(S)
      /\ ImpureFound' = ImpureFound
      /\ \A i : is_critical(i)' = is_critical(i)
  BY SameProgram DEF Collect, fiVars
<1>2. /\ pc = "mark" /\ pc' = "detach" /\ work_list = {}
      /\ wait_del' = dead /\ detached' = {}
      /\ changed' = (changed \/ dead # {})
      /\ UNCHANGED <<todo, cur, marked, work_list, runs, replaced>>
      /\ UNCHANGED irVars /\ UNCHANGED fiVars
  BY DEF Collect, gvnVars
<1>3. detached = {}
  BY <1>2 DEF DCInv, Phases, TypeOK
<1>4. dead \subseteq insts
  OBVIOUS
<1>5. TypeOK' /\ UsesAgree'
  BY <1>1, <1>2, <1>3, <1>4 DEF DCInv, TypeOK, FIInv, FITypeOK, UsesAgree, irVars
<1>6. Deletable'
  BY <1>1, <1>2 DEF DCInv, Marking, Deletable
<1>7. NoDanglingOperand'
  <2>1. ASSUME NEW i \in insts \ dead, NEW d \in operands[i] \cap Instr
        PROVE  d \in insts \ dead
    <3>1. d \in insts /\ FunctionOf[d] = FunctionOf[i]
      BY <1>2 DEF DCInv, OperandsPresent, SameFunction
    <3>2. CASE FunctionOf[i] = cur
      <4>1. i \in marked
        BY <3>2
      <4> QED
        BY <1>2, <3>1, <4>1 DEF DCInv, Marking
    <3>3. CASE FunctionOf[i] # cur
      BY <3>1, <3>3
    <3> QED
      BY <3>2, <3>3
  <2>2. \A i \in dead : operands[i] \cap Instr \subseteq insts
    BY <1>2 DEF DCInv, OperandsPresent
  <2> QED
    BY <1>2, <2>1, <2>2 DEF NoDanglingOperand, Staying, irVars
<1>8. CachedPuritySafe'
  BY <1>1, <1>2 DEF DCInv, CachedPuritySafe
<1> QED
  BY <1>1, <1>2, <1>4, <1>5, <1>6, <1>7, <1>8 DEF DCInv, irVars, fiVars,
     Phases, Marking, OperandsPresent

LEMMA DetachInv == ASSUME DCInv, NEW i \in Instr, Detach(i) PROVE DCInv'
<1>1. /\ pc = "detach" /\ i \in wait_del /\ i \notin detached
      /\ uses' = [v \in Value |-> IF v \in operands[i] THEN uses[v] \ {i}
                                  ELSE uses[v]]
      /\ detached' = detached \cup {i}
      /\ UNCHANGED <<insts, operands, pc, todo, cur, changed, marked, work_list,
                     wait_del, runs, replaced>>
      /\ UNCHANGED fiVars
  BY DEF Detach, gvnVars
<1>2. TypeOK'
  BY <1>1 DEF DCInv, TypeOK, FITypeOK, fiVars
<1>3. UsesAgree'
  BY <1>1 DEF DCInv, UsesAgree
<1>4. FIInv'
  BY <1>1, <1>2, FIIdle DEF DCInv, Phases, TypeOK, fiVars
<1>5. SameFunction' /\ \A j : is_critical(j)' = is_critical(j)
  BY <1>1 DEF DCInv, SameFunction, is_critical, fiVars
<1>6. CachedPuritySafe'
  BY <1>1 DEF DCInv, CachedPuritySafe, Closed, TriviallyImpure, ImpureFound, fiVars
<1>7. Phases' /\ Marking' /\ Deletable' /\ OperandsPresent' /\ NoDanglingOperand'
  BY <1>1, <1>5 DEF DCInv, Phases, Marking, Deletable, OperandsPresent,
     NoDanglingOperand, Staying, fiVars
<1> QED
  BY <1>2, <1>3, <1>4, <1>5, <1>6, <1>7 DEF DCInv

LEMMA DetachedAllInv == ASSUME DCInv, DetachedAll PROVE DCInv'
<1>1. /\ FIInv' /\ SameFunction'
      /\ \A S : Closed(S)' = Closed(S)
      /\ ImpureFound' = ImpureFound
      /\ \A i : is_critical(i)' = is_critical(i)
  BY SameProgram DEF DetachedAll, fiVars
<1>2. TypeOK' /\ UsesAgree'
  BY <1>1 DEF DCInv, DetachedAll, TypeOK, FIInv, UsesAgree, irVars, gvnVars
<1>3. CachedPuritySafe'
  BY <1>1 DEF DCInv, CachedPuritySafe, DetachedAll
<1> QED
  BY <1>1, <1>2, <1>3 DEF DCInv, DetachedAll, irVars, fiVars, Phases, Marking,
     Deletable, OperandsPresent, NoDanglingOperand, Staying

\* Erasing a collected instruction: no other that stays reads it, and what was
\* closed under calls in the larger program is closed in the smaller one.
LEMMA EraseInv == ASSUME DCInv, NEW i \in Instr, Erase(i) PROVE DCInv'
<1>1. /\ pc = "erase" /\ i \in wait_del
      /\ insts' = insts \ {i}
      /\ wait_del' = wait_del \ {i}
      /\ detached' = detached \ {i}
      /\ UNCHANGED <<operands, uses, pc, todo, cur, changed, marked, work_list,
                     runs, replaced>>
      /\ UNCHANGED fiVars
  BY DEF Erase, gvnVars
<1>2. detached = wait_del /\ wait_del \subseteq insts
  BY <1>1 DEF DCInv, Phases
<1>3. TypeOK'
  BY <1>1, <1>2 DEF DCInv, TypeOK, FITypeOK, fiVars
<1>4. FIInv'
  BY <1>1, <1>3, FIIdle DEF DCInv, Phases, TypeOK, fiVars
<1>5. SameFunction' /\ \A j : is_critical(j)' = is_critical(j)
  BY <1>1 DEF DCInv, SameFunction, is_critical, fiVars
<1>6. UsesAgree'
  BY <1>1, <1>2 DEF DCInv, UsesAgree
<1>7. CachedPuritySafe'
  <2>1. \A f \in Function : TriviallyImpure(f)' => TriviallyImpure(f)
    BY <1>1 DEF TriviallyImpure
  <2> QED
    BY <1>1, <2>1 DEF DCInv, CachedPuritySafe, Closed, ImpureFound, fiVars
<1>8. NoDanglingOperand'
  <2>1. insts' \ wait_del' = insts \ wait_del
    BY <1>1
  <2> QED
    BY <1>1, <2>1 DEF DCInv, NoDanglingOperand, Staying
<1>9. Phases' /\ Marking' /\ Deletable' /\ OperandsPresent'
  BY <1>1, <1>2, <1>5 DEF DCInv, Phases, Marking, Deletable, OperandsPresent, fiVars
<1> QED
  BY <1>3, <1>4, <1>5, <1>6, <1>7, <1>8, <1>9 DEF DCInv

LEMMA SweepReturnInv == ASSUME DCInv, SweepReturn PROVE DCInv'
<1>1. /\ FIInv' /\ SameFunction'
      /\ \A S : Closed(S)' = Closed(S)
      /\ ImpureFound' = ImpureFound
  BY SameProgram DEF SweepReturn, fiVars
<1>2. TypeOK' /\ UsesAgree'
  BY <1>1 DEF DCInv, SweepReturn, TypeOK, FIInv, UsesAgree, irVars, gvnVars
<1>3. CachedPuritySafe'
  BY <1>1 DEF DCInv, CachedPuritySafe, SweepReturn
<1>4. NoDanglingOperand' /\ OperandsPresent'
  BY DEF DCInv, SweepReturn, irVars, NoDanglingOperand, OperandsPresent, Staying
<1> QED
  BY <1>1, <1>2, <1>3, <1>4 DEF DCInv, SweepReturn, irVars, fiVars, Phases,
     Marking, Deletable

LEMMA NextRoundInv == ASSUME DCInv, NextRound PROVE DCInv'
<1>1. /\ FIInv' /\ SameFunction'
      /\ \A S : Closed(S)' = Closed(S)
      /\ ImpureFound' = ImpureFound
  BY SameProgram DEF NextRound, fiVars
<1>2. TypeOK' /\ UsesAgree'
  BY <1>1 DEF DCInv, NextRound, TypeOK, FIInv, UsesAgree, irVars, gvnVars
<1>3. CachedPuritySafe'
  BY <1>1 DEF DCInv, CachedPuritySafe, NextRound
<1> QED
  BY <1>1, <1>2, <1>3 DEF DCInv, NextRound, irVars, fiVars, Phases,
     Marking, Deletable, OperandsPresent, NoDanglingOperand, Staying

LEMMA RunReturnInv == ASSUME DCInv, RunReturn PROVE DCInv'
<1>1. /\ FIInv' /\ SameFunction'
      /\ \A S : Closed(S)' = Closed(S)
      /\ ImpureFound' = ImpureFound
  BY SameProgram DEF RunReturn, fiVars
<1>2. TypeOK' /\ UsesAgree'
  BY <1>1 DEF DCInv, RunReturn, TypeOK, FIInv, UsesAgree, irVars
<1> QED
  BY <1>1, <1>2 DEF DCInv, RunReturn, irVars, fiVars, Phases, CachedPuritySafe,
     Marking, Deletable, OperandsPresent, NoDanglingOperand, Staying

\* A replacement by GVN happens between two runs of the pass.
LEMMA GvnReplaceInv ==
    ASSUME DCInv, NEW m \in insts, NEW l \in insts \cup Other, NEW P \in SUBSET uses[m],
           GvnReplace(m, l, P)
    PROVE  DCInv'
<1>1. /\ pc = "idle" /\ m # l
      /\ l \in Instr => FunctionOf[m] = FunctionOf[l]
      /\ operands' = [i \in Instr |-> IF i \in P THEN (operands[i] \ {m}) \cup {l}
                                      ELSE operands[i]]
      /\ uses' = [uses EXCEPT ![m] = uses[m] \ P, ![l] = uses[l] \cup P]
      /\ replaced' = replaced + 1
      /\ UNCHANGED <<insts, runs, pc, todo, cur, changed, marked, work_list,
                     wait_del, detached>>
      /\ UNCHANGED fiVars
  BY DEF GvnReplace, dcVars
<1>2. /\ detached = {} /\ wait_del = {}
      /\ insts \subseteq Instr /\ m \in Value /\ l \in Value
      /\ l \in Instr => l \in insts
      /\ l \in Value \ (Instr \ insts)
  BY <1>1, FuncInfoAssumption DEF DCInv, Phases, TypeOK, FITypeOK, Value
<1>3. uses[m] = {i \in insts : m \in operands[i]}
      /\ uses[l] = {i \in insts : l \in operands[i]}
  BY <1>2 DEF DCInv, UsesAgree
<1>4. TypeOK'
  <2>1. FITypeOK'
    BY <1>1, <1>2 DEF DCInv, TypeOK, FITypeOK, fiVars
  <2> QED
    BY <1>1, <2>1 DEF DCInv, TypeOK
<1>5. FIInv'
  BY <1>1, <1>4, FIIdle DEF DCInv, Phases, TypeOK, fiVars
<1>6. SameFunction' /\ OperandsPresent' /\ NoDanglingOperand'
  <2>1. ASSUME NEW i \in insts, NEW d \in operands'[i] \cap Instr
        PROVE  d \in insts /\ FunctionOf[d] = FunctionOf[i]
    <3>1. d \in operands[i] \/ (d = l /\ m \in operands[i])
      BY <1>1, <1>2, <1>3
    <3> QED
      BY <1>1, <1>2, <3>1 DEF DCInv, SameFunction, OperandsPresent
  <2> QED
    BY <1>1, <1>2, <2>1 DEF SameFunction, OperandsPresent, NoDanglingOperand, Staying
<1>7. UsesAgree'
  <2> SUFFICES ASSUME NEW v \in Value \ (Instr \ insts)
               PROVE  uses'[v] = {i \in insts : v \in operands'[i]}
    BY <1>1, <1>2 DEF UsesAgree
  <2>1. uses[v] = {i \in insts : v \in operands[i]}
    BY <1>2 DEF DCInv, UsesAgree
  <2>2. CASE v = m
    BY <1>1, <1>2, <1>3, <2>2 DEF DCInv, TypeOK, FITypeOK
  <2>3. CASE v = l
    <3>1. uses'[v] = uses[l] \cup P
      BY <1>1, <1>2, <2>3 DEF DCInv, TypeOK, FITypeOK
    <3>2. \A i \in insts : l \in operands'[i] <=> (l \in operands[i] \/ i \in P)
      BY <1>1, <1>2
    <3> QED
      BY <1>3, <2>1, <2>3, <3>1, <3>2
  <2>4. CASE v # m /\ v # l
    <3>1. uses'[v] = uses[v]
      BY <1>1, <2>4 DEF DCInv, TypeOK, FITypeOK
    <3>2. \A i \in insts : v \in operands'[i] <=> v \in operands[i]
      BY <1>1, <1>2, <2>4
    <3> QED
      BY <2>1, <3>1, <3>2
  <2> QED
    BY <2>2, <2>3, <2>4
<1> QED
  BY <1>1, <1>4, <1>5, <1>6, <1>7 DEF DCInv, Phases, CachedPuritySafe, Marking,
     Deletable, fiVars

-----------------------------------------------------------------------------
\* Every step of the pass keeps the invariant.
LEMMA NextInv == ASSUME DCInv, [Next]_vars PROVE DCInv'
<1>1. CASE Run
  BY <1>1, StartRunInv, RunFuncInfoInv, FirstRoundInv, MarkCriticalInv,
     MarkOperandsInv, CollectInv, DetachInv, DetachedAllInv, EraseInv,
     SweepReturnInv, NextRoundInv, RunReturnInv DEF Run
<1>2. ASSUME NEW m \in insts, NEW l \in insts \cup Other, NEW P \in SUBSET uses[m],
             GvnReplace(m, l, P)
      PROVE  DCInv'
  BY <1>2, GvnReplaceInv
<1>3. CASE UNCHANGED vars
  <2>1. /\ FIInv' /\ SameFunction'
        /\ \A S : Closed(S)' = Closed(S)
        /\ ImpureFound' = ImpureFound
        /\ \A i : is_critical(i)' = is_critical(i)
    BY <1>3, SameProgram DEF vars, fiVars
  <2>2. TypeOK' /\ UsesAgree'
    BY <1>3, <2>1 DEF vars, dcVars, gvnVars, DCInv, TypeOK, FIInv, UsesAgree, irVars
  <2>3. CachedPuritySafe' /\ Marking' /\ Deletable' /\ Phases'
    BY <1>3, <2>1 DEF vars, irVars, fiVars, dcVars, DCInv, CachedPuritySafe,
       Marking, Deletable, Phases
  <2>4. OperandsPresent' /\ NoDanglingOperand'
    BY <1>3 DEF vars, dcVars, irVars, DCInv, OperandsPresent, NoDanglingOperand,
       Staying
  <2> QED
    BY <2>1, <2>2, <2>3, <2>4 DEF DCInv
<1> QED
  BY <1>1, <1>2, <1>3 DEF Next, Finished

\* The pass never frees what something that stays still reads, never touches a
\* freed operand, keeps the use lists true, and its cached purity stays safe.
THEOREM SweepSafe ==
    Spec => [](TypeOK /\ NoDanglingOperand /\ UsesAgree /\ CachedPuritySafe)
<1>1. DCInv /\ [Next]_vars => DCInv'
  BY NextInv
<1>2. DCInv => TypeOK /\ NoDanglingOperand /\ UsesAgree /\ CachedPuritySafe
  BY DEF DCInv
<1> QED
  BY InitInv, <1>1, <1>2, PTL DEF Spec

\* The variables of the pass and of the purity analysis it calls keep their
\* types; in particular only what was collected is ever detached.
THEOREM SweepTypeCorrect == Spec => []TypeOK
BY SweepSafe, PTL

\* Through every round of marking and sweeping, and the rewriting of later
\* passes, the use list of a value names exactly the operands that hold it.
THEOREM SweepUsesAgree == Spec => []UsesAgree
BY SweepSafe, PTL

\* What run reads from FuncInfo was computed for an earlier program; a function
\* it takes for pure still reaches no side effect in the current one.
THEOREM SweepPuritySafe == Spec => []CachedPuritySafe
BY SweepSafe, PTL

\* Only Erase takes an instruction away.
LEMMA OnlyEraseShrinks ==
    ASSUME DCInv, [Next]_vars, NEW i \in insts, i \notin insts'
    PROVE  Erase(i)
<1>1. i \in Instr
  BY DEF DCInv, TypeOK, FITypeOK
<1>2. \/ insts' = insts
      \/ \E j \in Instr : Erase(j)
  BY DEF Next, Run, Finished, vars, irVars, StartRun, RunFuncInfo, FINext,
     trivial_mark, process, FIReturn, FirstRound, MarkCritical, MarkOperands,
     Collect, Detach, DetachedAll, SweepReturn, NextRound, RunReturn, GvnReplace
<1> QED
  BY <1>1, <1>2 DEF Erase

\* What is erased has no effect in the program of that moment.
LEMMA ErasedIsDead ==
    ASSUME DCInv, NEW i \in Instr, Erase(i)
    PROVE  /\ Opcode[i] \notin {"br", "ret", "store"}
           /\ Opcode[i] = "call" =>
                 \A f \in operands[i] \cap Function : ~ ReallyImpure(f)
<1>1. pc = "erase" /\ ~ is_critical(i)
  BY DEF Erase, DCInv, Deletable
<1>2. Closed(ImpureFound) /\ ImpureFound \in SUBSET Function
  BY <1>1 DEF DCInv, CachedPuritySafe, ImpureFound
<1>3. \A f \in Function : is_pure[f] => ~ ReallyImpure(f)
  BY <1>2 DEF ReallyImpure, ImpureFound
<1> QED
  BY <1>1, <1>3 DEF is_critical

\* Dead code elimination erases nothing that has an effect.
THEOREM OnlyDeadCodeErased == Spec => OnlyDeadErased
<1>1. DCInv /\ [Next]_vars => DCInv'
  BY NextInv
<1>2. DCInv /\ [Next]_vars
        => [\A i \in insts \ insts' :
              /\ Opcode[i] \notin {"br", "ret", "store"}
              /\ Opcode[i] = "call" =>
                    \A f \in operands[i] \cap Function : ~ ReallyImpure(f)]_vars
  BY OnlyEraseShrinks, ErasedIsDead DEF DCInv, TypeOK, FITypeOK
<1> QED
  BY InitInv, <1>1, <1>2, PTL DEF Spec, OnlyDeadErased

-----------------------------------------------------------------------------
(* What is left when run returns                                           *)

\* The instructions the critical ones need are among S.
Sufficient(S) ==
    /\ S \in SUBSET insts
    /\ \A i \in insts : is_critical(i) => i \in S
    /\ \A i \in S : operands[i] \cap insts \subseteq S

\* The functions outside F hold nothing but what is needed.
NeededOutside(F) ==
    \A S : Sufficient(S) => \A i \in insts : FunctionOf[i] \notin F => i \in S

\* As long as a round has erased nothing, the functions it is done with hold
\* nothing but what is needed; that is why run may stop after such a round.
RoundSoFar ==
    /\ pc \in {"func", "detach", "erase"} /\ ~ changed => NeededOutside(todo)
    /\ pc = "mark" /\ ~ changed => NeededOutside(todo \cup {cur})
    /\ pc \in {"detach", "erase"} /\ ~ changed => wait_del = {}

\* The marking loop marks only what is needed.
MarkedNeeded == pc = "mark" => \A S : Sufficient(S) => marked \subseteq S

LiveInv == RoundSoFar /\ MarkedNeeded

LEMMA SameSufficient ==
    ASSUME UNCHANGED <<insts, operands, is_pure>>
    PROVE  /\ \A S : Sufficient(S)' <=> Sufficient(S)
           /\ \A F : NeededOutside(F)' <=> NeededOutside(F)
<1>1. \A i : is_critical(i)' <=> is_critical(i)
  BY DEF is_critical
<1>2. \A S : Sufficient(S)' <=> Sufficient(S)
  BY <1>1 DEF Sufficient
<1> QED
  BY <1>2 DEF NeededOutside

\* A new round has all functions before it.
LEMMA NoneOutside == TypeOK => NeededOutside(Function)
BY FuncInfoAssumption DEF TypeOK, FITypeOK, NeededOutside

LEMMA LiveInit == Init => LiveInv
BY DEF Init, LiveInv, RoundSoFar, MarkedNeeded

\* changed' = (changed \/ B), said without a Boolean-valued variable.
LEMMA StillUnchanged ==
    ASSUME NEW B, changed' = (changed \/ B), ~ changed'
    PROVE  ~ changed /\ ~ B
BY Zenon

LEMMA CollectLive == ASSUME DCInv, LiveInv, Collect PROVE LiveInv'
<1> DEFINE dead == {i \in insts : FunctionOf[i] = cur /\ i \notin marked}
<1>1. /\ pc = "mark" /\ pc' = "detach" /\ wait_del' = dead
      /\ UNCHANGED <<todo, cur>> /\ UNCHANGED irVars /\ UNCHANGED is_pure
      /\ changed' = (changed \/ dead # {})
  BY DEF Collect, fiVars
<1>2. \A F : NeededOutside(F)' <=> NeededOutside(F)
  BY <1>1, SameSufficient DEF irVars
<1>3. ASSUME ~ changed' PROVE NeededOutside(todo) /\ dead = {}
  <2>1. ~ changed /\ dead = {}
    <3>1. ~ changed /\ ~ (dead # {})
      <4> HIDE DEF dead
      <4> QED
        BY <1>1, <1>3, StillUnchanged
    <3> QED
      BY <3>1
  <2>2. NeededOutside(todo \cup {cur})
    BY <1>1, <2>1 DEF LiveInv, RoundSoFar
  <2>3. \A S : Sufficient(S) => marked \subseteq S
    BY <1>1 DEF LiveInv, MarkedNeeded
  <2> QED
    BY <2>1, <2>2, <2>3 DEF NeededOutside
<1> QED
  BY <1>1, <1>2, <1>3 DEF LiveInv, RoundSoFar, MarkedNeeded

LEMMA LiveStep == ASSUME DCInv, LiveInv, Next PROVE LiveInv'
<1> USE DEF LiveInv
<1>1. CASE pc' \in {"idle", "funcinfo"}
  BY <1>1 DEF RoundSoFar, MarkedNeeded
<1>2. CASE FirstRound \/ NextRound
  <2>1. /\ pc' = "func" /\ todo' = Function
        /\ UNCHANGED <<insts, operands, is_pure>>
    BY <1>2 DEF FirstRound, NextRound, irVars, fiVars
  <2>2. NeededOutside(todo)'
    BY <2>1, NoneOutside, SameSufficient DEF DCInv
  <2> QED
    BY <2>1, <2>2 DEF RoundSoFar, MarkedNeeded
<1>3. CASE MarkCritical
  <2> DEFINE f == CHOOSE g \in todo : TRUE
             critical == {i \in insts : FunctionOf[i] = f /\ is_critical(i)}
  <2>1. /\ pc = "func" /\ pc' = "mark" /\ todo # {} /\ cur' = f
        /\ todo' = todo \ {f} /\ marked' = critical /\ UNCHANGED changed
        /\ UNCHANGED <<insts, operands, is_pure>>
    BY <1>3 DEF MarkCritical, irVars, fiVars
  <2>2. todo' \cup {cur'} = todo
    BY <2>1
  <2>3. MarkedNeeded'
    BY <2>1, SameSufficient DEF MarkedNeeded, Sufficient
  <2>4. ~ changed => NeededOutside(todo \cup {cur})'
    BY <2>1, <2>2, SameSufficient DEF RoundSoFar
  <2> QED
    BY <2>1, <2>3, <2>4 DEF RoundSoFar
<1>4. CASE \E i \in Instr : MarkOperands(i)
  <2> PICK i \in Instr : MarkOperands(i)
    BY <1>4
  <2>1. /\ pc = "mark" /\ i \in work_list
        /\ marked' \subseteq marked \cup (operands[i] \cap Instr)
        /\ UNCHANGED <<pc, todo, cur, changed, insts, operands, is_pure>>
    BY DEF MarkOperands, irVars, fiVars
  <2>2. i \in marked /\ i \in insts /\ operands[i] \cap Instr \subseteq insts
    BY <2>1 DEF DCInv, Marking, OperandsPresent
  <2>3. MarkedNeeded'
    BY <2>1, <2>2, SameSufficient DEF MarkedNeeded, Sufficient
  <2> QED
    BY <2>1, <2>3, SameSufficient DEF RoundSoFar
<1>5. CASE Collect
  BY <1>5, CollectLive
<1>6. CASE (\E i \in Instr : Detach(i)) \/ DetachedAll \/ SweepReturn
  <2>1. /\ pc \in {"detach", "erase"} /\ pc' \in {"detach", "erase", "func"}
        /\ UNCHANGED <<todo, changed, wait_del, insts, operands, is_pure>>
    BY <1>6 DEF Detach, DetachedAll, SweepReturn, irVars, fiVars
  <2> QED
    BY <2>1, SameSufficient DEF RoundSoFar, MarkedNeeded
<1>7. CASE \E i \in Instr : Erase(i)
  <2>1. pc = "erase" /\ pc' = "erase" /\ wait_del # {} /\ UNCHANGED changed
    BY <1>7 DEF Erase
  <2> QED
    BY <2>1 DEF RoundSoFar, MarkedNeeded
<1>8. \/ pc' \in {"idle", "funcinfo"} \/ FirstRound \/ NextRound \/ MarkCritical
      \/ (\E i \in Instr : MarkOperands(i)) \/ Collect
      \/ (\E i \in Instr : Detach(i)) \/ DetachedAll \/ SweepReturn
      \/ (\E i \in Instr : Erase(i))
  BY DEF Next, Run, StartRun, RunFuncInfo, RunReturn, GvnReplace, Finished, dcVars, vars
<1> QED
  BY <1>1, <1>2, <1>3, <1>4, <1>5, <1>6, <1>7, <1>8

LEMMA LiveStutter == ASSUME LiveInv, UNCHANGED vars PROVE LiveInv'
BY SameSufficient DEF LiveInv, RoundSoFar, MarkedNeeded, vars, irVars, fiVars, dcVars

\* When DeadCode::run returns, whatever is left is needed by a branch, a
\* return, a store or a call with an effect: a set of instructions that holds
\* those and what its members read is the whole program.
THEOREM SweepOnlyLiveRemains == Spec => []OnlyLiveRemains
<1>1. DCInv /\ LiveInv /\ [Next]_vars => DCInv' /\ LiveInv'
  BY NextInv, LiveStep, LiveStutter
<1>2. LiveInv => OnlyLiveRemains
  BY DEF LiveInv, RoundSoFar, NeededOutside, Sufficient, OnlyLiveRemains
<1> QED
  BY InitInv, LiveInit, <1>1, <1>2, PTL DEF Spec

-----------------------------------------------------------------------------
(* The pass is a careful user of the def-use chains.                       *)

LEMMA ExistingHere == DCInv => C!Existing(LifeNow) = Value \ (Instr \ insts)
<1> SUFFICES ASSUME DCInv, NEW v \in Value
             PROVE  v \in C!Existing(LifeNow) <=> v \notin Instr \ insts
  BY DEF C!Existing
<1>1. detached \subseteq insts
  BY DEF DCInv, TypeOK, Phases
<1> QED
  BY <1>1 DEF C!Existing, LifeNow

\* The use lists are what the relation says.
UsersRight == UsersNow = C!UsersOf(LifeNow, ReadNow)

LEMMA UsersFollow == DCInv => UsersRight
<1> SUFFICES ASSUME DCInv, NEW v \in Value
             PROVE  UsersNow[v] = C!UsersOf(LifeNow, ReadNow)[v]
  BY DEF UsersRight, UsersNow, C!UsersOf
<1>1. insts \subseteq Instr
  BY DEF DCInv, TypeOK, FITypeOK
<1>2. CASE v \in Instr \ insts
  BY <1>2, ExistingHere DEF UsersNow, C!UsersOf
<1>3. CASE v \notin Instr \ insts
  <2>1. uses[v] = {i \in insts \ detached : v \in operands[i]}
    BY <1>3 DEF DCInv, UsesAgree
  <2>2. {i \in Instr : v \in ReadNow[i]} = uses[v]
    BY <1>1, <2>1 DEF ReadNow
  <2> QED
    BY <1>3, <2>2, ExistingHere DEF UsersNow, C!UsersOf
<1> QED
  BY <1>2, <1>3

LEMMA UsersFollowNext == DCInv' => UsersRight'
BY UsersFollow, PTL

LEMMA BecomesBy ==
    ASSUME DCInv', NEW l, NEW r, LifeNow' = l, ReadNow' = r
    PROVE  C!Becomes(l, r)
<1>1. UsersNow' = C!UsersOf(LifeNow', ReadNow')
  BY UsersFollowNext DEF UsersRight, C!UsersOf, C!Existing
<1> QED
  BY <1>1 DEF C!Becomes

\* The first loop of sweep.
LEMMA DetachRefines ==
    ASSUME DCInv, DCInv', NEW i \in Instr, Detach(i)
    PROVE  C!Detach(i)
<1>1. i \in wait_del /\ i \notin detached /\ i \in insts /\ pc = "detach"
  BY DEF Detach, DCInv, Phases
<1>2. LifeNow[i] = "attached" /\ ReadNow[i] = operands[i]
  BY <1>1 DEF LifeNow, ReadNow
<1>3. operands[i] \subseteq Value \ (Instr \ insts)
  <2>1. operands[i] \subseteq Value
    BY DEF DCInv, TypeOK, FITypeOK
  <2>2. operands[i] \cap Instr \subseteq insts
    BY <1>1 DEF DCInv, NoDanglingOperand
  <2> QED
    BY <2>1, <2>2
<1>4. detached' = detached \cup {i} /\ insts' = insts /\ operands' = operands
  BY DEF Detach
<1>5. LifeNow' = [LifeNow EXCEPT ![i] = "detached"]
  BY <1>1, <1>4 DEF LifeNow
<1>6. ReadNow' = [ReadNow EXCEPT ![i] = {}]
  BY <1>1, <1>4 DEF ReadNow
<1> QED
  BY <1>2, <1>3, <1>5, <1>6, BecomesBy, ExistingHere DEF C!Detach, C!Forget

\* The second loop frees what nothing reads any more.
LEMMA EraseRefines ==
    ASSUME DCInv, DCInv', NEW i \in Instr, Erase(i)
    PROVE  C!Free(i) /\ UsersNow[i] = {}
<1>1. i \in wait_del /\ i \in detached /\ i \in insts /\ detached = wait_del
  BY DEF Erase, DCInv, Phases
<1>2. LifeNow[i] = "detached"
  BY <1>1 DEF LifeNow
<1>3. detached' = detached \ {i} /\ insts' = insts \ {i} /\ operands' = operands
  BY DEF Erase
<1>4. LifeNow' = [LifeNow EXCEPT ![i] = "absent"]
  BY <1>1, <1>3 DEF LifeNow
<1>5. ReadNow' = ReadNow
  BY <1>1, <1>3 DEF ReadNow
<1>6. UsersNow[i] = {}
  <2>1. i \in Value /\ i \notin Instr \ insts
    BY <1>1 DEF Value
  <2>2. uses[i] = {j \in insts \ detached : i \in operands[j]}
    BY <2>1 DEF DCInv, UsesAgree
  <2>3. \A j \in insts \ detached : i \notin operands[j]
    BY <1>1 DEF DCInv, NoDanglingOperand, Staying
  <2> QED
    BY <2>1, <2>2, <2>3 DEF UsersNow
<1> QED
  BY <1>2, <1>4, <1>5, <1>6, BecomesBy DEF C!Free

\* A replacement of GVN, which walks the use list of the member it replaces.
LEMMA GvnReplaceRefines ==
    ASSUME DCInv, DCInv', NEW m \in insts, NEW l \in insts \cup Other,
           NEW P \in SUBSET uses[m], GvnReplace(m, l, P)
    PROVE  P \in SUBSET UsersNow[m] /\ C!Redirect(m, l, P)
<1>1. /\ pc = "idle" /\ m # l
      /\ operands' = [i \in Instr |-> IF i \in P THEN (operands[i] \ {m}) \cup {l}
                                      ELSE operands[i]]
      /\ insts' = insts /\ detached' = detached
  BY DEF GvnReplace, dcVars
<1>2. /\ detached = {} /\ insts \subseteq Instr
      /\ m \in Value \ (Instr \ insts) /\ l \in Value \ (Instr \ insts)
  BY <1>1, FuncInfoAssumption DEF DCInv, Phases, TypeOK, FITypeOK, Value
<1>3. uses[m] = {i \in insts : m \in operands[i]} /\ UsersNow[m] = uses[m]
  BY <1>2 DEF DCInv, UsesAgree, UsersNow
<1>4. LifeNow' = LifeNow
  BY <1>1 DEF LifeNow
<1>5. ReadNow' = [u \in Instr |-> IF u \in P THEN (ReadNow[u] \ {m}) \cup {l} ELSE ReadNow[u]]
  BY <1>1, <1>2, <1>3 DEF ReadNow
<1> QED
  BY <1>1, <1>2, <1>3, <1>4, <1>5, BecomesBy, ExistingHere DEF C!Redirect

\* All other steps leave the chains alone.
LEMMA OthersStutter ==
    ASSUME DCInv,
           \/ StartRun \/ RunFuncInfo \/ FirstRound \/ MarkCritical
           \/ (\E i \in Instr : MarkOperands(i)) \/ Collect \/ DetachedAll
           \/ SweepReturn \/ NextRound \/ RunReturn \/ UNCHANGED vars
    PROVE  UNCHANGED C!chainVars
<1>1. UNCHANGED <<insts, operands, uses>> /\ detached' = detached
  <2>1. CASE Collect
    <3>1. detached = {}
      BY <2>1 DEF Collect, DCInv, TypeOK, Phases
    <3> QED
      BY <2>1, <3>1 DEF Collect, irVars
  <2>2. CASE RunFuncInfo
    BY <2>2 DEF RunFuncInfo, FINext, trivial_mark, process, FIReturn, irVars, dcVars
  <2>3. CASE UNCHANGED vars
    BY <2>3 DEF vars, irVars, dcVars
  <2> QED
    BY <2>1, <2>2, <2>3 DEF StartRun, FirstRound, MarkCritical, MarkOperands, DetachedAll,
       SweepReturn, NextRound, RunReturn, irVars
<1> QED
  BY <1>1 DEF C!chainVars, LifeNow, ReadNow, UsersNow

LEMMA InitRefines == Init => C!Init
<1> SUFFICES ASSUME Init PROVE C!Init
  OBVIOUS
<1>1. detached = {} /\ insts \subseteq Instr
  BY DEF Init, WellFormed
<1>2. LifeNow \in [Instr -> {"absent", "attached"}]
  BY <1>1 DEF LifeNow
<1>3. ReadNow \in [Instr -> SUBSET Value]
  BY DEF Init, WellFormed, ReadNow
<1>4. ASSUME NEW u \in Instr
      PROVE  ReadNow[u] \subseteq IF LifeNow[u] = "absent" THEN {}
                                  ELSE Value \ (Instr \ insts)
  BY <1>1, <1>3 DEF Init, WellFormed, ReadNow, LifeNow
<1>5. UsersNow = C!UsersOf(LifeNow, ReadNow)
  BY InitInv, UsersFollow DEF UsersRight
<1> QED
  BY <1>2, <1>3, <1>4, <1>5, InitInv, ExistingHere DEF C!Init

LEMMA NextRefines ==
    DCInv /\ DCInv' /\ [Next]_vars => [C!Next /\ C!FreesUnread]_(C!chainVars)
<1> SUFFICES ASSUME DCInv, DCInv', [Next]_vars
             PROVE  [C!Next /\ C!FreesUnread]_(C!chainVars)
  OBVIOUS
<1>1. ASSUME NEW i \in Instr, Detach(i)
      PROVE  C!Next /\ C!FreesUnread
  <2>1. C!Detach(i)
    BY <1>1, DetachRefines
  <2>2. LifeNow' = [LifeNow EXCEPT ![i] = "detached"]
    BY <2>1 DEF C!Detach, C!Forget, C!Becomes
  <2>3. C!FreesUnread
    BY <2>2 DEF C!FreesUnread, LifeNow
  <2> QED
    BY <2>1, <2>3 DEF C!Next
<1>2. ASSUME NEW i \in Instr, Erase(i)
      PROVE  C!Next /\ C!FreesUnread
  <2>1. C!Free(i) /\ UsersNow[i] = {}
    BY <1>2, EraseRefines
  <2>2. LifeNow' = [LifeNow EXCEPT ![i] = "absent"]
    BY <2>1 DEF C!Free, C!Becomes
  <2>3. C!FreesUnread
    BY <2>1, <2>2 DEF C!FreesUnread, LifeNow
  <2> QED
    BY <2>1, <2>3 DEF C!Next
<1>3. ASSUME NEW m \in insts, NEW l \in insts \cup Other, NEW P \in SUBSET uses[m],
             GvnReplace(m, l, P)
      PROVE  C!Next /\ C!FreesUnread
  <2>1. P \in SUBSET UsersNow[m] /\ C!Redirect(m, l, P)
    BY <1>3, GvnReplaceRefines
  <2>2. m \in Value /\ l \in Value
    BY DEF DCInv, TypeOK, FITypeOK, Value
  <2>3. LifeNow' = LifeNow
    BY <2>1 DEF C!Redirect, C!Becomes
  <2>4. C!FreesUnread
    BY <2>3 DEF C!FreesUnread
  <2> QED
    BY <2>1, <2>2, <2>4 DEF C!Next
<1> QED
  BY <1>1, <1>2, <1>3, OthersStutter DEF Next, Run, Finished

\* Seen as def-use chains, dead code elimination and the replacements of GVN
\* only take steps of module Chains, for every program and every order of the
\* hash set, and free no instruction that something still reads (DeadCode.h,
\* sweep; GVN.cpp, replace_cc_members).
THEOREM SweepImplementsChains == Spec => SweepIsCareful
<1>1. DCInv /\ [Next]_vars => DCInv'
  BY NextInv
<1>2. DCInv /\ DCInv' /\ [Next]_vars => [C!Next /\ C!FreesUnread]_(C!chainVars)
  BY NextRefines
<1> QED
  BY InitInv, InitRefines, <1>1, <1>2, PTL DEF Spec, SweepIsCareful, C!CarefulSpec
=============================================================================
