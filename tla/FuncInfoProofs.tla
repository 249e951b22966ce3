--------------------------- MODULE FuncInfoProofs ---------------------------
(***************************************************************************)
(* Proof that the purity analysis finds exactly the impure functions, for  *)
(* any program and any order in which its worklist is emptied.             *)
(***************************************************************************)
EXTENDS FuncInfo, TLAPS

\* While the analysis runs, the use list of a function names the instructions
\* that call it.
UsesOfFunctions ==
    fi_pc # "idle" =>
        \A f \in Function : uses[f] = {i \in insts : f \in operands[i]}

\* Once marked, the trivially impure functions stay impure.
TrivialFound ==
    fi_pc \in {"propagate", "done"} =>
        \A f \in Function : TriviallyImpure(f) => f \in ImpureFound

\* The inductive invariant of the analysis.
FIInv ==
    /\ FITypeOK
    /\ UsesOfFunctions
    /\ TrivialFound
    /\ PurityPartial
    /\ PurityExact

\* The meaning of impurity depends on the program alone.
LEMMA MeaningUnchanged ==
    ASSUME UNCHANGED irVars
    PROVE  /\ \A f : TriviallyImpure(f)' = TriviallyImpure(f)
           /\ \A S : Closed(S)' = Closed(S)
           /\ \A f : ReallyImpure(f)' = ReallyImpure(f)
<1>1. insts' = insts /\ operands' = operands
  BY DEF irVars
<1>2. \A f : TriviallyImpure(f)' = TriviallyImpure(f)
  BY <1>1 DEF TriviallyImpure, is_side_effect_inst, IsLocal
<1>3. \A S : Closed(S)' = Closed(S)
  BY <1>1, <1>2 DEF Closed
<1>4. \A f : ReallyImpure(f)' = ReallyImpure(f)
  BY <1>3 DEF ReallyImpure
<1> QED
  BY <1>2, <1>3, <1>4

\* A caller of an impure function is impure.
LEMMA CallerImpure ==
    ASSUME NEW f \in Function, ReallyImpure(f),
           NEW i \in insts, f \in operands[i]
    PROVE  ReallyImpure(FunctionOf[i])
BY DEF ReallyImpure, Closed

\* What trivial_mark finds is impure.
LEMMA TrivialImpure ==
    ASSUME NEW f \in Function, TriviallyImpure(f) PROVE ReallyImpure(f)
BY DEF ReallyImpure, Closed

\* The first loop of FuncInfo::run establishes the propagation invariant.
LEMMA TrivialMarkInv == ASSUME FIInv, trivial_mark PROVE FIInv'
<1>1. FITypeOK' /\ UsesOfFunctions'
  BY DEF FIInv, FITypeOK, UsesOfFunctions, trivial_mark, irVars
<1>2. /\ \A f : TriviallyImpure(f)' = TriviallyImpure(f)
      /\ \A f : ReallyImpure(f)' = ReallyImpure(f)
  BY MeaningUnchanged DEF trivial_mark
<1>3. \A f \in Function : f \in ImpureFound' <=> TriviallyImpure(f)
  BY DEF trivial_mark, ImpureFound
<1>4. TrivialFound'
  BY <1>2, <1>3 DEF TrivialFound
<1>5. PurityPartial'
  <2>1. \A f \in ImpureFound' : ReallyImpure(f)'
    BY <1>2, <1>3, TrivialImpure DEF ImpureFound
  <2>2. worklist' = ImpureFound'
    BY <1>3 DEF trivial_mark, ImpureFound
  <2> QED
    BY <2>1, <2>2 DEF PurityPartial
<1>6. PurityExact'
  BY DEF PurityExact, trivial_mark
<1> QED
  BY <1>1, <1>4, <1>5, <1>6 DEF FIInv

\* Processing a queued function keeps the propagation invariant.
LEMMA ProcessInv == ASSUME FIInv, NEW f \in Function, process(f) PROVE FIInv'
<1> DEFINE callers == {FunctionOf[i] : i \in uses[f]}
           found == {g \in callers : is_pure[g]}
<1>1. /\ fi_pc = "propagate" /\ fi_pc' = "propagate"
      /\ f \in worklist
      /\ is_pure' = [g \in Function |-> is_pure[g] /\ g \notin found]
      /\ worklist' = (worklist \ {f}) \cup found
      /\ UNCHANGED irVars
  BY DEF process
<1>2. uses[f] = {i \in insts : f \in operands[i]} /\ insts \subseteq Instr
  BY <1>1 DEF FIInv, UsesOfFunctions, FITypeOK
<1>3. found \subseteq Function
  BY <1>2, FuncInfoAssumption
<1>4. FITypeOK' /\ UsesOfFunctions'
  BY <1>1, <1>3 DEF FIInv, FITypeOK, UsesOfFunctions, irVars
<1>5. /\ \A g : TriviallyImpure(g)' = TriviallyImpure(g)
      /\ \A g : ReallyImpure(g)' = ReallyImpure(g)
  BY <1>1, MeaningUnchanged
<1>6. ImpureFound' = ImpureFound \cup found
  BY <1>1, <1>3 DEF ImpureFound, FIInv, FITypeOK
<1>7. TrivialFound'
  BY <1>1, <1>5, <1>6 DEF FIInv, TrivialFound
<1>8. PurityPartial'
  <2>1. /\ \A g \in ImpureFound : ReallyImpure(g)
        /\ worklist \subseteq ImpureFound
        /\ \A i \in insts : \A g \in operands[i] \cap ImpureFound :
              g \in worklist \/ ~ is_pure[FunctionOf[i]]
    BY <1>1 DEF FIInv, PurityPartial
  <2>2. \A g \in found : ReallyImpure(g)
    BY <1>1, <1>2, <2>1, CallerImpure
  <2>3. \A g \in ImpureFound' : ReallyImpure(g)'
    BY <1>5, <1>6, <2>1, <2>2
  <2>4. worklist' \subseteq ImpureFound'
    BY <1>1, <1>6, <2>1
  <2>5. ASSUME NEW i \in insts, NEW g \in operands[i] \cap ImpureFound'
        PROVE  g \in worklist' \/ ~ is_pure'[FunctionOf[i]]
    <3>1. FunctionOf[i] \in Function
      BY <1>2, FuncInfoAssumption
    <3>2. CASE g = f
      BY <1>1, <1>2, <3>1, <3>2
    <3>3. CASE g \in found
      BY <1>1, <3>3
    <3>4. CASE g # f /\ g \in ImpureFound
      BY <1>1, <2>1, <3>1, <3>4
    <3> QED
      BY <1>6, <3>2, <3>3, <3>4
  <2> QED
    BY <1>1, <2>3, <2>4, <2>5 DEF PurityPartial, irVars
<1>9. PurityExact'
  BY <1>1 DEF PurityExact
<1> QED
  BY <1>4, <1>7, <1>8, <1>9 DEF FIInv

\* When the worklist is empty the analysis is exact.
LEMMA ReturnInv == ASSUME FIInv, FIReturn PROVE FIInv'
<1>1. /\ fi_pc = "propagate" /\ fi_pc' = "done" /\ worklist = {}
      /\ is_pure' = is_pure /\ worklist' = worklist /\ UNCHANGED irVars
  BY DEF FIReturn
<1>2. FITypeOK' /\ UsesOfFunctions'
  BY <1>1 DEF FIInv, FITypeOK, UsesOfFunctions, irVars
<1>3. /\ \A f : TriviallyImpure(f)' = TriviallyImpure(f)
      /\ \A S : Closed(S)' = Closed(S)
      /\ \A f : ReallyImpure(f)' = ReallyImpure(f)
  BY <1>1, MeaningUnchanged
<1>4. ImpureFound' = ImpureFound
  BY <1>1 DEF ImpureFound
<1>5. TrivialFound' /\ PurityPartial'
  BY <1>1, <1>3, <1>4 DEF FIInv, TrivialFound, PurityPartial
<1>6. Closed(ImpureFound)
  <2>1. ASSUME NEW i \in insts, operands[i] \cap ImpureFound # {}
        PROVE  FunctionOf[i] \in ImpureFound
    <3>1. ~ is_pure[FunctionOf[i]]
      BY <1>1, <2>1 DEF FIInv, PurityPartial
    <3>2. FunctionOf[i] \in Function
      BY FuncInfoAssumption DEF FIInv, FITypeOK
    <3> QED
      BY <3>1, <3>2 DEF ImpureFound
  <2> QED
    BY <1>1, <2>1 DEF FIInv, TrivialFound, Closed
<1>7. PurityExact'
  BY <1>1, <1>3, <1>4, <1>6 DEF FIInv, PurityPartial, PurityExact
<1> QED
  BY <1>2, <1>5, <1>7 DEF FIInv

\* A step of the analysis keeps its invariant.
LEMMA FINextInv == ASSUME FIInv, FINext PROVE FIInv'
BY TrivialMarkInv, ProcessInv, ReturnInv DEF FINext

\* Standing still keeps it as well.
LEMMA FIStutter == ASSUME FIInv, UNCHANGED <<irVars, fiVars>> PROVE FIInv'
<1>1. /\ \A f : TriviallyImpure(f)' = TriviallyImpure(f)
      /\ \A S : Closed(S)' = Closed(S)
      /\ \A f : ReallyImpure(f)' = ReallyImpure(f)
  BY MeaningUnchanged
<1>2. ImpureFound' = ImpureFound
  BY DEF ImpureFound, fiVars
<1>3. FITypeOK' /\ UsesOfFunctions'
  BY DEF FIInv, FITypeOK, UsesOfFunctions, irVars, fiVars
<1>4. TrivialFound' /\ PurityPartial' /\ PurityExact'
  BY <1>1, <1>2 DEF FIInv, TrivialFound, PurityPartial, PurityExact, irVars, fiVars
<1> QED
  BY <1>3, <1>4 DEF FIInv

\* Between its runs nothing is asked of the analysis.
LEMMA FIIdle == ASSUME FITypeOK', fi_pc' = "idle" PROVE FIInv'
BY DEF FIInv, UsesOfFunctions, TrivialFound, PurityPartial, PurityExact

\* The analysis starts in its invariant.
LEMMA FIInitInv == FIInit => FIInv
BY DEF FIInit, WellFormed, FIInv, FITypeOK, UsesOfFunctions, TrivialFound,
       PurityPartial, PurityExact, Value

\* FuncInfo::run calls impure exactly the functions that can reach a side
\* effect, whatever the call graph.
THEOREM PurityCorrect == FISpec => [](PurityPartial /\ PurityExact)
<1>1. FIInv /\ [FINext]_<<irVars, fiVars>> => FIInv'
  BY FINextInv, FIStutter
<1>2. FIInv => PurityPartial /\ PurityExact
  BY DEF FIInv
<1> QED
  BY FIInitInv, <1>1, <1>2, PTL DEF FISpec

\* At every pick from the worklist, what FuncInfo::run has marked impure really
\* reaches a side effect, and what it has not followed yet is in the worklist.
THEOREM PurityPartialCorrect == FISpec => []PurityPartial
BY PurityCorrect, PTL

\* The variables of FuncInfo::run keep their types: the worklist holds functions
\* and is_pure has an entry for every one.
THEOREM FuncInfoTypeCorrect == FISpec => []FITypeOK
<1>1. FIInv /\ [FINext]_<<irVars, fiVars>> => FIInv'
  BY FINextInv, FIStutter
<1>2. FIInv => FITypeOK
  BY DEF FIInv
<1> QED
  BY FIInitInv, <1>1, <1>2, PTL DEF FISpec
=============================================================================
