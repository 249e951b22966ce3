--------------------------- MODULE Mem2RegMeaning ---------------------------
(***************************************************************************)
(* A function means the same before Mem2Reg::run and after it: on every    *)
(* path, of every graph, each load's users read what the load found.       *)
(***************************************************************************)
EXTENDS Mem2RegProofs

-----------------------------------------------------------------------------
(* The value of a variable at a place, by dominance                        *)

\* Block a gives x no value with its phis and its first n instructions.
Silent(a, n, x) == StoresTo(a, x, n) = {} /\ x \notin phis[a]

\* It gives x the value v: with its last store, or else with a phi.
Gives(a, n, x, v) ==
    \/ \E k \in StoresTo(a, x, n) :
          (\A j \in StoresTo(a, x, n) : j <= k) /\ v = rval[<<a, k>>]
    \/ StoresTo(a, x, n) = {} /\ x \in phis[a] /\ v = PhiValue(a, x)

AllOf(a) == Len(code[a])
StrictDom(b) == Dom(succ, b) \ {b}

\* After the first n instructions of b, v is what the nearest dominator that
\* gives x a value gave it ...
Current(b, n, x, v) ==
    \/ Gives(b, n, x, v)
    \/ /\ Silent(b, n, x)
       /\ \E a \in StrictDom(b) :
             /\ Gives(a, AllOf(a), x, v)
             /\ \A q \in StrictDom(b) : a \in StrictDom(q) => Silent(q, AllOf(q), x)

\* ... or no dominator does.
NoValue(b, n, x) ==
    /\ Silent(b, n, x)
    /\ \A q \in StrictDom(b) : Silent(q, AllOf(q), x)

\* The instruction or phi with value v comes before that place on every path.
Available(b, n, v) ==
    /\ \A a \in Block, y \in Var : v = PhiValue(a, y) => a \in Dom(succ, b)
    /\ \A i \in Stores : v = OtherValue(i) =>
          i[1] \in Dom(succ, b) /\ (i[1] = b => i[2] <= n)

\* No load yet to come will have v replaced.
Settled(v) == \A i \in Loads : v = LoadValue(i) => ~ Ahead(i)

Has(b, n, x, v) == Current(b, n, x, v) /\ Available(b, n, v) /\ Settled(v)

-----------------------------------------------------------------------------
(* The inductive invariant                                                 *)

\* Where a variable whose phis are placed is given a value, the blocks of the
\* frontier have a phi for it, or are about to get one.
PlacedInv ==
    /\ pc \notin {"place", "visit"} => todo = {}
    /\ pc = "visit" => cur \notin todo
    /\ \A x \in todo : \A b \in Block : x \notin phis[b]
    /\ \A x \in Var \ todo : \A a \in Block :
          ~ Silent(a, AllOf(a), x) =>
              \/ pc = "visit" /\ x = cur /\ a \in work_list
              \/ \A b \in DominanceFrontier(a) : x \in phis[b]

\* What an activation has left on top of a stack is the variable's value where
\* the activation is.
TopsOf(h, n) ==
    calls[n].step # "phis" =>
        \A x \in Var :
            /\ h[n][x] = 0 => NoValue(calls[n].bb, calls[n].next - 1, x)
            /\ h[n][x] > 0 => Has(calls[n].bb, calls[n].next - 1, x,
                                  var_val_stack[x][h[n][x]])
TopsInv ==
    pc # "abort" =>
        \E h : /\ Heights(h)
               /\ \A x \in Var : Len(var_val_stack[x]) = h[Depth][x]
               /\ \A n \in 1 .. Depth : TopsOf(h, n)

\* A load that is behind was replaced by the value its variable has there, or
\* stays where it has none.
LoadsInv ==
    /\ \A i \in Loads : Ahead(i) => read[i] = LoadValue(i)
    /\ pc # "abort" =>
          \A i \in Loads : i[1] \in Reachable(succ) /\ ~ Ahead(i) =>
              \/ Has(i[1], i[2] - 1, Instruction(i).var, read[i])
              \/ NoValue(i[1], i[2] - 1, Instruction(i).var) /\ read[i] = LoadValue(i)

\* A store of a loaded value writes what the load's other users read.
StoresInv ==
    \A j \in Stores :
        rval[j] = IF Instruction(j).src = 0 THEN OtherValue(j)
                  ELSE read[<<j[1], Instruction(j).src>>]

\* The operand of a phi is the value its variable has at the end of the
\* predecessor; it is missing only where there is none.
OperandsInv ==
    pc # "abort" =>
        \A b \in Block : \A x \in phis[b] :
            /\ \A o \in phi_ops[<<b, x>>] : Has(o[2], AllOf(o[2]), x, o[1])
            /\ \A p \in Pre(succ, b) : Filled(p) =>
                  \/ \E o \in phi_ops[<<b, x>>] : o[2] = p
                  \/ NoValue(p, AllOf(p), x)

-----------------------------------------------------------------------------
(* Dominance and the value of a variable                                   *)

\* What is needed of a place: it is in a block of the function.
LEMMA GivesStore ==
    ASSUME Program, NEW a \in Block, NEW n \in Nat, n <= AllOf(a), NEW x, NEW v,
           Gives(a, n, x, v)
    PROVE  \/ \E k \in StoresTo(a, x, n) : <<a, k>> \in Stores /\ v = rval[<<a, k>>] /\ k <= n
           \/ x \in phis[a] /\ v = PhiValue(a, x)
<1>1. AllOf(a) \in Nat /\ DOMAIN code[a] = 1 .. AllOf(a)
  BY CodeTyped DEF AllOf, Program
<1>2. ASSUME NEW k \in StoresTo(a, x, n) PROVE <<a, k>> \in Stores /\ k <= n
  <2>1. k \in 1 .. n /\ code[a][k].op = "store"
    BY DEF StoresTo
  <2>2. k \in DOMAIN code[a]
    BY <1>1, <2>1
  <2> QED
    BY <2>1, <2>2, StoresSpec
<1> QED
  BY <1>2 DEF Gives

\* Without a store of its own a block hands on what its idom has.
LEMMA CurrentBelow ==
    ASSUME Program, NEW b \in Reachable(succ) \ {Entry}, NEW d, d = IDom(succ, b), NEW n,
           NEW x, Silent(b, n, x)
    PROVE  /\ \A v : Current(d, AllOf(d), x, v) => Current(b, n, x, v)
           /\ NoValue(d, AllOf(d), x) => NoValue(b, n, x)
<1>1. /\ WellFormedCFG(succ) /\ d \in Reachable(succ) /\ d \in Block
      /\ StrictDom(b) = Dom(succ, d) /\ d \in Dom(succ, d)
  BY IDomSpec, ReachableType, DomSelf DEF Program, StrictDom
<1>2. ASSUME NEW v, Current(d, AllOf(d), x, v) PROVE Current(b, n, x, v)
  <2>1. CASE Gives(d, AllOf(d), x, v)
    <3>1. ASSUME NEW q \in StrictDom(b), d \in StrictDom(q) PROVE FALSE
      BY <1>1, <3>1, DomAntisymmetric DEF StrictDom
    <3> QED
      BY <1>1, <2>1, <3>1 DEF Current
  <2>2. CASE Silent(d, AllOf(d), x) /\ ~ Gives(d, AllOf(d), x, v)
    <3>1. PICK a \in StrictDom(d) :
             /\ Gives(a, AllOf(a), x, v)
             /\ \A q \in StrictDom(d) : a \in StrictDom(q) => Silent(q, AllOf(q), x)
      BY <1>2, <2>2 DEF Current
    <3>2. a \in StrictDom(b)
      BY <1>1, <3>1 DEF StrictDom
    <3>3. ASSUME NEW q \in StrictDom(b), a \in StrictDom(q) PROVE Silent(q, AllOf(q), x)
      <4>1. q = d \/ q \in StrictDom(d)
        BY <1>1 DEF StrictDom
      <4> QED
        BY <2>2, <3>1, <3>3, <4>1
    <3> QED
      BY <3>1, <3>2, <3>3 DEF Current
  <2> QED
    BY <1>2, <2>1, <2>2 DEF Current
<1>3. ASSUME NoValue(d, AllOf(d), x) PROVE NoValue(b, n, x)
  BY <1>1, <1>3 DEF NoValue, StrictDom
<1> QED
  BY <1>2, <1>3

\* An instruction that is no store to x leaves x as it is.
LEMMA CurrentAlong ==
    ASSUME NEW b, NEW k \in Nat \ {0}, NEW x,
           ~ (code[b][k].op = "store" /\ code[b][k].var = x)
    PROVE  /\ \A v : Current(b, k, x, v) <=> Current(b, k - 1, x, v)
           /\ NoValue(b, k, x) <=> NoValue(b, k - 1, x)
<1>1. StoresTo(b, x, k) = StoresTo(b, x, k - 1)
  BY DEF StoresTo
<1>2. Silent(b, k, x) <=> Silent(b, k - 1, x)
  BY <1>1 DEF Silent
<1>3. \A v : Gives(b, k, x, v) <=> Gives(b, k - 1, x, v)
  BY <1>1 DEF Gives
<1> QED
  BY <1>2, <1>3 DEF Current, NoValue

\* A store gives its value.
LEMMA CurrentAtStore ==
    ASSUME NEW b, NEW k \in Nat \ {0}, NEW x, code[b][k].op = "store", code[b][k].var = x
    PROVE  /\ \A v : Current(b, k, x, v) <=> v = rval[<<b, k>>]
           /\ ~ NoValue(b, k, x)
<1>1. k \in StoresTo(b, x, k) /\ \A j \in StoresTo(b, x, k) : j <= k
  BY DEF StoresTo
<1>2. ~ Silent(b, k, x)
  BY <1>1 DEF Silent
<1>3. ASSUME NEW j \in StoresTo(b, x, k), \A m \in StoresTo(b, x, k) : m <= j PROVE j = k
  <2>1. j \in Nat /\ k <= j /\ j <= k
    BY <1>1, <1>3 DEF StoresTo
  <2> QED
    BY <2>1
<1>4. \A v : Gives(b, k, x, v) <=> v = rval[<<b, k>>]
  BY <1>1, <1>3 DEF Gives
<1> QED
  BY <1>2, <1>4 DEF Current, NoValue

\* On entry a phi is the value of its variable.
LEMMA CurrentAtPhi ==
    ASSUME NEW b, NEW x, x \in phis[b]
    PROVE  /\ \A v : Current(b, 0, x, v) <=> v = PhiValue(b, x)
           /\ ~ NoValue(b, 0, x)
<1>1. StoresTo(b, x, 0) = {}
  BY DEF StoresTo
<1>2. ~ Silent(b, 0, x)
  BY DEF Silent
<1>3. \A v : Gives(b, 0, x, v) <=> v = PhiValue(b, x)
  BY <1>1 DEF Gives
<1> QED
  BY <1>2, <1>3 DEF Current, NoValue

\* Nothing comes before the entry block.
LEMMA NoneAtEntry ==
    ASSUME Program, NEW n, NEW x, Silent(Entry, n, x)
    PROVE  NoValue(Entry, n, x)
BY DomEntry DEF Program, NoValue, StrictDom

\* What comes before a place of a strict dominator comes before the block's places.
LEMMA AvailableBelow ==
    ASSUME Program, NEW b \in Reachable(succ), NEW d, d \in StrictDom(b), NEW m, NEW n, NEW v,
           Available(d, m, v)
    PROVE  Available(b, n, v)
<1>1. WellFormedCFG(succ) /\ b \in Reachable(succ) /\ d \in Dom(succ, b) /\ d # b
  BY DEF Program, StrictDom
<1>2. \A a \in Dom(succ, d) : a \in Dom(succ, b) /\ a # b
  BY <1>1, DomTransitive, DomAntisymmetric
<1> QED
  BY <1>2 DEF Available

-----------------------------------------------------------------------------
(* What a step leaves of it                                                *)

\* What is said of places depends on the program and the phis alone.
LEMMA SamePlaces ==
    ASSUME UNCHANGED <<progVars, phis>>
    PROVE  /\ \A a, n, x : StoresTo(a, x, n)' = StoresTo(a, x, n)
           /\ \A a, n, x : Silent(a, n, x)' <=> Silent(a, n, x)
           /\ \A b : StrictDom(b)' = StrictDom(b) /\ AllOf(b)' = AllOf(b)
           /\ \A b, n, x : NoValue(b, n, x)' <=> NoValue(b, n, x)
           /\ \A b, n, v : Available(b, n, v)' <=> Available(b, n, v)
<1>1. succ' = succ /\ code' = code /\ phis' = phis /\ Stores' = Stores
  BY SameProgram
<1>2. \A a, n, x : StoresTo(a, x, n)' = StoresTo(a, x, n)
  BY <1>1 DEF StoresTo
<1>3. \A a, n, x : Silent(a, n, x)' <=> Silent(a, n, x)
  BY <1>1, <1>2 DEF Silent
<1>4. \A b : StrictDom(b)' = StrictDom(b) /\ AllOf(b)' = AllOf(b)
  BY <1>1 DEF StrictDom, AllOf
<1>5. \A b, n, x : NoValue(b, n, x)' <=> NoValue(b, n, x)
  BY <1>3, <1>4 DEF NoValue
<1>6. \A b, n, v : Available(b, n, v)' <=> Available(b, n, v)
  BY <1>1 DEF Available, PhiValue, OtherValue
<1> QED
  BY <1>2, <1>3, <1>4, <1>5, <1>6

\* What a load that is ahead is replaced by: nothing, until re_name comes to it.
LEMMA ReplacedAhead ==
    ASSUME TypeInv, CallsInv, Next
    PROVE  \/ UNCHANGED <<rval, read>>
           \/ /\ RenameLoad /\ <<Top.bb, Top.next>> \in Loads /\ Ahead(<<Top.bb, Top.next>>)
              /\ LET v == LoadValue(<<Top.bb, Top.next>>)
                     w == Latest(code[Top.bb][Top.next].var)
                 IN  ReplaceAllUses(v, w)
<1>1. CASE RenameLoad
  <2>1. AtInstruction("load")
    BY <1>1 DEF RenameLoad
  <2>2. <<Top.bb, Top.next>> \in Loads
    BY <2>1, AtInstructionSpec
  <2>3. Ahead(<<Top.bb, Top.next>>)
    BY <2>1, AtHand
  <2> QED
    BY <1>1, <2>2, <2>3 DEF RenameLoad
<1>2. CASE ~ RenameLoad
  BY <1>2 DEF Next, Step, Finished, vars, PlaceVar, VisitBlock, EndVar, StartRename, PushPhis,
     RenameStore, EndInstrs, FillPhis, Recurse, PopBlock, remove_alloca
<1> QED
  BY <1>1, <1>2

\* A value no coming load replaces is never replaced.
LEMMA SettledStays ==
    ASSUME TypeInv, CallsInv, Next, NEW v, Settled(v)
    PROVE  /\ Settled(v)'
           /\ \A j \in Stores : rval[j] = v => rval'[j] = v
           /\ \A i \in Loads : read[i] = v => read'[i] = v
<1>1. Loads' = Loads
  BY ProgramStays, SameProgram DEF Next
<1>2. \A i \in Loads : Ahead(i)' => Ahead(i)
  BY AheadShrinks
<1>3. Settled(v)'
  BY <1>1, <1>2 DEF Settled, LoadValue
<1>4. DOMAIN rval = Stores /\ DOMAIN read = Loads
  BY DEF TypeInv, TypeOK
<1>5. ASSUME NEW i \in Loads, Ahead(i), NEW w, ReplaceAllUses(LoadValue(i), w)
      PROVE  /\ \A j \in Stores : rval[j] = v => rval'[j] = v
             /\ \A j \in Loads : read[j] = v => read'[j] = v
  <2>1. v # LoadValue(i)
    BY <1>5 DEF Settled
  <2> QED
    BY <1>4, <1>5, <2>1 DEF ReplaceAllUses
<1> QED
  BY <1>3, <1>5, ReplacedAhead

\* A step that places no phi leaves the values of all places as they are.
LEMMA HasStays ==
    ASSUME TypeInv, CallsInv, Next, UNCHANGED phis, NEW b \in Block, NEW n \in Nat,
           n <= AllOf(b), NEW x, NEW v, Has(b, n, x, v)
    PROVE  Has(b, n, x, v)'
<1>0. Program /\ UNCHANGED <<progVars, phis>>
  BY ProgramStays DEF Next, TypeInv
<1>1. /\ Settled(v)'
      /\ \A j \in Stores : rval[j] = v => rval'[j] = v
  BY SettledStays DEF Has
<1>2. Available(b, n, v)'
  BY <1>0, SamePlaces DEF Has
<1>3. ASSUME NEW a \in Block, NEW m \in Nat, m <= AllOf(a), Gives(a, m, x, v)
      PROVE  Gives(a, m, x, v)'
  <2>1. StoresTo(a, x, m)' = StoresTo(a, x, m)
    BY <1>0, SamePlaces
  <2>2. ASSUME NEW k \in StoresTo(a, x, m), \A j \in StoresTo(a, x, m) : j <= k,
               v = rval[<<a, k>>]
        PROVE  v = rval'[<<a, k>>]
    <3>1. AllOf(a) \in Nat /\ DOMAIN code[a] = 1 .. AllOf(a)
      BY <1>0, CodeTyped DEF AllOf, Program
    <3>2. k \in DOMAIN code[a] /\ code[a][k].op = "store"
      BY <1>3, <3>1 DEF StoresTo
    <3>3. <<a, k>> \in Stores
      BY <3>2, StoresSpec
    <3> QED
      BY <1>1, <2>2, <3>3
  <2> QED
    BY <1>0, <1>3, <2>1, <2>2 DEF Gives, PhiValue
<1>4. \A a \in StrictDom(b) : a \in Block /\ AllOf(a) \in Nat /\ AllOf(a) <= AllOf(a)
  BY <1>0, CodeTyped, DomType DEF StrictDom, AllOf, Program
<1>5. Current(b, n, x, v)'
  <2>1. CASE Gives(b, n, x, v)
    BY <1>3, <2>1 DEF Current
  <2>2. CASE ~ Gives(b, n, x, v)
    <3>1. Silent(b, n, x)
      BY <2>2 DEF Has, Current
    <3>2. PICK a \in StrictDom(b) :
             /\ Gives(a, AllOf(a), x, v)
             /\ \A q \in StrictDom(b) : a \in StrictDom(q) => Silent(q, AllOf(q), x)
      BY <2>2 DEF Has, Current
    <3>3. Gives(a, AllOf(a), x, v)'
      <4>1. PICK m : m = AllOf(a)
        OBVIOUS
      <4>2. Gives(a, m, x, v)'
        BY <1>3, <1>4, <3>2, <4>1
      <4>3. AllOf(a)' = m
        BY <1>0, <4>1, SamePlaces
      <4> QED
        BY <4>2, <4>3 DEF Gives
    <3>4. Silent(b, n, x)'
      BY <1>0, <3>1, SamePlaces
    <3>5. \A q \in StrictDom(b)' : a \in StrictDom(q)' => Silent(q, AllOf(q), x)'
      BY <1>0, <3>2, SamePlaces
    <3>6. a \in StrictDom(b)'
      BY <1>0, <3>2, SamePlaces
    <3> QED
      BY <3>3, <3>4, <3>5, <3>6 DEF Current
  <2> QED
    BY <2>1, <2>2
<1> QED
  BY <1>1, <1>2, <1>5 DEF Has

-----------------------------------------------------------------------------
(* The tops of the stacks                                                  *)

\* Two sequences that begin alike and go on alike are alike.
LEMMA PrefixEqual ==
    ASSUME NEW m \in Nat, NEW g, NEW h, g[0] = h[0],
           \A n \in 1 .. m : g[n - 1] = h[n - 1] => g[n] = h[n]
    PROVE  \A n \in 0 .. m : g[n] = h[n]
<1> DEFINE S == {n \in Nat : n <= m => g[n] = h[n]}
<1>1. 0 \in S
  OBVIOUS
<1>2. ASSUME NEW n \in Nat, n \in S PROVE n + 1 \in S
  <2> SUFFICES ASSUME n + 1 <= m PROVE g[n + 1] = h[n + 1]
    OBVIOUS
  <2>1. n + 1 \in 1 .. m /\ (n + 1) - 1 = n /\ n <= m
    OBVIOUS
  <2>2. g[n] = h[n]
    BY <1>2, <2>1
  <2> QED
    BY <2>1, <2>2
<1> HIDE DEF S
<1>3. Nat \subseteq S
  BY <1>1, <1>2, SetInduction
<1> QED
  BY <1>3 DEF S

\* A sequence of naturals that never falls ends with its largest.
LEMMA LastLargest ==
    ASSUME NEW m \in Nat, NEW t \in [0 .. m -> Nat], \A n \in 1 .. m : t[n - 1] <= t[n]
    PROVE  \A n \in 0 .. m : t[n] <= t[m]
<1> DEFINE S == {j \in Nat : j <= m => t[m - j] <= t[m]}
<1>1. 0 \in S
  BY m - 0 = m /\ m \in 0 .. m
<1>2. ASSUME NEW j \in Nat, j \in S PROVE j + 1 \in S
  <2> SUFFICES ASSUME j + 1 <= m PROVE t[m - (j + 1)] <= t[m]
    OBVIOUS
  <2>1. /\ m - j \in 1 .. m /\ (m - j) - 1 = m - (j + 1) /\ j <= m
        /\ m - (j + 1) \in 0 .. m /\ m - j \in 0 .. m /\ m \in 0 .. m
    OBVIOUS
  <2>2. t[m - j] <= t[m]
    BY <1>2, <2>1
  <2>3. t[m - (j + 1)] <= t[m - j]
    BY <2>1
  <2>4. t[m - (j + 1)] \in Nat /\ t[m - j] \in Nat /\ t[m] \in Nat
    BY <2>1
  <2> QED
    BY <2>2, <2>3, <2>4
<1> HIDE DEF S
<1>3. Nat \subseteq S
  BY <1>1, <1>2, SetInduction
<1>4. ASSUME NEW n \in 0 .. m PROVE t[n] <= t[m]
  <2>1. m - n \in Nat /\ m - n <= m /\ m - (m - n) = n
    OBVIOUS
  <2> QED
    BY <1>3, <2>1 DEF S
<1> QED
  BY <1>4

\* What lower activations have pushed is still on the stacks.
LEMMA HeightsRise ==
    ASSUME NEW D \in Nat, NEW h \in [0 .. D -> [Var -> Nat]], NEW x \in Var,
           \A n \in 1 .. D : h[n - 1][x] <= h[n][x], NEW n \in 0 .. D
    PROVE  h[n][x] \in Nat /\ h[n][x] <= h[D][x]
<1> DEFINE t == [i \in 0 .. D |-> h[i][x]]
<1>1. t \in [0 .. D -> Nat]
  OBVIOUS
<1>2. ASSUME NEW i \in 1 .. D PROVE t[i - 1] <= t[i]
  BY i \in 0 .. D /\ i - 1 \in 0 .. D
<1>3. t[n] = h[n][x] /\ t[D] = h[D][x]
  BY D \in 0 .. D
<1> HIDE DEF t
<1>4. t[n] <= t[D]
  BY <1>1, <1>2, LastLargest
<1>5. t[n] \in Nat
  BY <1>1
<1> QED
  BY <1>3, <1>4, <1>5

\* What goes on in the activations above the first m leaves these as they were.
LEMMA TopsKeep ==
    ASSUME TypeInv, TypeInv', CallsInv, CallsInv', BalanceInv', TopsInv, Next,
           UNCHANGED phis, pc # "abort", pc' # "abort",
           NEW m \in Nat, m <= Depth, m <= Depth',
           \A n \in 1 .. m : /\ calls'[n].bb = calls[n].bb /\ calls'[n].step = calls[n].step
                             /\ calls'[n].next = calls[n].next,
           \A x \in Var : \A k \in Nat \ {0} :
              k <= Len(var_val_stack[x]) /\ k <= Len(var_val_stack'[x]) =>
                  var_val_stack'[x][k] = var_val_stack[x][k]
    PROVE  \E g : /\ Heights(g)' /\ \A x \in Var : Len(var_val_stack'[x]) = g[Depth'][x]
                  /\ \A n \in 1 .. m : TopsOf(g, n)'
<1>0. UNCHANGED <<progVars, phis>> /\ Depth \in Nat /\ Depth' \in Nat /\ calls \in Seq(Call)
  BY ProgramStays, CallsType DEF Next, TypeInv, Depth, TypeOK
<1>1. PICK h : /\ Heights(h) /\ \A x \in Var : Len(var_val_stack[x]) = h[Depth][x]
               /\ \A n \in 1 .. Depth : TopsOf(h, n)
  BY DEF TopsInv
<1>2. PICK g : Heights(g)' /\ \A x \in Var : Len(var_val_stack'[x]) = g[Depth'][x]
  BY DEF BalanceInv, Balanced
<1>5. \A e, y : PushedSoFar(e, y)' = PushedSoFar(e, y)
  BY <1>0, SamePushed
<1>6. calls' \in Seq(Call)
  BY CallsStayTyped
<1>3. \A n \in 0 .. m : g[n] = h[n]
  <2>1. g[0] = h[0]
    BY <1>1, <1>2 DEF Heights
  <2>2. ASSUME NEW n \in 1 .. m, g[n - 1] = h[n - 1] PROVE g[n] = h[n]
    <3>1. n \in 1 .. Depth /\ n \in 1 .. Depth'
      BY <1>0
    <3>2. h[n] = [y \in Var |-> h[n - 1][y] + PushedSoFar(calls[n], y)]
      BY <1>1, <3>1 DEF Heights
    <3>3. g[n] = [y \in Var |-> g[n - 1][y] + PushedSoFar(calls'[n], y)]
      BY <1>2, <1>5, <3>1 DEF Heights
    <3>4. \A y : PushedSoFar(calls'[n], y) = PushedSoFar(calls[n], y)
      BY DEF PushedSoFar
    <3> QED
      BY <2>2, <3>2, <3>3, <3>4
  <2>3. \A n \in 1 .. m : g[n - 1] = h[n - 1] => g[n] = h[n]
    BY <2>2
  <2> QED
    BY ONLY m \in Nat, <2>1, <2>3, PrefixEqual
<1>4. ASSUME NEW n \in 1 .. m PROVE TopsOf(g, n)'
  <2>1. n \in 1 .. Depth /\ n \in 0 .. Depth /\ n \in 0 .. Depth' /\ g[n] = h[n] /\ n \in Nat
    BY <1>0, <1>3
  <2> PICK b, k : b = calls[n].bb /\ k = calls[n].next - 1
    OBVIOUS
  <2>2. calls'[n].bb = b /\ calls'[n].next - 1 = k /\ calls'[n].step = calls[n].step
    OBVIOUS
  <2>3. b \in Block /\ k \in Nat /\ k <= AllOf(b)
    <3>1. calls[n] \in Call /\ CallFits(calls[n])
      BY <1>0, <2>1 DEF CallsInv, Depth
    <3>2. b \in Block /\ calls[n].next \in Nat \ {0} /\ calls[n].next <= Len(code[b]) + 1
      BY <3>1, CallEdits DEF CallFits
    <3>3. Len(code[b]) \in Nat
      BY <3>2, CodeTyped DEF TypeInv, Program
    <3> QED
      BY <3>2, <3>3 DEF AllOf
  <2> SUFFICES ASSUME calls[n].step # "phis", NEW x \in Var
               PROVE  /\ g[n][x] = 0 => NoValue(b, k, x)'
                      /\ g[n][x] > 0 => Has(b, k, x, var_val_stack[x][g[n][x]])'
    BY <1>0, <2>2, SameProgram DEF TopsOf, TypeInv, TypeOK
  <2>4. /\ h[n][x] = 0 => NoValue(b, k, x)
        /\ h[n][x] > 0 => Has(b, k, x, var_val_stack[x][h[n][x]])
    BY <1>1, <2>1 DEF TopsOf
  <2>5. NoValue(b, k, x) => NoValue(b, k, x)'
    BY <1>0, SamePlaces
  <2>6. ASSUME g[n][x] > 0 PROVE Has(b, k, x, var_val_stack[x][g[n][x]])'
    <3> PICK i, v : i = g[n][x] /\ v = var_val_stack[x][i]
      OBVIOUS
    <3>1. i \in Nat /\ i <= Len(var_val_stack[x])
      <4>1. h \in [0 .. Depth -> [Var -> Nat]]
        BY <1>1 DEF Heights
      <4>2. ASSUME NEW e \in 1 .. Depth PROVE h[e - 1][x] <= h[e][x]
        <5>1. calls[e] \in Call /\ CallFits(calls[e])
          BY <1>0 DEF CallsInv, Depth
        <5>2. PushedSoFar(calls[e], x) \in Nat
          BY <5>1, PushedSpec
        <5>3. h[e] = [y \in Var |-> h[e - 1][y] + PushedSoFar(calls[e], y)]
          BY <1>1 DEF Heights
        <5>4. h[e][x] = h[e - 1][x] + PushedSoFar(calls[e], x) /\ h[e - 1][x] \in Nat
          BY <1>0, <4>1, <5>3
        <5> QED
          BY <5>2, <5>4
      <4>3. n \in 0 .. Depth /\ Depth \in Nat
        BY <1>0, <2>1
      <4>4. h[n][x] \in Nat /\ h[n][x] <= h[Depth][x]
        BY <4>1, <4>2, <4>3, HeightsRise, Zenon
      <4> QED
        BY <1>1, <2>1, <4>4
    <3>2. i <= Len(var_val_stack'[x])
      <4>1. g \in [0 .. Depth' -> [Var -> Nat]]
        BY <1>2 DEF Heights
      <4>2. ASSUME NEW e \in 1 .. Depth' PROVE g[e - 1][x] <= g[e][x]
        <5>1. calls'[e] \in Call /\ CallFits(calls'[e])
          <6>0. calls'[e] \in Call
            BY ONLY <1>6, e \in 1 .. Depth' DEF Depth
          <6>1. CallFits(calls[e])'
            BY ONLY CallsInv', e \in 1 .. Depth' DEF CallsInv
          <6>2. \A a : CallFits(a)' <=> CallFits(a)
            BY <1>0, SameFits
          <6> QED
            BY ONLY <6>0, <6>1, <6>2
        <5>2. PushedSoFar(calls'[e], x) \in Nat
          BY <5>1, PushedSpec
        <5>3. g[e] = [y \in Var |-> g[e - 1][y] + PushedSoFar(calls'[e], y)]
          BY <1>2, <1>5 DEF Heights
        <5>4. g[e][x] = g[e - 1][x] + PushedSoFar(calls'[e], x) /\ g[e - 1][x] \in Nat
          BY <1>0, <4>1, <5>3
        <5> QED
          BY <5>2, <5>4
      <4>3. n \in 0 .. Depth' /\ Depth' \in Nat
        BY <1>0, <2>1
      <4>4. g[n][x] <= g[Depth'][x]
        BY <4>1, <4>2, <4>3, HeightsRise, Zenon
      <4> QED
        BY <1>2, <4>4
    <3>3. var_val_stack'[x][i] = v
      BY <2>6, <3>1, <3>2
    <3>4. Has(b, k, x, v)
      BY <2>1, <2>4, <2>6
    <3>5. Has(b, k, x, v)'
      BY <2>3, <3>4, HasStays
    <3> QED
      BY <3>3, <3>5 DEF Has, Current, Available, Settled
  <2> QED
    BY <2>1, <2>4, <2>5, <2>6
<1> QED
  BY <1>2, <1>4

\* Where re_name is, the top of a stack is the variable's value.
LEMMA TopHas ==
    ASSUME TypeInv, CallsInv, TopsInv, pc # "abort", calls # <<>>, Top.step # "phis",
           NEW x \in Var
    PROVE  /\ var_val_stack[x] = <<>> => NoValue(Top.bb, Top.next - 1, x)
           /\ var_val_stack[x] # <<>> => Has(Top.bb, Top.next - 1, x, Latest(x))
<1>1. PICK h : /\ Heights(h) /\ \A y \in Var : Len(var_val_stack[y]) = h[Depth][y]
               /\ \A n \in 1 .. Depth : TopsOf(h, n)
  BY DEF TopsInv
<1>2. Depth \in Nat \ {0} /\ Top = calls[Depth]
  BY CallsType, TopSpec DEF TypeInv
<1>3. TopsOf(h, Depth)
  BY <1>1, <1>2
<1>4. var_val_stack[x] \in Seq(Values)
  BY DEF TypeInv, TypeOK
<1>5. /\ var_val_stack[x] = <<>> => h[Depth][x] = 0
      /\ var_val_stack[x] # <<>> => h[Depth][x] > 0 /\ Latest(x) = var_val_stack[x][h[Depth][x]]
  BY <1>1, <1>4 DEF Latest
<1> QED
  BY <1>2, <1>3, <1>5 DEF TopsOf

\* Before its phis are pushed a block finds the stacks its parent in the
\* dominator tree had at the end.
LEMMA ParentHas ==
    ASSUME TypeInv, CallsInv, TopsInv, pc # "abort", calls # <<>>, Top.step = "phis",
           NEW x \in Var
    PROVE  /\ Depth = 1 => Top.bb = Entry /\ var_val_stack[x] = <<>>
           /\ Depth # 1 =>
                 LET d == calls[Depth - 1].bb
                 IN  /\ Top.bb \in Reachable(succ) \ {Entry} /\ d = IDom(succ, Top.bb)
                     /\ var_val_stack[x] = <<>> => NoValue(d, AllOf(d), x)
                     /\ var_val_stack[x] # <<>> => Has(d, AllOf(d), x, Latest(x))
<1>1. PICK h : /\ Heights(h) /\ \A y \in Var : Len(var_val_stack[y]) = h[Depth][y]
               /\ \A n \in 1 .. Depth : TopsOf(h, n)
  BY DEF TopsInv
<1>2. /\ Depth \in Nat \ {0} /\ Top = calls[Depth] /\ Depth \in 1 .. Depth
      /\ calls \in Seq(Call)
  BY CallsType, TopSpec DEF TypeInv
<1>3. var_val_stack[x] \in Seq(Values)
  BY DEF TypeInv, TypeOK
<1>4. h[Depth][x] = h[Depth - 1][x] /\ h[Depth - 1][x] \in Nat
  <2>1. h[Depth] = [y \in Var |-> h[Depth - 1][y] + PushedSoFar(Top, y)]
    BY <1>1, <1>2 DEF Heights
  <2>2. PushedSoFar(Top, x) = 0
    BY DEF PushedSoFar
  <2>3. Depth - 1 \in 0 .. Depth
    BY <1>2
  <2>4. h[Depth - 1] \in [Var -> Nat]
    BY <1>1, <2>3 DEF Heights
  <2> QED
    BY <2>1, <2>2, <2>4
<1>5. /\ var_val_stack[x] = <<>> => h[Depth - 1][x] = 0
      /\ var_val_stack[x] # <<>> =>
            /\ h[Depth - 1][x] > 0
            /\ Latest(x) = var_val_stack[x][h[Depth - 1][x]]
  BY <1>1, <1>3, <1>4 DEF Latest
<1>6. CASE Depth = 1
  <2>1. h[Depth - 1][x] = 0
    BY <1>1, <1>6 DEF Heights
  <2>2. var_val_stack[x] = <<>>
    BY <1>5, <2>1
  <2> QED
    BY <1>2, <1>6, <2>2 DEF CallsInv
<1>7. CASE Depth # 1
  <2>1. Depth - 1 \in 1 .. Depth /\ Depth - 1 < Depth /\ (Depth - 1) + 1 = Depth
    BY <1>2, <1>7
  <2>2. /\ calls[Depth - 1].step = "children" /\ CallFits(calls[Depth - 1])
        /\ Top.bb \in DomTreeSucc(calls[Depth - 1].bb) /\ calls[Depth - 1] \in Call
    <3> PICK m : m = Depth - 1
      OBVIOUS
    <3>1. m \in 1 .. Depth /\ m < Depth /\ m + 1 = Depth
      BY <2>1
    <3>2. /\ calls[m].step = "children" /\ CallFits(calls[m])
          /\ calls[m + 1].bb \in DomTreeSucc(calls[m].bb)
      BY <3>1 DEF CallsInv
    <3>3. calls[m] \in Call
      BY <1>2, <3>1 DEF Depth
    <3> QED
      BY <1>2, <3>1, <3>2, <3>3
  <2>3. calls[Depth - 1].bb \in Block /\ calls[Depth - 1].next - 1 = AllOf(calls[Depth - 1].bb)
    <3>1. calls[Depth - 1].bb \in Block /\ calls[Depth - 1].next \in Nat
      BY <2>2, CallEdits
    <3>2. Len(code[calls[Depth - 1].bb]) \in Nat
      BY <3>1, CodeTyped DEF TypeInv, Program
    <3> QED
      BY <2>2, <3>1, <3>2 DEF CallFits, AllOf
  <2>4. Top.bb \in Reachable(succ) \ {Entry} /\ calls[Depth - 1].bb = IDom(succ, Top.bb)
    BY <2>2, <2>3, TreeSpec DEF TypeInv
  <2>5. TopsOf(h, Depth - 1)
    BY <1>1, <2>1
  <2> QED
    BY <1>5, <1>7, <2>2, <2>3, <2>4, <2>5 DEF TopsOf
<1> QED
  BY <1>6, <1>7

\* A step of re_name inside its block.
LEMMA TopsMove ==
    ASSUME TypeInv, TypeInv', CallsInv, CallsInv', BalanceInv', TopsInv, Next,
           UNCHANGED phis, pc # "abort", NEW f, Moves(f),
           \A x \in Var : \A k \in Nat \ {0} :
              k <= Len(var_val_stack[x]) /\ k <= Len(var_val_stack'[x]) =>
                  var_val_stack'[x][k] = var_val_stack[x][k],
           NEW b, b = f.bb, NEW i, i = f.next - 1,
           ASSUME f.step # "phis", NEW x \in Var
           PROVE  /\ var_val_stack'[x] = <<>> => NoValue(b, i, x)'
                  /\ var_val_stack'[x] # <<>> => Has(b, i, x, Latest(x))'
    PROVE  TopsInv'
<1> SUFFICES ASSUME pc' # "abort" PROVE TopsInv'
  BY DEF TopsInv
<1>1. /\ Depth \in Nat \ {0} /\ Depth' = Depth
      /\ \A n \in 1 .. Depth : calls'[n] = IF n = Depth THEN f ELSE calls[n]
  BY MovesSpec
<1> PICK m : m = Depth - 1
  OBVIOUS
<1>2. m \in Nat /\ m <= Depth /\ m <= Depth' /\ Depth = m + 1 /\ Depth' = m + 1
  BY <1>1
<1>3. \A n \in 1 .. m : calls'[n] = calls[n]
  BY <1>1, <1>2
<1>4. PICK g : /\ Heights(g)' /\ \A x \in Var : Len(var_val_stack'[x]) = g[Depth'][x]
               /\ \A n \in 1 .. m : TopsOf(g, n)'
  BY <1>2, <1>3, TopsKeep
<1>5. calls'[m + 1] = f
  BY <1>1, <1>2
<1>6. TopsOf(g, m + 1)'
  <2> SUFFICES ASSUME f.step # "phis", NEW x \in Var
               PROVE  /\ g[m + 1][x] = 0 => NoValue(b, i, x)'
                      /\ g[m + 1][x] > 0 => Has(b, i, x, var_val_stack[x][g[m + 1][x]])'
    BY <1>5 DEF TopsOf, TypeInv, TypeOK
  <2>1. var_val_stack'[x] \in Seq(Values)'
    BY DEF TypeInv, TypeOK
  <2>2. Len(var_val_stack'[x]) = g[m + 1][x]
    BY <1>2, <1>4
  <2>3. /\ g[m + 1][x] = 0 => var_val_stack'[x] = <<>>
        /\ g[m + 1][x] > 0 => /\ var_val_stack'[x] # <<>>
                              /\ Latest(x)' = var_val_stack'[x][g[m + 1][x]]
    BY <2>1, <2>2 DEF Latest
  <2>4. /\ var_val_stack'[x] = <<>> => NoValue(b, i, x)'
        /\ var_val_stack'[x] # <<>> => Has(b, i, x, Latest(x))'
    OBVIOUS
  <2> QED
    BY <2>3, <2>4 DEF Has, Current, Available, Settled
<1>7. \A n \in 1 .. Depth' : TopsOf(g, n)'
  <2> SUFFICES ASSUME NEW n \in 1 .. Depth' PROVE TopsOf(g, n)'
    OBVIOUS
  <2>1. n \in 1 .. m \/ n = m + 1
    BY <1>2
  <2> QED
    BY <1>4, <1>6, <2>1
<1> QED
  BY <1>4, <1>7 DEF TopsInv

\* One more value on a stack leaves those below it.
LEMMA Appended ==
    ASSUME NEW S, NEW s \in Seq(S), NEW v \in S
    PROVE  /\ Append(s, v) # <<>> /\ Append(s, v)[Len(Append(s, v))] = v
           /\ \A k \in Nat \ {0} : k <= Len(s) => Append(s, v)[k] = s[k]
<1> DEFINE t == Append(s, v)
<1>1. Len(t) = Len(s) + 1 /\ t[Len(s) + 1] = v /\ \A i \in 1 .. Len(s) : t[i] = s[i]
  BY SeqAdd
<1>2. Len(s) \in Nat
  OBVIOUS
<1>3. Len(<<>>) = 0
  OBVIOUS
<1> HIDE DEF t
<1>4. t # <<>>
  BY <1>1, <1>2, <1>3
<1>5. \A k \in Nat \ {0} : k <= Len(s) => k \in 1 .. Len(s)
  BY <1>2
<1> QED
  BY <1>1, <1>4, <1>5 DEF t

\* At the start of its block the value of a variable with a phi is the phi.
LEMMA PhiHas ==
    ASSUME Program, NEW b \in Block, NEW x, x \in phis[b]
    PROVE  Has(b, 0, x, PhiValue(b, x))
<1>1. Current(b, 0, x, PhiValue(b, x))
  BY CurrentAtPhi
<1>2. b \in Dom(succ, b)
  BY DomSelf DEF Program
<1>3. Available(b, 0, PhiValue(b, x)) /\ Settled(PhiValue(b, x))
  BY <1>2 DEF Available, Settled, PhiValue, OtherValue, LoadValue
<1> QED
  BY <1>1, <1>3 DEF Has

\* A child takes over what its parent has at its end.
LEMMA BelowHas ==
    ASSUME Program, NEW b \in Reachable(succ) \ {Entry}, NEW d, d = IDom(succ, b), NEW n,
           NEW x, Silent(b, n, x), NEW v, Has(d, AllOf(d), x, v)
    PROVE  Has(b, n, x, v)
<1>1. Current(b, n, x, v)
  BY CurrentBelow DEF Has
<1>2. d \in StrictDom(b)
  BY IDomSpec DEF Program, StrictDom
<1>3. Available(b, n, v)
  BY <1>2, AvailableBelow DEF Has
<1> QED
  BY <1>1, <1>3 DEF Has

\* An instruction that is no store to x hands on what x has.
LEMMA AlongHas ==
    ASSUME Program, NEW b, NEW k \in Nat \ {0}, NEW x,
           ~ (code[b][k].op = "store" /\ code[b][k].var = x), NEW v, Has(b, k - 1, x, v)
    PROVE  Has(b, k, x, v)
<1>1. Current(b, k, x, v)
  BY CurrentAlong DEF Has
<1>2. Available(b, k, v)
  <2>1. \A i \in Stores : i[2] \in Nat
    BY PlaceOf
  <2>2. \A i \in Stores : i[2] <= k - 1 => i[2] <= k
    BY <2>1
  <2> QED
    BY <2>2 DEF Has, Available
<1> QED
  BY <1>1, <1>2 DEF Has

\* The value a store writes comes before it, when the load that gave it is done.
LEMMA StoreAvailable ==
    ASSUME TypeInv, LoadsInv, StoresInv, pc # "abort", NEW j \in Stores,
           j[1] \in Reachable(succ),
           Instruction(j).src # 0 => ~ Ahead(<<j[1], Instruction(j).src>>)
    PROVE  Available(j[1], j[2], rval[j])
<1> DEFINE b == j[1]
           s == Instruction(j).src
<1>1. /\ j = <<b, j[2]>> /\ b \in Block /\ j[2] \in DOMAIN code[b]
      /\ code[b] \in Seq([op : {"load", "store"}, var : Var, src : Nat])
      /\ s # 0 => s \in 1 .. j[2] - 1 /\ code[b][s].op = "load"
  BY StoresSpec DEF TypeInv, Program, WellFormedCode, Instruction
<1>2. j[2] \in Nat
  BY <1>1
<1>3. CASE s = 0
  <2>1. rval[j] = OtherValue(j)
    BY <1>3 DEF StoresInv
  <2>2. b \in Dom(succ, b)
    BY <1>1, DomSelf DEF TypeInv, Program
  <2>3. \A i \in Stores : OtherValue(j) = OtherValue(i) => i[1] = b /\ i[2] = j[2]
    BY DEF OtherValue
  <2>4. \A a, y : OtherValue(j) # PhiValue(a, y)
    BY DEF OtherValue, PhiValue
  <2> QED
    BY <1>2, <2>1, <2>2, <2>3, <2>4 DEF Available
<1>4. CASE s # 0
  <2> DEFINE l == <<b, s>>
  <2>1. s \in DOMAIN code[b] /\ s \in Nat /\ s - 1 < j[2]
    BY <1>1, <1>2, <1>4
  <2>2. l \in Loads /\ l[1] = b /\ l[2] = s
    BY <1>1, <1>4, <2>1, LoadsSpec
  <2>3. rval[j] = read[l] /\ ~ Ahead(l)
    BY <1>4 DEF StoresInv
  <2> HIDE DEF l, s
  <2>4. \/ Available(b, s - 1, read[l])
        \/ read[l] = LoadValue(l)
    BY <2>2, <2>3 DEF LoadsInv, Has
  <2>5. CASE read[l] = LoadValue(l)
    BY <2>3, <2>5 DEF Available, LoadValue, OtherValue, PhiValue
  <2>6. CASE Available(b, s - 1, read[l])
    <3>1. \A i \in Stores : i[2] \in Nat
      BY PlaceOf DEF TypeInv
    <3>2. \A i \in Stores : i[2] <= s - 1 => i[2] <= j[2]
      BY <1>2, <2>1, <3>1
    <3> QED
      BY <2>3, <2>6, <3>2 DEF Available
  <2> QED
    BY <2>4, <2>5, <2>6
<1> QED
  BY <1>3, <1>4

LEMMA TopsPushPhis ==
    ASSUME TypeInv, TypeInv', CallsInv, CallsInv', BalanceInv', TopsInv, PushPhis
    PROVE  TopsInv'
<1>0. /\ Next /\ UNCHANGED <<progVars, phis>> /\ pc # "abort" /\ calls # <<>>
      /\ Top.step = "phis"
  BY DEF Next, Step, PushPhis
<1>1. PICK f : Moves(f) /\ f.step = "instrs" /\ f.next = 1
  BY PushPhisMoves
<1> PICK b, i : b = f.bb /\ i = f.next - 1
  OBVIOUS
<1>2. b = Top.bb /\ i = 0 /\ b \in Block /\ AllOf(b) \in Nat
  BY <1>0, <1>1, TopFits DEF Moves, AllOf
<1>3. /\ var_val_stack \in [Var -> Seq(Values)]
      /\ \A x \in Var : var_val_stack'[x] = IF x \in phis[b]
                                           THEN Append(var_val_stack[x], PhiValue(b, x))
                                           ELSE var_val_stack[x]
  BY <1>2 DEF PushPhis, TypeInv, TypeOK
<1>6. ASSUME NEW x \in phis[b]
      PROVE  LET s == var_val_stack[x]
                 t == var_val_stack'[x]
             IN  /\ t # <<>> /\ t[Len(t)] = PhiValue(b, x)
                 /\ \A k \in Nat \ {0} : k <= Len(s) => t[k] = s[k]
  <2> PICK s, v : s = var_val_stack[x] /\ v = PhiValue(b, x)
    OBVIOUS
  <2>1. x \in Var
    BY <1>2 DEF TypeInv, TypeOK
  <2>2. s \in Seq(Values) /\ v \in Values
    BY <1>2, <1>3, <2>1, ValuesType
  <2>3. /\ Append(s, v) # <<>> /\ Append(s, v)[Len(Append(s, v))] = v
        /\ \A k \in Nat \ {0} : k <= Len(s) => Append(s, v)[k] = s[k]
    BY ONLY <2>2, Appended
  <2>4. var_val_stack'[x] = Append(s, v)
    BY <1>3, <2>1
  <2> QED
    BY <2>3, <2>4
<1>4. ASSUME NEW x \in Var, NEW k \in Nat \ {0}, k <= Len(var_val_stack[x])
      PROVE  var_val_stack'[x][k] = var_val_stack[x][k]
  BY <1>3, <1>4, <1>6
<1>5. ASSUME NEW x \in Var
      PROVE  /\ var_val_stack'[x] = <<>> => NoValue(b, i, x)'
             /\ var_val_stack'[x] # <<>> => Has(b, i, x, Latest(x))'
  <2>1. CASE x \in phis[b]
    <3>1. var_val_stack'[x] # <<>> /\ Latest(x)' = PhiValue(b, x)
      BY <1>6, <2>1 DEF Latest
    <3> PICK v : v = PhiValue(b, x)
      OBVIOUS
    <3>2. Has(b, i, x, v)
      BY <1>2, <2>1, PhiHas DEF TypeInv
    <3>3. Has(b, i, x, v)'
      BY <1>0, <1>2, <3>2, HasStays
    <3> QED
      BY <3>1, <3>3
  <2>2. CASE x \notin phis[b]
    <3>1. Silent(b, i, x)
      BY <1>2, <2>2 DEF Silent, StoresTo
    <3>2. /\ var_val_stack[x] = <<>> => NoValue(b, i, x)
          /\ var_val_stack[x] # <<>> => Has(b, i, x, Latest(x))
      <4>1. CASE Depth = 1
        BY <1>0, <1>2, <3>1, <4>1, ParentHas, NoneAtEntry DEF TypeInv
      <4>2. CASE Depth # 1
        BY <1>0, <1>2, <3>1, <4>2, ParentHas, CurrentBelow, BelowHas DEF TypeInv
      <4> QED
        BY <4>1, <4>2
    <3> PICK v : v = Latest(x)
      OBVIOUS
    <3>3. var_val_stack'[x] = var_val_stack[x] /\ Latest(x)' = v
      BY <1>3, <2>2 DEF Latest
    <3>4. NoValue(b, i, x) => NoValue(b, i, x)'
      BY <1>0, SamePlaces
    <3>5. Has(b, i, x, v) => Has(b, i, x, v)'
      BY <1>0, <1>2, HasStays
    <3> QED
      BY <3>2, <3>3, <3>4, <3>5
  <2> QED
    BY <2>1, <2>2
<1> QED
  BY <1>0, <1>1, <1>4, <1>5, TopsMove

\* A step that leaves the stacks, and where the activation on top is.
LEMMA TopsSame ==
    ASSUME TypeInv, TypeInv', CallsInv, CallsInv', BalanceInv', TopsInv, Next,
           UNCHANGED <<progVars, phis, var_val_stack>>, pc # "abort", Top.step # "phis",
           NEW f, Moves(f),
           \/ f.next = Top.next
           \/ AtInstruction("load") /\ f.next = Top.next + 1
    PROVE  TopsInv'
<1>0. calls # <<>>
  BY DEF Moves
<1> PICK b, i, k : b = f.bb /\ i = f.next - 1 /\ k = Top.next
  OBVIOUS
<1>1. /\ b = Top.bb /\ b \in Block /\ i \in Nat /\ i <= AllOf(b) /\ k \in Nat \ {0}
      /\ \/ i = k - 1
         \/ i = k /\ code[b][k].op = "load"
  <2>1. f \in Call /\ CallFits(f) /\ b = Top.bb
    BY DEF Moves
  <2>2. f.next \in Nat \ {0} /\ f.next <= AllOf(b) + 1 /\ b \in Block
    BY <2>1, CallEdits DEF CallFits, AllOf
  <2>3. k \in Nat \ {0} /\ AllOf(b) \in Nat
    BY <1>0, <2>1, TopFits DEF AllOf
  <2>4. i \in Nat /\ i <= AllOf(b)
    BY <2>2, <2>3
  <2> QED
    BY <2>1, <2>2, <2>3, <2>4 DEF AtInstruction
<1>2. ASSUME NEW x \in Var
      PROVE  /\ var_val_stack'[x] = <<>> => NoValue(b, i, x)'
             /\ var_val_stack'[x] # <<>> => Has(b, i, x, Latest(x))'
  <2>1. /\ var_val_stack[x] = <<>> => NoValue(b, k - 1, x)
        /\ var_val_stack[x] # <<>> => Has(b, k - 1, x, Latest(x))
    BY <1>0, <1>1, TopHas
  <2>2. /\ NoValue(b, k - 1, x) => NoValue(b, i, x)
        /\ \A v : Has(b, k - 1, x, v) => Has(b, i, x, v)
    BY <1>1, CurrentAlong, AlongHas DEF TypeInv
  <2> PICK v : v = Latest(x)
    OBVIOUS
  <2>3. var_val_stack'[x] = var_val_stack[x] /\ Latest(x)' = v
    BY DEF Latest
  <2>4. NoValue(b, i, x) => NoValue(b, i, x)'
    BY SamePlaces
  <2>5. Has(b, i, x, v) => Has(b, i, x, v)'
    BY <1>1, HasStays
  <2> QED
    BY <2>1, <2>2, <2>3, <2>4, <2>5
<1> QED
  BY <1>2, TopsMove

LEMMA TopsRenameStore ==
    ASSUME TypeInv, TypeInv', CallsInv, CallsInv', FreshInv, BalanceInv', TopsInv, LoadsInv,
           StoresInv, RenameStore
    PROVE  TopsInv'
<1>0. /\ Next /\ UNCHANGED <<progVars, phis, rval>> /\ pc # "abort" /\ calls # <<>>
      /\ Top.step # "phis" /\ AtInstruction("store") /\ Advance
  BY DEF Next, Step, RenameStore, AtInstruction
<1>1. PICK f : Moves(f) /\ f.step = "instrs" /\ f.next = Top.next + 1
  BY <1>0, AdvanceMoves
<1> PICK b, i, k, y, j, w : /\ b = f.bb /\ i = f.next - 1 /\ k = Top.next
                            /\ y = code[Top.bb][Top.next].var /\ j = <<Top.bb, Top.next>>
                            /\ w = rval[j]
  OBVIOUS
<1>2. /\ b = Top.bb /\ b \in Block /\ b \in Reachable(succ) /\ k \in Nat \ {0} /\ i = k
      /\ AllOf(b) \in Nat /\ k <= AllOf(b) /\ code[b][k].op = "store" /\ code[b][k].var = y
      /\ j = <<b, k>> /\ j \in Stores /\ j[1] = b /\ j[2] = k
      /\ y \in Var /\ w \in Values
  <2>1. b = Top.bb /\ CallFits(Top) /\ b \in Block /\ k \in Nat \ {0} /\ AllOf(b) \in Nat
    BY <1>0, <1>1, TopFits DEF Moves, AllOf
  <2>2. j \in Stores /\ y \in Var
    BY <1>0, AtInstructionSpec
  <2>3. k <= AllOf(b) /\ code[b][k].op = "store"
    BY <1>0, <2>1 DEF AtInstruction, AllOf
  <2>4. w \in Values
    BY <2>2 DEF TypeInv, TypeOK
  <2>5. i = k
    BY <1>1, <2>1
  <2> QED
    BY <2>1, <2>2, <2>3, <2>4, <2>5 DEF CallFits
<1>3. /\ var_val_stack \in [Var -> Seq(Values)]
      /\ \A x \in Var : var_val_stack'[x] = IF x = y THEN Append(var_val_stack[x], w)
                                           ELSE var_val_stack[x]
  BY <1>2 DEF RenameStore, TypeInv, TypeOK
<1>4. LET s == var_val_stack[y]
          t == var_val_stack'[y]
      IN  /\ t # <<>> /\ t[Len(t)] = w
          /\ \A m \in Nat \ {0} : m <= Len(s) => t[m] = s[m]
  <2> PICK s : s = var_val_stack[y]
    OBVIOUS
  <2>1. s \in Seq(Values) /\ w \in Values
    BY <1>2, <1>3
  <2>2. /\ Append(s, w) # <<>> /\ Append(s, w)[Len(Append(s, w))] = w
        /\ \A m \in Nat \ {0} : m <= Len(s) => Append(s, w)[m] = s[m]
    BY ONLY <2>1, Appended
  <2>3. var_val_stack'[y] = Append(s, w)
    BY <1>2, <1>3
  <2> QED
    BY <2>2, <2>3
<1>5. ASSUME NEW x \in Var, NEW m \in Nat \ {0}, m <= Len(var_val_stack[x])
      PROVE  var_val_stack'[x][m] = var_val_stack[x][m]
  BY <1>3, <1>4, <1>5
<1>6. Has(b, k, y, w)
  <2>1. Current(b, k, y, w)
    BY <1>2, CurrentAtStore
  <2>2. Available(b, k, w)
    <3>1. ASSUME Instruction(j).src # 0 PROVE ~ Ahead(<<j[1], Instruction(j).src>>)
      <4>1. Instruction(j).src \in Nat /\ Instruction(j).src < k
        <5>1. k \in DOMAIN code[b] /\ Instruction(j) = code[b][k]
          BY <1>2, StoresSpec DEF Instruction
        <5>2. Instruction(j).src \in 1 .. k - 1
          BY <1>2, <3>1, <5>1 DEF TypeInv, Program, WellFormedCode
        <5> QED
          BY <1>2, <5>2
      <4> QED
        BY <1>0, <1>2, <4>1, BehindInBlock
    <3> QED
      BY <1>0, <1>2, <3>1, StoreAvailable
  <2>3. Settled(w)
    <3> SUFFICES ASSUME NEW l \in Loads, w = LoadValue(l), Ahead(l) PROVE FALSE
      BY DEF Settled
    <3>1. l[1] = b /\ l[2] < k
      BY <1>2 DEF FreshInv, StoresFresh
    <3>2. l = <<l[1], l[2]>> /\ l[2] \in Nat
      BY PlaceOf DEF TypeInv
    <3> QED
      BY <1>0, <1>2, <3>1, <3>2, BehindInBlock
  <2> QED
    BY <2>1, <2>2, <2>3 DEF Has
<1>7. ASSUME NEW x \in Var
      PROVE  /\ var_val_stack'[x] = <<>> => NoValue(b, i, x)'
             /\ var_val_stack'[x] # <<>> => Has(b, i, x, Latest(x))'
  <2>1. CASE x = y
    <3>1. var_val_stack'[x] # <<>> /\ Latest(x)' = w
      BY <1>4, <2>1 DEF Latest
    <3>2. Has(b, i, x, w)'
      BY <1>0, <1>2, <1>6, <2>1, HasStays
    <3> QED
      BY <3>1, <3>2
  <2>2. CASE x # y
    <3>1. /\ var_val_stack[x] = <<>> => NoValue(b, k - 1, x)
          /\ var_val_stack[x] # <<>> => Has(b, k - 1, x, Latest(x))
      BY <1>0, <1>2, TopHas
    <3>2. /\ NoValue(b, k - 1, x) => NoValue(b, k, x)
          /\ \A v : Has(b, k - 1, x, v) => Has(b, k, x, v)
      BY <1>2, <2>2, CurrentAlong, AlongHas DEF TypeInv
    <3> PICK v : v = Latest(x)
      OBVIOUS
    <3>3. var_val_stack'[x] = var_val_stack[x] /\ Latest(x)' = v
      BY <1>3, <2>2 DEF Latest
    <3>4. NoValue(b, k, x) => NoValue(b, k, x)'
      BY <1>0, SamePlaces
    <3>5. Has(b, k, x, v) => Has(b, k, x, v)'
      BY <1>0, <1>2, HasStays
    <3> QED
      BY <1>2, <3>1, <3>2, <3>3, <3>4, <3>5
  <2> QED
    BY <2>1, <2>2
<1> QED
  BY <1>0, <1>1, <1>5, <1>7, TopsMove

\* A step that takes the top activation away, or puts one there that has not
\* begun, and shortens the stacks at most.
LEMMA TopsBelow ==
    ASSUME TypeInv, TypeInv', CallsInv, CallsInv', BalanceInv', TopsInv, Next,
           UNCHANGED phis, pc # "abort", NEW m \in Nat, m <= Depth, m <= Depth',
           \A n \in 1 .. m : /\ calls'[n].bb = calls[n].bb /\ calls'[n].step = calls[n].step
                             /\ calls'[n].next = calls[n].next,
           \A n \in 1 .. Depth' : n \in 1 .. m \/ calls'[n].step = "phis",
           \A x \in Var : \A k \in Nat \ {0} :
              k <= Len(var_val_stack[x]) /\ k <= Len(var_val_stack'[x]) =>
                  var_val_stack'[x][k] = var_val_stack[x][k]
    PROVE  TopsInv'
<1> SUFFICES ASSUME pc' # "abort" PROVE TopsInv'
  BY DEF TopsInv
<1>1. PICK g : /\ Heights(g)' /\ \A x \in Var : Len(var_val_stack'[x]) = g[Depth'][x]
               /\ \A n \in 1 .. m : TopsOf(g, n)'
  BY TopsKeep
<1>2. \A n \in 1 .. Depth' : TopsOf(g, n)'
  <2> SUFFICES ASSUME NEW n \in 1 .. Depth' PROVE TopsOf(g, n)'
    OBVIOUS
  <2>1. CASE n \in 1 .. m
    BY <1>1, <2>1
  <2>2. CASE calls'[n].step = "phis"
    BY <2>2 DEF TopsOf
  <2> QED
    BY <2>1, <2>2
<1> QED
  BY <1>1, <1>2 DEF TopsInv

\* With no activation there is nothing to say.
LEMMA TopsNone ==
    ASSUME BalanceInv', calls' = <<>> PROVE TopsInv'
<1>1. Depth' = 0
  BY DEF Depth
<1> QED
  BY <1>1 DEF TopsInv, BalanceInv, Balanced

LEMMA TopsStep ==
    ASSUME TypeInv, TypeInv', CallsInv, CallsInv', FreshInv, BalanceInv, BalanceInv', TopsInv,
           LoadsInv, StoresInv, Next
    PROVE  TopsInv'
<1> SUFFICES ASSUME pc # "abort", pc' # "abort" PROVE TopsInv'
  BY DEF TopsInv, Next, Step, Finished, vars, PlaceVar, VisitBlock, EndVar, StartRename,
     PushPhis, RenameLoad, RenameStore, EndInstrs, FillPhis, Recurse, PopBlock, remove_alloca,
     AtInstruction
<1>0. UNCHANGED progVars /\ calls \in Seq(Call) /\ Depth \in Nat
  BY ProgramStays, CallsType DEF Next, TypeInv, Depth
<1>1. CASE Elsewhere
  <2>1. calls' = <<>>
    BY <1>1 DEF Elsewhere, PlaceVar, VisitBlock, EndVar, remove_alloca, Finished, vars, CallsInv
  <2> QED
    BY <2>1, TopsNone
<1>2. CASE StartRename
  <2>1. /\ Depth' = 1 /\ calls'[1] = Frame(Entry) /\ UNCHANGED <<phis, var_val_stack>>
    BY <1>2, StartRenameCalls DEF StartRename
  <2>2. \A n \in 1 .. Depth' : calls'[n].step = "phis"
    BY <2>1 DEF Frame
  <2> QED
    BY <1>0, <2>1, <2>2, 0 \in Nat, 1 .. 0 = {}, TopsBelow
<1>3. CASE PushPhis
  BY <1>3, TopsPushPhis
<1>4. CASE RenameLoad
  <2>1. /\ AtInstruction("load") /\ Advance /\ UNCHANGED <<phis, var_val_stack>>
        /\ Top.step # "phis"
    BY <1>4 DEF RenameLoad, AtInstruction
  <2> QED
    BY <1>0, <2>1, AdvanceMoves, TopsSame
<1>5. CASE RenameStore
  BY <1>5, TopsRenameStore
<1>6. CASE EndInstrs
  BY <1>0, <1>6, EndInstrsMoves, TopsSame DEF EndInstrs
<1>7. CASE FillPhis
  BY <1>0, <1>7, FillPhisMoves, TopsSame DEF FillPhis
<1>8. CASE \E c \in Block : Recurse(c)
  <2> PICK c \in Block : Recurse(c)
    BY <1>8
  <2>1. /\ Depth' = Depth + 1 /\ calls'[Depth + 1] = Frame(c)
        /\ \A n \in 1 .. Depth : /\ calls'[n].bb = calls[n].bb
                                 /\ calls'[n].step = calls[n].step
                                 /\ calls'[n].next = calls[n].next
    BY CallsRecurse
  <2>2. \A n \in 1 .. Depth' : n \in 1 .. Depth \/ calls'[n].step = "phis"
    BY <1>0, <2>1 DEF Frame
  <2>3. Depth <= Depth /\ Depth <= Depth'
    BY <1>0, <2>1
  <2>4. UNCHANGED <<phis, var_val_stack>>
    BY DEF Recurse
  <2> QED
    BY <1>0, <2>1, <2>2, <2>3, <2>4, TopsBelow
<1>9. CASE PopBlock
  <2>1. /\ Depth' = Depth - 1 /\ Depth \in Nat \ {0} /\ \A n \in 1 .. Depth - 1 : calls'[n] = calls[n]
    BY <1>9, CallsPop, TopSpec, CallsType DEF PopBlock, TypeInv
  <2>2. ASSUME NEW x \in Var, NEW k \in Nat \ {0}, k <= Len(var_val_stack'[x])
        PROVE  var_val_stack'[x][k] = var_val_stack[x][k]
    <3> DEFINE s == var_val_stack[x]
               p == Pushes(Top.bb, x)
    <3>1. s \in Seq(Values) /\ p \in Nat
      BY <1>9, TopFits, PushesSpec DEF TypeInv, TypeOK, PopBlock
    <3>2. var_val_stack'[x] = SubSeq(s, 1, Len(s) - p)
      BY <1>9 DEF PopBlock
    <3> HIDE DEF s, p
    <3>3. var_val_stack'[x][k] = s[k]
      BY <2>2, <3>1, <3>2
    <3> QED
      BY <3>3 DEF s
  <2> PICK m : m = Depth - 1
    OBVIOUS
  <2>3. m \in Nat /\ m <= Depth /\ m <= Depth' /\ Depth' = m
    BY <2>1
  <2>4. \A n \in 1 .. m : calls'[n] = calls[n]
    BY <2>1
  <2>5. UNCHANGED phis
    BY <1>9 DEF PopBlock
  <2> QED
    BY <2>2, <2>3, <2>4, <2>5, TopsBelow
<1> QED
  BY <1>1, <1>2, <1>3, <1>4, <1>5, <1>6, <1>7, <1>8, <1>9, NextCases DEF InBlock

LEMMA TopsInit == Init => TopsInv
<1> SUFFICES ASSUME Init PROVE TopsInv
  OBVIOUS
<1>1. BalanceInv /\ Depth = 0
  BY BalanceInit DEF Init, Depth
<1> QED
  BY <1>1 DEF TopsInv, BalanceInv, Balanced

-----------------------------------------------------------------------------
(* Loads and stores                                                        *)

\* The load whose result a store writes.
LEMMA SourceLoad ==
    ASSUME Program, NEW j \in Stores, Instruction(j).src # 0
    PROVE  <<j[1], Instruction(j).src>> \in Loads
<1>1. j[1] \in Block /\ j[2] \in DOMAIN code[j[1]] /\ Instruction(j) = code[j[1]][j[2]]
  BY StoresSpec DEF Instruction
<1> PICK s : s = Instruction(j).src
  OBVIOUS
<1>2. s \in 1 .. j[2] - 1 /\ code[j[1]][s].op = "load"
  <2>1. WellFormedCode(code)
    BY DEF Program
  <2> PICK b, k : b = j[1] /\ k = j[2]
    OBVIOUS
  <2>2. b \in Block /\ k \in DOMAIN code[b] /\ s = code[b][k].src /\ s # 0
    BY <1>1
  <2>3. s \in 1 .. k - 1 /\ code[b][s].op = "load"
    BY ONLY <2>1, <2>2 DEF WellFormedCode
  <2> QED
    BY <2>3
<1>3. s \in DOMAIN code[j[1]]
  <2>1. DOMAIN code[j[1]] = 1 .. Len(code[j[1]]) /\ Len(code[j[1]]) \in Nat
    BY <1>1, CodeTyped DEF Program
  <2> QED
    BY <1>1, <1>2, <2>1
<1> QED
  BY <1>1, <1>2, <1>3, LoadsSpec

LEMMA StoresInit == Init => StoresInv
<1> SUFFICES ASSUME Init, NEW j \in Stores
             PROVE  rval[j] = IF Instruction(j).src = 0 THEN OtherValue(j)
                              ELSE read[<<j[1], Instruction(j).src>>]
  BY DEF StoresInv
<1>1. Program /\ rval[j] = StoredValue(j) /\ read = [i \in Loads |-> LoadValue(i)]
  BY TypeInit DEF Init, TypeInv
<1> QED
  BY <1>1, SourceLoad DEF StoredValue

LEMMA StoresStep ==
    ASSUME TypeInv, CallsInv, StoresInv, Next PROVE StoresInv'
<1>0. Stores' = Stores /\ Loads' = Loads /\ code' = code
  BY ProgramStays, SameProgram DEF Next
<1>1. CASE UNCHANGED <<rval, read>>
  BY <1>0, <1>1 DEF StoresInv, Instruction, OtherValue
<1>2. ASSUME NEW i, NEW w, ReplaceAllUses(LoadValue(i), w) PROVE StoresInv'
  <2> SUFFICES ASSUME NEW j \in Stores
               PROVE  rval'[j] = IF Instruction(j).src = 0 THEN OtherValue(j)
                                 ELSE read'[<<j[1], Instruction(j).src>>]
    BY <1>0 DEF StoresInv, Instruction, OtherValue
  <2> PICK v, l : v = LoadValue(i) /\ l = <<j[1], Instruction(j).src>>
    OBVIOUS
  <2>1. DOMAIN rval = Stores /\ DOMAIN read = Loads
    BY DEF TypeInv, TypeOK
  <2>2. /\ rval'[j] = IF rval[j] = v THEN w ELSE rval[j]
        /\ l \in Loads => read'[l] = IF read[l] = v THEN w ELSE read[l]
    BY <1>2, <2>1 DEF ReplaceAllUses
  <2>3. rval[j] = IF Instruction(j).src = 0 THEN OtherValue(j) ELSE read[l]
    BY DEF StoresInv
  <2>4. Instruction(j).src # 0 => l \in Loads
    BY SourceLoad DEF TypeInv
  <2>5. OtherValue(j) # v
    BY ValuesDiffer
  <2> QED
    BY <2>2, <2>3, <2>4, <2>5
<1> QED
  BY <1>1, <1>2, ReplacedAhead

LEMMA LoadsInit == Init => LoadsInv
BY DEF Init, LoadsInv, Ahead

LEMMA LoadsStep ==
    ASSUME TypeInv, CallsInv, CallsInv', BalanceInv, TopsInv, LoadsInv, Next
    PROVE  LoadsInv'
<1>0. /\ UNCHANGED progVars /\ Loads' = Loads /\ code' = code /\ succ' = succ
      /\ DOMAIN read = Loads
  BY ProgramStays, SameProgram DEF Next, TypeInv, TypeOK, progVars
<1>1. ASSUME NEW i \in Loads, Ahead(i)' PROVE read'[i] = LoadValue(i)
  <2>1. Ahead(i) /\ read[i] = LoadValue(i)
    BY <1>1, AheadShrinks DEF LoadsInv
  <2>2. CASE UNCHANGED read
    BY <2>1, <2>2
  <2>3. CASE ~ UNCHANGED read
    <3> PICK j : j = <<Top.bb, Top.next>>
      OBVIOUS
    <3>1. RenameLoad /\ j \in Loads /\ AtInstruction("load")
      BY <2>3, ReplacedAhead DEF RenameLoad
    <3>2. Advance /\ UNCHANGED pc
      BY <2>3, <3>1 DEF RenameLoad
    <3>3. i # j
      BY <1>0, <1>1, <3>1, <3>2, AtHand
    <3>4. PICK w : ReplaceAllUses(LoadValue(j), w)
      BY <2>3, ReplacedAhead
    <3>5. LoadValue(i) # LoadValue(j)
      BY <3>1, <3>3, ValuesDiffer
    <3> QED
      BY <1>0, <2>1, <3>4, <3>5 DEF ReplaceAllUses
  <2> QED
    BY <2>2, <2>3
<1>2. ASSUME pc' # "abort", NEW i \in Loads, i[1] \in Reachable(succ), ~ Ahead(i)'
      PROVE  \/ Has(i[1], i[2] - 1, Instruction(i).var, read[i])'
             \/ NoValue(i[1], i[2] - 1, Instruction(i).var)' /\ read'[i] = LoadValue(i)
  <2> PICK b, n, x : b = i[1] /\ n = i[2] - 1 /\ x = Instruction(i).var
    OBVIOUS
  <2>0. /\ Instruction(i)' = Instruction(i) /\ b \in Block /\ n \in Nat /\ n <= AllOf(b)
        /\ pc # "abort" /\ UNCHANGED phis
    <3>1. Instruction(i)' = Instruction(i)
      BY <1>0 DEF Instruction
    <3>2. b \in Block /\ i[2] \in Nat \ {0} /\ i[2] <= AllOf(b) /\ AllOf(b) \in Nat
      BY PlaceOf DEF TypeInv, AllOf
    <3>3. n \in Nat /\ n <= AllOf(b)
      BY <3>2
    <3>4. pc # "abort"
      BY <1>2 DEF Next, Step, Finished, vars, PlaceVar, VisitBlock, EndVar, StartRename,
         PushPhis, RenameLoad, RenameStore, EndInstrs, FillPhis, Recurse, PopBlock,
         remove_alloca, AtInstruction
    <3>5. pc' \notin {"place", "visit"}
      BY <1>2 DEF Ahead
    <3>6. UNCHANGED phis
      BY <3>5 DEF Next, Step, Finished, vars, PlaceVar, VisitBlock, EndVar, StartRename,
         PushPhis, RenameLoad, RenameStore, EndInstrs, FillPhis, Recurse, PopBlock,
         remove_alloca, AtInstruction
    <3> QED
      BY <3>1, <3>2, <3>3, <3>4, <3>6
  <2> SUFFICES \/ \E v : Has(b, n, x, v)' /\ read'[i] = v
               \/ NoValue(b, n, x)' /\ read'[i] = LoadValue(i)
    BY <2>0 DEF Has, Current, Available, Settled, NoValue, Gives, Silent
  <2>1. CASE ~ Ahead(i)
    <3>1. CASE Has(b, n, x, read[i])
      <4> PICK v : v = read[i]
        OBVIOUS
      <4>1. Has(b, n, x, v)'
        BY <2>0, <3>1, HasStays
      <4>2. read'[i] = v
        BY <3>1, SettledStays DEF Has
      <4> QED
        BY <4>1, <4>2
    <3>2. CASE NoValue(b, n, x) /\ read[i] = LoadValue(i)
      <4>1. Settled(LoadValue(i))
        BY <2>1, ValuesDiffer DEF Settled
      <4>2. read'[i] = LoadValue(i)
        BY <3>2, <4>1, SettledStays
      <4>3. NoValue(b, n, x)'
        BY <1>0, <2>0, <3>2, SamePlaces
      <4> QED
        BY <4>2, <4>3
    <3> QED
      BY <1>2, <2>0, <2>1, <3>1, <3>2 DEF LoadsInv
  <2>2. CASE Ahead(i)
    <3>1. i = <<Top.bb, Top.next>> /\ (RenameLoad \/ RenameStore)
      BY <1>2, <2>2, AheadStays
    <3>2. RenameLoad /\ AtInstruction("load")
      <4>1. code[i[1]][i[2]].op = "load"
        BY LoadsSpec
      <4>2. ASSUME RenameStore PROVE FALSE
        BY <3>1, <4>1, <4>2 DEF RenameStore, AtInstruction
      <4> QED
        BY <3>1, <4>2 DEF RenameLoad
    <3>3. /\ b = Top.bb /\ n = Top.next - 1 /\ x = code[Top.bb][Top.next].var /\ x \in Var
          /\ calls # <<>> /\ Top.step # "phis"
      BY <3>1, <3>2, AtInstructionSpec DEF Instruction, AtInstruction
    <3>4. /\ var_val_stack[x] = <<>> => NoValue(b, n, x)
          /\ var_val_stack[x] # <<>> => Has(b, n, x, Latest(x))
      BY <2>0, <3>3, TopHas
    <3>5. read[i] = LoadValue(i)
      BY <2>2 DEF LoadsInv
    <3>6. CASE x \in keys /\ var_val_stack[x] # <<>> /\ ReplaceAllUses(LoadValue(i), Latest(x))
      <4> PICK v : v = Latest(x)
        OBVIOUS
      <4>1. Has(b, n, x, v)'
        BY <2>0, <3>4, <3>6, HasStays
      <4>2. read'[i] = v
        BY <1>0, <3>5, <3>6 DEF ReplaceAllUses
      <4> QED
        BY <4>1, <4>2
    <3>7. CASE x \notin keys /\ UNCHANGED read
      <4>1. var_val_stack[x] = <<>>
        BY <3>3, <3>7 DEF BalanceInv, KeysInv
      <4>2. NoValue(b, n, x)'
        BY <1>0, <2>0, <3>4, <4>1, SamePlaces
      <4> QED
        BY <3>5, <3>7, <4>2
    <3> QED
      BY <1>2, <3>1, <3>2, <3>3, <3>6, <3>7 DEF RenameLoad
  <2> QED
    BY <2>1, <2>2
<1> QED
  BY <1>0, <1>1, <1>2 DEF LoadsInv, LoadValue

-----------------------------------------------------------------------------
(* Placing the phis                                                        *)

LEMMA NotSilent ==
    ASSUME Program, NEW a \in Block, NEW x
    PROVE  Silent(a, AllOf(a), x)
              <=> x \notin phis[a] /\ \A k \in DOMAIN code[a] :
                                         ~ (code[a][k].op = "store" /\ code[a][k].var = x)
<1>1. DOMAIN code[a] = 1 .. AllOf(a)
  BY CodeTyped DEF Program, AllOf
<1> QED
  BY <1>1 DEF Silent, StoresTo

LEMMA PlacedInit == Init => PlacedInv
<1> SUFFICES ASSUME Init PROVE PlacedInv
  OBVIOUS
<1>1. Program /\ phis = [b \in Block |-> {}] /\ todo = {Instruction(i).var : i \in Stores}
  BY TypeInit DEF Init, TypeInv
<1>2. ASSUME NEW x \in Var \ todo, NEW a \in Block PROVE Silent(a, AllOf(a), x)
  <2>1. ASSUME NEW k \in DOMAIN code[a], code[a][k].op = "store", code[a][k].var = x
        PROVE  FALSE
    <3>1. <<a, k>> \in Stores /\ Instruction(<<a, k>>).var = x
      BY <2>1, StoresSpec DEF Instruction
    <3> QED
      BY <1>1, <3>1
  <2> QED
    BY <1>1, <2>1, NotSilent
<1> QED
  BY <1>1, <1>2 DEF Init, PlacedInv

LEMMA PlacedStart ==
    ASSUME TypeInv, PlacedInv, NEW x0 \in Var, PlaceVar(x0) PROVE PlacedInv'
<1>0. UNCHANGED <<progVars, phis>> /\ Program /\ DOMAIN phis = Block
  BY DEF PlaceVar, TypeInv, TypeOK
<1>1. /\ pc = "place" /\ pc' = "visit" /\ todo' = todo \ {x0} /\ cur' = x0 /\ x0 \in todo
      /\ work_list' = {i[1] : i \in {s \in Stores : Instruction(s).var = x0}}
  BY DEF PlaceVar
<1>2. ASSUME NEW y \in Var \ todo', NEW a \in Block, ~ Silent(a, AllOf(a), y)
      PROVE  \/ y = x0 /\ a \in work_list'
             \/ \A b \in DominanceFrontier(a) : y \in phis[b]
  <2>1. CASE y = x0
    <3>1. x0 \notin phis[a]
      BY <1>1 DEF PlacedInv
    <3>2. PICK k \in DOMAIN code[a] : code[a][k].op = "store" /\ code[a][k].var = x0
      BY <1>0, <1>2, <2>1, <3>1, NotSilent
    <3>3. <<a, k>> \in Stores /\ Instruction(<<a, k>>).var = x0
      BY <3>2, StoresSpec DEF Instruction
    <3> QED
      BY <1>1, <2>1, <3>3
  <2>2. CASE y # x0
    BY <1>1, <1>2, <2>2 DEF PlacedInv
  <2> QED
    BY <2>1, <2>2
<1>3. /\ \A a, n, x : Silent(a, n, x)' <=> Silent(a, n, x)
      /\ \A b : AllOf(b)' = AllOf(b) /\ DominanceFrontier(b)' = DominanceFrontier(b)
  BY <1>0, SamePlaces, SameProgram
<1> QED
  BY <1>0, <1>1, <1>2, <1>3 DEF PlacedInv

LEMMA PlacedVisit ==
    ASSUME TypeInv, PlacedInv, NEW b0 \in Block, VisitBlock(b0) PROVE PlacedInv'
<1> PICK new : new = {j \in DominanceFrontier(b0) : cur \notin phis[j]}
  OBVIOUS
<1>0. UNCHANGED progVars /\ Program /\ phis \in [Block -> SUBSET Var]
  BY DEF VisitBlock, TypeInv, TypeOK
<1>1. /\ pc = "visit" /\ UNCHANGED <<pc, todo, cur>> /\ b0 \in work_list
      /\ work_list' = (work_list \ {b0}) \cup new
      /\ phis' = [j \in Block |-> IF j \in new THEN phis[j] \cup {cur} ELSE phis[j]]
  BY DEF VisitBlock
<1>2. \A a \in Block : /\ phis'[a] = IF a \in new THEN phis[a] \cup {cur} ELSE phis[a]
                       /\ DominanceFrontier(a) \subseteq Block
  BY <1>0, <1>1, TreeSpec
<1>3. \A x \in todo : \A a \in Block : x \notin phis'[a]
  BY <1>1, <1>2 DEF PlacedInv
<1>4. ASSUME NEW y \in Var \ todo, NEW a \in Block,
             ~ (StoresTo(a, y, AllOf(a)) = {} /\ y \notin phis'[a])
      PROVE  \/ y = cur /\ a \in work_list'
             \/ \A b \in DominanceFrontier(a) : y \in phis'[b]
  <2>1. CASE ~ Silent(a, AllOf(a), y)
    <3>1. \/ y = cur /\ a \in work_list
          \/ \A b \in DominanceFrontier(a) : y \in phis[b]
      BY <2>1 DEF PlacedInv
    <3>2. CASE y = cur /\ a = b0
      BY <1>2, <3>2
    <3> QED
      BY <1>1, <1>2, <3>1, <3>2
  <2>2. CASE Silent(a, AllOf(a), y)
    BY <1>1, <1>2, <1>4, <2>2 DEF Silent
  <2> QED
    BY <2>1, <2>2
<1>5. /\ \A a, n, x : StoresTo(a, x, n)' = StoresTo(a, x, n)
      /\ \A b : AllOf(b)' = AllOf(b) /\ DominanceFrontier(b)' = DominanceFrontier(b)
  BY <1>0, SameProgram DEF StoresTo, AllOf, progVars
<1>6. \A a, y : Silent(a, AllOf(a), y)' <=> StoresTo(a, y, AllOf(a)) = {} /\ y \notin phis'[a]
  BY <1>5 DEF Silent
<1> QED
  BY <1>1, <1>3, <1>4, <1>5, <1>6 DEF PlacedInv

LEMMA PlacedStep ==
    ASSUME TypeInv, PlacedInv, Next PROVE PlacedInv'
<1>0. UNCHANGED progVars
  BY ProgramStays DEF Next
<1>1. CASE (\E x \in Var : PlaceVar(x)) \/ (\E b \in Block : VisitBlock(b))
  BY <1>1, PlacedStart, PlacedVisit
<1>2. CASE ~ ((\E x \in Var : PlaceVar(x)) \/ (\E b \in Block : VisitBlock(b)))
  <2>1. /\ UNCHANGED <<phis, todo, cur, work_list>> /\ pc' # "visit"
        /\ pc = "visit" => work_list = {}
        /\ pc' # "place" => todo = {}
    BY <1>2 DEF Next, Step, Finished, vars, EndVar, StartRename,
       PushPhis, RenameLoad, RenameStore, EndInstrs, FillPhis, Recurse, PopBlock,
       remove_alloca, AtInstruction, PlacedInv
  <2>2. /\ \A a, n, x : Silent(a, n, x)' <=> Silent(a, n, x)
        /\ \A b : AllOf(b)' = AllOf(b) /\ DominanceFrontier(b)' = DominanceFrontier(b)
    BY <1>0, <2>1, SamePlaces, SameProgram
  <2> QED
    BY <2>1, <2>2 DEF PlacedInv
<1> QED
  BY <1>1, <1>2

-----------------------------------------------------------------------------
(* The operands of the phis                                                *)

LEMMA AtEndStays ==
    ASSUME TypeInv, CallsInv, Next, UNCHANGED phis, NEW b \in Block, NEW x
    PROVE  /\ \A v : Has(b, AllOf(b), x, v) => Has(b, AllOf(b), x, v)'
           /\ NoValue(b, AllOf(b), x) => NoValue(b, AllOf(b), x)'
<1> PICK n : n = AllOf(b)
  OBVIOUS
<1>1. UNCHANGED <<progVars, phis>> /\ n \in Nat /\ n <= n
  BY ProgramStays, CodeTyped DEF Next, AllOf, TypeInv, Program
<1>2. AllOf(b)' = n
  BY <1>1, SamePlaces
<1>3. ASSUME NEW v, Has(b, n, x, v) PROVE Has(b, AllOf(b), x, v)'
  <2>1. Has(b, n, x, v)'
    BY <1>1, <1>3, HasStays
  <2> QED
    BY <1>2, <2>1 DEF Has, Current, Available, Gives, Silent
<1>4. ASSUME NoValue(b, n, x) PROVE NoValue(b, AllOf(b), x)'
  <2>1. NoValue(b, n, x)'
    BY <1>1, <1>4, SamePlaces
  <2> QED
    BY <1>2, <2>1 DEF NoValue, Silent
<1> QED
  BY <1>3, <1>4

LEMMA OperandsInit == Init => OperandsInv
BY DEF Init, OperandsInv

\* As long as re_name has not begun there are no operands.
LEMMA NoOperands ==
    ASSUME TypeInv, PhiInv, pc \in {"place", "visit"}
    PROVE  \A f \in Block \X Var : phi_ops[f] = {}
BY DEF PhiInv, GivenByFilled, Filled

LEMMA OperandsNone ==
    ASSUME TypeInv, TypeInv', PhiInv, UNCHANGED phi_ops, pc \in {"place", "visit"},
           \A p : ~ Filled(p)'
    PROVE  OperandsInv'
<1>1. \A b \in Block : phis'[b] \subseteq Var
  BY DEF TypeInv, TypeOK
<1> QED
  BY <1>1, NoOperands DEF OperandsInv

LEMMA OperandsKept ==
    ASSUME TypeInv, CallsInv, OperandsInv, Next, pc # "abort", UNCHANGED phis,
           \A b \in Block : \A x \in phis[b] : phi_ops'[<<b, x>>] = phi_ops[<<b, x>>],
           \A p : Filled(p)' <=> Filled(p)
    PROVE  OperandsInv'
<1>1. succ' = succ /\ Program
  BY ProgramStays DEF Next, progVars, TypeInv
<1>2. \A b \in Block : \A x \in phis[b] : \A o \in phi_ops[<<b, x>>] : o[2] \in Block
  BY DEF TypeInv, TypeOK
<1>3. \A b \in Block : Pre(succ, b) \subseteq Block
  BY DEF Pre
<1>4. ASSUME NEW b \in Block, NEW x \in phis[b], NEW o \in phi_ops[<<b, x>>]
      PROVE  Has(o[2], AllOf(o[2]), x, o[1])'
  BY <1>2, AtEndStays DEF OperandsInv
<1>5. ASSUME NEW b \in Block, NEW x \in phis[b], NEW p \in Pre(succ, b), Filled(p)
      PROVE  (\E o \in phi_ops[<<b, x>>] : o[2] = p) \/ NoValue(p, AllOf(p), x)'
  BY <1>3, <1>5, AtEndStays DEF OperandsInv
<1> QED
  BY <1>1, <1>4, <1>5 DEF OperandsInv

\* The uses that are replaced in the phis are not of a value they hold.
LEMMA OperandsReplace ==
    ASSUME TypeInv, CallsInv, OperandsInv, RenameLoad, pc' # "abort"
    PROVE  OperandsInv'
<1>0. Next /\ pc # "abort" /\ UNCHANGED phis
  BY DEF Next, Step, RenameLoad, AtInstruction
<1>1. \A p : Filled(p)' <=> Filled(p)
  <2>1. ~ FillPhis
    BY DEF FillPhis, RenameLoad, AtInstruction
  <2> QED
    BY <1>0, <2>1, FilledSame
<1>2. CASE UNCHANGED phi_ops
  BY <1>0, <1>1, <1>2, OperandsKept
<1>3. ASSUME NEW i \in Loads, Ahead(i), NEW w, ReplaceAllUses(LoadValue(i), w)
      PROVE  OperandsInv'
  <2>1. ASSUME NEW b \in Block, NEW x \in phis[b]
        PROVE  phi_ops'[<<b, x>>] = phi_ops[<<b, x>>]
    <3> PICK f, v : f = <<b, x>> /\ v = LoadValue(i)
      OBVIOUS
    <3>1. /\ f \in DOMAIN phi_ops
          /\ \A o \in phi_ops[f] : o = <<o[1], o[2]>>
      BY DEF TypeInv, TypeOK
    <3>2. phi_ops'[f] = {<<IF o[1] = v THEN w ELSE o[1], o[2]>> : o \in phi_ops[f]}
      BY <1>3, <3>1 DEF ReplaceAllUses
    <3>3. \A o \in phi_ops[f] : o[1] # v
      BY <1>0, <1>3 DEF OperandsInv, Has, Settled
    <3>4. \A o \in phi_ops[f] : <<IF o[1] = v THEN w ELSE o[1], o[2]>> = o
      BY <3>1, <3>3
    <3> QED
      BY <3>2, <3>4
  <2> QED
    BY <1>0, <1>1, <2>1, OperandsKept
<1>4. CASE ~ UNCHANGED phi_ops
  <2>1. AtInstruction("load") /\ ReplaceAllUses(LoadValue(<<Top.bb, Top.next>>),
                                                Latest(code[Top.bb][Top.next].var))
    BY <1>4 DEF RenameLoad
  <2>2. <<Top.bb, Top.next>> \in Loads /\ Ahead(<<Top.bb, Top.next>>)
    BY <2>1, AtHand, AtInstructionSpec
  <2> QED
    BY <1>3, <2>1, <2>2
<1> QED
  BY <1>2, <1>4

LEMMA OperandsFill ==
    ASSUME TypeInv, CallsInv, BalanceInv, TopsInv, OperandsInv, FillPhis, pc' # "abort"
    PROVE  OperandsInv'
<1>0. /\ Next /\ pc # "abort" /\ UNCHANGED phis /\ succ' = succ /\ Program
      /\ calls # <<>> /\ Top.step = "succs"
  BY DEF Next, Step, FillPhis, progVars, TypeInv
<1> PICK t : t = Top.bb
  OBVIOUS
<1>1. t \in Block /\ Top.next - 1 = AllOf(t)
  <2>1. CallFits(Top) /\ t \in Block /\ Len(code[t]) \in Nat
    BY <1>0, TopFits
  <2> QED
    BY <1>0, <2>1 DEF CallFits, AllOf
<1>2. /\ \A f \in PhisToFill(t) : var_val_stack[f[2]] # <<>>
      /\ \A f \in Block \X Var :
            phi_ops'[f] = IF f \in PhisToFill(t)
                          THEN phi_ops[f] \cup {<<Latest(f[2]), t>>} ELSE phi_ops[f]
  BY DEF FillPhis, TypeInv, TypeOK
<1>3. \A b \in Block : \A x \in phis[b] : x \in Var /\ <<b, x>> \in Block \X Var
  BY DEF TypeInv, TypeOK
<1>4. ASSUME NEW x \in Var
      PROVE  /\ var_val_stack[x] = <<>> => NoValue(t, AllOf(t), x)
             /\ var_val_stack[x] # <<>> => Has(t, AllOf(t), x, Latest(x))
  BY <1>0, <1>1, TopHas
<1>5. ASSUME NEW b \in Block, NEW x \in phis[b], NEW o \in phi_ops'[<<b, x>>]
      PROVE  Has(o[2], AllOf(o[2]), x, o[1])'
  <2>1. CASE o \in phi_ops[<<b, x>>]
    <3>1. o[2] \in Block
      BY <1>3, <2>1 DEF TypeInv, TypeOK
    <3> QED
      BY <1>0, <2>1, <3>1, AtEndStays DEF OperandsInv
  <2>2. CASE <<b, x>> \in PhisToFill(t) /\ o = <<Latest(x), t>>
    <3>1. o[1] = Latest(x) /\ o[2] = t /\ var_val_stack[x] # <<>>
      BY <1>2, <2>2
    <3> PICK v : v = o[1]
      OBVIOUS
    <3>2. Has(t, AllOf(t), x, v)
      BY <1>3, <1>4, <3>1
    <3>3. Has(t, AllOf(t), x, v)'
      BY <1>0, <1>1, <3>2, AtEndStays
    <3> QED
      BY <3>1, <3>3
  <2>3. <<b, x>>[2] = x
    OBVIOUS
  <2> QED
    BY <1>2, <1>3, <2>1, <2>2, <2>3
<1>6. ASSUME NEW b \in Block, NEW x \in phis[b], NEW p \in Pre(succ, b), Filled(p)'
      PROVE  (\E o \in phi_ops'[<<b, x>>] : o[2] = p) \/ NoValue(p, AllOf(p), x)'
  <2>1. p \in Block /\ b \in Succ(succ, p)
    BY DEF Pre
  <2>2. CASE Filled(p)
    <3>1. phi_ops[<<b, x>>] \subseteq phi_ops'[<<b, x>>]
      BY <1>2, <1>3
    <3>2. \/ \E o \in phi_ops[<<b, x>>] : o[2] = p
          \/ NoValue(p, AllOf(p), x)
      BY <1>0, <2>2 DEF OperandsInv
    <3> QED
      BY <1>0, <2>1, <3>1, <3>2, AtEndStays
  <2>3. CASE p = t
    <3>1. CASE x \in keys
      <4>1. <<b, x>> \in PhisToFill(t)
        BY <1>3, <2>1, <2>3, <3>1 DEF PhisToFill
      <4>2. <<Latest(x), t>> \in phi_ops'[<<b, x>>]
        BY <1>2, <1>3, <4>1
      <4> QED
        BY <2>3, <4>2
    <3>2. CASE x \notin keys
      <4>1. var_val_stack[x] = <<>>
        BY <1>3, <3>2 DEF BalanceInv, KeysInv
      <4> QED
        BY <1>0, <1>1, <1>3, <1>4, <2>3, <4>1, AtEndStays
    <3> QED
      BY <3>1, <3>2
  <2> QED
    BY <1>6, <2>2, <2>3, FilledFill
<1> QED
  BY <1>0, <1>5, <1>6 DEF OperandsInv

LEMMA OperandsStep ==
    ASSUME TypeInv, TypeInv', CallsInv, BalanceInv, PhiInv, TopsInv, OperandsInv, Next
    PROVE  OperandsInv'
<1> SUFFICES ASSUME pc' # "abort" PROVE OperandsInv'
  BY DEF OperandsInv
<1>1. CASE pc' \in {"place", "visit"}
  <2>1. pc \in {"place", "visit"} /\ UNCHANGED phi_ops
    BY <1>1 DEF Next, Step, Finished, vars, PlaceVar, VisitBlock, EndVar, StartRename, PushPhis,
       RenameLoad, RenameStore, EndInstrs, FillPhis, Recurse, PopBlock, remove_alloca,
       AtInstruction
  <2>2. \A p : ~ Filled(p)'
    BY <1>1 DEF Filled
  <2> QED
    BY <2>1, <2>2, OperandsNone
<1>2. CASE StartRename
  BY <1>2, FilledStart, OperandsNone DEF StartRename
<1>3. CASE RenameLoad
  BY <1>3, OperandsReplace
<1>4. CASE FillPhis
  BY <1>4, OperandsFill
<1>5. CASE pc' \notin {"place", "visit"} /\ ~ StartRename /\ ~ RenameLoad /\ ~ FillPhis
  <2>1. UNCHANGED <<phis, phi_ops>> /\ pc # "abort"
    BY <1>5 DEF Next, Step, Finished, vars, PlaceVar, VisitBlock, EndVar, PushPhis,
       RenameStore, EndInstrs, Recurse, PopBlock, remove_alloca, AtInstruction
  <2>2. \A p : Filled(p)' <=> Filled(p)
    BY <1>5, FilledSame
  <2> QED
    BY <2>1, <2>2, OperandsKept
<1> QED
  BY <1>1, <1>2, <1>3, <1>4, <1>5

-----------------------------------------------------------------------------
(* When the pass has returned                                              *)

MeaningInv == PlacedInv /\ TopsInv /\ LoadsInv /\ StoresInv /\ OperandsInv

\* When the pass has returned nothing is ahead.
LEMMA AllDone ==
    ASSUME TypeInv, CallsInv, pc = "done"
    PROVE  /\ \A i : ~ Ahead(i)
           /\ \A p \in Reachable(succ) : Filled(p)
<1>1. Depth = 0
  BY DEF CallsInv, Depth
<1> QED
  BY <1>1 DEF Ahead, Pending, Filled

\* What a block gives a variable comes before its end.
LEMMA GivesAvailable ==
    ASSUME TypeInv, CallsInv, MeaningInv, pc = "done", NEW a \in Reachable(succ), NEW n \in Nat,
           n <= AllOf(a), NEW x, NEW v, Gives(a, n, x, v)
    PROVE  Available(a, n, v)
<1>1. a \in Block /\ Program /\ a \in Dom(succ, a)
  BY ReachableType, DomSelf DEF TypeInv, Program
<1>2. CASE v = PhiValue(a, x)
  BY <1>1, <1>2 DEF Available, PhiValue, OtherValue
<1>3. ASSUME NEW k \in StoresTo(a, x, n), <<a, k>> \in Stores, v = rval[<<a, k>>], k <= n
      PROVE  Available(a, n, v)
  <2> PICK j : j = <<a, k>>
    OBVIOUS
  <2>1. j[1] = a /\ j[2] = k /\ j \in Stores /\ k \in Nat
    BY <1>3 DEF StoresTo
  <2>2. ~ Ahead(<<j[1], Instruction(j).src>>)
    BY AllDone
  <2>3. Available(a, k, v)
    BY <1>3, <2>1, <2>2, StoreAvailable DEF MeaningInv
  <2>4. \A i \in Stores : i[2] <= k => i[2] <= n
    <3>1. \A i \in Stores : i[2] \in Nat
      BY PlaceOf DEF TypeInv
    <3> QED
      BY <1>3, <2>1, <3>1
  <2> QED
    BY <2>3, <2>4 DEF Available
<1> QED
  BY <1>1, <1>2, <1>3, GivesStore

\* And so does what the nearest dominator gives it: it is a strict dominator's
\* unless the block itself has something for the variable.
LEMMA CurrentAvailable ==
    ASSUME TypeInv, CallsInv, MeaningInv, pc = "done", NEW b \in Reachable(succ), NEW n \in Nat,
           n <= AllOf(b), NEW x, NEW v, Current(b, n, x, v)
    PROVE  /\ Available(b, n, v)
           /\ Silent(b, n, x) => \A y \in Var : v # PhiValue(b, y)
<1>0. Program /\ WellFormedCFG(succ) /\ Reachable(succ) \subseteq Block
  BY ReachableType DEF TypeInv, Program
<1>1. CASE Gives(b, n, x, v)
  <2>1. ~ Silent(b, n, x)
    BY <1>1 DEF Silent, Gives
  <2> QED
    BY <1>1, <2>1, GivesAvailable
<1>2. CASE ~ Gives(b, n, x, v)
  <2>1. PICK a \in StrictDom(b) : Gives(a, AllOf(a), x, v)
    BY <1>2 DEF Current
  <2>2. a \in Reachable(succ) /\ a \in Dom(succ, b) /\ a # b
    BY <1>0, <2>1, DomReachable DEF StrictDom
  <2>3. AllOf(a) \in Nat /\ AllOf(a) <= AllOf(a)
    BY <1>0, <2>2, CodeTyped DEF AllOf, Program
  <2>4. Available(a, AllOf(a), v)
    BY <2>1, <2>2, <2>3, GivesAvailable
  <2>5. Available(b, n, v)
    BY <1>0, <2>1, <2>4, AvailableBelow
  <2>6. ASSUME NEW y \in Var, v = PhiValue(b, y) PROVE FALSE
    <3>1. b \in Dom(succ, a)
      BY <1>0, <2>4, <2>6 DEF Available
    <3> QED
      BY <1>0, <2>2, <3>1, DomAntisymmetric
  <2> QED
    BY <2>5, <2>6
<1> QED
  BY <1>1, <1>2

\* Where dominance ends there is a phi: without one a block hands on what each
\* of its predecessors has.
LEMMA CurrentFromPred ==
    ASSUME TypeInv, CallsInv, MeaningInv, pc = "done", NEW b \in Reachable(succ),
           NEW p \in Pre(succ, b), NEW x \in Var, x \notin phis[b]
    PROVE  /\ \A v : Current(b, 0, x, v) => Current(p, AllOf(p), x, v)
           /\ NoValue(b, 0, x) => NoValue(p, AllOf(p), x)
<1>0. /\ Program /\ WellFormedCFG(succ) /\ p \in Reachable(succ) /\ p \in Block
      /\ Dom(succ, p) \subseteq Reachable(succ) /\ Reachable(succ) \subseteq Block
      /\ StrictDom(b) \subseteq Dom(succ, p) /\ p \in Dom(succ, p)
  BY ReachableType, DomReachable, DomPred, DomSelf DEF TypeInv, Program, Trimmed, StrictDom
<1>1. ASSUME NEW q \in Dom(succ, p) \ StrictDom(b) PROVE Silent(q, AllOf(q), x)
  <2>1. q \in Reachable(succ) /\ q \in Block
    BY <1>0
  <2>2. b \in Frontier(succ, q)
    BY <1>0 DEF Frontier, StrictDom
  <2>3. b \in DominanceFrontier(q)
    BY <1>0, <2>1, <2>2 DEF Program, DominanceFrontier, DominatorsOf
  <2> QED
    BY <2>1, <2>3 DEF MeaningInv, PlacedInv
<1>2. ~ \E v : Gives(b, 0, x, v)
  BY DEF Gives, StoresTo
<1>3. ASSUME NEW v, Current(b, 0, x, v) PROVE Current(p, AllOf(p), x, v)
  <2>1. PICK a \in StrictDom(b) :
           /\ Gives(a, AllOf(a), x, v)
           /\ \A q \in StrictDom(b) : a \in StrictDom(q) => Silent(q, AllOf(q), x)
    BY <1>2, <1>3 DEF Current
  <2>2. CASE a = p
    BY <2>1, <2>2 DEF Current
  <2>3. CASE a # p
    <3>1. a \in StrictDom(p)
      BY <1>0, <2>3 DEF StrictDom
    <3>2. Silent(p, AllOf(p), x)
      BY <1>0, <1>1, <2>1, <3>1
    <3>3. ASSUME NEW q \in StrictDom(p), a \in StrictDom(q) PROVE Silent(q, AllOf(q), x)
      BY <1>1, <2>1, <3>3 DEF StrictDom
    <3> QED
      BY <2>1, <3>1, <3>2, <3>3 DEF Current
  <2> QED
    BY <2>2, <2>3
<1>4. ASSUME NoValue(b, 0, x) PROVE NoValue(p, AllOf(p), x)
  <2>1. \A q \in Dom(succ, p) : Silent(q, AllOf(q), x)
    BY <1>1, <1>4 DEF NoValue
  <2> QED
    BY <1>0, <2>1 DEF NoValue, StrictDom
<1> QED
  BY <1>3, <1>4

LEMMA MeaningStutter == ASSUME MeaningInv, UNCHANGED vars PROVE MeaningInv'
<1>1. /\ Loads' = Loads /\ Stores' = Stores /\ Depth' = Depth
      /\ UNCHANGED <<succ, code, rval, read, pc, todo, cur, work_list, phis, phi_ops,
                     var_val_stack, calls>>
      /\ \A b : DominanceFrontier(b)' = DominanceFrontier(b)
  BY SameProgram DEF vars, progVars, Depth
<1>2. /\ \A a, n, x : Silent(a, n, x)' <=> Silent(a, n, x)
      /\ \A b, n, x : NoValue(b, n, x)' <=> NoValue(b, n, x)
      /\ \A b, n, v : Available(b, n, v)' <=> Available(b, n, v)
      /\ \A b : StrictDom(b)' = StrictDom(b) /\ AllOf(b)' = AllOf(b)
      /\ \A a, n, x : StoresTo(a, x, n)' = StoresTo(a, x, n)
  BY SamePlaces DEF vars
<1>3. \A a, n, x, v : Gives(a, n, x, v)' <=> Gives(a, n, x, v)
  <2> TAKE a, n, x, v
  <2>1. StoresTo(a, x, n)' = StoresTo(a, x, n) /\ rval' = rval /\ phis' = phis
    BY <1>1, <1>2
  <2> QED
    BY ONLY <2>1 DEF Gives, PhiValue
<1>4. \A b, n, x, v : Current(b, n, x, v)' <=> Current(b, n, x, v)
  BY <1>2, <1>3 DEF Current
<1>5. (\A i : Ahead(i)' <=> Ahead(i)) /\ (\A p : Filled(p)' <=> Filled(p))
  BY <1>1 DEF Ahead, Filled, Pending
<1>6. \A v : Settled(v)' <=> Settled(v)
  BY <1>1, <1>5 DEF Settled, LoadValue
<1>7. \A b, n, x, v : Has(b, n, x, v)' <=> Has(b, n, x, v)
  BY <1>2, <1>4, <1>6 DEF Has
<1>8. PlacedInv'
  BY <1>1, <1>2 DEF MeaningInv, PlacedInv
<1>9. TopsInv'
  <2>1. \A h : Heights(h)' <=> Heights(h)
    <3>1. \A f, x : PushedSoFar(f, x)' = PushedSoFar(f, x)
      BY <1>1 DEF PushedSoFar
    <3> QED
      BY <1>1, <3>1 DEF Heights
  <2>2. \A h, n : TopsOf(h, n)' <=> TopsOf(h, n)
    BY <1>1, <1>2, <1>7 DEF TopsOf
  <2> QED
    BY <1>1, <2>1, <2>2 DEF MeaningInv, TopsInv
<1>10. LoadsInv'
  BY <1>1, <1>2, <1>5, <1>7 DEF MeaningInv, LoadsInv, Instruction, LoadValue
<1>11. StoresInv'
  BY <1>1 DEF MeaningInv, StoresInv, Instruction, OtherValue
<1>12. OperandsInv'
  BY <1>1, <1>2, <1>5, <1>7 DEF MeaningInv, OperandsInv
<1> QED
  BY <1>8, <1>9, <1>10, <1>11, <1>12 DEF MeaningInv

-----------------------------------------------------------------------------
(* The function after the pass and before it, side by side                 *)

Contents == {Undef} \cup (Stores \X Nat)
RunState == [mem : [Var -> Contents], env : [Values -> Contents],
             loaded : [Loads -> Contents], ok : BOOLEAN]

\* After the first n instructions of b every variable holds what its value at
\* that place is, and so did every load of b that was passed.
Agrees(r, b, n) ==
    /\ r.ok
    /\ \A x \in Var : /\ \A v : Current(b, n, x, v) => ValueIn(r.env, v) = r.mem[x]
                      /\ NoValue(b, n, x) => r.mem[x] = Undef
    /\ \A k \in 1 .. n : <<b, k>> \in Loads =>
          ValueIn(r.env, read[<<b, k>>]) = r.loaded[<<b, k>>]

\* The fields of a state of the two runs.
LEMMA RunFields ==
    ASSUME NEW r \in RunState
    PROVE  /\ r.mem \in [Var -> Contents] /\ r.env \in [Values -> Contents]
           /\ r.loaded \in [Loads -> Contents] /\ r.ok \in BOOLEAN
BY DEF RunState

LEMMA ValueInType ==
    ASSUME NEW env \in [Values -> Contents], NEW v \in Values
    PROVE  ValueIn(env, v) \in Contents
BY DEF ValueIn, Contents

\* Entering a block gives its phis their values and changes nothing else.
LEMMA EnterSpec ==
    ASSUME TypeInv, NEW r \in RunState, NEW from, NEW b \in Block
    PROVE  /\ EnterBlock(r, from, b) \in RunState
           /\ EnterBlock(r, from, b).mem = r.mem
           /\ EnterBlock(r, from, b).loaded = r.loaded
           /\ EnterBlock(r, from, b).ok = r.ok
           /\ \A v \in Values :
                 ~ (\E x \in phis[b] : v = PhiValue(b, x)) =>
                     EnterBlock(r, from, b).env[v] = r.env[v]
           /\ \A x \in phis[b] :
                 LET ops == {o \in phi_ops[<<b, x>>] : o[2] = from}
                 IN  \/ ops = {} /\ EnterBlock(r, from, b).env[PhiValue(b, x)] = Undef
                     \/ \E o \in ops : /\ o[1] \in Values
                                       /\ EnterBlock(r, from, b).env[PhiValue(b, x)]
                                             = ValueIn(r.env, o[1])
<1> DEFINE at(v) == LET ops == {o \in phi_ops[<<b, v[3]>>] : o[2] = from}
                    IN  IF ops = {} THEN Undef
                        ELSE ValueIn(r.env, (CHOOSE o \in ops : TRUE)[1])
           e == [v \in Values |-> IF v[1] = "phi" /\ v[2] = b /\ v[3] \in phis[b]
                                  THEN at(v) ELSE r.env[v]]
<1>1. EnterBlock(r, from, b) = [r EXCEPT !.env = e]
  BY DEF EnterBlock
<1>2. \A x \in phis[b] : /\ PhiValue(b, x) \in Values
                         /\ \A o \in phi_ops[<<b, x>>] : o[1] \in Values
  BY ValuesType DEF TypeInv, TypeOK
<1>3. ASSUME NEW x \in phis[b]
      PROVE  LET ops == {o \in phi_ops[<<b, x>>] : o[2] = from}
             IN  \/ ops = {} /\ at(PhiValue(b, x)) = Undef
                 \/ \E o \in ops : /\ o[1] \in Values
                                   /\ at(PhiValue(b, x)) = ValueIn(r.env, o[1])
  <2> PICK ops : ops = {o \in phi_ops[<<b, x>>] : o[2] = from}
    OBVIOUS
  <2>1. at(PhiValue(b, x)) = IF ops = {} THEN Undef
                             ELSE ValueIn(r.env, (CHOOSE o \in ops : TRUE)[1])
    BY DEF PhiValue
  <2>2. ops # {} => (CHOOSE o \in ops : TRUE) \in ops
    OBVIOUS
  <2> QED
    BY <1>2, <2>1, <2>2
<1>4. \A v \in Values : v[1] = "phi" /\ v[2] = b /\ v[3] \in phis[b] => v = PhiValue(b, v[3])
  BY DEF Values, LoadValue, OtherValue, PhiValue
<1>5. \A x \in phis[b] : /\ PhiValue(b, x)[1] = "phi" /\ PhiValue(b, x)[2] = b
                         /\ PhiValue(b, x)[3] = x
  BY DEF PhiValue
<1> HIDE DEF at
<1>6. \A x \in phis[b] : at(PhiValue(b, x)) \in Contents
  <2>1. Undef \in Contents
    BY DEF Contents
  <2> QED
    BY <1>3, <2>1, RunFields, ValueInType
<1>7. e \in [Values -> Contents]
  BY <1>4, <1>6, RunFields
<1>8. \A v \in Values : ~ (\E x \in phis[b] : v = PhiValue(b, x)) => e[v] = r.env[v]
  BY <1>4
<1>9. \A x \in phis[b] : e[PhiValue(b, x)] = at(PhiValue(b, x))
  BY <1>2, <1>5
<1> HIDE DEF e
<1>10. /\ EnterBlock(r, from, b) \in RunState /\ EnterBlock(r, from, b).env = e
       /\ EnterBlock(r, from, b).mem = r.mem /\ EnterBlock(r, from, b).loaded = r.loaded
       /\ EnterBlock(r, from, b).ok = r.ok
  BY <1>1, <1>7 DEF RunState
<1> QED
  BY <1>3, <1>8, <1>9, <1>10

\* What instruction i of b, the k-th, which names variable x and the instruction
\* src, makes of a state r of the two runs in the n-th block of a path.
InstructionEffect(r, t, n, b, k, i, x, src) ==
    \/ /\ code[b][k].op = "load" /\ i \in Loads
       /\ t.mem = r.mem /\ t.env = r.env
       /\ t.loaded = [r.loaded EXCEPT ![i] = r.mem[x]]
       /\ r.ok /\ ValueIn(r.env, read[i]) = r.mem[x] => t.ok
    \/ /\ code[b][k].op = "store" /\ i \in Stores /\ src = 0
       /\ t.mem = [r.mem EXCEPT ![x] = <<i, n>>]
       /\ t.env = [r.env EXCEPT ![OtherValue(i)] = <<i, n>>]
       /\ t.loaded = r.loaded /\ t.ok = r.ok
    \/ /\ code[b][k].op = "store" /\ i \in Stores /\ src # 0
       /\ <<b, src>> \in Loads /\ src \in 1 .. k - 1
       /\ t.mem = [r.mem EXCEPT ![x] = r.loaded[<<b, src>>]]
       /\ t.env = r.env /\ t.loaded = r.loaded /\ t.ok = r.ok

\* What a load or store does to either side.
LEMMA InstructionSpec ==
    ASSUME TypeInv, NEW r \in RunState, NEW n \in Nat, NEW b \in Block,
           NEW k \in 1 .. AllOf(b), NEW i, i = <<b, k>>, NEW x, x = code[b][k].var,
           NEW src, src = code[b][k].src, NEW t, t = RunInstruction(r, n, b, k)
    PROVE  t \in RunState /\ x \in Var /\ InstructionEffect(r, t, n, b, k, i, x, src)
<1>1. /\ k \in DOMAIN code[b] /\ x \in Var /\ src \in Nat /\ k \in Nat \ {0}
      /\ code[b][k].op \in {"load", "store"}
  BY CodeTyped DEF TypeInv, Program, AllOf
<1>2. /\ r.mem \in [Var -> Contents] /\ r.env \in [Values -> Contents]
      /\ r.loaded \in [Loads -> Contents] /\ r.ok \in BOOLEAN
  BY RunFields
<1>3. CASE code[b][k].op = "load"
  <2>1. i \in Loads
    BY <1>1, <1>3, LoadsSpec
  <2> PICK c : c = (r.ok /\ ValueIn(r.env, read[i]) = r.mem[x])
    OBVIOUS
  <2>2. c \in BOOLEAN /\ (r.ok /\ ValueIn(r.env, read[i]) = r.mem[x] => c)
    BY Zenon
  <2> PICK l : l = [r.loaded EXCEPT ![i] = r.mem[x]]
    OBVIOUS
  <2>3. l \in [Loads -> Contents]
    BY <1>1, <1>2, <2>1
  <2>4. t = [r EXCEPT !.loaded = l, !.ok = c]
    BY <1>3 DEF RunInstruction, RunState
  <2>5. t \in RunState /\ t.mem = r.mem /\ t.env = r.env /\ t.loaded = l /\ t.ok = c
    BY <1>2, <2>2, <2>3, <2>4 DEF RunState
  <2>6. r.ok /\ ValueIn(r.env, read[i]) = r.mem[x] => t.ok
    BY <2>2, <2>5, Zenon
  <2> QED
    BY <1>1, <1>3, <2>1, <2>5, <2>6 DEF InstructionEffect
<1>4. CASE code[b][k].op = "store" /\ src = 0
  <2>1. i \in Stores
    BY <1>1, <1>4, StoresSpec
  <2> PICK m, e : /\ m = [r.mem EXCEPT ![x] = <<i, n>>]
                  /\ e = [r.env EXCEPT ![OtherValue(i)] = <<i, n>>]
    OBVIOUS
  <2>2. <<i, n>> \in Contents
    BY <2>1 DEF Contents
  <2>3. m \in [Var -> Contents] /\ e \in [Values -> Contents]
    BY <1>1, <1>2, <2>2
  <2>4. t = [r EXCEPT !.mem = m, !.env = e]
    BY <1>4 DEF RunInstruction, RunState
  <2>5. /\ t \in RunState /\ t.mem = m /\ t.env = e /\ t.loaded = r.loaded /\ t.ok = r.ok
    BY <1>2, <2>3, <2>4 DEF RunState
  <2> QED
    BY <1>1, <1>4, <2>1, <2>5 DEF InstructionEffect
<1>5. CASE code[b][k].op = "store" /\ src # 0
  <2>1. i \in Stores /\ i[1] = b /\ Instruction(i).src = src
    BY <1>1, <1>5, StoresSpec DEF Instruction
  <2>2. <<b, src>> \in Loads
    BY <1>5, <2>1, SourceLoad DEF TypeInv
  <2>3. src \in 1 .. k - 1
    BY <1>1, <1>5 DEF TypeInv, Program, WellFormedCode
  <2> PICK m : m = [r.mem EXCEPT ![x] = r.loaded[<<b, src>>]]
    OBVIOUS
  <2>4. m \in [Var -> Contents]
    BY <1>1, <1>2, <2>2
  <2>5. t = [r EXCEPT !.mem = m]
    BY <1>5 DEF RunInstruction, RunState
  <2>6. t \in RunState /\ t.mem = m /\ t.env = r.env /\ t.loaded = r.loaded /\ t.ok = r.ok
    BY <1>2, <2>4, <2>5 DEF RunState
  <2> QED
    BY <1>1, <1>5, <2>1, <2>2, <2>3, <2>6 DEF InstructionEffect
<1> QED
  BY <1>1, <1>3, <1>4, <1>5

\* The value of a variable at a place is one of the function's.
LEMMA CurrentType ==
    ASSUME TypeInv, NEW b \in Block, NEW n \in Nat, n <= AllOf(b), NEW x, NEW v,
           Current(b, n, x, v)
    PROVE  v \in Values
<1>1. ASSUME NEW a \in Block, NEW m \in Nat, m <= AllOf(a), Gives(a, m, x, v)
      PROVE  v \in Values
  <2>1. \/ \E k \in StoresTo(a, x, m) : <<a, k>> \in Stores /\ v = rval[<<a, k>>] /\ k <= m
        \/ x \in phis[a] /\ v = PhiValue(a, x)
    BY <1>1, GivesStore DEF TypeInv
  <2>2. (\A j \in Stores : rval[j] \in Values) /\ phis[a] \subseteq Var
    BY DEF TypeInv, TypeOK
  <2> QED
    BY <2>1, <2>2, ValuesType
<1>2. \A a \in StrictDom(b) : a \in Block /\ AllOf(a) \in Nat /\ AllOf(a) <= AllOf(a)
  BY CodeTyped DEF StrictDom, Dom, AllOf, TypeInv, Program
<1> QED
  BY <1>1, <1>2 DEF Current

\* A load's users read what it finds.
LEMMA AgreesLoad ==
    ASSUME TypeInv, CallsInv, MeaningInv, pc = "done", NEW b \in Reachable(succ),
           NEW k \in 1 .. AllOf(b), code[b][k].op = "load", <<b, k>> \in Loads,
           NEW r \in RunState, Agrees(r, b, k - 1), NEW t \in RunState,
           t.mem = r.mem, t.env = r.env,
           NEW y \in Var, y = code[b][k].var,
           t.loaded = [r.loaded EXCEPT ![<<b, k>>] = r.mem[y]],
           r.ok /\ ValueIn(r.env, read[<<b, k>>]) = r.mem[y] => t.ok
    PROVE  Agrees(t, b, k)
<1> PICK i : i = <<b, k>>
  OBVIOUS
<1>1. i \in Loads /\ i[1] = b /\ i[2] = k /\ Instruction(i).var = y
  BY DEF Instruction
<1>2. k \in Nat \ {0}
  OBVIOUS
<1>3. ValueIn(r.env, read[i]) = r.mem[y]
  <2>1. \/ Has(b, k - 1, y, read[i])
        \/ NoValue(b, k - 1, y) /\ read[i] = LoadValue(i)
    BY <1>1, AllDone DEF MeaningInv, LoadsInv
  <2>2. CASE Has(b, k - 1, y, read[i])
    BY <2>2 DEF Agrees, Has
  <2>3. CASE NoValue(b, k - 1, y) /\ read[i] = LoadValue(i)
    <3>1. ValueIn(r.env, read[i]) = Undef
      BY <2>3 DEF ValueIn, LoadValue
    <3> QED
      BY <2>3, <3>1 DEF Agrees
  <2> QED
    BY <2>1, <2>2, <2>3
<1>4. t.ok
  BY <1>3, Zenon DEF Agrees
<1>5. ASSUME NEW x \in Var
      PROVE  /\ \A v : Current(b, k, x, v) => ValueIn(t.env, v) = t.mem[x]
             /\ NoValue(b, k, x) => t.mem[x] = Undef
  BY <1>2, CurrentAlong DEF Agrees
<1>6. ASSUME NEW j \in 1 .. k, <<b, j>> \in Loads
      PROVE  ValueIn(t.env, read[<<b, j>>]) = t.loaded[<<b, j>>]
  <2>1. DOMAIN r.loaded = Loads
    BY RunFields
  <2>2. CASE j = k
    BY <1>1, <1>3, <2>1, <2>2
  <2>3. CASE j # k
    <3>1. j \in 1 .. k - 1 /\ <<b, j>> # <<b, k>>
      BY <2>3
    <3>2. t.loaded[<<b, j>>] = r.loaded[<<b, j>>]
      BY <1>6, <2>1, <3>1
    <3> QED
      BY <1>6, <3>1, <3>2 DEF Agrees
  <2> QED
    BY <2>2, <2>3
<1> QED
  BY <1>4, <1>5, <1>6 DEF Agrees

\* A store of a loaded value writes what the load's users read.
LEMMA AgreesStoreOfLoad ==
    ASSUME TypeInv, CallsInv, MeaningInv, pc = "done", NEW b \in Reachable(succ),
           NEW k \in 1 .. AllOf(b), code[b][k].op = "store", <<b, k>> \in Stores,
           NEW src \in 1 .. k - 1, src = code[b][k].src, <<b, src>> \in Loads,
           NEW r \in RunState, Agrees(r, b, k - 1), NEW t \in RunState,
           t.env = r.env, t.loaded = r.loaded, t.ok = r.ok,
           NEW y \in Var, y = code[b][k].var,
           t.mem = [r.mem EXCEPT ![y] = r.loaded[<<b, src>>]]
    PROVE  Agrees(t, b, k)
<1> PICK i : i = <<b, k>>
  OBVIOUS
<1>1. i \in Stores /\ i[1] = b /\ i[2] = k /\ Instruction(i).src = src
  BY DEF Instruction
<1>2. k \in Nat \ {0} /\ src # 0
  OBVIOUS
<1>3. rval[i] = read[<<b, src>>]
  BY <1>1, <1>2 DEF MeaningInv, StoresInv
<1>4. ValueIn(r.env, rval[i]) = r.loaded[<<b, src>>]
  BY <1>3 DEF Agrees
<1>5. DOMAIN r.mem = Var
  BY RunFields
<1>6. ASSUME NEW x \in Var
      PROVE  /\ \A v : Current(b, k, x, v) => ValueIn(t.env, v) = t.mem[x]
             /\ NoValue(b, k, x) => t.mem[x] = Undef
  <2>1. CASE x = y
    BY <1>2, <1>4, <1>5, <2>1, CurrentAtStore
  <2>2. CASE x # y
    BY <1>2, <1>5, <2>2, CurrentAlong DEF Agrees
  <2> QED
    BY <2>1, <2>2
<1>7. ASSUME NEW j \in 1 .. k, <<b, j>> \in Loads
      PROVE  ValueIn(t.env, read[<<b, j>>]) = t.loaded[<<b, j>>]
  <2>1. j # k
    <3>1. i \notin Loads
      BY <1>1, LoadsSpec
    <3> QED
      BY <1>7, <3>1
  <2> QED
    BY <1>7, <2>1 DEF Agrees
<1>8. t.ok
  BY Zenon DEF Agrees
<1> QED
  BY <1>6, <1>7, <1>8 DEF Agrees

\* A store of another value makes that value the variable's.
LEMMA AgreesStoreOfOther ==
    ASSUME TypeInv, CallsInv, MeaningInv, pc = "done", NEW b \in Reachable(succ),
           NEW k \in 1 .. AllOf(b), code[b][k].op = "store", <<b, k>> \in Stores,
           code[b][k].src = 0,
           NEW r \in RunState, Agrees(r, b, k - 1), NEW t \in RunState,
           t.loaded = r.loaded, t.ok = r.ok, NEW y \in Var, y = code[b][k].var, NEW c,
           t.mem = [r.mem EXCEPT ![y] = c],
           t.env = [r.env EXCEPT ![OtherValue(<<b, k>>)] = c]
    PROVE  Agrees(t, b, k)
<1> PICK i : i = <<b, k>>
  OBVIOUS
<1>1. i \in Stores /\ i[1] = b /\ i[2] = k /\ Instruction(i).src = 0
  BY DEF Instruction
<1>2. k \in Nat \ {0} /\ k - 1 \in Nat /\ b \in Block /\ AllOf(b) \in Nat /\ k - 1 <= AllOf(b)
  <2>1. b \in Block
    BY ReachableType DEF TypeInv, Program
  <2>2. AllOf(b) \in Nat
    BY <2>1, CodeTyped DEF TypeInv, Program, AllOf
  <2> QED
    BY <2>1, <2>2
<1>3. rval[i] = OtherValue(i)
  BY <1>1 DEF MeaningInv, StoresInv
<1>4. DOMAIN r.mem = Var /\ DOMAIN r.env = Values /\ OtherValue(i) \in Values
  BY <1>1, RunFields, ValuesType
<1>5. ValueIn(t.env, OtherValue(i)) = c
  <2>1. t.env[OtherValue(i)] = c
    BY <1>4
  <2> QED
    BY <2>1 DEF ValueIn, OtherValue
<1>6. \A v \in Values : v # OtherValue(i) => ValueIn(t.env, v) = ValueIn(r.env, v)
  <2>1. \A v \in Values : v # OtherValue(i) => t.env[v] = r.env[v]
    BY <1>4
  <2> QED
    BY <2>1 DEF ValueIn
\* The place of the store is not behind itself.
<1>7. ASSUME NEW n \in Nat, n < k PROVE ~ Available(b, n, OtherValue(i))
  BY <1>1, <1>2, <1>7 DEF Available
<1>8. ASSUME NEW x \in Var
      PROVE  /\ \A v : Current(b, k, x, v) => ValueIn(t.env, v) = t.mem[x]
             /\ NoValue(b, k, x) => t.mem[x] = Undef
  <2>1. CASE x = y
    BY <1>2, <1>3, <1>4, <1>5, <2>1, CurrentAtStore
  <2>2. CASE x # y
    <3>1. /\ \A v : Current(b, k, x, v) => Current(b, k - 1, x, v)
          /\ NoValue(b, k, x) => NoValue(b, k - 1, x)
      BY <1>2, <2>2, CurrentAlong
    <3>2. ASSUME NEW v, Current(b, k - 1, x, v) PROVE v \in Values /\ v # OtherValue(i)
      <4>1. Available(b, k - 1, v)
        BY <1>2, <3>2, CurrentAvailable
      <4>2. k - 1 < k
        BY <1>2
      <4> QED
        BY <1>2, <1>7, <3>2, <4>1, <4>2, CurrentType
    <3>3. t.mem[x] = r.mem[x]
      BY <1>4, <2>2
    <3> QED
      BY <1>6, <3>1, <3>2, <3>3 DEF Agrees
  <2> QED
    BY <2>1, <2>2
<1>9. ASSUME NEW j \in 1 .. k, <<b, j>> \in Loads
      PROVE  ValueIn(t.env, read[<<b, j>>]) = t.loaded[<<b, j>>]
  <2>1. j # k
    <3>1. i \notin Loads
      BY <1>1, LoadsSpec
    <3> QED
      BY <1>9, <3>1
  <2> PICK l : l = <<b, j>>
    OBVIOUS
  <2>2. l \in Loads /\ l[1] = b /\ l[2] = j /\ read[l] \in Values /\ j - 1 \in Nat /\ j - 1 < k
    BY <1>9 DEF TypeInv, TypeOK
  <2>3. read[l] # OtherValue(i)
    <3>1. \/ Has(b, j - 1, Instruction(l).var, read[l])
          \/ read[l] = LoadValue(l)
      BY <2>2, AllDone DEF MeaningInv, LoadsInv
    <3> QED
      BY <1>7, <2>2, <3>1, ValuesDiffer DEF Has
  <2> QED
    BY <1>6, <1>9, <2>1, <2>2, <2>3 DEF Agrees
<1>10. t.ok
  BY Zenon DEF Agrees
<1> QED
  BY <1>8, <1>9, <1>10 DEF Agrees

\* Whatever the instruction, agreement goes on behind it.
LEMMA AgreesInstruction ==
    ASSUME TypeInv, CallsInv, MeaningInv, pc = "done", NEW b \in Reachable(succ),
           NEW k \in 1 .. AllOf(b), NEW n \in Nat, NEW r \in RunState, Agrees(r, b, k - 1)
    PROVE  /\ RunInstruction(r, n, b, k) \in RunState
           /\ Agrees(RunInstruction(r, n, b, k), b, k)
<1> PICK i, x, src, t : /\ i = <<b, k>> /\ x = code[b][k].var /\ src = code[b][k].src
                        /\ t = RunInstruction(r, n, b, k)
  OBVIOUS
<1>0. b \in Block
  BY ReachableType DEF TypeInv, Program
<1>1. /\ t \in RunState /\ x \in Var
      /\ \/ /\ code[b][k].op = "load" /\ i \in Loads
            /\ t.mem = r.mem /\ t.env = r.env
            /\ t.loaded = [r.loaded EXCEPT ![i] = r.mem[x]]
            /\ r.ok /\ ValueIn(r.env, read[i]) = r.mem[x] => t.ok
         \/ /\ code[b][k].op = "store" /\ i \in Stores /\ src = 0
            /\ t.mem = [r.mem EXCEPT ![x] = <<i, n>>]
            /\ t.env = [r.env EXCEPT ![OtherValue(i)] = <<i, n>>]
            /\ t.loaded = r.loaded /\ t.ok = r.ok
         \/ /\ code[b][k].op = "store" /\ i \in Stores /\ src # 0
            /\ <<b, src>> \in Loads /\ src \in 1 .. k - 1
            /\ t.mem = [r.mem EXCEPT ![x] = r.loaded[<<b, src>>]]
            /\ t.env = r.env /\ t.loaded = r.loaded /\ t.ok = r.ok
  <2>1. t \in RunState /\ x \in Var /\ InstructionEffect(r, t, n, b, k, i, x, src)
    BY ONLY TypeInv, r \in RunState, n \in Nat, <1>0, k \in 1 .. AllOf(b), i = <<b, k>>,
            x = code[b][k].var, src = code[b][k].src, t = RunInstruction(r, n, b, k),
            InstructionSpec
  <2> QED
    BY ONLY <2>1 DEF InstructionEffect
<1>2. <<b, k>> = i /\ code[b][k].var = x /\ code[b][k].src = src
  OBVIOUS
<1>3. CASE /\ code[b][k].op = "load" /\ i \in Loads
           /\ t.mem = r.mem /\ t.env = r.env
           /\ t.loaded = [r.loaded EXCEPT ![i] = r.mem[x]]
           /\ r.ok /\ ValueIn(r.env, read[i]) = r.mem[x] => t.ok
  <2>1. /\ code[b][k].op = "load" /\ <<b, k>> \in Loads /\ t.mem = r.mem /\ t.env = r.env
        /\ t.loaded = [r.loaded EXCEPT ![<<b, k>>] = r.mem[x]]
        /\ r.ok /\ ValueIn(r.env, read[<<b, k>>]) = r.mem[x] => t.ok
    BY ONLY <1>2, <1>3
  <2>2. t \in RunState /\ x \in Var /\ x = code[b][k].var
    BY ONLY <1>1, <1>2
  <2>3. Agrees(t, b, k)
    BY ONLY TypeInv, CallsInv, MeaningInv, pc = "done", b \in Reachable(succ),
            k \in 1 .. AllOf(b), r \in RunState, Agrees(r, b, k - 1), <2>1, <2>2, AgreesLoad
  <2> QED
    BY ONLY <1>1, <2>3, t = RunInstruction(r, n, b, k)
<1>4. CASE /\ code[b][k].op = "store" /\ i \in Stores /\ src = 0
           /\ t.mem = [r.mem EXCEPT ![x] = <<i, n>>]
           /\ t.env = [r.env EXCEPT ![OtherValue(i)] = <<i, n>>]
           /\ t.loaded = r.loaded /\ t.ok = r.ok
  <2> PICK c : c = <<i, n>>
    OBVIOUS
  <2>1. /\ code[b][k].op = "store" /\ <<b, k>> \in Stores /\ code[b][k].src = 0
        /\ t.mem = [r.mem EXCEPT ![x] = c]
        /\ t.env = [r.env EXCEPT ![OtherValue(<<b, k>>)] = c]
        /\ t.loaded = r.loaded /\ t.ok = r.ok
    BY ONLY <1>2, <1>4, c = <<i, n>>
  <2>2. t \in RunState /\ x \in Var /\ x = code[b][k].var
    BY ONLY <1>1, <1>2
  <2>3. Agrees(t, b, k)
    BY ONLY TypeInv, CallsInv, MeaningInv, pc = "done", b \in Reachable(succ),
            k \in 1 .. AllOf(b), r \in RunState, Agrees(r, b, k - 1), <2>1, <2>2,
            AgreesStoreOfOther
  <2> QED
    BY ONLY <1>1, <2>3, t = RunInstruction(r, n, b, k)
<1>5. CASE /\ code[b][k].op = "store" /\ i \in Stores /\ src # 0
           /\ <<b, src>> \in Loads /\ src \in 1 .. k - 1
           /\ t.mem = [r.mem EXCEPT ![x] = r.loaded[<<b, src>>]]
           /\ t.env = r.env /\ t.loaded = r.loaded /\ t.ok = r.ok
  <2>1. /\ code[b][k].op = "store" /\ <<b, k>> \in Stores /\ src = code[b][k].src
        /\ <<b, src>> \in Loads /\ src \in 1 .. k - 1
        /\ t.mem = [r.mem EXCEPT ![x] = r.loaded[<<b, src>>]]
        /\ t.env = r.env /\ t.loaded = r.loaded /\ t.ok = r.ok
    BY ONLY <1>2, <1>5
  <2>2. t \in RunState /\ x \in Var /\ x = code[b][k].var
    BY ONLY <1>1, <1>2
  <2>3. Agrees(t, b, k)
    BY ONLY TypeInv, CallsInv, MeaningInv, pc = "done", b \in Reachable(succ),
            k \in 1 .. AllOf(b), r \in RunState, Agrees(r, b, k - 1), <2>1, <2>2,
            AgreesStoreOfLoad
  <2> QED
    BY ONLY <1>1, <2>3, t = RunInstruction(r, n, b, k)
<1> QED
  BY ONLY <1>1, <1>3, <1>4, <1>5

\* Along an edge the phis take over what their variables hold.
LEMMA AgreesEnter ==
    ASSUME TypeInv, CallsInv, PhiInv, MeaningInv, pc = "done", NEW b \in Reachable(succ),
           NEW p \in Pre(succ, b), NEW r \in RunState, Agrees(r, p, AllOf(p))
    PROVE  Agrees(EnterBlock(r, p, b), b, 0)
<1> PICK t : t = EnterBlock(r, p, b)
  OBVIOUS
<1>0. b \in Block /\ p \in Block /\ p \in Reachable(succ) /\ AllOf(b) \in Nat
  <2>1. b \in Block /\ p \in Reachable(succ)
    BY ReachableType DEF TypeInv, Program, Trimmed
  <2> QED
    BY <2>1, ReachableType, CodeTyped DEF TypeInv, Program, AllOf
<1>1. /\ t \in RunState /\ t.mem = r.mem /\ t.loaded = r.loaded /\ t.ok = r.ok
      /\ \A v \in Values : ~ (\E x \in phis[b] : v = PhiValue(b, x)) => t.env[v] = r.env[v]
      /\ \A x \in phis[b] :
            LET ops == {o \in phi_ops[<<b, x>>] : o[2] = p}
            IN  \/ ops = {} /\ t.env[PhiValue(b, x)] = Undef
                \/ \E o \in ops : /\ o[1] \in Values
                                  /\ t.env[PhiValue(b, x)] = ValueIn(r.env, o[1])
  BY <1>0, EnterSpec
<1>2. t.ok
  BY <1>1, Zenon DEF Agrees
<1>3. \A y \in phis[b] : y \in Var
  BY <1>0 DEF TypeInv, TypeOK
<1>4. ASSUME NEW x \in phis[b] PROVE t.env[PhiValue(b, x)] = r.mem[x]
  <2>1. CASE \E o \in phi_ops[<<b, x>>] :
                o[2] = p /\ t.env[PhiValue(b, x)] = ValueIn(r.env, o[1])
    <3> PICK o \in phi_ops[<<b, x>>] :
           o[2] = p /\ t.env[PhiValue(b, x)] = ValueIn(r.env, o[1])
      BY <2>1
    <3>1. Has(p, AllOf(p), x, o[1])
      BY <1>0 DEF MeaningInv, OperandsInv
    <3> QED
      BY <1>3, <3>1 DEF Has, Agrees
  <2>2. CASE /\ \A o \in phi_ops[<<b, x>>] : o[2] # p
             /\ t.env[PhiValue(b, x)] = Undef
    <3>1. Filled(p)
      BY <1>0, AllDone
    <3>2. NoValue(p, AllOf(p), x)
      BY <1>0, <2>2, <3>1 DEF MeaningInv, OperandsInv
    <3> QED
      BY <1>3, <2>2, <3>2 DEF Agrees
  <2> QED
    BY <1>1, <2>1, <2>2
<1>5. ASSUME NEW x \in Var
      PROVE  /\ \A v : Current(b, 0, x, v) => ValueIn(t.env, v) = t.mem[x]
             /\ NoValue(b, 0, x) => t.mem[x] = Undef
  <2>1. CASE x \in phis[b]
    <3>1. ValueIn(t.env, PhiValue(b, x)) = t.mem[x]
      BY <1>1, <1>4, <2>1 DEF ValueIn, PhiValue
    <3> QED
      BY <2>1, <3>1, CurrentAtPhi
  <2>2. CASE x \notin phis[b]
    <3>1. Silent(b, 0, x)
      BY <2>2 DEF Silent, StoresTo
    <3>2. ASSUME NEW v, Current(b, 0, x, v) PROVE ValueIn(t.env, v) = t.mem[x]
      <4>1. Current(p, AllOf(p), x, v)
        BY <2>2, <3>2, CurrentFromPred
      <4>2. ValueIn(r.env, v) = r.mem[x]
        BY <4>1 DEF Agrees
      <4>3. v \in Values /\ \A y \in Var : v # PhiValue(b, y)
        BY <1>0, <3>1, <3>2, CurrentType, CurrentAvailable
      <4>4. t.env[v] = r.env[v]
        BY <1>1, <1>3, <4>3
      <4> QED
        BY <1>1, <4>2, <4>4 DEF ValueIn
    <3>3. NoValue(b, 0, x) => t.mem[x] = Undef
      BY <1>1, <2>2, CurrentFromPred DEF Agrees
    <3> QED
      BY <3>2, <3>3
  <2> QED
    BY <2>1, <2>2
<1> QED
  BY <1>2, <1>5 DEF Agrees

\* The types alone, for any block and state.
LEMMA InstructionType ==
    ASSUME TypeInv, NEW b \in Block, NEW k \in 1 .. AllOf(b), NEW n \in Nat, NEW r \in RunState
    PROVE  RunInstruction(r, n, b, k) \in RunState
<1> PICK i, x, src, t : /\ i = <<b, k>> /\ x = code[b][k].var /\ src = code[b][k].src
                        /\ t = RunInstruction(r, n, b, k)
  OBVIOUS
<1>1. t \in RunState
  BY ONLY TypeInv, r \in RunState, n \in Nat, b \in Block, k \in 1 .. AllOf(b), i = <<b, k>>,
          x = code[b][k].var, src = code[b][k].src, t = RunInstruction(r, n, b, k),
          InstructionSpec
<1> QED
  BY <1>1

\* RunBlock goes through the instructions of the block one by one.
BlockSteps(f, r, n, from, b) ==
    /\ f \in [0 .. AllOf(b) -> RunState]
    /\ f[0] = EnterBlock(r, from, b)
    /\ \A k \in 1 .. AllOf(b) : f[k] = RunInstruction(f[k - 1], n, b, k)
    /\ RunBlock(r, n, from, b) = f[AllOf(b)]

\* It does so for each block.
LEMMA RunBlockSteps ==
    ASSUME TypeInv, NEW r \in RunState, NEW n \in Nat, NEW from, NEW b \in Block
    PROVE  \E f : BlockSteps(f, r, n, from, b)
<1> PICK m : m = AllOf(b)
  OBVIOUS
<1>1. m \in Nat /\ m = Len(code[b])
  BY CodeTyped DEF TypeInv, Program, AllOf
<1> DEFINE step == [z \in Nat \X RunState |->
                       IF z[1] < m THEN RunInstruction(z[2], n, b, z[1] + 1) ELSE z[2]]
<1>2. step \in [Nat \X RunState -> RunState]
  <2>1. ASSUME NEW z \in Nat \X RunState, z[1] < m
        PROVE  RunInstruction(z[2], n, b, z[1] + 1) \in RunState
    <3>1. z[1] + 1 \in 1 .. AllOf(b) /\ z[2] \in RunState
      BY <1>1, <2>1
    <3> QED
      BY <3>1, InstructionType
  <2> QED
    BY <2>1
<1>3. EnterBlock(r, from, b) \in RunState
  BY EnterSpec
<1>4. PICK g : Iterates(g, RunState, EnterBlock(r, from, b), step)
  <2> HIDE DEF step
  <2> QED
    BY <1>2, <1>3, Iteration
<1>5. /\ g \in [Nat -> RunState] /\ g[0] = EnterBlock(r, from, b)
      /\ \A k \in Nat : g[k + 1] = step[<<k, g[k]>>]
  BY <1>4 DEF Iterates
<1>6. ASSUME NEW k \in 1 .. m PROVE g[k] = RunInstruction(g[k - 1], n, b, k)
  <2>1. k - 1 \in Nat /\ (k - 1) + 1 = k /\ k - 1 < m
    BY <1>1
  <2>2. <<k - 1, g[k - 1]>> \in Nat \X RunState
    BY <1>5, <2>1
  <2>3. g[k] = step[<<k - 1, g[k - 1]>>]
    BY <1>5, <2>1
  <2> QED
    BY <2>1, <2>2, <2>3
<1> HIDE DEF step
<1> PICK f : f = [k \in 0 .. m |-> g[k]]
  OBVIOUS
<1>7. /\ f \in [0 .. m -> RunState] /\ f[0] = EnterBlock(r, from, b)
      /\ \A k \in 0 .. m : f[k] = g[k]
  BY <1>1, <1>5
<1>8. \A k \in 1 .. m : f[k] = RunInstruction(f[k - 1], n, b, k)
  <2>1. \A k \in 1 .. m : k \in 0 .. m /\ k - 1 \in 0 .. m
    BY <1>1
  <2> QED
    BY <1>6, <1>7, <2>1
<1> DEFINE IsAfter(w) == w = [k \in 0 .. Len(code[b]) |->
                IF k = 0 THEN EnterBlock(r, from, b) ELSE RunInstruction(w[k - 1], n, b, k)]
           after == CHOOSE w : IsAfter(w)
<1>9. IsAfter(f)
  <2> DEFINE value(k) == IF k = 0 THEN EnterBlock(r, from, b)
                         ELSE RunInstruction(f[k - 1], n, b, k)
  <2>1. ASSUME NEW k \in 0 .. m PROVE f[k] = value(k)
    <3>1. CASE k = 0
      BY <1>7, <3>1
    <3>2. CASE k # 0
      <4>1. k \in 1 .. m
        BY <1>1, <3>2
      <4> QED
        BY <1>8, <3>2, <4>1
    <3> QED
      BY <3>1, <3>2
  <2>2. f = [k \in 0 .. m |-> f[k]]
    BY <1>7
  <2> HIDE DEF value
  <2>3. f = [k \in 0 .. m |-> value(k)]
    BY <2>1, <2>2
  <2> QED
    BY <1>1, <2>3 DEF value
<1>10. IsAfter(after)
  <2>1. \E w : IsAfter(w)
    BY <1>9
  <2> HIDE DEF IsAfter
  <2> QED
    BY <2>1, Zenon
<1>11. RunBlock(r, n, from, b) = after[m]
  BY <1>1 DEF RunBlock
<1>12. after[m] = f[m]
  <2> DEFINE T == {k \in Nat : k <= m => after[k] = f[k]}
  <2> HIDE DEF after
  <2>1. 0 \in T
    BY <1>1, <1>7, <1>10
  <2>2. ASSUME NEW k \in Nat, k \in T PROVE k + 1 \in T
    <3>1. CASE k + 1 <= m
      <4>1. k + 1 \in 1 .. m /\ (k + 1) - 1 = k /\ k <= m /\ k + 1 # 0
            /\ k + 1 \in 0 .. Len(code[b])
        BY <1>1, <3>1
      <4>2. after[k] = f[k]
        BY <2>2, <4>1
      <4>3. after[k + 1] = RunInstruction(after[k], n, b, k + 1)
        BY <1>10, <4>1
      <4>4. f[k + 1] = RunInstruction(f[k], n, b, k + 1)
        BY <1>8, <4>1
      <4> QED
        BY <4>2, <4>3, <4>4
    <3>2. CASE ~ (k + 1 <= m)
      BY <3>2
    <3> QED
      BY <3>1, <3>2
  <2>3. Nat \subseteq T
    <3> HIDE DEF T
    <3> QED
      BY <2>1, <2>2, SetInduction
  <2>4. m \in T
    <3> HIDE DEF T
    <3> QED
      BY <1>1, <2>3
  <2>5. m <= m
    BY <1>1
  <2> QED
    BY <2>4, <2>5
<1> HIDE DEF after
<1>13. RunBlock(r, n, from, b) = f[m]
  BY <1>11, <1>12
<1> QED
  BY <1>7, <1>8, <1>13 DEF BlockSteps

\* Through a block, the two stay in agreement.
LEMMA RunBlockSpec ==
    ASSUME TypeInv, NEW r \in RunState, NEW n \in Nat, NEW from, NEW b \in Block
    PROVE  /\ RunBlock(r, n, from, b) \in RunState
           /\ /\ CallsInv /\ MeaningInv /\ pc = "done" /\ b \in Reachable(succ)
              /\ Agrees(EnterBlock(r, from, b), b, 0)
              => Agrees(RunBlock(r, n, from, b), b, AllOf(b))
<1> PICK f : BlockSteps(f, r, n, from, b)
  BY RunBlockSteps
<1>1. /\ f \in [0 .. AllOf(b) -> RunState]
      /\ f[0] = EnterBlock(r, from, b)
      /\ \A k \in 1 .. AllOf(b) : f[k] = RunInstruction(f[k - 1], n, b, k)
      /\ RunBlock(r, n, from, b) = f[AllOf(b)]
  BY DEF BlockSteps
<1>2. AllOf(b) \in Nat
  BY CodeTyped DEF TypeInv, Program, AllOf
<1>3. RunBlock(r, n, from, b) \in RunState
  BY <1>1, <1>2
<1>4. ASSUME CallsInv, MeaningInv, pc = "done", b \in Reachable(succ),
             Agrees(EnterBlock(r, from, b), b, 0)
      PROVE  Agrees(RunBlock(r, n, from, b), b, AllOf(b))
  <2> DEFINE T == {k \in Nat : k <= AllOf(b) => Agrees(f[k], b, k)}
  <2>1. 0 \in T
    BY <1>1, <1>4
  <2>2. ASSUME NEW k \in Nat, k \in T PROVE k + 1 \in T
    <3>1. CASE k + 1 <= AllOf(b)
      <4>1. k + 1 \in 1 .. AllOf(b) /\ (k + 1) - 1 = k /\ k <= AllOf(b)
            /\ k \in 0 .. AllOf(b)
        BY <1>2, <3>1
      <4>2. Agrees(f[k], b, (k + 1) - 1) /\ f[k] \in RunState
        BY <1>1, <2>2, <4>1
      <4>3. Agrees(RunInstruction(f[k], n, b, k + 1), b, k + 1)
        BY ONLY TypeInv, <1>4, <4>1, <4>2, n \in Nat, AgreesInstruction
      <4>4. f[k + 1] = RunInstruction(f[k], n, b, k + 1)
        BY <1>1, <4>1
      <4> QED
        BY <4>3, <4>4
    <3>2. CASE ~ (k + 1 <= AllOf(b))
      BY <3>2
    <3> QED
      BY <3>1, <3>2
  <2>3. Nat \subseteq T
    <3> HIDE DEF T
    <3> QED
      BY <2>1, <2>2, SetInduction
  <2> QED
    BY <1>1, <1>2, <2>3
<1> QED
  BY <1>3, <1>4

-----------------------------------------------------------------------------
(* Along a path                                                            *)

StartState == [mem |-> [x \in Var |-> Undef], env |-> [v \in Values |-> Undef],
               loaded |-> [i \in Loads |-> Undef], ok |-> TRUE]

\* Nothing is written yet, before the pass or after it.
LEMMA StartAgrees ==
    ASSUME TypeInv
    PROVE  /\ StartState \in RunState
           /\ Agrees(EnterBlock(StartState, Entry, Entry), Entry, 0)
<1> PICK r : r = StartState
  OBVIOUS
<1>1. Undef \in Contents
  BY DEF Contents
<1>2. /\ r \in RunState /\ r.mem = [x \in Var |-> Undef] /\ r.env = [v \in Values |-> Undef]
      /\ r.ok
  BY <1>1 DEF StartState, RunState
<1>3. \A v \in Values : ValueIn(r.env, v) = Undef
  BY <1>2 DEF ValueIn
<1>4. Entry \in Block
  BY CFGAssumption
<1> PICK t : t = EnterBlock(r, Entry, Entry)
  OBVIOUS
<1>5. /\ t.mem = r.mem /\ t.ok = r.ok
      /\ \A v \in Values : ~ (\E x \in phis[Entry] : v = PhiValue(Entry, x)) =>
                               t.env[v] = r.env[v]
      /\ \A x \in phis[Entry] :
            LET ops == {o \in phi_ops[<<Entry, x>>] : o[2] = Entry}
            IN  \/ ops = {} /\ t.env[PhiValue(Entry, x)] = Undef
                \/ \E o \in ops : /\ o[1] \in Values
                                  /\ t.env[PhiValue(Entry, x)] = ValueIn(r.env, o[1])
  <2> PICK e, from : e = Entry /\ from = Entry
    OBVIOUS
  <2>1. r \in RunState /\ e \in Block /\ t = EnterBlock(r, from, e)
    BY <1>2, <1>4
  <2>2. /\ t.mem = r.mem /\ t.ok = r.ok
        /\ \A v \in Values : ~ (\E x \in phis[e] : v = PhiValue(e, x)) => t.env[v] = r.env[v]
        /\ \A x \in phis[e] :
              LET ops == {o \in phi_ops[<<e, x>>] : o[2] = from}
              IN  \/ ops = {} /\ t.env[PhiValue(e, x)] = Undef
                  \/ \E o \in ops : /\ o[1] \in Values
                                    /\ t.env[PhiValue(e, x)] = ValueIn(r.env, o[1])
    BY ONLY TypeInv, <2>1, EnterSpec
  <2> QED
    BY <2>2
<1>6. \A x \in phis[Entry] : t.env[PhiValue(Entry, x)] = Undef
  BY <1>3, <1>5
<1>7. \A v \in Values : ValueIn(t.env, v) = Undef
  <2>1. \A v \in Values : t.env[v] = Undef
    BY <1>2, <1>5, <1>6
  <2> QED
    BY <2>1 DEF ValueIn
<1>8. ASSUME NEW x \in Var
      PROVE  /\ \A v : Current(Entry, 0, x, v) => ValueIn(t.env, v) = t.mem[x]
             /\ NoValue(Entry, 0, x) => t.mem[x] = Undef
  <2>1. t.mem[x] = Undef
    BY <1>2, <1>5
  <2>2. 0 \in Nat /\ 0 <= AllOf(Entry)
    BY <1>4, CodeTyped DEF TypeInv, Program, AllOf
  <2>3. ASSUME NEW v, Current(Entry, 0, x, v) PROVE v \in Values
    BY ONLY TypeInv, <1>4, <2>2, <2>3, CurrentType
  <2> QED
    BY <1>7, <2>1, <2>3
<1>9. t.ok
  BY <1>2, <1>5, Zenon
<1> QED
  BY <1>2, <1>8, <1>9 DEF Agrees

\* The block a path comes from at its n-th step.
From(p, n) == IF n = 1 THEN p[1] ELSE p[n - 1]

\* RunPath goes through the blocks of the path one by one.
LEMMA RunPathSteps ==
    ASSUME TypeInv, NEW p \in Seq(Block)
    PROVE  \E f : /\ f \in [0 .. Len(p) -> RunState]
                  /\ f[0] = StartState
                  /\ \A n \in 1 .. Len(p) : f[n] = RunBlock(f[n - 1], n, From(p, n), p[n])
                  /\ RunPath(p) = f[Len(p)]
<1> PICK m : m = Len(p)
  OBVIOUS
<1>1. m \in Nat /\ \A n \in 1 .. m : p[n] \in Block
  OBVIOUS
<1> DEFINE step == [z \in Nat \X RunState |->
                       IF z[1] < m
                       THEN RunBlock(z[2], z[1] + 1, From(p, z[1] + 1), p[z[1] + 1])
                       ELSE z[2]]
<1>2. step \in [Nat \X RunState -> RunState]
  <2>1. ASSUME NEW z \in Nat \X RunState, z[1] < m
        PROVE  RunBlock(z[2], z[1] + 1, From(p, z[1] + 1), p[z[1] + 1]) \in RunState
    <3>1. z[1] + 1 \in 1 .. m /\ z[2] \in RunState /\ z[1] + 1 \in Nat
      BY <1>1, <2>1
    <3>2. p[z[1] + 1] \in Block
      BY <1>1, <3>1
    <3> QED
      BY <3>1, <3>2, RunBlockSpec
  <2> QED
    BY <2>1
<1>3. StartState \in RunState
  BY StartAgrees
<1>4. PICK g : Iterates(g, RunState, StartState, step)
  <2> HIDE DEF step
  <2> QED
    BY <1>2, <1>3, Iteration
<1>5. /\ g \in [Nat -> RunState] /\ g[0] = StartState
      /\ \A k \in Nat : g[k + 1] = step[<<k, g[k]>>]
  BY <1>4 DEF Iterates
<1>6. ASSUME NEW k \in 1 .. m PROVE g[k] = RunBlock(g[k - 1], k, From(p, k), p[k])
  <2>1. k - 1 \in Nat /\ (k - 1) + 1 = k /\ k - 1 < m
    BY <1>1
  <2>2. <<k - 1, g[k - 1]>> \in Nat \X RunState
    BY <1>5, <2>1
  <2>3. g[k] = step[<<k - 1, g[k - 1]>>]
    BY <1>5, <2>1
  <2> QED
    BY <2>1, <2>2, <2>3
<1> HIDE DEF step
<1> PICK f : f = [k \in 0 .. m |-> g[k]]
  OBVIOUS
<1>7. /\ f \in [0 .. m -> RunState] /\ f[0] = StartState
      /\ \A k \in 0 .. m : f[k] = g[k]
  BY <1>1, <1>5
<1>8. \A k \in 1 .. m : f[k] = RunBlock(f[k - 1], k, From(p, k), p[k])
  <2>1. \A k \in 1 .. m : k \in 0 .. m /\ k - 1 \in 0 .. m
    BY <1>1
  <2> QED
    BY <1>6, <1>7, <2>1
<1> DEFINE IsAfter(w) == w = [n \in 0 .. Len(p) |->
                IF n = 0 THEN StartState
                ELSE RunBlock(w[n - 1], n, IF n = 1 THEN p[1] ELSE p[n - 1], p[n])]
           after == CHOOSE w : IsAfter(w)
<1>9. IsAfter(f)
  <2> DEFINE value(n) == IF n = 0 THEN StartState
                         ELSE RunBlock(f[n - 1], n, IF n = 1 THEN p[1] ELSE p[n - 1], p[n])
  <2>1. ASSUME NEW k \in 0 .. m PROVE f[k] = value(k)
    <3>1. CASE k = 0
      BY <1>7, <3>1
    <3>2. CASE k # 0
      <4>1. k \in 1 .. m
        BY <1>1, <3>2
      <4>2. f[k] = RunBlock(f[k - 1], k, From(p, k), p[k])
        BY <1>8, <4>1
      <4> QED
        BY <3>2, <4>2, Zenon DEF From
    <3> QED
      BY <3>1, <3>2
  <2>2. f = [k \in 0 .. m |-> f[k]]
    BY <1>7
  <2> HIDE DEF value
  <2>3. f = [k \in 0 .. m |-> value(k)]
    BY <2>1, <2>2
  <2> QED
    BY <1>1, <2>3 DEF value
<1>10. IsAfter(after)
  <2>1. \E w : IsAfter(w)
    BY <1>9
  <2> HIDE DEF IsAfter
  <2> QED
    BY <2>1, Zenon
<1>11. RunPath(p) = after[m]
  BY <1>1 DEF RunPath, StartState
<1>12. after[m] = f[m]
  <2> DEFINE T == {k \in Nat : k <= m => after[k] = f[k]}
  <2> HIDE DEF after
  <2>1. 0 \in T
    BY <1>1, <1>7, <1>10
  <2>2. ASSUME NEW k \in Nat, k \in T PROVE k + 1 \in T
    <3>1. CASE k + 1 <= m
      <4>1. k + 1 \in 1 .. m /\ (k + 1) - 1 = k /\ k <= m /\ k + 1 # 0
            /\ k + 1 \in 0 .. Len(p)
        BY <1>1, <3>1
      <4>2. after[k] = f[k]
        BY <2>2, <4>1
      <4>3. after[k + 1] = RunBlock(after[k], k + 1, From(p, k + 1), p[k + 1])
        BY <1>10, <4>1 DEF From
      <4>4. f[k + 1] = RunBlock(f[k], k + 1, From(p, k + 1), p[k + 1])
        BY <1>8, <4>1
      <4> QED
        BY <4>2, <4>3, <4>4
    <3>2. CASE ~ (k + 1 <= m)
      BY <3>2
    <3> QED
      BY <3>1, <3>2
  <2>3. Nat \subseteq T
    <3> HIDE DEF T
    <3> QED
      BY <2>1, <2>2, SetInduction
  <2>4. m \in T
    <3> HIDE DEF T
    <3> QED
      BY <1>1, <2>3
  <2>5. m <= m
    BY <1>1
  <2> QED
    BY <2>4, <2>5
<1> HIDE DEF after
<1>13. RunPath(p) = f[m]
  BY <1>11, <1>12
<1> QED
  BY <1>7, <1>8, <1>13

\* A path of the function: it starts at the entry and follows the edges.
Follows(p) ==
    /\ p \in Seq(Block) /\ p # <<>> /\ p[1] = Entry
    /\ \A n \in 1 .. Len(p) - 1 : p[n + 1] \in Succ(succ, p[n])

\* After each block of a path the two sides agree.
LEMMA AgreesAlongPath ==
    ASSUME TypeInv, CallsInv, PhiInv, MeaningInv, pc = "done", NEW p, Follows(p)
    PROVE  RunPath(p).ok
<1>0. p \in Seq(Block) /\ Len(p) \in Nat \ {0} /\ \A n \in 1 .. Len(p) : p[n] \in Block
  BY DEF Follows
<1> PICK f : /\ f \in [0 .. Len(p) -> RunState]
             /\ f[0] = StartState
             /\ \A n \in 1 .. Len(p) : f[n] = RunBlock(f[n - 1], n, From(p, n), p[n])
             /\ RunPath(p) = f[Len(p)]
  BY <1>0, RunPathSteps
<1> DEFINE T == {n \in Nat : n + 1 <= Len(p) => /\ p[n + 1] \in Reachable(succ)
                                                /\ Agrees(f[n + 1], p[n + 1], AllOf(p[n + 1]))}
<1>1. 0 \in T
  <2>1. p[1] = Entry /\ Entry \in Reachable(succ) /\ Entry \in Block /\ 1 \in 1 .. Len(p)
    BY <1>0, ReachableType, CFGAssumption DEF Follows, TypeInv, Program
  <2>2. f[1] = RunBlock(StartState, 1, Entry, Entry)
    BY <2>1 DEF From
  <2>3. /\ StartState \in RunState
        /\ Agrees(EnterBlock(StartState, Entry, Entry), Entry, 0)
    BY StartAgrees
  <2>4. Agrees(f[1], Entry, AllOf(Entry))
    <3> PICK s, e : s = StartState /\ e = Entry
      OBVIOUS
    <3>1. s \in RunState /\ Agrees(EnterBlock(s, e, e), e, 0) /\ e \in Reachable(succ)
          /\ e \in Block /\ 1 \in Nat
      BY <2>1, <2>3
    <3>2. Agrees(RunBlock(s, 1, e, e), e, AllOf(e))
      BY ONLY TypeInv, CallsInv, MeaningInv, pc = "done", <3>1, RunBlockSpec
    <3> QED
      BY <2>2, <3>2
  <2> QED
    BY <2>1, <2>4
<1>2. ASSUME NEW n \in Nat, n \in T PROVE n + 1 \in T
  <2>1. CASE (n + 1) + 1 <= Len(p)
    <3> PICK k, a, b, r : k = n + 1 /\ a = p[k] /\ b = p[k + 1] /\ r = f[k]
      OBVIOUS
    <3>1. /\ k \in Nat /\ k + 1 \in 1 .. Len(p) /\ k \in 1 .. Len(p) - 1 /\ k + 1 # 1
          /\ (k + 1) - 1 = k /\ n + 1 <= Len(p) /\ k \in 0 .. Len(p) /\ k + 1 \in Nat
      BY <1>0, <2>1
    <3>2. a \in Reachable(succ) /\ Agrees(r, a, AllOf(a)) /\ r \in RunState
      BY <1>2, <3>1
    <3>3. a \in Block /\ b \in Block /\ b \in Succ(succ, a)
      BY <1>0, <3>1 DEF Follows
    <3>4. WellFormedCFG(succ)
      BY DEF TypeInv, Program
    <3>5. b \in Reachable(succ) /\ a \in Pre(succ, b)
      BY <3>2, <3>3, <3>4, ReachableStep DEF Pre
    <3>6. f[k + 1] = RunBlock(r, k + 1, a, b)
      <4>1. From(p, k + 1) = a
        BY <3>1 DEF From
      <4> QED
        BY <3>1, <4>1
    <3>7. Agrees(EnterBlock(r, a, b), b, 0)
      BY ONLY TypeInv, CallsInv, PhiInv, MeaningInv, pc = "done", <3>2, <3>5, AgreesEnter
    <3>8. Agrees(RunBlock(r, k + 1, a, b), b, AllOf(b))
      BY ONLY TypeInv, CallsInv, MeaningInv, pc = "done", <3>1, <3>2, <3>3, <3>5, <3>7,
              RunBlockSpec
    <3> QED
      BY <3>1, <3>5, <3>6, <3>8
  <2>2. CASE ~ ((n + 1) + 1 <= Len(p))
    BY <2>2
  <2> QED
    BY <2>1, <2>2
<1>3. Nat \subseteq T
  <2> HIDE DEF T
  <2> QED
    BY <1>1, <1>2, SetInduction
<1>4. Len(p) - 1 \in T
  <2>1. Len(p) - 1 \in Nat
    BY <1>0
  <2> HIDE DEF T
  <2> QED
    BY <1>3, <2>1
<1>5. (Len(p) - 1) + 1 = Len(p) /\ Len(p) <= Len(p)
  BY <1>0
<1>6. Agrees(f[Len(p)], p[Len(p)], AllOf(p[Len(p)]))
  BY <1>4, <1>5
<1> QED
  BY <1>6, Zenon DEF Agrees

\* Every path SamePathValues looks at starts at the entry and follows the edges.
LEMMA PathsFollow == ASSUME TypeInv PROVE \A p \in Paths : Follows(p)
<1> DEFINE Longer(P) == P \cup UNION {{Append(p, b) : b \in Succ(succ, p[Len(p)])} : p \in P}
           IsUpTo(w) == w = [n \in 1 .. MaxPath |->
               IF n = 1 THEN {<<Entry>>}
               ELSE LET shorter == w[n - 1]
                    IN  shorter \cup UNION {{Append(p, b) : b \in Succ(succ, p[Len(p)])}
                                            : p \in shorter}]
           upTo == CHOOSE w : IsUpTo(w)
           All == {p \in Seq(Block) : Follows(p)}
<1>1. MaxPath \in Nat \ {0}
  BY MaxPathAssumption
<1>2. <<Entry>> \in All
  <2>1. <<Entry>> \in Seq(Block) /\ Len(<<Entry>>) = 1 /\ <<Entry>>[1] = Entry
    BY CFGAssumption
  <2>2. 1 .. Len(<<Entry>>) - 1 = {}
    BY <2>1
  <2> QED
    BY <2>1, <2>2 DEF Follows
<1>3. ASSUME NEW p \in All, NEW b \in Succ(succ, p[Len(p)]) PROVE Append(p, b) \in All
  <2> PICK m, q : m = Len(p) /\ q = Append(p, b)
    OBVIOUS
  <2>1. /\ p \in Seq(Block) /\ m \in Nat \ {0} /\ p[1] = Entry /\ m \in 1 .. m
        /\ \A n \in 1 .. m - 1 : p[n + 1] \in Succ(succ, p[n])
    BY DEF Follows
  <2>2. b \in Block
    <3>1. p[m] \in Block /\ succ[p[m]] \in Seq(Block \ {Entry})
      BY <2>1 DEF TypeInv, Program, WellFormedCFG
    <3> QED
      BY <3>1 DEF Succ
  <2>3. q \in Seq(Block) /\ Len(q) = m + 1 /\ q[m + 1] = b /\ \A n \in 1 .. m : q[n] = p[n]
    BY <2>1, <2>2
  <2>4. ASSUME NEW n \in 1 .. Len(q) - 1 PROVE q[n + 1] \in Succ(succ, q[n])
    <3>1. n \in 1 .. m /\ (n = m \/ (n \in 1 .. m - 1 /\ n + 1 \in 1 .. m))
      BY <2>1, <2>3
    <3> QED
      BY <2>1, <2>3, <3>1
  <2>5. q # <<>> /\ q[1] = Entry
    <3>1. 1 \in 1 .. m
      BY <2>1
    <3> QED
      BY <2>1, <2>3, <3>1
  <2>6. q \in All
    BY <2>3, <2>4, <2>5 DEF Follows
  <2> QED
    BY <2>6
<1>4. ASSUME NEW P \in SUBSET All PROVE Longer(P) \in SUBSET All
  <2> HIDE DEF All
  <2> SUFFICES ASSUME NEW q \in Longer(P), q \notin P PROVE q \in All
    OBVIOUS
  <2>1. PICK p \in P : q \in {Append(p, b) : b \in Succ(succ, p[Len(p)])}
    OBVIOUS
  <2>2. PICK b \in Succ(succ, p[Len(p)]) : q = Append(p, b)
    BY <2>1
  <2> QED
    BY <1>3, <2>2
<1> HIDE DEF All
<1> DEFINE step == [z \in Nat \X SUBSET All |-> Longer(z[2])]
<1>5. step \in [Nat \X SUBSET All -> SUBSET All]
  <2> HIDE DEF Longer
  <2> QED
    BY <1>4
<1>6. {<<Entry>>} \in SUBSET All
  BY <1>2
<1>7. PICK g : Iterates(g, SUBSET All, {<<Entry>>}, step)
  <2> HIDE DEF step
  <2> QED
    BY <1>5, <1>6, Iteration
<1>8. /\ g \in [Nat -> SUBSET All] /\ g[0] = {<<Entry>>}
      /\ \A n \in Nat : g[n + 1] = Longer(g[n])
  <2>1. /\ g \in [Nat -> SUBSET All] /\ g[0] = {<<Entry>>}
        /\ \A n \in Nat : g[n + 1] = step[<<n, g[n]>>]
    BY <1>7 DEF Iterates
  <2> HIDE DEF Longer
  <2> QED
    BY <2>1
<1> HIDE DEF step
<1> PICK f : f = [n \in 1 .. MaxPath |-> g[n - 1]]
  OBVIOUS
<1>9. \A n \in 1 .. MaxPath : f[n] = g[n - 1]
  OBVIOUS
<1>10. IsUpTo(f)
  <2> DEFINE value(n) == IF n = 1 THEN {<<Entry>>} ELSE Longer(f[n - 1])
  <2>1. ASSUME NEW n \in 1 .. MaxPath PROVE g[n - 1] = value(n)
    <3>1. CASE n = 1
      BY <1>8, <3>1
    <3>2. CASE n # 1
      <4> PICK k : k = n - 1
        OBVIOUS
      <4>1. k \in 1 .. MaxPath /\ k - 1 \in Nat /\ (k - 1) + 1 = k
        BY <1>1, <3>2
      <4>2. f[k] = g[k - 1] /\ g[k] = Longer(g[k - 1])
        <5> HIDE DEF Longer
        <5> QED
          BY <1>8, <1>9, <4>1
      <4>3. g[k] = Longer(f[k])
        BY <4>2
      <4> HIDE DEF Longer
      <4> QED
        BY <3>2, <4>3
    <3> QED
      BY <3>1, <3>2
  <2>2. f = [n \in 1 .. MaxPath |-> value(n)]
    <3> HIDE DEF value
    <3> QED
      BY <2>1
  <2> QED
    BY <2>2
<1>11. IsUpTo(upTo)
  <2> HIDE DEF IsUpTo
  <2>1. \E w : IsUpTo(w)
    BY <1>10
  <2> QED
    BY <2>1, Zenon
<1>12. Paths = upTo[MaxPath]
  BY DEF Paths
<1> DEFINE T == {n \in Nat : n + 1 <= MaxPath => upTo[n + 1] \in SUBSET All}
<1>13. 0 \in T
  <2> HIDE DEF upTo
  <2>1. 1 \in 1 .. MaxPath
    BY <1>1
  <2>2. upTo[1] = {<<Entry>>}
    BY <1>11, <2>1
  <2> QED
    BY <1>6, <2>2
<1>14. ASSUME NEW n \in Nat, n \in T PROVE n + 1 \in T
  <2> HIDE DEF upTo
  <2>1. CASE (n + 1) + 1 <= MaxPath
    <3> PICK k : k = n + 1
      OBVIOUS
    <3>1. /\ k + 1 \in 1 .. MaxPath /\ k + 1 # 1 /\ (k + 1) - 1 = k /\ n + 1 <= MaxPath
          /\ k \in Nat
      BY <1>1, <2>1
    <3>2. upTo[k + 1] = Longer(upTo[k])
      BY <1>11, <3>1
    <3>3. upTo[k] \in SUBSET All
      BY <1>14, <3>1
    <3>4. Longer(upTo[k]) \in SUBSET All
      <4> HIDE DEF Longer
      <4> QED
        BY <1>4, <3>3
    <3>5. upTo[k + 1] \in SUBSET All
      <4> HIDE DEF Longer
      <4> QED
        BY <3>2, <3>4
    <3> QED
      BY <3>1, <3>5
  <2>2. CASE ~ ((n + 1) + 1 <= MaxPath)
    BY <2>2
  <2> QED
    BY <2>1, <2>2
<1> HIDE DEF upTo
<1>15. Nat \subseteq T
  <2> HIDE DEF T
  <2> QED
    BY <1>13, <1>14, SetInduction
<1>16. upTo[MaxPath] \in SUBSET All
  <2> PICK n : n = MaxPath - 1
    OBVIOUS
  <2>1. n \in Nat /\ n + 1 = MaxPath /\ n + 1 <= MaxPath
    BY <1>1
  <2>2. n \in T
    <3> HIDE DEF T
    <3> QED
      BY <1>15, <2>1
  <2> QED
    BY <2>1, <2>2
<1> QED
  BY <1>12, <1>16 DEF All

\* The inductive invariant gives the property.
LEMMA MeaningMeans ==
    ASSUME TypeInv, CallsInv, PhiInv, MeaningInv PROVE SamePathValues
<1> SUFFICES ASSUME pc = "done", NEW p \in Paths PROVE RunPath(p).ok
  BY DEF SamePathValues
<1>1. Follows(p)
  BY PathsFollow
<1> QED
  BY <1>1, AgreesAlongPath

\* MaxPath bounds only how far the runs look: for every one of its values, and
\* for every function, all loads of a path find, after Mem2Reg::run, the value
\* they found in memory before it.  What a variable holds at a place is put in
\* terms of dominance (Current: what its stores and its phi give in the nearest
\* dominator that gives anything); the phis of generate_phi make that the same
\* along every edge (PlacedInv), the tops of re_name's stacks follow it
\* (TopsInv), and so do the loads, stores and operands it has passed (LoadsInv,
\* StoresInv, OperandsInv).
THEOREM Mem2RegSamePathValues == Spec => []SamePathValues
<1> DEFINE IInv == TypeInv /\ CallsInv /\ FreshInv /\ BalanceInv /\ PhiInv /\ MeaningInv
<1>1. Init => IInv
  BY TypeInit, CallsInit, FreshInit, BalanceInit, PhiInit, PlacedInit, TopsInit, LoadsInit,
     StoresInit, OperandsInit DEF MeaningInv
<1>2. ASSUME IInv, Next PROVE IInv'
  <2>1. TypeInv' /\ CallsInv' /\ FreshInv' /\ PhiInv'
    BY <1>2, TypeStep, CallsStep, FreshStep, PhiStep
  <2>2. BalanceInv'
    BY <1>2, <2>1, BalanceStep
  <2>3. PlacedInv' /\ StoresInv' /\ LoadsInv'
    BY <1>2, <2>1, PlacedStep, StoresStep, LoadsStep DEF MeaningInv
  <2>4. TopsInv'
    BY <1>2, <2>1, <2>2, TopsStep DEF MeaningInv
  <2>5. OperandsInv'
    BY <1>2, <2>1, OperandsStep DEF MeaningInv
  <2> QED
    BY <2>1, <2>2, <2>3, <2>4, <2>5 DEF MeaningInv
<1>3. ASSUME IInv, UNCHANGED vars PROVE IInv'
  BY <1>3, TypeStutter, CallsStutter, FreshStutter, BalanceStutter, PhiStutter, MeaningStutter
<1>4. IInv /\ [Next]_vars => IInv'
  BY <1>2, <1>3
<1>5. IInv => SamePathValues
  BY MeaningMeans
<1> QED
  BY <1>1, <1>4, <1>5, PTL DEF Spec
=============================================================================
