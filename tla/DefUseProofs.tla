---------------------------- MODULE DefUseProofs ----------------------------
(***************************************************************************)
(* Proof that the def-use and use-def chains agree in every reachable      *)
(* state, for any sets of values and users and any bound on operands.      *)
(***************************************************************************)
EXTENDS DefUse, TLAPS

\* Slots at and beyond num_ops_ of an attached user are null.
TailIsNull ==
    \A u \in User, i \in Slot :
        state[u] = "attached" /\ i >= num_ops[u] => operands[u][i] = Null

\* ChainsAgree, for values not constructed yet as well: nothing uses them.
AllChainsAgree ==
    \A v \in Value, u \in User, i \in Slot :
        (v \in User => state[v] # "freed")
            => uses[v][u][i] =
                 IF state[u] = "attached" /\ operands[u][i] = v THEN 1 ELSE 0

\* The inductive invariant.
IInv == TypeOK /\ TailIsNull /\ AllChainsAgree

\* The counts with which the constructors and primitives work stay natural.
LEMMA SlotNat == ASSUME NEW i \in Slot PROVE i \in Nat /\ i < MaxOps
BY DefUseAssumption DEF Slot

\* A freshly initialised module satisfies the invariant.
LEMMA InitIInv == Init => IInv
<1> SUFFICES ASSUME Init PROVE IInv
  OBVIOUS
<1>1. TypeOK
  BY DefUseAssumption DEF Init, TypeOK, NoUses
<1>2. TailIsNull
  BY DEF Init, TailIsNull
<1>3. AllChainsAgree
  BY DEF Init, AllChainsAgree, NoUses
<1> QED
  BY <1>1, <1>2, <1>3 DEF IInv

\* Constructing an instruction (NewUser) keeps the invariant.
LEMMA NewUserIInv ==
    ASSUME IInv, NEW u \in User, NEW n \in 0 .. MaxOps,
           NEW ops \in [0 .. (n - 1) -> LiveValue], NewUser(u, n, ops)
    PROVE  IInv'
<1>1. TypeOK'
  <2>1. \A i \in Slot : i < n => ops[i] \in Value
    BY DefUseAssumption DEF Slot, LiveValue
  <2>2. [i \in Slot |-> IF i < n THEN ops[i] ELSE Null]
            \in [Slot -> Value \cup {Null}]
    BY <2>1
  <2>3. operands' \in [User -> [Slot -> Value \cup {Null}]]
    BY <2>2 DEF IInv, TypeOK, NewUser
  <2>4. uses' \in [Value -> [User -> [Slot -> Nat]]]
    BY DEF IInv, TypeOK, NewUser
  <2>5. /\ state' \in [User -> {"unborn", "attached", "detached", "freed"}]
        /\ num_ops' \in [User -> 0 .. MaxOps]
    BY DefUseAssumption DEF IInv, TypeOK, NewUser
  <2> QED
    BY <2>3, <2>4, <2>5 DEF TypeOK
<1>2. TailIsNull'
  BY SlotNat DEF IInv, TypeOK, TailIsNull, NewUser, Slot
<1>3. AllChainsAgree'
  <2> SUFFICES ASSUME NEW v \in Value, NEW w \in User, NEW i \in Slot,
                      v \in User => state'[v] # "freed"
               PROVE  uses'[v][w][i] =
                        IF state'[w] = "attached" /\ operands'[w][i] = v
                        THEN 1 ELSE 0
    BY DEF AllChainsAgree
  <2>1. v \in User => state[v] # "freed"
    BY DEF IInv, TypeOK, NewUser
  <2>2. uses[v][w][i] = IF state[w] = "attached" /\ operands[w][i] = v
                        THEN 1 ELSE 0
    BY <2>1 DEF IInv, AllChainsAgree
  <2>3. CASE w = u
    <3>1. uses[v][w][i] = 0
      BY <2>2, <2>3 DEF NewUser
    <3>2. state'[w] = "attached" /\ i \in Nat
      BY <2>3, SlotNat DEF IInv, TypeOK, NewUser
    <3>3. operands'[w][i] = IF i < n THEN ops[i] ELSE Null
      BY <2>3 DEF IInv, TypeOK, NewUser
    <3>4. uses'[v][w][i] = IF i < n /\ ops[i] = v THEN 1 ELSE 0
      BY <2>3, <3>1 DEF NewUser
    <3> QED
      BY <3>2, <3>3, <3>4, DefUseAssumption
  <2>4. CASE w # u
    BY <2>2, <2>4 DEF IInv, TypeOK, NewUser
  <2> QED
    BY <2>3, <2>4
<1> QED
  BY <1>1, <1>2, <1>3 DEF IInv

\* Appending an operand (AddOperand) keeps the invariant: the slot it fills
\* was null, so no list held it.
LEMMA AddOperandIInv ==
    ASSUME IInv, NEW u \in User, NEW v \in LiveValue, AddOperand(u, v)
    PROVE  IInv'
<1> DEFINE k == num_ops[u]
<1>1. k \in Slot /\ v \in Value /\ operands[u][k] = Null
  BY DefUseAssumption DEF IInv, TypeOK, TailIsNull, AddOperand, Slot, LiveValue
<1>2. TypeOK'
  <2>1. k + 1 \in 0 .. MaxOps
    BY DefUseAssumption DEF IInv, TypeOK, AddOperand
  <2>2. num_ops' \in [User -> 0 .. MaxOps]
    BY <2>1 DEF IInv, TypeOK, AddOperand
  <2>3. operands' \in [User -> [Slot -> Value \cup {Null}]]
    BY <1>1 DEF IInv, TypeOK, AddOperand
  <2>4. uses' \in [Value -> [User -> [Slot -> Nat]]]
    BY <1>1 DEF IInv, TypeOK, AddOperand
  <2> QED
    BY <2>2, <2>3, <2>4 DEF IInv, TypeOK, AddOperand
<1>3. TailIsNull'
  BY <1>1, SlotNat DEF IInv, TypeOK, TailIsNull, AddOperand
<1>4. AllChainsAgree'
  <2> SUFFICES ASSUME NEW x \in Value, NEW w \in User, NEW i \in Slot,
                      x \in User => state'[x] # "freed"
               PROVE  uses'[x][w][i] =
                        IF state'[w] = "attached" /\ operands'[w][i] = x
                        THEN 1 ELSE 0
    BY DEF AllChainsAgree
  <2>1. uses[x][w][i] = IF state[w] = "attached" /\ operands[w][i] = x
                        THEN 1 ELSE 0
    BY DEF IInv, AllChainsAgree, AddOperand
  <2>2. CASE w = u /\ i = k
    <3>1. uses[x][w][i] = 0
      BY <1>1, <2>1, <2>2, DefUseAssumption
    <3>2. operands'[w][i] = v /\ state'[w] = "attached"
      BY <1>1, <2>2 DEF IInv, TypeOK, AddOperand
    <3>3. uses'[x][w][i] = IF x = v THEN 1 ELSE 0
      BY <1>1, <2>2, <3>1 DEF IInv, TypeOK, AddOperand
    <3> QED
      BY <3>2, <3>3
  <2>3. CASE ~ (w = u /\ i = k)
    <3>1. operands'[w][i] = operands[w][i] /\ state'[w] = state[w]
      BY <1>1, <2>3 DEF IInv, TypeOK, AddOperand
    <3>2. uses'[x][w][i] = uses[x][w][i]
      BY <1>1, <2>3 DEF IInv, TypeOK, AddOperand
    <3> QED
      BY <2>1, <3>1, <3>2
  <2> QED
    BY <2>2, <2>3
<1> QED
  BY <1>2, <1>3, <1>4 DEF IInv

\* Moving uses from one value to another keeps the invariant; this is where a
\* set_operand without the matching add_use, or a use left behind, would show.
LEMMA MoveUsesIInv ==
    ASSUME IInv, NEW v \in LiveValue, NEW w \in LiveValue,
           NEW P \in SUBSET User, MoveUses(v, w, P)
    PROVE  IInv'
<1> USE DEF LiveValue
<1>1. TypeOK'
  <2>1. operands' \in [User -> [Slot -> Value \cup {Null}]]
    BY DEF IInv, TypeOK, MoveUses
  <2>2. uses' \in [Value -> [User -> [Slot -> Nat]]]
    BY DEF IInv, TypeOK, MoveUses
  <2> QED
    BY <2>1, <2>2 DEF IInv, TypeOK, MoveUses
<1>2. /\ v \in User => state[v] # "freed"
      /\ w \in User => state[w] # "freed"
  BY DEF Live
<1>3. \A u \in User, i \in Slot :
         uses[v][u][i] = IF state[u] = "attached" /\ operands[u][i] = v
                         THEN 1 ELSE 0
  BY <1>2 DEF IInv, AllChainsAgree
<1>4. TailIsNull'
  <2> SUFFICES ASSUME NEW u \in User, NEW i \in Slot,
                      state'[u] = "attached", i >= num_ops'[u]
               PROVE  operands'[u][i] = Null
    BY DEF TailIsNull
  <2>1. operands[u][i] = Null
    BY DEF IInv, TailIsNull, MoveUses
  <2>2. uses[v][u][i] = 0
    BY <1>3, <2>1, DefUseAssumption
  <2> QED
    BY <2>1, <2>2 DEF MoveUses
<1>5. AllChainsAgree'
  <2> SUFFICES ASSUME NEW x \in Value, NEW u \in User, NEW i \in Slot,
                      x \in User => state'[x] # "freed"
               PROVE  uses'[x][u][i] =
                        IF state'[u] = "attached" /\ operands'[u][i] = x
                        THEN 1 ELSE 0
    BY DEF AllChainsAgree
  <2>1. uses[x][u][i] = IF state[u] = "attached" /\ operands[u][i] = x
                        THEN 1 ELSE 0
    BY DEF IInv, AllChainsAgree, MoveUses
  <2>2. state'[u] = state[u]
    BY DEF MoveUses
  <2>3. uses[v][u][i] = IF state[u] = "attached" /\ operands[u][i] = v
                        THEN 1 ELSE 0
    BY <1>3
  <2>4. CASE u \notin P
    <3>1. operands'[u][i] = operands[u][i]
      BY <2>4 DEF MoveUses
    <3>2. uses'[x][u][i] = uses[x][u][i]
      BY <2>4 DEF MoveUses
    <3> QED
      BY <2>1, <2>2, <3>1, <3>2
  <2>5. CASE u \in P
    <3>1. operands'[u][i] = IF uses[v][u][i] > 0 THEN w ELSE operands[u][i]
      BY <2>5 DEF MoveUses
    <3>2. uses'[x][u][i] = IF x = v THEN 0
                           ELSE IF x = w THEN uses[w][u][i] + uses[v][u][i]
                           ELSE uses[x][u][i]
      BY <2>5 DEF MoveUses
    <3>3. v # w
      BY DEF MoveUses
    <3> QED
      BY <2>1, <2>2, <2>3, <3>1, <3>2, <3>3
  <2> QED
    BY <2>4, <2>5
<1> QED
  BY <1>1, <1>4, <1>5 DEF IInv

\* Dropping the uses of u empties exactly the entries of u in every list.
LEMMA UsesWithoutEntry ==
    ASSUME IInv, NEW u \in User, state[u] = "attached",
           NEW x \in Value, NEW w \in User, NEW i \in Slot,
           x \in User => state[x] # "freed"
    PROVE  /\ UsesWithout(u) \in [Value -> [User -> [Slot -> Nat]]]
           /\ UsesWithout(u)[x][w][i] = IF w = u THEN 0 ELSE uses[x][w][i]
<1>1. UsesWithout(u) \in [Value -> [User -> [Slot -> Nat]]]
  BY DEF IInv, TypeOK, UsesWithout
<1>2. uses[x][w][i] = IF state[w] = "attached" /\ operands[w][i] = x
                      THEN 1 ELSE 0
  BY DEF IInv, AllChainsAgree
<1>3. CASE w = u
  <2>1. CASE \E j \in Slot : operands[u][j] = x
    BY <1>1, <1>3, <2>1 DEF IInv, TypeOK, UsesWithout
  <2>2. CASE ~ \E j \in Slot : operands[u][j] = x
    BY <1>1, <1>2, <1>3, <2>2 DEF UsesWithout
  <2> QED
    BY <2>1, <2>2
<1>4. CASE w # u
  BY <1>4 DEF IInv, TypeOK, UsesWithout
<1> QED
  BY <1>1, <1>3, <1>4

\* remove_use_of_ops keeps the invariant.
LEMMA RemoveUseOfOpsIInv ==
    ASSUME IInv, NEW u \in User, remove_use_of_ops(u)
    PROVE  IInv'
<1>1. TypeOK' /\ TailIsNull'
  BY DEF IInv, TypeOK, TailIsNull, remove_use_of_ops, UsesWithout
<1>2. AllChainsAgree'
  <2> SUFFICES ASSUME NEW x \in Value, NEW w \in User, NEW i \in Slot,
                      x \in User => state'[x] # "freed"
               PROVE  uses'[x][w][i] =
                        IF state'[w] = "attached" /\ operands'[w][i] = x
                        THEN 1 ELSE 0
    BY DEF AllChainsAgree
  <2>1. /\ x \in User => state[x] # "freed"
        /\ state[u] = "attached"
        /\ state'[w] = IF w = u THEN "detached" ELSE state[w]
        /\ operands' = operands
    BY DEF IInv, TypeOK, remove_use_of_ops
  <2>2. uses'[x][w][i] = IF w = u THEN 0 ELSE uses[x][w][i]
    BY <2>1, UsesWithoutEntry DEF remove_use_of_ops
  <2>3. uses[x][w][i] = IF state[w] = "attached" /\ operands[w][i] = x
                        THEN 1 ELSE 0
    BY <2>1 DEF IInv, AllChainsAgree
  <2> QED
    BY <2>1, <2>2, <2>3
<1> QED
  BY <1>1, <1>2 DEF IInv

\* Freeing a detached user keeps the invariant: no list names it any more.
LEMMA FreeIInv ==
    ASSUME IInv, NEW u \in User, Free(u)
    PROVE  IInv'
<1>1. TypeOK' /\ TailIsNull'
  BY DEF IInv, TypeOK, TailIsNull, Free, NoUses
<1>2. AllChainsAgree'
  <2> SUFFICES ASSUME NEW x \in Value, NEW w \in User, NEW i \in Slot,
                      x \in User => state'[x] # "freed"
               PROVE  uses'[x][w][i] =
                        IF state'[w] = "attached" /\ operands'[w][i] = x
                        THEN 1 ELSE 0
    BY DEF AllChainsAgree
  <2>1. x # u /\ (x \in User => state[x] # "freed")
    BY DEF IInv, TypeOK, Free
  <2>2. uses'[x] = uses[x]
    BY <2>1 DEF IInv, TypeOK, Free
  <2>3. state'[w] = "attached" <=> state[w] = "attached"
    BY DEF IInv, TypeOK, Free
  <2> QED
    BY <2>1, <2>2, <2>3 DEF IInv, AllChainsAgree, Free
<1> QED
  BY <1>1, <1>2 DEF IInv

\* erase_instr keeps the invariant.
LEMMA EraseInstrIInv ==
    ASSUME IInv, NEW u \in User, erase_instr(u)
    PROVE  IInv'
<1>1. TypeOK' /\ TailIsNull'
  BY DEF IInv, TypeOK, TailIsNull, erase_instr, UsesWithout, NoUses
<1>2. AllChainsAgree'
  <2> SUFFICES ASSUME NEW x \in Value, NEW w \in User, NEW i \in Slot,
                      x \in User => state'[x] # "freed"
               PROVE  uses'[x][w][i] =
                        IF state'[w] = "attached" /\ operands'[w][i] = x
                        THEN 1 ELSE 0
    BY DEF AllChainsAgree
  <2>1. /\ x # u
        /\ x \in User => state[x] # "freed"
        /\ state[u] = "attached"
        /\ state'[w] = IF w = u THEN "freed" ELSE state[w]
        /\ operands' = operands
    BY DEF IInv, TypeOK, erase_instr
  <2>2. uses'[x] = UsesWithout(u)[x]
    BY <2>1 DEF erase_instr, UsesWithout
  <2>3. UsesWithout(u)[x][w][i] = IF w = u THEN 0 ELSE uses[x][w][i]
    BY <2>1, UsesWithoutEntry
  <2>4. uses[x][w][i] = IF state[w] = "attached" /\ operands[w][i] = x
                        THEN 1 ELSE 0
    BY <2>1 DEF IInv, AllChainsAgree
  <2> QED
    BY <2>1, <2>2, <2>3, <2>4
<1> QED
  BY <1>1, <1>2 DEF IInv

-----------------------------------------------------------------------------
\* Every step keeps the invariant.
LEMMA NextIInv == IInv /\ [Next]_vars => IInv'
<1> SUFFICES ASSUME IInv, [Next]_vars PROVE IInv'
  OBVIOUS
<1>1. ASSUME NEW u \in User, NEW n \in 0 .. MaxOps,
             NEW ops \in [0 .. (n - 1) -> LiveValue], NewUser(u, n, ops)
      PROVE  IInv'
  BY <1>1, NewUserIInv
<1>2. ASSUME NEW u \in User, NEW v \in LiveValue, AddOperand(u, v)
      PROVE  IInv'
  BY <1>2, AddOperandIInv
<1>3. ASSUME NEW v \in LiveValue, NEW w \in LiveValue,
             replace_all_use_with(v, w)
      PROVE  IInv'
  BY <1>3, MoveUsesIInv DEF replace_all_use_with
<1>4. ASSUME NEW v \in LiveValue, NEW w \in LiveValue, NEW P \in SUBSET User,
             replace_use_with_when(v, w, P)
      PROVE  IInv'
  BY <1>4, MoveUsesIInv DEF replace_use_with_when
<1>5. ASSUME NEW u \in User, remove_use_of_ops(u)
      PROVE  IInv'
  BY <1>5, RemoveUseOfOpsIInv
<1>6. ASSUME NEW u \in User, Free(u)
      PROVE  IInv'
  BY <1>6, FreeIInv
<1>7. ASSUME NEW u \in User, erase_instr(u)
      PROVE  IInv'
  BY <1>7, EraseInstrIInv
<1>8. CASE UNCHANGED vars
  BY <1>8 DEF vars, IInv, TypeOK, TailIsNull, AllChainsAgree
<1> QED
  BY <1>1, <1>2, <1>3, <1>4, <1>5, <1>6, <1>7, <1>8 DEF Next

\* The variables keep their types: in particular no use is ever counted below
\* zero and no operand is anything but a value or null.
THEOREM TypeCorrect == Spec => []TypeOK
<1>1. IInv => TypeOK
  BY DEF IInv
<1> QED
  BY InitIInv, NextIInv, <1>1, PTL DEF Spec

\* The def-use and use-def chains of LightIR always agree.
THEOREM ChainsCorrect == Spec => []ChainsAgree
<1>1. IInv => ChainsAgree
  BY DEF IInv, AllChainsAgree, ChainsAgree, LiveValue, Live
<1> QED
  BY InitIInv, NextIInv, <1>1, PTL DEF Spec

\* A step makes an operand dangle only if it frees a value still in use.
LEMMA NoNewDangling ==
    ASSUME IInv, [Next]_vars, NEW u \in User, NEW i \in Slot,
           Dangles(u, i)', ~ Dangles(u, i)
    PROVE  ~ Unused(operands[u][i]) /\ state[operands[u][i]] # "freed"
<1>1. IInv'
  BY NextIInv
<1>2. state'[u] = "attached" /\ operands'[u][i] \in User
      /\ state'[operands'[u][i]] = "freed"
  BY DEF Dangles
<1> DEFINE x == operands'[u][i]
<1>3. CASE \/ \E w \in User : Free(w)
           \/ \E w \in User : erase_instr(w)
  <2>1. operands' = operands
    BY <1>3 DEF Free, erase_instr
  <2>2. state[u] = "attached"
    BY <1>2, <1>3 DEF Free, erase_instr, IInv, TypeOK
  <2>3. state[x] # "freed"
    BY <1>2, <2>1, <2>2 DEF Dangles
  <2>4. x \in Value /\ uses[x][u][i] = 1
    BY <1>2, <2>1, <2>2, <2>3, DefUseAssumption DEF IInv, AllChainsAgree
  <2> QED
    BY <2>1, <2>3, <2>4 DEF Unused
<1>4. ASSUME state' = state, NEW w \in LiveValue,
             operands'[u][i] \in {operands[u][i], w}
      PROVE  FALSE
  <2>1. w \in User => state[w] # "freed"
    BY DEF LiveValue, Live
  <2> QED
    BY <1>2, <1>4, <2>1 DEF Dangles
<1>5. ASSUME NEW y \in User, NEW n \in 0 .. MaxOps,
             NEW ops \in [0 .. (n - 1) -> LiveValue], NewUser(y, n, ops)
      PROVE  FALSE
  <2>1. x # y /\ state[x] = "freed"
    BY <1>2, <1>5 DEF NewUser, IInv, TypeOK
  <2>2. CASE u = y
    <3>1. operands'[u][i] = IF i < n THEN ops[i] ELSE Null
      BY <1>5, <2>2 DEF NewUser, IInv, TypeOK
    <3>2. i < n => ops[i] \in LiveValue
      BY <1>5, SlotNat
    <3> QED
      BY <1>2, <2>1, <3>1, <3>2, DefUseAssumption DEF LiveValue, Live
  <2>3. CASE u # y
    BY <1>2, <1>5, <2>1, <2>3 DEF NewUser, IInv, TypeOK, Dangles
  <2> QED
    BY <2>2, <2>3
<1>6. ASSUME NEW y \in User, NEW v \in LiveValue, AddOperand(y, v)
      PROVE  FALSE
  <2>1. state' = state /\ operands'[u][i] \in {operands[u][i], v}
    BY <1>6 DEF AddOperand, IInv, TypeOK
  <2> QED
    BY <1>4, <2>1
<1>7. ASSUME NEW v \in LiveValue, NEW w \in LiveValue, NEW P \in SUBSET User,
             MoveUses(v, w, P)
      PROVE  FALSE
  <2>1. state' = state /\ operands'[u][i] \in {operands[u][i], w}
    BY <1>7 DEF MoveUses
  <2> QED
    BY <1>4, <2>1
<1>8. ASSUME NEW y \in User, remove_use_of_ops(y)
      PROVE  FALSE
  BY <1>2, <1>8 DEF remove_use_of_ops, Dangles, IInv, TypeOK
<1>9. CASE UNCHANGED vars
  BY <1>2, <1>9 DEF vars, Dangles
<1> QED
  BY <1>3, <1>5, <1>6, <1>7, <1>8, <1>9
     DEF Next, replace_all_use_with, replace_use_with_when

\* Operands dangle only because a value that was still used was erased.
THEOREM DanglingCorrect == Spec => DanglingOnlyFromUsedErase
<1>1. IInv /\ [Next]_vars
        => [\A u \in User, i \in Slot :
              Dangles(u, i)' /\ ~ Dangles(u, i)
                => /\ ~ Unused(operands[u][i])
                   /\ state[operands[u][i]] # "freed"]_vars
  BY NoNewDangling
<1> QED
  BY InitIInv, NextIInv, <1>1, PTL DEF Spec, DanglingOnlyFromUsedErase

-----------------------------------------------------------------------------
\* A user that exists is attached or detached, as it is.
LEMMA LifeOf ==
    IInv => \A u \in User : /\ LifeNow[u] = "absent" <=> state[u] \in {"unborn", "freed"}
                            /\ LifeNow[u] = "attached" <=> state[u] = "attached"
                            /\ LifeNow[u] = "detached" <=> state[u] = "detached"
BY DefUseAssumption DEF IInv, TypeOK, LifeNow, Live

\* What exists is what may be named.
LEMMA ExistingIsLive == C!Existing(LifeNow) = LiveValue
BY DEF C!Existing, LifeNow, LiveValue, Live

\* The lists name exactly the readers.
UsersRight == UsersNow = C!UsersOf(LifeNow, ReadNow)

LEMMA UsersFollow == IInv => UsersRight
<1> SUFFICES ASSUME IInv PROVE UsersNow = C!UsersOf(LifeNow, ReadNow)
  BY DEF UsersRight
<1>1. ASSUME NEW v \in LiveValue
      PROVE  UsersNow[v] = {u \in User : v \in ReadNow[u]}
  <2>1. Live(v) /\ v \in Value /\ (v \in User => state[v] # "freed") /\ v # Null
    BY DefUseAssumption DEF LiveValue, Live
  <2>2. ASSUME NEW u \in User, NEW i \in Slot
        PROVE  uses[v][u][i] > 0 <=> state[u] = "attached" /\ operands[u][i] = v
    <3>1. uses[v][u][i] = IF state[u] = "attached" /\ operands[u][i] = v THEN 1 ELSE 0
      BY <2>1 DEF IInv, AllChainsAgree
    <3> QED
      BY <3>1
  <2>3. \A u \in User : v \in ReadNow[u]
            <=> state[u] = "attached" /\ \E i \in Slot : operands[u][i] = v
    BY <2>1 DEF ReadNow
  <2> QED
    BY <2>1, <2>2, <2>3 DEF UsersNow
<1>2. \A v \in Value : v \notin LiveValue => UsersNow[v] = {}
  BY DEF UsersNow, LiveValue
<1> QED
  BY <1>1, <1>2, ExistingIsLive DEF UsersNow, C!UsersOf

LEMMA UsersFollowNext == IInv' => UsersRight'
BY UsersFollow, PTL

\* A step whose lives and reads are those of the abstract step has its users too.
LEMMA BecomesBy ==
    ASSUME IInv', NEW l, NEW r, LifeNow' = l, ReadNow' = r
    PROVE  C!Becomes(l, r)
<1>1. UsersNow' = C!UsersOf(LifeNow', ReadNow')
  BY UsersFollowNext DEF UsersRight, C!UsersOf, C!Existing
<1> QED
  BY <1>1 DEF C!Becomes

\* A new instruction starts with the operands of its constructor.
LEMMA NewUserRefines ==
    ASSUME IInv, IInv', NEW u \in User, NEW n \in 0 .. MaxOps,
           NEW ops \in [0 .. (n - 1) -> LiveValue], NewUser(u, n, ops)
    PROVE  C!Construct(u, ReadNow'[u])
<1>1. LifeNow[u] = "absent"
  BY LifeOf DEF NewUser
<1>2. ReadNow'[u] \subseteq LiveValue
  <2>1. \A i \in Slot : i < n => ops[i] \in LiveValue
    BY SlotNat
  <2>2. \A i \in Slot : operands'[u][i] = IF i < n THEN ops[i] ELSE Null
    BY DEF NewUser, IInv, TypeOK
  <2> QED
    BY <2>1, <2>2 DEF ReadNow
<1>3. LifeNow' = [LifeNow EXCEPT ![u] = "attached"]
  BY DEF LifeNow, Live, NewUser, IInv, TypeOK
<1>4. ReadNow' = [ReadNow EXCEPT ![u] = ReadNow'[u]]
  <2>1. \A w \in User : w # u => state'[w] = state[w] /\ operands'[w] = operands[w]
    BY DEF NewUser, IInv, TypeOK
  <2>2. ASSUME NEW w \in User, w # u
        PROVE  ReadNow'[w] = ReadNow[w]
    <3>1. {operands'[w][i] : i \in Slot} = {operands[w][i] : i \in Slot} /\ state'[w] = state[w]
      BY <2>1, <2>2
    <3> QED
      BY ONLY <3>1, w \in User DEF ReadNow
  <2>3. /\ ReadNow = [w \in User |-> ReadNow[w]]
        /\ ReadNow' = [w \in User |-> ReadNow'[w]]
    BY ONLY DEF ReadNow
  <2> QED
    BY ONLY <2>2, <2>3, u \in User
<1> QED
  BY <1>1, <1>2, <1>3, <1>4, BecomesBy, ExistingIsLive DEF C!Construct

\* An operand appended is one value more that is read.
LEMMA AddOperandRefines ==
    ASSUME IInv, IInv', NEW u \in User, NEW v \in LiveValue, AddOperand(u, v)
    PROVE  C!Extend(u, v)
<1> DEFINE k == num_ops[u]
<1>1. k \in Slot /\ operands[u][k] = Null /\ v \in Value /\ v # Null
  <2>1. k \in Slot /\ v \in Value
    BY DefUseAssumption DEF IInv, TypeOK, AddOperand, Slot, LiveValue
  <2>2. state[u] = "attached" /\ k >= num_ops[u]
    BY DefUseAssumption DEF IInv, TypeOK, AddOperand
  <2> QED
    BY <2>1, <2>2, DefUseAssumption DEF IInv, TailIsNull
<1>2. LifeNow[u] = "attached" /\ LifeNow' = LifeNow
  BY LifeOf DEF AddOperand, LifeNow, Live
<1>3. ReadNow'[u] = ReadNow[u] \cup {v}
  <2>1. \A i \in Slot : operands'[u][i] = IF i = k THEN v ELSE operands[u][i]
    BY <1>1 DEF AddOperand, IInv, TypeOK
  <2>2. state[u] = "attached" /\ state'[u] = "attached"
    BY DEF AddOperand
  <2>3. ReadNow[u] = {operands[u][i] : i \in Slot} \ {Null}
    BY <2>2 DEF ReadNow
  <2>4. ReadNow'[u] = {operands'[u][i] : i \in Slot} \ {Null}
    BY <2>2 DEF ReadNow
  <2> QED
    BY <1>1, <2>1, <2>3, <2>4
<1>4. \A w \in User : w # u => ReadNow'[w] = ReadNow[w]
  BY DEF ReadNow, AddOperand, IInv, TypeOK
<1>5. ReadNow' = [ReadNow EXCEPT ![u] = ReadNow[u] \cup {v}]
  BY <1>3, <1>4 DEF ReadNow
<1> QED
  BY <1>2, <1>5, BecomesBy, ExistingIsLive DEF C!Extend

\* Moving the uses that a list holds moves what the operands say is read.
LEMMA MoveUsesRefines ==
    ASSUME IInv, IInv', NEW v \in LiveValue, NEW w \in LiveValue,
           NEW P \in SUBSET User, MoveUses(v, w, P)
    PROVE  C!Redirect(v, w, P \cap UsersNow[v])
<1> DEFINE Q == P \cap UsersNow[v]
<1>1. /\ v \in Value /\ Live(v) /\ v # Null /\ w \in Value /\ w # Null
      /\ v \in User => state[v] # "freed"
  BY DefUseAssumption DEF LiveValue, Live
<1>2. UsersNow[v] = {u \in User : v \in ReadNow[u]}
  BY <1>1, UsersFollow, ExistingIsLive DEF UsersRight, C!UsersOf
<1>3. LifeNow' = LifeNow
  BY DEF MoveUses, LifeNow, Live
<1>4. ASSUME NEW u \in User
      PROVE  ReadNow'[u] = IF u \in Q THEN (ReadNow[u] \ {v}) \cup {w} ELSE ReadNow[u]
  <2>1. state'[u] = state[u]
    BY DEF MoveUses
  <2>2. CASE state[u] # "attached"
    BY <1>1, <1>2, <2>1, <2>2 DEF ReadNow
  <2>3. CASE state[u] = "attached"
    <3>1. ReadNow[u] = {operands[u][i] : i \in Slot} \ {Null}
      BY <2>3 DEF ReadNow
    <3>2. ReadNow'[u] = {operands'[u][i] : i \in Slot} \ {Null}
      BY <2>1, <2>3 DEF ReadNow
    <3>3. \A i \in Slot : uses[v][u][i] > 0 <=> operands[u][i] = v
      <4>1. \A i \in Slot : uses[v][u][i] = IF operands[u][i] = v THEN 1 ELSE 0
        BY <1>1, <2>3 DEF IInv, AllChainsAgree
      <4> QED
        BY <4>1
    <3>4. \A i \in Slot : operands'[u][i] = IF u \in P /\ operands[u][i] = v THEN w
                                             ELSE operands[u][i]
      BY <3>3 DEF MoveUses
    <3>5. u \in Q <=> u \in P /\ \E i \in Slot : operands[u][i] = v
      BY <1>1, <1>2, <3>1
    <3> QED
      BY <1>1, <3>1, <3>2, <3>4, <3>5
  <2> QED
    BY <2>2, <2>3
<1>5. ReadNow' = [u \in User |-> IF u \in Q THEN (ReadNow[u] \ {v}) \cup {w} ELSE ReadNow[u]]
  BY <1>4 DEF ReadNow
<1>6. v # w
  BY DEF MoveUses
<1> QED
  BY <1>3, <1>5, <1>6, BecomesBy, ExistingIsLive DEF C!Redirect

\* No attached user reads an instruction that has not been built.
BuiltBeforeUse ==
    \A u \in User, i \in Slot :
        state[u] = "attached" /\ operands[u][i] \in User
            => state[operands[u][i]] # "unborn"

LEMMA NextBuilt == IInv /\ BuiltBeforeUse /\ [Next]_vars => BuiltBeforeUse'
<1> SUFFICES ASSUME IInv, BuiltBeforeUse, [Next]_vars,
                    NEW u \in User, NEW i \in Slot,
                    state'[u] = "attached", operands'[u][i] \in User
             PROVE  state'[operands'[u][i]] # "unborn"
  BY DEF BuiltBeforeUse
<1> DEFINE x == operands'[u][i]
<1>1. \A y \in User : state[y] # "unborn" => state'[y] # "unborn"
  BY DEF Next, vars, IInv, TypeOK, NewUser, AddOperand, MoveUses, remove_use_of_ops,
         Free, erase_instr, replace_all_use_with, replace_use_with_when
<1>2. \A y \in User : y \in LiveValue => state'[y] # "unborn"
  BY <1>1 DEF LiveValue, Live
<1>3. SUFFICES x \in LiveValue \/ (state[u] = "attached" /\ operands[u][i] = x)
  BY <1>1, <1>2 DEF BuiltBeforeUse
<1>4. ASSUME NEW y \in User, NEW n \in 0 .. MaxOps,
             NEW ops \in [0 .. (n - 1) -> LiveValue], NewUser(y, n, ops)
      PROVE  x \in LiveValue \/ (state[u] = "attached" /\ operands[u][i] = x)
  <2>1. CASE u = y
    <3>1. x = IF i < n THEN ops[i] ELSE Null
      BY <1>4, <2>1 DEF NewUser, IInv, TypeOK
    <3>2. i < n => ops[i] \in LiveValue
      BY <1>4, SlotNat
    <3> QED
      BY <3>1, <3>2, DefUseAssumption
  <2>2. CASE u # y
    BY <1>4, <2>2 DEF NewUser, IInv, TypeOK
  <2> QED
    BY <2>1, <2>2
<1>5. ASSUME NEW y \in User, NEW v \in LiveValue, AddOperand(y, v)
      PROVE  x \in LiveValue \/ (state[u] = "attached" /\ operands[u][i] = x)
  BY <1>5 DEF AddOperand, IInv, TypeOK
<1>6. ASSUME NEW v \in LiveValue, NEW w \in LiveValue, NEW P \in SUBSET User, MoveUses(v, w, P)
      PROVE  x \in LiveValue \/ (state[u] = "attached" /\ operands[u][i] = x)
  BY <1>6 DEF MoveUses
<1>7. ASSUME NEW y \in User, remove_use_of_ops(y) \/ Free(y) \/ erase_instr(y)
      PROVE  state[u] = "attached" /\ operands[u][i] = x
  BY <1>7 DEF remove_use_of_ops, Free, erase_instr, IInv, TypeOK
<1>8. CASE UNCHANGED vars
  BY <1>8 DEF vars
<1> QED
  BY <1>4, <1>5, <1>6, <1>7, <1>8 DEF Next, replace_all_use_with, replace_use_with_when

\* A user may drop its uses only while all it reads exists.
LEMMA ReadsExist ==
    ASSUME IInv, BuiltBeforeUse, NEW u \in User, state[u] = "attached",
           OperandsExist(u)
    PROVE  ReadNow[u] \subseteq LiveValue
<1> SUFFICES ASSUME NEW i \in Slot, operands[u][i] # Null
             PROVE  operands[u][i] \in LiveValue
  BY DEF ReadNow
<1> DEFINE x == operands[u][i]
<1>1. x \in Value
  BY DEF IInv, TypeOK
<1>2. CASE x \notin User
  BY <1>1, <1>2 DEF LiveValue, Live
<1>3. CASE x \in User
  <2>1. state[x] # "freed"
    BY <1>3 DEF OperandsExist, Dangles
  <2>2. state[x] # "unborn"
    BY <1>3 DEF BuiltBeforeUse
  <2> QED
    BY <1>1, <1>3, <2>1, <2>2 DEF LiveValue, Live, IInv, TypeOK
<1> QED
  BY <1>2, <1>3

\* remove_use_of_ops empties what the user reads.
LEMMA RemoveUseOfOpsRefines ==
    ASSUME IInv, IInv', BuiltBeforeUse, NEW u \in User, remove_use_of_ops(u)
    PROVE  C!Detach(u)
<1>1. state[u] = "attached" /\ OperandsExist(u)
  BY DEF remove_use_of_ops
<1>2. LifeNow[u] = "attached" /\ ReadNow[u] \subseteq LiveValue
  BY <1>1, LifeOf, ReadsExist
<1>3. LifeNow' = [LifeNow EXCEPT ![u] = "detached"]
  BY <1>1 DEF LifeNow, Live, remove_use_of_ops, IInv, TypeOK
<1>4. ReadNow' = [ReadNow EXCEPT ![u] = {}]
  <2>1. \A w \in User : state'[w] = "attached" <=> w # u /\ state[w] = "attached"
    BY <1>1 DEF remove_use_of_ops, IInv, TypeOK
  <2>2. operands' = operands
    BY DEF remove_use_of_ops
  <2>3. \A w \in User : ReadNow'[w] = IF w = u THEN {} ELSE ReadNow[w]
    BY <2>1, <2>2 DEF ReadNow
  <2> QED
    BY <2>3 DEF ReadNow
<1> QED
  BY <1>2, <1>3, <1>4, BecomesBy, ExistingIsLive DEF C!Detach, C!Forget

\* The destructor of a detached user.
LEMMA FreeRefines == ASSUME IInv, IInv', NEW u \in User, Free(u) PROVE C!Free(u)
<1>1. LifeNow[u] = "detached"
  BY LifeOf DEF Free
<1>2. LifeNow' = [LifeNow EXCEPT ![u] = "absent"]
  BY DEF LifeNow, Live, Free, IInv, TypeOK
<1>3. ReadNow' = ReadNow
  BY DEF ReadNow, Free, IInv, TypeOK
<1> QED
  BY <1>1, <1>2, <1>3, BecomesBy DEF C!Free

\* erase_instr does both at once.
LEMMA EraseInstrRefines ==
    ASSUME IInv, IInv', BuiltBeforeUse, NEW u \in User, erase_instr(u)
    PROVE  C!Erase(u)
<1>1. state[u] = "attached" /\ OperandsExist(u)
  BY DEF erase_instr
<1>2. LifeNow[u] = "attached" /\ ReadNow[u] \subseteq LiveValue
  BY <1>1, LifeOf, ReadsExist
<1>3. LifeNow' = [LifeNow EXCEPT ![u] = "absent"]
  BY <1>1 DEF LifeNow, Live, erase_instr, IInv, TypeOK
<1>4. ReadNow' = [ReadNow EXCEPT ![u] = {}]
  <2>1. \A w \in User : state'[w] = "attached" <=> w # u /\ state[w] = "attached"
    BY <1>1 DEF erase_instr, IInv, TypeOK
  <2>2. operands' = operands
    BY DEF erase_instr
  <2>3. \A w \in User : ReadNow'[w] = IF w = u THEN {} ELSE ReadNow[w]
    BY <2>1, <2>2 DEF ReadNow
  <2> QED
    BY <2>3 DEF ReadNow
<1> QED
  BY <1>2, <1>3, <1>4, BecomesBy, ExistingIsLive DEF C!Erase, C!Forget

LEMMA InitRefines == Init => C!Init
<1> SUFFICES ASSUME Init PROVE C!Init
  OBVIOUS
<1>1. LifeNow = [u \in User |-> "absent"]
  BY DEF Init, LifeNow, Live
<1>2. ReadNow = [u \in User |-> {}]
  BY DEF Init, ReadNow
<1>3. UsersNow = C!UsersOf(LifeNow, ReadNow)
  BY InitIInv, UsersFollow DEF UsersRight
<1> QED
  BY <1>1, <1>2, <1>3 DEF C!Init

LEMMA NextRefines ==
    IInv /\ IInv' /\ BuiltBeforeUse /\ [Next]_vars => [C!Next]_(C!chainVars)
<1> SUFFICES ASSUME IInv, IInv', BuiltBeforeUse, [Next]_vars
             PROVE  [C!Next]_(C!chainVars)
  OBVIOUS
<1>1. ASSUME NEW u \in User, NEW n \in 0 .. MaxOps,
             NEW ops \in [0 .. (n - 1) -> LiveValue], NewUser(u, n, ops)
      PROVE  C!Next
  BY <1>1, NewUserRefines DEF C!Next
<1>2. ASSUME NEW u \in User, NEW v \in LiveValue, AddOperand(u, v)
      PROVE  C!Next
  BY <1>2, AddOperandRefines DEF C!Next, LiveValue
<1>3. ASSUME NEW v \in LiveValue, NEW w \in LiveValue, NEW P \in SUBSET User,
             MoveUses(v, w, P)
      PROVE  C!Next
  <2>1. C!Redirect(v, w, P \cap UsersNow[v])
    BY <1>3, MoveUsesRefines
  <2>2. v \in Value /\ w \in Value /\ P \cap UsersNow[v] \in SUBSET UsersNow[v]
    BY DEF LiveValue
  <2> QED
    BY <2>1, <2>2 DEF C!Next
<1>4. ASSUME NEW u \in User, remove_use_of_ops(u) \/ Free(u) \/ erase_instr(u)
      PROVE  C!Next
  BY <1>4, RemoveUseOfOpsRefines, FreeRefines, EraseInstrRefines DEF C!Next
<1>5. CASE UNCHANGED vars
  BY <1>5 DEF vars, C!chainVars, LifeNow, ReadNow, UsersNow, Live
<1> QED
  BY <1>1, <1>2, <1>3, <1>4, <1>5 DEF Next, replace_all_use_with, replace_use_with_when

\* operands_ and use_list_, kept by hand in every primitive, implement one
\* relation between users and values: what a walk over a use list changes is
\* what the operands say is there, and a user drops its uses while all it reads
\* exists (Value.cpp, User.cpp, BasicBlock::erase_instr).
THEOREM DefUseImplementsChains == Spec => ImplementsChains
<1> DEFINE RInv == IInv /\ BuiltBeforeUse
<1>1. Init => RInv
  BY InitIInv DEF Init, BuiltBeforeUse
<1>2. RInv /\ [Next]_vars => RInv'
  BY NextIInv, NextBuilt
<1>3. RInv /\ RInv' /\ [Next]_vars => [C!Next]_(C!chainVars)
  BY NextRefines
<1> HIDE DEF RInv
<1> QED
  BY <1>1, <1>2, <1>3, InitRefines, PTL DEF Spec, ImplementsChains, C!Spec
=============================================================================
