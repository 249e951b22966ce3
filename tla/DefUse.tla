------------------------------- MODULE DefUse -------------------------------
(***************************************************************************)
(* The def-use and use-def chains of LightIR (lightir/Value.cpp, User.cpp  *)
(* and the erasing half of BasicBlock.cpp).                                *)
(*                                                                         *)
(* Every User keeps the vector operands_ of the values it reads (the UD    *)
(* chain); every Value keeps the list use_list_ of pairs (user, arg_no)    *)
(* (the DU chain).  Each fact is stored twice and every primitive updates  *)
(* both copies by hand.  A use list is kept here as the number of times a  *)
(* pair occurs in it: its order is abstracted, a pair pushed twice is not. *)
(***************************************************************************)
EXTENDS Naturals

CONSTANTS
    Value,      \* every Value object: users, constants, arguments, functions
    User,       \* the Users among them (instructions)
    Null,       \* nullptr
    MaxOps      \* bound on the operands of a user

ASSUME DefUseAssumption ==
    /\ User \subseteq Value
    /\ Null \notin Value
    /\ MaxOps \in Nat

VARIABLES
    state,      \* life of a user: unborn, attached, detached, freed
    num_ops,    \* num_ops_ of a user
    operands,   \* operands_ of a user, Null beyond num_ops_
    uses        \* uses[v][u][i]: occurrences of Use(u, i) in v's use_list_

vars == <<state, num_ops, operands, uses>>

Slot == 0 .. (MaxOps - 1)
NoUses == [u \in User |-> [i \in Slot |-> 0]]

\* An object that may be named: constructed and not freed.
Live(v) == v \in User => state[v] \in {"attached", "detached"}
LiveValue == {v \in Value : Live(v)}

\* v's use_list_ is empty.
Unused(v) == \A u \in User : \A i \in Slot : uses[v][u][i] = 0

TypeOK ==
    /\ state \in [User -> {"unborn", "attached", "detached", "freed"}]
    /\ num_ops \in [User -> 0 .. MaxOps]
    /\ operands \in [User -> [Slot -> Value \cup {Null}]]
    /\ uses \in [Value -> [User -> [Slot -> Nat]]]

Init ==
    /\ state = [u \in User |-> "unborn"]
    /\ num_ops = [u \in User |-> 0]
    /\ operands = [u \in User |-> [i \in Slot |-> Null]]
    /\ uses = [v \in Value |-> NoUses]

-----------------------------------------------------------------------------
\* An instruction's constructor: num_ops_ null operands, then set_operand on
\* each of them, which also pushes the use.
NewUser(u, n, ops) ==
    /\ state[u] = "unborn"
    /\ state' = [state EXCEPT ![u] = "attached"]
    /\ num_ops' = [num_ops EXCEPT ![u] = n]
    /\ operands' = [operands EXCEPT ![u] =
                       [i \in Slot |-> IF i < n THEN ops[i] ELSE Null]]
    /\ uses' = [v \in Value |-> [w \in User |-> [i \in Slot |->
                   IF w = u /\ i < n /\ ops[i] = v
                   THEN uses[v][w][i] + 1 ELSE uses[v][w][i]]]]

\* Mutant: the operand is counted by add_use's caller as well.
MutAddOperandTwice(u, v) ==
    /\ state[u] = "attached"
    /\ num_ops[u] < MaxOps
    /\ operands' = [operands EXCEPT ![u][num_ops[u]] = v]
    /\ uses' = [uses EXCEPT ![v][u][num_ops[u]] = @ + 1]
    /\ num_ops' = [num_ops EXCEPT ![u] = @ + 2]
    /\ UNCHANGED state

\* User::add_operand, how mem2reg fills its phis.
AddOperand(u, v) ==
    /\ state[u] = "attached"
    /\ num_ops[u] < MaxOps
    /\ operands' = [operands EXCEPT ![u][num_ops[u]] = v]
    /\ uses' = [uses EXCEPT ![v][u][num_ops[u]] = @ + 1]
    /\ num_ops' = [num_ops EXCEPT ![u] = @ + 1]
    /\ UNCHANGED state

\* Mutant: the operand is overwritten without add_use on the new value.
MutMoveUsesSilently(v, w, P) ==
    /\ v # w
    /\ operands' = [u \in User |-> [i \in Slot |->
           IF u \in P /\ uses[v][u][i] > 0 THEN w ELSE operands[u][i]]]
    /\ uses' = [uses EXCEPT ![v] =
           [u \in User |-> IF u \in P THEN [i \in Slot |-> 0] ELSE @[u]]]
    /\ UNCHANGED <<state, num_ops>>

\* The uses of v by a user in P move to w: set_operand on each, which pushes
\* the use on w, then the removal from v's list.  Neither primitive ends when
\* w = v (it keeps appending to the list it walks), and no caller passes it.
MoveUses(v, w, P) ==
    /\ v # w
    /\ operands' = [u \in User |-> [i \in Slot |->
           IF u \in P /\ uses[v][u][i] > 0 THEN w ELSE operands[u][i]]]
    /\ uses' = [x \in Value |-> [u \in User |-> [i \in Slot |->
           IF u \in P /\ x = v THEN 0
           ELSE IF u \in P /\ x = w THEN uses[w][u][i] + uses[v][u][i]
           ELSE uses[x][u][i]]]]
    /\ UNCHANGED <<state, num_ops>>

replace_all_use_with(v, w) == MoveUses(v, w, User)
replace_use_with_when(v, w, P) == MoveUses(v, w, P)

\* The operand of u in slot i is an object that has been freed.
Dangles(u, i) ==
    /\ state[u] = "attached"
    /\ operands[u][i] \in User
    /\ state[operands[u][i]] = "freed"

\* remove_use_of_ops may be called only while every operand still exists.
OperandsExist(u) == \A i \in Slot : ~ Dangles(u, i)

\* Mutant: remove_use erases only the first entry of the user.
MutUsesWithoutFirst(u) ==
    [v \in Value |->
        LET slots == {i \in Slot : operands[u][i] = v}
        IN  IF slots = {} THEN uses[v]
            ELSE [uses[v] EXCEPT
                     ![u][CHOOSE i \in slots : \A j \in slots : i <= j] = 0]]

\* op->remove_use(u) for every operand op of u: all entries of u leave op's list.
UsesWithout(u) ==
    [v \in Value |-> IF \E i \in Slot : operands[u][i] = v
                     THEN [uses[v] EXCEPT ![u] = [i \in Slot |-> 0]]
                     ELSE uses[v]]

\* remove_use_of_ops alone (first loop of DeadCode::sweep, delete_instr).
remove_use_of_ops(u) ==
    /\ state[u] = "attached"
    /\ OperandsExist(u)
    /\ state' = [state EXCEPT ![u] = "detached"]
    /\ uses' = UsesWithout(u)
    /\ UNCHANGED <<num_ops, operands>>

\* Erasing a detached user from the instruction list frees it (second loop of
\* DeadCode::sweep).  Nothing asks whether something still uses it.
Free(u) ==
    /\ state[u] = "detached"
    /\ state' = [state EXCEPT ![u] = "freed"]
    /\ uses' = [uses EXCEPT ![u] = NoUses]
    /\ UNCHANGED <<num_ops, operands>>

\* BasicBlock::erase_instr: both in one call.
erase_instr(u) ==
    /\ state[u] = "attached"
    /\ OperandsExist(u)
    /\ state' = [state EXCEPT ![u] = "freed"]
    /\ uses' = [UsesWithout(u) EXCEPT ![u] = NoUses]
    /\ UNCHANGED <<num_ops, operands>>

Next ==
    \/ \E u \in User, n \in 0 .. MaxOps :
          \E ops \in [0 .. (n - 1) -> LiveValue] : NewUser(u, n, ops)
    \/ \E u \in User, v \in LiveValue : AddOperand(u, v)
    \/ \E v, w \in LiveValue : replace_all_use_with(v, w)
    \/ \E v, w \in LiveValue, P \in SUBSET User : replace_use_with_when(v, w, P)
    \/ \E u \in User : remove_use_of_ops(u)
    \/ \E u \in User : Free(u)
    \/ \E u \in User : erase_instr(u)

Spec == Init /\ [][Next]_vars

-----------------------------------------------------------------------------
\* The two chains tell the same story: for every value that still exists, its
\* use list holds (u, i) exactly once when the attached user u reads it in
\* slot i, and not at all otherwise.  So no list names a freed user, no use is
\* lost by a replacement and none is pushed twice (Value.cpp, User.cpp).
ChainsAgree ==
    \A v \in LiveValue, u \in User, i \in Slot :
        uses[v][u][i] =
            IF state[u] = "attached" /\ operands[u][i] = v THEN 1 ELSE 0

\* An operand comes to dangle only when a value is freed whose use list was not
\* empty.  This is what makes "replace_all_use_with, then erase" in mem2reg and
\* "drop the uses of all, then erase all" in DeadCode safe.
DanglingOnlyFromUsedErase ==
    [][\A u \in User, i \in Slot :
          Dangles(u, i)' /\ ~ Dangles(u, i)
              => /\ ~ Unused(operands[u][i])
                 /\ state[operands[u][i]] # "freed"]_vars

-----------------------------------------------------------------------------
\* The life of each user, what an attached one reads, and whom the use list of
\* a value names while the value exists.
LifeNow == [u \in User |-> IF Live(u) THEN state[u] ELSE "absent"]
ReadNow == [u \in User |-> IF state[u] = "attached"
                           THEN {operands[u][i] : i \in Slot} \ {Null} ELSE {}]
UsersNow == [v \in Value |-> IF Live(v)
                             THEN {u \in User : \E i \in Slot : uses[v][u][i] > 0}
                             ELSE {}]

C == INSTANCE Chains WITH life <- LifeNow, reads <- ReadNow, users <- UsersNow

\* Slots, counts and two hand-kept copies implement one relation between users
\* and values: replace_all_use_with and replace_use_with_when, which walk a use
\* list, change exactly what the operands say is there (Value.cpp, User.cpp).
ImplementsChains == C!Spec
=============================================================================
