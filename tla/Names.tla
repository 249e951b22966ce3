------------------------------- MODULE Names -------------------------------
(***************************************************************************)
(* What a scope promises its user: the value each name has now, and that   *)
(* leaving a block gives every name the value it had before it.            *)
(***************************************************************************)
EXTENDS Integers, Sequences

CONSTANTS
    Name,           \* identifiers
    Val,            \* what they can be bound to
    NoValue         \* nullptr

VARIABLES
    visible,        \* the value of each name
    declared,       \* the names of the innermost block
    outer           \* visible and declared of the blocks around it

nameVars == <<visible, declared, outer>>

Init ==
    /\ visible = [n \in Name |-> NoValue]
    /\ declared = {}
    /\ outer = <<>>

Open ==
    /\ outer' = Append(outer, [visible |-> visible, declared |-> declared])
    /\ declared' = {}
    /\ UNCHANGED visible

\* The first declaration of a name in a block is the one that counts.
Declare(n) ==
    /\ n \notin declared
    /\ declared' = declared \cup {n}
    /\ UNCHANGED outer
    /\ \E v \in Val : visible' = [visible EXCEPT ![n] = v]

Close ==
    /\ outer # <<>>
    /\ visible' = outer[Len(outer)].visible
    /\ declared' = outer[Len(outer)].declared
    /\ outer' = SubSeq(outer, 1, Len(outer) - 1)

Next ==
    \/ Open \/ Close
    \/ \E n \in Name : Declare(n)

Spec == Init /\ [][Next]_nameVars
=============================================================================
