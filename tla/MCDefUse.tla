------------------------------ MODULE MCDefUse ------------------------------
(***************************************************************************)
(* DefUse on three users and one constant, at most two operands each: a    *)
(* user may read the same value twice, read itself (a phi of a loop) and   *)
(* be replaced by a value it uses.                                         *)
(***************************************************************************)
EXTENDS DefUse, TLC

CONSTANTS u1, u2, u3, c1

MCUser == {u1, u2, u3}
MCValue == MCUser \cup {c1}
MCSymmetry == Permutations(MCUser)
=============================================================================
