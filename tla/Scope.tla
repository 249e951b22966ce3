------------------------------- MODULE Scope -------------------------------
(***************************************************************************)
(* Scope (cminusf_builder.hpp): a stack of maps from names to values, and  *)
(* find, which searches it from the innermost map.                         *)
(***************************************************************************)
EXTENDS Integers, Sequences

CONSTANTS
    Name,           \* identifiers
    Val,            \* LightIR values
    NoValue         \* nullptr

ASSUME ScopeAssumption == NoValue \notin Val

VARIABLE inner      \* vector of maps, the global one first

scopeVars == <<inner>>

\* A map binds a set of names.
Maps(names) == UNION {[S -> Val] : S \in SUBSET names}
Empty == [n \in {} |-> NoValue]
Bind(map, n, v) == [m \in DOMAIN map \cup {n} |-> IF m = n THEN v ELSE map[m]]

enter(s) == Append(s, Empty)
exit(s) == SubSeq(s, 1, Len(s) - 1)
in_global(s) == Len(s) = 1

\* insert keeps a binding that is there.
Inserted(s, n) == n \notin DOMAIN s[Len(s)]

\* Mutant of push: assignment through operator[].
PushOver(s, n, v) == [s EXCEPT ![Len(s)] = Bind(s[Len(s)], n, v)]

push(s, n, v) == IF Inserted(s, n) THEN [s EXCEPT ![Len(s)] = Bind(s[Len(s)], n, v)] ELSE s

\* The value of n in the first k maps: the last of them that binds it.
Innermost(s, k, n) ==
    LET binding == {j \in 1 .. k : n \in DOMAIN s[j]}
    IN  {j \in binding : \A i \in binding : i <= j}

FindIn(s, k, n) ==
    IF Innermost(s, k, n) = {} THEN NoValue
    ELSE s[CHOOSE j \in Innermost(s, k, n) : TRUE][n]

find(s, n) == FindIn(s, Len(s), n)

-----------------------------------------------------------------------------
(* The scope by itself, used as CminusfBuilder uses it: the global map is   *)
(* never left.                                                             *)

ScopeInit == inner = <<Empty>>

Enter == inner' = enter(inner)
Exit == ~ in_global(inner) /\ inner' = exit(inner)
Push == \E n \in Name, v \in Val : inner' = push(inner, n, v)

ScopeNext == Enter \/ Exit \/ Push

ScopeSpec == ScopeInit /\ [][ScopeNext]_scopeVars

ScopeTypeOK == inner \in Seq(Maps(Name)) /\ inner # <<>>

-----------------------------------------------------------------------------
(* What it promises                                                        *)

VisibleIn(k) == [n \in Name |-> FindIn(inner, k, n)]

N == INSTANCE Names WITH
         visible <- VisibleIn(Len(inner)),
         declared <- DOMAIN inner[Len(inner)],
         outer <- [k \in 1 .. Len(inner) - 1 |->
                      [visible |-> VisibleIn(k), declared |-> DOMAIN inner[k]]]

\* A name resolves to its innermost declaration, the first one of its block,
\* and leaving a block brings back what was visible before it (Scope::find,
\* push, exit).
NamesResolve == N!Spec
=============================================================================
