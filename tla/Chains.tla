------------------------------- MODULE Chains -------------------------------
(***************************************************************************)
(* What the def-use chains promise the passes: one relation, which user    *)
(* reads which value, whatever slots and lists it is kept in.  The user    *)
(* lists are not kept beside it: after every operation they are what the   *)
(* relation says.                                                          *)
(***************************************************************************)

CONSTANTS
    Value,      \* every object that can be read
    User        \* those that read others

VARIABLES
    life,       \* absent (not built yet, or freed), attached, detached
    reads,      \* the values an attached user reads
    users       \* the users a value that exists has

chainVars == <<life, reads, users>>

Existing(l) == {v \in Value : v \in User => l[v] # "absent"}

\* The user lists of the relation r while l says which objects exist.
UsersOf(l, r) ==
    [v \in Value |-> IF v \in Existing(l) THEN {u \in User : v \in r[u]} ELSE {}]

Becomes(l, r) == life' = l /\ reads' = r /\ users' = UsersOf(l, r)

\* Nothing built, or a program whose users read what exists.
Init ==
    /\ life \in [User -> {"absent", "attached"}]
    /\ reads \in [User -> SUBSET Value]
    /\ \A u \in User : reads[u] \subseteq IF life[u] = "absent" THEN {} ELSE Existing(life)
    /\ users = UsersOf(life, reads)

\* A user is built with operands that exist.
Construct(u, R) ==
    /\ life[u] = "absent"
    /\ R \subseteq Existing(life)
    /\ Becomes([life EXCEPT ![u] = "attached"], [reads EXCEPT ![u] = R])

Extend(u, v) ==
    /\ life[u] = "attached"
    /\ v \in Existing(life)
    /\ Becomes(life, [reads EXCEPT ![u] = @ \cup {v}])

\* Some of the users of v read w in its place.
Redirect(v, w, P) ==
    /\ {v, w} \subseteq Existing(life)
    /\ v # w
    /\ P \subseteq users[v]
    /\ Becomes(life, [u \in User |-> IF u \in P THEN (reads[u] \ {v}) \cup {w}
                                     ELSE reads[u]])

\* An attached user gives up its operands, all of which still exist.
Forget(u, next) ==
    /\ life[u] = "attached"
    /\ reads[u] \subseteq Existing(life)
    /\ Becomes([life EXCEPT ![u] = next], [reads EXCEPT ![u] = {}])

Detach(u) == Forget(u, "detached")
Erase(u) == Forget(u, "absent")

\* A detached user is freed, read or not.
Free(u) ==
    /\ life[u] = "detached"
    /\ Becomes([life EXCEPT ![u] = "absent"], reads)

Next ==
    \/ \E u \in User : Construct(u, reads'[u])
    \/ \E u \in User, v \in Value : Extend(u, v)
    \/ \E v, w \in Value : \E P \in SUBSET users[v] : Redirect(v, w, P)
    \/ \E u \in User : Detach(u) \/ Erase(u) \/ Free(u)

\* What no step of a careful pass does: free a user that is still read.
FreesUnread ==
    \A u \in User : life[u] # "absent" /\ life'[u] = "absent" => users[u] = {}

Spec == Init /\ [][Next]_chainVars
CarefulSpec == Init /\ [][Next /\ FreesUnread]_chainVars
=============================================================================
