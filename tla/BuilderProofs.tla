--------------------------- MODULE BuilderProofs ---------------------------
(***************************************************************************)
(* Proofs about the front end: Scope implements Names, for any names and   *)
(* values; and Builder makes well-formed blocks of every program.          *)
(***************************************************************************)
EXTENDS Builder, SequenceTheorems, FiniteSetTheorems, TLAPS

-----------------------------------------------------------------------------
(* Scope by itself                                                         *)

LEMMA EmptyInMap == Empty \in Maps(Name)
<1>1. Empty \in [{} -> Val]
  BY DEF Empty
<1> QED
  BY <1>1 DEF Maps

LEMMA BindInMap ==
    ASSUME NEW map \in Maps(Name), NEW n \in Name, NEW v \in Val
    PROVE  Bind(map, n, v) \in Maps(Name) /\ DOMAIN Bind(map, n, v) = DOMAIN map \cup {n}
<1>1. PICK S \in SUBSET Name : map \in [S -> Val]
  BY DEF Maps
<1>2. Bind(map, n, v) \in [S \cup {n} -> Val]
  BY <1>1 DEF Bind
<1>3. S \cup {n} \in SUBSET Name
  BY <1>1
<1> QED
  BY <1>1, <1>2, <1>3 DEF Maps, Bind

\* A search of the first k maps depends on these maps alone.
LEMMA FindInSame ==
    ASSUME NEW s, NEW t, NEW k \in Nat, NEW n, \A j \in 1 .. k : s[j] = t[j]
    PROVE  FindIn(s, k, n) = FindIn(t, k, n)
<1>1. Innermost(s, k, n) = Innermost(t, k, n)
  BY DEF Innermost
<1>2. CASE Innermost(s, k, n) = {}
  BY <1>1, <1>2 DEF FindIn
<1>3. CASE Innermost(s, k, n) # {}
  <2> DEFINE top == CHOOSE j \in Innermost(s, k, n) : TRUE
  <2>1. top \in Innermost(s, k, n)
    BY <1>3
  <2>2. s[top] = t[top]
    BY <2>1 DEF Innermost
  <2>3. FindIn(s, k, n) = s[top][n] /\ FindIn(t, k, n) = t[top][n]
    BY <1>1, <1>3 DEF FindIn
  <2> QED
    BY <2>2, <2>3
<1> QED
  BY <1>2, <1>3

\* The map searched first has the value of a name it binds; a name it does not
\* bind is looked up in the maps before it.
LEMMA FindInLast ==
    ASSUME NEW s, NEW k \in Nat \ {0}, NEW n
    PROVE  FindIn(s, k, n) = IF n \in DOMAIN s[k] THEN s[k][n] ELSE FindIn(s, k - 1, n)
<1>1. CASE n \in DOMAIN s[k]
  <2>1. Innermost(s, k, n) = {k}
    BY <1>1 DEF Innermost
  <2> QED
    BY <1>1, <2>1 DEF FindIn
<1>2. CASE n \notin DOMAIN s[k]
  <2>1. {j \in 1 .. k : n \in DOMAIN s[j]} = {j \in 1 .. k - 1 : n \in DOMAIN s[j]}
    BY <1>2
  <2>2. Innermost(s, k, n) = Innermost(s, k - 1, n)
    BY <2>1 DEF Innermost
  <2> QED
    BY <1>2, <2>2 DEF FindIn
<1> QED
  BY <1>1, <1>2

\* The scope is always a non-empty sequence of maps.
LEMMA ScopeInitType == ScopeInit => ScopeTypeOK
BY EmptyInMap DEF ScopeInit, ScopeTypeOK

LEMMA ExitLength == ScopeTypeOK /\ Exit => Len(inner) \in Nat /\ Len(inner) >= 2
<1> SUFFICES ASSUME ScopeTypeOK, Exit PROVE Len(inner) \in Nat /\ Len(inner) >= 2
  OBVIOUS
<1>1. PICK L \in Nat \ {0} : L = Len(inner)
  BY DEF ScopeTypeOK
<1>2. L # 1
  <2>1. ~ (Len(inner) = 1)
    BY Zenon DEF Exit, in_global
  <2> QED
    BY <1>1, <2>1
<1> QED
  BY <1>1, <1>2

LEMMA ScopeNextType == ScopeTypeOK /\ [ScopeNext]_scopeVars => ScopeTypeOK'
<1> SUFFICES ASSUME ScopeTypeOK, [ScopeNext]_scopeVars PROVE ScopeTypeOK'
  OBVIOUS
<1>1. CASE Enter
  BY <1>1, EmptyInMap DEF ScopeTypeOK, Enter, enter
<1>2. CASE Exit
  <2>1. Len(inner) \in Nat /\ Len(inner) >= 2
    BY <1>2, ExitLength
  <2>2. inner' = SubSeq(inner, 1, Len(inner) - 1)
    BY <1>2 DEF Exit, exit
  <2>3. inner' \in Seq(Maps(Name)) /\ Len(inner') = Len(inner) - 1
    BY <2>1, <2>2 DEF ScopeTypeOK
  <2> QED
    BY <2>1, <2>3 DEF ScopeTypeOK
<1>3. CASE Push
  <2>1. PICK n \in Name, v \in Val : inner' = push(inner, n, v)
    BY <1>3 DEF Push
  <2>2. inner[Len(inner)] \in Maps(Name)
    BY DEF ScopeTypeOK
  <2>3. Bind(inner[Len(inner)], n, v) \in Maps(Name)
    BY <2>2, BindInMap
  <2> QED
    BY <2>1, <2>3 DEF ScopeTypeOK, push
<1>4. CASE UNCHANGED scopeVars
  BY <1>4 DEF ScopeTypeOK, scopeVars
<1> QED
  BY <1>1, <1>2, <1>3, <1>4 DEF ScopeNext

\* The scope keeps its type (Scope::inner).
THEOREM ScopeTypeCorrect == ScopeSpec => []ScopeTypeOK
BY ScopeInitType, ScopeNextType, PTL DEF ScopeSpec

-----------------------------------------------------------------------------
(* Scope implements Names, step by step                                    *)

\* What Names sees of the blocks around the innermost one.
Outer == [k \in 1 .. Len(inner) - 1 |->
             [visible |-> VisibleIn(k), declared |-> DOMAIN inner[k]]]

LEMMA ScopeInitRefines == ScopeInit => N!Init
<1> SUFFICES ASSUME ScopeInit PROVE N!Init
  OBVIOUS
<1>1. Len(inner) = 1 /\ inner[1] = Empty /\ DOMAIN inner[1] = {}
  BY DEF ScopeInit, Empty
<1>2. \A n \in Name : Innermost(inner, 1, n) = {}
  BY <1>1 DEF Innermost
<1>3. VisibleIn(Len(inner)) = [n \in Name |-> NoValue]
  BY <1>1, <1>2 DEF VisibleIn, FindIn
<1>4. Outer = <<>>
  BY <1>1 DEF Outer
<1> QED
  BY <1>1, <1>3, <1>4 DEF N!Init, Outer

LEMMA EnterRefines == ScopeTypeOK /\ Enter => N!Open
<1> SUFFICES ASSUME ScopeTypeOK, Enter PROVE N!Open
  OBVIOUS
<1>1. PICK L \in Nat \ {0} : L = Len(inner)
  BY DEF ScopeTypeOK
<1>2. Len(inner') = L + 1 /\ inner'[L + 1] = Empty /\ \A j \in 1 .. L : inner'[j] = inner[j]
  BY <1>1 DEF ScopeTypeOK, Enter, enter
<1>3. DOMAIN inner'[L + 1] = {}
  BY <1>2 DEF Empty
<1>4. \A k \in 1 .. L : VisibleIn(k)' = VisibleIn(k)
  <2> SUFFICES ASSUME NEW k \in 1 .. L PROVE VisibleIn(k)' = VisibleIn(k)
    OBVIOUS
  <2>1. \A n \in Name : FindIn(inner', k, n) = FindIn(inner, k, n)
    BY <1>1, <1>2, FindInSame
  <2> QED
    BY <2>1 DEF VisibleIn
<1>5. VisibleIn(L + 1)' = VisibleIn(L)
  <2>1. \A n \in Name : FindIn(inner', L + 1, n) = FindIn(inner', L, n)
    BY <1>1, <1>3, FindInLast
  <2>2. VisibleIn(L)' = VisibleIn(L)
    BY <1>1, <1>4
  <2> QED
    BY <2>1, <2>2 DEF VisibleIn
<1>6. VisibleIn(Len(inner))' = VisibleIn(Len(inner))
  BY <1>1, <1>2, <1>5 DEF VisibleIn
<1>7. Outer' = Append(Outer, [visible |-> VisibleIn(L), declared |-> DOMAIN inner[L]])
  <2>1. Outer' = [k \in 1 .. L |-> [visible |-> VisibleIn(k)', declared |-> DOMAIN inner'[k]]]
    BY <1>1, <1>2 DEF Outer, VisibleIn
  <2>2. \A k \in 1 .. L : VisibleIn(k)' = VisibleIn(k) /\ inner'[k] = inner[k]
    BY <1>2, <1>4
  <2>3. Outer' = [k \in 1 .. L |-> [visible |-> VisibleIn(k), declared |-> DOMAIN inner[k]]]
    BY <2>1, <2>2
  <2>4. Outer = [k \in 1 .. L - 1 |-> [visible |-> VisibleIn(k), declared |-> DOMAIN inner[k]]]
    BY <1>1 DEF Outer
  <2> QED
    BY <1>1, <2>3, <2>4
<1> QED
  BY <1>1, <1>2, <1>3, <1>6, <1>7 DEF N!Open, Outer

LEMMA ExitRefines == ScopeTypeOK /\ Exit => N!Close
<1> SUFFICES ASSUME ScopeTypeOK, Exit PROVE N!Close
  OBVIOUS
<1>1. PICK L \in Nat : L = Len(inner) /\ L >= 2
  BY ExitLength
<1>2. Len(inner') = L - 1 /\ \A j \in 1 .. L - 1 : inner'[j] = inner[j]
  BY <1>1 DEF ScopeTypeOK, Exit, exit
<1>3. \A k \in 1 .. L - 1 : VisibleIn(k)' = VisibleIn(k)
  <2> SUFFICES ASSUME NEW k \in 1 .. L - 1 PROVE VisibleIn(k)' = VisibleIn(k)
    OBVIOUS
  <2>1. \A n \in Name : FindIn(inner', k, n) = FindIn(inner, k, n)
    BY <1>1, <1>2, FindInSame
  <2> QED
    BY <2>1 DEF VisibleIn
<1>4. Outer = [k \in 1 .. L - 1 |-> [visible |-> VisibleIn(k), declared |-> DOMAIN inner[k]]]
  BY <1>1 DEF Outer
<1>5. /\ Len(Outer) = L - 1 /\ Outer # <<>>
      /\ Outer[L - 1] = [visible |-> VisibleIn(L - 1), declared |-> DOMAIN inner[L - 1]]
  <2>1. Len(Outer) = L - 1 /\ L - 1 \in DOMAIN Outer
    BY <1>1, <1>4
  <2>2. Outer # <<>>
    BY <1>1, <2>1
  <2> QED
    BY <1>1, <1>4, <2>1, <2>2
<1>6. VisibleIn(Len(inner))' = Outer[Len(Outer)].visible
  <2>1. VisibleIn(L - 1)' = VisibleIn(L - 1)
    BY <1>1, <1>3
  <2>2. VisibleIn(Len(inner))' = VisibleIn(L - 1)'
    BY <1>2 DEF VisibleIn
  <2> QED
    BY <1>5, <2>1, <2>2
<1>7. DOMAIN inner'[Len(inner')] = Outer[Len(Outer)].declared
  BY <1>1, <1>2, <1>5
<1>8. Outer' = SubSeq(Outer, 1, Len(Outer) - 1)
  <2>1. Outer' = [k \in 1 .. L - 2 |-> [visible |-> VisibleIn(k)', declared |-> DOMAIN inner'[k]]]
    BY <1>1, <1>2 DEF Outer, VisibleIn
  <2>2. \A k \in 1 .. L - 2 : VisibleIn(k)' = VisibleIn(k) /\ inner'[k] = inner[k]
    BY <1>1, <1>2, <1>3
  <2>3. Outer' = [k \in 1 .. L - 2 |-> [visible |-> VisibleIn(k), declared |-> DOMAIN inner[k]]]
    BY <2>1, <2>2
  <2> QED
    BY <1>1, <1>4, <1>5, <2>3
<1> QED
  BY <1>5, <1>6, <1>7, <1>8 DEF N!Close, Outer

LEMMA PushRefines ==
    ASSUME ScopeTypeOK, NEW n \in Name, NEW v \in Val, inner' = push(inner, n, v)
    PROVE  N!Declare(n) \/ UNCHANGED scopeVars
<1>1. PICK L \in Nat \ {0} : L = Len(inner)
  BY DEF ScopeTypeOK
<1>2. CASE n \in DOMAIN inner[L]
  BY <1>1, <1>2 DEF push, Inserted, scopeVars
<1>3. CASE n \notin DOMAIN inner[L]
  <2>1. inner' = [inner EXCEPT ![L] = Bind(inner[L], n, v)]
    BY <1>1, <1>3 DEF push, Inserted
  <2>2. /\ Len(inner') = L /\ inner'[L] = Bind(inner[L], n, v)
        /\ \A j \in 1 .. L - 1 : inner'[j] = inner[j]
    BY <1>1, <2>1 DEF ScopeTypeOK
  <2>3. DOMAIN inner'[L] = DOMAIN inner[L] \cup {n}
    BY <2>2 DEF Bind
  <2>4. \A k \in 1 .. L - 1, m \in Name : FindIn(inner', k, m) = FindIn(inner, k, m)
    BY <1>1, <2>2, FindInSame
  <2>5. \A m \in Name : FindIn(inner', L - 1, m) = FindIn(inner, L - 1, m)
    BY <1>1, <2>2, FindInSame
  <2>6. \A m \in Name : FindIn(inner', L, m) = IF m = n THEN v ELSE FindIn(inner, L, m)
    <3> SUFFICES ASSUME NEW m \in Name
                 PROVE  FindIn(inner', L, m) = IF m = n THEN v ELSE FindIn(inner, L, m)
      OBVIOUS
    <3>1. FindIn(inner', L, m) =
              IF m \in DOMAIN inner'[L] THEN inner'[L][m] ELSE FindIn(inner', L - 1, m)
      BY <1>1, FindInLast
    <3>2. FindIn(inner, L, m) =
              IF m \in DOMAIN inner[L] THEN inner[L][m] ELSE FindIn(inner, L - 1, m)
      BY <1>1, FindInLast
    <3>3. m \in DOMAIN inner'[L] => inner'[L][m] = IF m = n THEN v ELSE inner[L][m]
      BY <2>2 DEF Bind
    <3> QED
      BY <2>3, <2>5, <3>1, <3>2, <3>3
  <2>7. VisibleIn(Len(inner))' = [VisibleIn(Len(inner)) EXCEPT ![n] = v]
    BY <1>1, <2>2, <2>6 DEF VisibleIn
  <2>8. Outer' = Outer
    <3>1. Outer' = [k \in 1 .. L - 1 |-> [visible |-> VisibleIn(k)', declared |-> DOMAIN inner'[k]]]
      BY <1>1, <2>2 DEF Outer, VisibleIn
    <3>2. \A k \in 1 .. L - 1 : VisibleIn(k)' = VisibleIn(k) /\ inner'[k] = inner[k]
      BY <2>2, <2>4 DEF VisibleIn
    <3> QED
      BY <1>1, <3>1, <3>2 DEF Outer
  <2> QED
    BY <1>1, <1>3, <2>2, <2>3, <2>7, <2>8 DEF N!Declare, Outer
<1> QED
  BY <1>2, <1>3

LEMMA ScopeNextRefines == ScopeTypeOK /\ [ScopeNext]_scopeVars => [N!Next]_(N!nameVars)
<1> SUFFICES ASSUME ScopeTypeOK, [ScopeNext]_scopeVars PROVE [N!Next]_(N!nameVars)
  OBVIOUS
<1>1. CASE Enter
  BY <1>1, EnterRefines DEF N!Next
<1>2. CASE Exit
  BY <1>2, ExitRefines DEF N!Next
<1>3. CASE Push
  <2>1. PICK n \in Name, v \in Val : inner' = push(inner, n, v)
    BY <1>3 DEF Push
  <2>2. CASE N!Declare(n)
    BY <2>2 DEF N!Next
  <2>3. CASE UNCHANGED scopeVars
    BY <2>3 DEF scopeVars, N!nameVars, VisibleIn, FindIn, Innermost
  <2> QED
    BY <2>1, <2>2, <2>3, PushRefines
<1>4. CASE UNCHANGED scopeVars
  BY <1>4 DEF scopeVars, N!nameVars, VisibleIn, FindIn, Innermost
<1> QED
  BY <1>1, <1>2, <1>3, <1>4 DEF ScopeNext

\* Scope implements Names: find gives each name the value of its innermost
\* declaration, the first of its block, and exit brings back what was visible
\* before the block (Scope::find, push, enter, exit).
THEOREM ScopeImplementsNames == ScopeSpec => NamesResolve
<1>1. ScopeInit => N!Init
  BY ScopeInitRefines
<1>2. ScopeTypeOK /\ [ScopeNext]_scopeVars => [N!Next]_(N!nameVars)
  BY ScopeNextRefines
<1> QED
  BY <1>1, <1>2, ScopeTypeCorrect, PTL DEF ScopeSpec, NamesResolve, N!Spec

-----------------------------------------------------------------------------
(* Lists                                                                   *)

IsList(s) == \E S : s \in Seq(S)

LEMMA ListFacts ==
    ASSUME NEW s, IsList(s)
    PROVE  Len(s) \in Nat /\ DOMAIN s = 1 .. Len(s) /\ (s = <<>> <=> Len(s) = 0)
PROOF BY DEF IsList

LEMMA EmptyList == IsList(<<>>) /\ Len(<<>>) = 0
PROOF BY DEF IsList

LEMMA AppendList ==
    ASSUME NEW s, IsList(s), NEW x
    PROVE  /\ IsList(Append(s, x))
           /\ Append(s, x) # <<>>
           /\ Len(Append(s, x)) = Len(s) + 1
           /\ \A k \in 1 .. Len(s) : Append(s, x)[k] = s[k]
           /\ Append(s, x)[Len(s) + 1] = x
<1>1. PICK S : s \in Seq(S)
  BY DEF IsList
<1>2. s \in Seq(S \cup {x}) /\ x \in S \cup {x}
  BY <1>1, SeqMonotonic
<1> QED
  BY <1>2, AppendProperties DEF IsList

LEMMA ConcatList ==
    ASSUME NEW s, NEW t, IsList(s), IsList(t)
    PROVE  /\ IsList(s \o t)
           /\ Len(s \o t) = Len(s) + Len(t)
           /\ \A k \in 1 .. Len(s) : (s \o t)[k] = s[k]
           /\ \A k \in 1 .. Len(t) : (s \o t)[Len(s) + k] = t[k]
<1>1. PICK S : s \in Seq(S)
  BY DEF IsList
<1>2. PICK T : t \in Seq(T)
  BY DEF IsList
<1>3. s \in Seq(S \cup T) /\ t \in Seq(S \cup T)
  BY <1>1, <1>2, SeqMonotonic
<1> QED
  BY <1>3, ConcatProperties DEF IsList

LEMMA TailList ==
    ASSUME NEW s, IsList(s), s # <<>>
    PROVE  /\ IsList(Tail(s))
           /\ Len(Tail(s)) = Len(s) - 1
           /\ \A k \in 1 .. Len(Tail(s)) : Tail(s)[k] = s[k + 1]
           /\ Head(s) = s[1]
<1>1. PICK S : s \in Seq(S)
  BY DEF IsList
<1> QED
  BY <1>1, HeadTailProperties DEF IsList

LEMMA FunctionList ==
    ASSUME NEW n \in Nat, NEW f, f = [k \in 1 .. n |-> f[k]]
    PROVE  IsList(f) /\ Len(f) = n
<1>1. \A k \in 1 .. n : f[k] \in {f[j] : j \in 1 .. n}
  OBVIOUS
<1>2. f \in [1 .. n -> {f[j] : j \in 1 .. n}]
  BY <1>1
<1>3. f \in Seq({f[j] : j \in 1 .. n})
  BY <1>2, SeqDef
<1>4. Len(f) \in Nat /\ DOMAIN f = 1 .. Len(f)
  BY <1>3, LenProperties
<1>5. DOMAIN f = 1 .. n
  BY <1>2
<1>6. Len(f) = n
  BY <1>4, <1>5
<1> QED
  BY <1>3, <1>6 DEF IsList

\* How often b is in a list that grows.
LEMMA TimesAppend ==
    ASSUME NEW s, IsList(s), NEW x, NEW b
    PROVE  /\ Times(s, b) \in Nat
           /\ Times(Append(s, x), b) = IF x = b THEN Times(s, b) + 1 ELSE Times(s, b)
<1> DEFINE K == {k \in DOMAIN s : s[k] = b}
           L == {k \in DOMAIN Append(s, x) : Append(s, x)[k] = b}
<1>1. Len(s) \in Nat /\ DOMAIN s = 1 .. Len(s)
  BY ListFacts
<1>2. IsFiniteSet(K)
  <2>1. K \subseteq 1 .. Len(s)
    BY <1>1
  <2>2. IsFiniteSet(1 .. Len(s))
    BY <1>1, FS_Interval
  <2> QED
    BY <2>1, <2>2, FS_Subset
<1>3. Len(s) + 1 \notin K
  BY <1>1
<1>4. /\ DOMAIN Append(s, x) = 1 .. Len(s) + 1
      /\ \A k \in 1 .. Len(s) : Append(s, x)[k] = s[k]
      /\ Append(s, x)[Len(s) + 1] = x
  BY AppendList, ListFacts
<1>5. L = IF x = b THEN K \cup {Len(s) + 1} ELSE K
  BY <1>1, <1>4
<1>6. /\ Cardinality(K) \in Nat
      /\ Cardinality(K \cup {Len(s) + 1}) = Cardinality(K) + 1
  BY <1>2, <1>3, FS_AddElement, FS_CardinalityType
<1> QED
  BY <1>5, <1>6 DEF Times

LEMMA TimesEmpty == \A b : Times(<<>>, b) = 0
PROOF BY FS_EmptySet DEF Times

-----------------------------------------------------------------------------
(* Functions under construction                                            *)

\* The blocks of a function that has n, and those an edge may go to.
Blocks(n) == 1 .. n
Later(n) == 2 .. n

IsBody(F) ==
    F = [ret |-> F.ret, params |-> F.params, code |-> F.code, succ |-> F.succ, pre |-> F.pre]
IsBuilder(e) == e = [body |-> e.body, at |-> e.at, val |-> e.val]

HasDomain(f, S) == f = [x \in S |-> f[x]]

\* A function of n blocks.
Shape(F, n) ==
    /\ IsBody(F)
    /\ n \in Nat \ {0}
    /\ HasDomain(F.code, Blocks(n)) /\ HasDomain(F.succ, Blocks(n)) /\ HasDomain(F.pre, Blocks(n))
    /\ \A b \in Blocks(n) : IsList(F.code[b]) /\ IsList(F.succ[b]) /\ IsList(F.pre[b])

\* A block without a terminator, and one with its only terminator at the end.
Unended(F, b) ==
    /\ F.succ[b] = <<>>
    /\ \A k \in DOMAIN F.code[b] : ~ IsTerminator(F.code[b][k])
Ended(F, b) ==
    /\ F.code[b] # <<>>
    /\ \A k \in DOMAIN F.code[b] : IsTerminator(F.code[b][k]) <=> k = Len(F.code[b])
    /\ F.succ[b] = Targets(F.code[b][Len(F.code[b])])

\* The two lists of an edge agree, and there is none to the entry.
Linked(F, n) ==
    /\ \A x, y \in Blocks(n) : Times(F.succ[x], y) = Times(F.pre[y], x)
    /\ \A x \in Blocks(n), y \in Nat \ Blocks(n) : Times(F.succ[x], y) = 0 /\ Times(F.pre[x], y) = 0
    /\ F.pre[1] = <<>>

\* The blocks of O are still open.
BodyOK(F, O, n) ==
    /\ Shape(F, n)
    /\ O \subseteq Blocks(n)
    /\ \A b \in O : Unended(F, b)
    /\ \A b \in Blocks(n) \ O : Ended(F, b)
    /\ Linked(F, n)

\* The builder is at an open block.
Ready(e, O, n) == IsBuilder(e) /\ BodyOK(e.body, O, n) /\ e.at \in O

\* What a step of the builder makes of e: f has an instruction more, has an
\* edge more, is still at the same open block, or has closed it.
Inst(op, rel, ty, operands) == [op |-> op, rel |-> rel, ty |-> ty, args |-> operands]
Added(e, f, n, inst) ==
    /\ IsBuilder(f) /\ f.at = e.at /\ Shape(f.body, n)
    /\ f.body.succ = e.body.succ /\ f.body.pre = e.body.pre
    /\ f.body.code[e.at] = Append(e.body.code[e.at], inst)
    /\ \A b \in Blocks(n) : b # e.at => f.body.code[b] = e.body.code[b]
EdgeTo(F, G, n, b, t) ==
    /\ Shape(G, n) /\ Linked(G, n) /\ G.code = F.code
    /\ G.succ[b] = Append(F.succ[b], t)
    /\ \A x \in Blocks(n) : x # b => G.succ[x] = F.succ[x]
Keeps(e, f, O, n) == Ready(f, O, n) /\ f.at = e.at
Closed(e, f, O, n) == IsBuilder(f) /\ f.at = e.at /\ BodyOK(f.body, O \ {e.at}, n)

BodyOf(r, p, c, s, q) == [ret |-> r, params |-> p, code |-> c, succ |-> s, pre |-> q]

LEMMA SetFields ==
    ASSUME NEW F, NEW G, NEW a, NEW b, NEW v, NEW w
    PROVE  /\ [BuilderAt(F, a, v) EXCEPT !.body = G] = BuilderAt(G, a, v)
           /\ [BuilderAt(F, a, v) EXCEPT !.at = b] = BuilderAt(F, b, v)
           /\ [BuilderAt(F, a, v) EXCEPT !.val = w] = BuilderAt(F, a, w)
PROOF BY DEF BuilderAt

LEMMA AddRecord ==
    ASSUME NEW r, NEW p, NEW c, NEW s, NEW q, NEW a, NEW v,
           NEW op, NEW rel, NEW ty, NEW operands
    PROVE  Add(BuilderAt(BodyOf(r, p, c, s, q), a, v), op, rel, ty, operands)
               = BuilderAt(BodyOf(r, p, [c EXCEPT ![a] =
                     Append(@, [op |-> op, rel |-> rel, ty |-> ty, args |-> operands])], s, q),
                     a, Instruction(a, Len(c[a]) + 1))
<1> DEFINE inst == [op |-> op, rel |-> rel, ty |-> ty, args |-> operands]
           F == BodyOf(r, p, c, s, q)
<1>1. BuilderAt(F, a, v).at = a /\ BuilderAt(F, a, v).body = F /\ F.code = c
  BY DEF BuilderAt, BodyOf
<1>2. [F EXCEPT !.code[a] = Append(@, inst)]
          = BodyOf(r, p, [c EXCEPT ![a] = Append(@, inst)], s, q)
  BY DEF BodyOf
<1>3. Add(BuilderAt(F, a, v), op, rel, ty, operands)
          = BuilderAt([BuilderAt(F, a, v).body EXCEPT !.code[BuilderAt(F, a, v).at] = Append(@, inst)],
                      BuilderAt(F, a, v).at,
                      Instruction(BuilderAt(F, a, v).at,
                                  Len(BuilderAt(F, a, v).body.code[BuilderAt(F, a, v).at]) + 1))
  BY Zenon DEF Add
<1>4. Add(BuilderAt(F, a, v), op, rel, ty, operands)
          = BuilderAt([F EXCEPT !.code[a] = Append(@, inst)], a, Instruction(a, Len(c[a]) + 1))
  BY <1>1, <1>3
<1> QED
  BY <1>2, <1>4

LEMMA BuilderParts ==
    ASSUME NEW e, IsBuilder(e), IsBody(e.body)
    PROVE  \E r, p, c, s, q, a, v :
               /\ e = BuilderAt(BodyOf(r, p, c, s, q), a, v)
               /\ e.body = BodyOf(r, p, c, s, q) /\ e.at = a
               /\ e.body.ret = r /\ e.body.params = p
               /\ e.body.code = c /\ e.body.succ = s /\ e.body.pre = q
PROOF BY DEF IsBuilder, IsBody, BuilderAt, BodyOf

LEMMA PartsBuilder ==
    ASSUME NEW r, NEW p, NEW c, NEW s, NEW q, NEW a, NEW v
    PROVE  LET e == BuilderAt(BodyOf(r, p, c, s, q), a, v)
           IN  /\ IsBuilder(e) /\ IsBody(e.body)
               /\ e.body = BodyOf(r, p, c, s, q) /\ e.at = a
               /\ e.body.ret = r /\ e.body.params = p
               /\ e.body.code = c /\ e.body.succ = s /\ e.body.pre = q
PROOF BY DEF IsBuilder, IsBody, BuilderAt, BodyOf

LEMMA AddFacts ==
    ASSUME NEW e, NEW n, IsBuilder(e), Shape(e.body, n), e.at \in Blocks(n),
           NEW op, NEW rel, NEW ty, NEW operands
    PROVE  Added(e, Add(e, op, rel, ty, operands), n, Inst(op, rel, ty, operands))
<1> DEFINE inst == [op |-> op, rel |-> rel, ty |-> ty, args |-> operands]
           f == Add(e, op, rel, ty, operands)
           code == [e.body.code EXCEPT ![e.at] = Append(@, inst)]
<1>1. PICK r, p, c, s, q, a, v :
          /\ e = BuilderAt(BodyOf(r, p, c, s, q), a, v) /\ e.at = a
          /\ e.body.code = c /\ e.body.succ = s /\ e.body.pre = q
  BY BuilderParts DEF Shape
<1>2. f = BuilderAt(BodyOf(r, p, [c EXCEPT ![a] = Append(@, inst)], s, q), a,
                    Instruction(a, Len(c[a]) + 1))
  BY <1>1, AddRecord
<1>3. /\ IsBuilder(f) /\ f.at = e.at /\ IsBody(f.body) /\ f.body.code = code
      /\ f.body.succ = e.body.succ /\ f.body.pre = e.body.pre
  BY <1>1, <1>2, PartsBuilder
<1> HIDE DEF f, inst
<1>4. /\ HasDomain(code, Blocks(n))
      /\ code[e.at] = Append(e.body.code[e.at], inst)
      /\ \A b \in Blocks(n) : b # e.at => code[b] = e.body.code[b]
  <2>1. HasDomain(e.body.code, Blocks(n))
    BY DEF Shape
  <2>2. code = [b \in Blocks(n) |-> IF b = e.at THEN Append(e.body.code[e.at], inst)
                                 ELSE e.body.code[b]]
    BY <2>1 DEF HasDomain
  <2> HIDE DEF code
  <2>3. \A b \in Blocks(n) : code[b] = IF b = e.at THEN Append(e.body.code[e.at], inst)
                                    ELSE e.body.code[b]
    BY <2>2
  <2>4. HasDomain(code, Blocks(n))
    BY <2>2 DEF HasDomain
  <2> QED
    BY <2>3, <2>4
<1> HIDE DEF code
<1>5. IsList(code[e.at])
  <2>1. IsList(e.body.code[e.at])
    BY DEF Shape
  <2> QED
    BY <2>1, <1>4, AppendList
<1>6. \A b \in Blocks(n) : IsList(code[b])
  BY <1>4, <1>5 DEF Shape
<1>7. Shape(f.body, n)
  BY <1>3, <1>4, <1>6 DEF Shape
<1> QED
  BY <1>3, <1>4, <1>7 DEF f, inst, Added, Inst

\* An instruction that is no terminator leaves the block open.
LEMMA AddReady ==
    ASSUME NEW e, NEW O, NEW n, Ready(e, O, n),
           NEW op, op \notin {"ret", "br"}, NEW rel, NEW ty, NEW operands
    PROVE  Keeps(e, Add(e, op, rel, ty, operands), O, n)
<1> DEFINE inst == Inst(op, rel, ty, operands)
           f == Add(e, op, rel, ty, operands)
<1>1. IsBuilder(e) /\ Shape(e.body, n) /\ e.at \in Blocks(n) /\ e.at \in O /\ O \subseteq Blocks(n)
  BY DEF Ready, BodyOK
<1>0. Added(e, f, n, inst)
  BY <1>1, AddFacts
<1>3. ~ IsTerminator(inst)
  BY DEF IsTerminator, Inst
<1> HIDE DEF f, inst
<1>2. /\ IsBuilder(f) /\ f.at = e.at /\ Shape(f.body, n)
      /\ f.body.succ = e.body.succ /\ f.body.pre = e.body.pre
      /\ f.body.code[e.at] = Append(e.body.code[e.at], inst)
      /\ \A b \in Blocks(n) : b # e.at => f.body.code[b] = e.body.code[b]
  BY <1>0 DEF Added
<1>4. Unended(f.body, e.at)
  <2>1. Unended(e.body, e.at) /\ IsList(e.body.code[e.at])
    BY <1>1 DEF Ready, BodyOK, Shape
  <2>2. /\ DOMAIN e.body.code[e.at] = 1 .. Len(e.body.code[e.at])
        /\ Len(e.body.code[e.at]) \in Nat
        /\ DOMAIN f.body.code[e.at] = 1 .. Len(e.body.code[e.at]) + 1
        /\ \A k \in 1 .. Len(e.body.code[e.at]) : f.body.code[e.at][k] = e.body.code[e.at][k]
        /\ f.body.code[e.at][Len(e.body.code[e.at]) + 1] = inst
    BY <2>1, <1>2, AppendList, ListFacts
  <2>3. f.body.succ[e.at] = <<>>
    BY <2>1, <1>2 DEF Unended
  <2>4. ASSUME NEW k \in DOMAIN f.body.code[e.at]
        PROVE  ~ IsTerminator(f.body.code[e.at][k])
    <3>1. k \in 1 .. Len(e.body.code[e.at]) \/ k = Len(e.body.code[e.at]) + 1
      BY <2>2
    <3> QED
      BY <3>1, <2>1, <2>2, <1>3 DEF Unended
  <2> QED
    BY <2>3, <2>4 DEF Unended
<1>5. \A b \in O : Unended(f.body, b)
  BY <1>1, <1>2, <1>4 DEF Ready, BodyOK, Unended
<1>6. \A b \in Blocks(n) \ O : Ended(f.body, b)
  BY <1>1, <1>2 DEF Ready, BodyOK, Ended
<1>7. Linked(f.body, n)
  BY <1>2 DEF Ready, BodyOK, Linked
<1>8. BodyOK(f.body, O, n)
  BY <1>1, <1>2, <1>5, <1>6, <1>7 DEF BodyOK
<1> QED
  BY <1>1, <1>2, <1>8 DEF Ready, Keeps, f

LEMMA AtBlock ==
    ASSUME NEW F, NEW O, NEW n, BodyOK(F, O, n), NEW b \in O, NEW v
    PROVE  Ready(BuilderAt(F, b, v), O, n) /\ BuilderAt(F, b, v).at = b
PROOF BY DEF Ready, IsBuilder, BuilderAt

\* A terminator closes a block whose edges are there.
LEMMA Closes ==
    ASSUME NEW e, NEW O, NEW n, NEW op \in {"ret", "br"}, NEW rel, NEW ty, NEW operands,
           IsBuilder(e), Shape(e.body, n), O \subseteq Blocks(n), e.at \in O,
           \A k \in DOMAIN e.body.code[e.at] : ~ IsTerminator(e.body.code[e.at][k]),
           e.body.succ[e.at] = Targets(Inst(op, rel, ty, operands)),
           \A b \in O \ {e.at} : Unended(e.body, b),
           \A b \in Blocks(n) \ O : Ended(e.body, b),
           Linked(e.body, n)
    PROVE  Closed(e, Add(e, op, rel, ty, operands), O, n)
<1> DEFINE inst == Inst(op, rel, ty, operands)
           f == Add(e, op, rel, ty, operands)
<1>1. e.at \in Blocks(n)
  OBVIOUS
<1>0. Added(e, f, n, inst)
  BY <1>1, AddFacts
<1>3. IsTerminator(inst)
  BY DEF IsTerminator, Inst
<1>4. e.body.succ[e.at] = Targets(inst)
  OBVIOUS
<1> HIDE DEF f, inst
<1>2. /\ IsBuilder(f) /\ f.at = e.at /\ Shape(f.body, n)
      /\ f.body.succ = e.body.succ /\ f.body.pre = e.body.pre
      /\ f.body.code[e.at] = Append(e.body.code[e.at], inst)
      /\ \A b \in Blocks(n) : b # e.at => f.body.code[b] = e.body.code[b]
  BY <1>0 DEF Added
<1>5. Ended(f.body, e.at)
  <2> DEFINE c == e.body.code[e.at]
             d == f.body.code[e.at]
  <2>1. IsList(c)
    BY <1>1 DEF Shape
  <2>2. /\ Len(c) \in Nat /\ DOMAIN c = 1 .. Len(c)
        /\ d # <<>> /\ Len(d) = Len(c) + 1 /\ DOMAIN d = 1 .. Len(c) + 1
        /\ \A k \in 1 .. Len(c) : d[k] = c[k]
        /\ d[Len(c) + 1] = inst
    <3>1. d = Append(c, inst)
      BY <1>2
    <3>2. Len(c) \in Nat /\ DOMAIN c = 1 .. Len(c)
      BY ONLY <2>1, ListFacts
    <3> HIDE DEF c, d
    <3>3. /\ IsList(Append(c, inst)) /\ Append(c, inst) # <<>> /\ Len(Append(c, inst)) = Len(c) + 1
          /\ \A k \in 1 .. Len(c) : Append(c, inst)[k] = c[k]
          /\ Append(c, inst)[Len(c) + 1] = inst
      BY ONLY <2>1, AppendList
    <3>4. /\ IsList(d) /\ d # <<>> /\ Len(d) = Len(c) + 1
          /\ \A k \in 1 .. Len(c) : d[k] = c[k]
          /\ d[Len(c) + 1] = inst
      BY ONLY <3>1, <3>3
    <3>5. DOMAIN d = 1 .. Len(d)
      BY ONLY <3>4, ListFacts
    <3> QED
      BY ONLY <3>2, <3>4, <3>5
  <2>3. \A k \in DOMAIN c : ~ IsTerminator(c[k])
    OBVIOUS
  <2>4. f.body.succ[e.at] = Targets(d[Len(d)])
    BY <2>2, <1>2, <1>4
  <2> HIDE DEF c, d
  <2>5. ASSUME NEW k \in DOMAIN d
        PROVE  IsTerminator(d[k]) <=> k = Len(d)
    <3>1. CASE k \in 1 .. Len(c)
      BY <3>1, <2>2, <2>3
    <3>2. CASE k = Len(c) + 1
      BY <3>2, <2>2, <1>3
    <3> QED
      BY <3>1, <3>2, <2>2
  <2> QED
    BY <2>2, <2>4, <2>5 DEF Ended, d
<1>6. \A b \in O \ {e.at} : Unended(f.body, b)
  BY <1>2 DEF Unended
<1>7. \A b \in Blocks(n) \ (O \ {e.at}) : Ended(f.body, b)
  <2>1. \A b \in Blocks(n) \ O : Ended(f.body, b)
    BY <1>2 DEF Ended
  <2> QED
    BY <2>1, <1>5
<1>8. Linked(f.body, n)
  BY <1>2 DEF Linked
<1> QED
  BY <1>2, <1>6, <1>7, <1>8 DEF BodyOK, Closed, f

LEMMA EdgeRecord ==
    ASSUME NEW r, NEW p, NEW c, NEW s, NEW q, NEW b, NEW t
    PROVE  Edge(BodyOf(r, p, c, s, q), b, t)
               = BodyOf(r, p, c, [s EXCEPT ![b] = Append(@, t)], [q EXCEPT ![t] = Append(@, b)])
<1> DEFINE F == BodyOf(r, p, c, s, q)
           G == BodyOf(r, p, c, [s EXCEPT ![b] = Append(@, t)], q)
<1>1. [F EXCEPT !.succ[b] = Append(@, t)] = G
  BY DEF BodyOf
<1>2. [G EXCEPT !.pre[t] = Append(@, b)]
          = BodyOf(r, p, c, [s EXCEPT ![b] = Append(@, t)], [q EXCEPT ![t] = Append(@, b)])
  BY DEF BodyOf
<1>3. Edge(F, b, t) = [[F EXCEPT !.succ[b] = Append(@, t)] EXCEPT !.pre[t] = Append(@, b)]
  BY DEF Edge
<1> QED
  BY <1>1, <1>2, <1>3

\* An edge to another block than the entry keeps the lists in agreement.
LEMMA EdgeFacts ==
    ASSUME NEW F, NEW n, Shape(F, n), Linked(F, n), NEW b \in Blocks(n), NEW t \in Later(n)
    PROVE  EdgeTo(F, Edge(F, b, t), n, b, t)
<1> DEFINE succ == [F.succ EXCEPT ![b] = Append(@, t)]
           pre == [F.pre EXCEPT ![t] = Append(@, b)]
           G == Edge(F, b, t)
<1>0. t \in Blocks(n) /\ t # 1 /\ n \in Nat /\ 1 \in Blocks(n)
  BY DEF Shape, Blocks, Later
<1>1. G = BodyOf(F.ret, F.params, F.code, succ, pre)
  <2>1. F = BodyOf(F.ret, F.params, F.code, F.succ, F.pre)
    BY DEF Shape, IsBody, BodyOf
  <2> QED
    BY <2>1, EdgeRecord
<1>2. IsBody(G) /\ G.code = F.code /\ G.succ = succ /\ G.pre = pre
  BY <1>1 DEF IsBody, BodyOf
<1> HIDE DEF G
<1>3. succ = [x \in Blocks(n) |-> IF x = b THEN Append(F.succ[b], t) ELSE F.succ[x]]
  BY DEF Shape, HasDomain
<1>4. pre = [x \in Blocks(n) |-> IF x = t THEN Append(F.pre[t], b) ELSE F.pre[x]]
  BY <1>0 DEF Shape, HasDomain
<1> HIDE DEF succ, pre
<1>5. /\ HasDomain(succ, Blocks(n)) /\ HasDomain(pre, Blocks(n))
      /\ succ[b] = Append(F.succ[b], t) /\ \A x \in Blocks(n) : x # b => succ[x] = F.succ[x]
      /\ pre[t] = Append(F.pre[t], b) /\ \A x \in Blocks(n) : x # t => pre[x] = F.pre[x]
  BY <1>3, <1>4, <1>0 DEF HasDomain
<1>6. \A x \in Blocks(n) : IsList(F.code[x]) /\ IsList(F.succ[x]) /\ IsList(F.pre[x])
  BY DEF Shape
<1>7. IsList(succ[b]) /\ IsList(pre[t])
  BY <1>0, <1>5, <1>6, AppendList
<1>8. \A x \in Blocks(n) : IsList(succ[x]) /\ IsList(pre[x])
  BY <1>5, <1>6, <1>7
<1>9. Shape(G, n)
  BY <1>2, <1>5, <1>6, <1>8 DEF Shape
<1>10. ASSUME NEW x \in Blocks(n), NEW y \in Blocks(n)
       PROVE  Times(succ[x], y) = Times(pre[y], x)
  <2>1. Times(F.succ[x], y) = Times(F.pre[y], x)
    BY DEF Linked
  <2>2. Times(succ[x], y) = IF x = b /\ y = t THEN Times(F.succ[x], y) + 1 ELSE Times(F.succ[x], y)
    <3>1. CASE x = b
      <4>1. IsList(F.succ[b]) /\ succ[b] = Append(F.succ[b], t)
        BY <1>5, <1>6
      <4>2. Times(Append(F.succ[b], t), y) = IF t = y THEN Times(F.succ[b], y) + 1
                                             ELSE Times(F.succ[b], y)
        BY ONLY <4>1, TimesAppend
      <4> QED
        BY <3>1, <4>1, <4>2
    <3>2. CASE x # b
      BY <3>2, <1>5
    <3> QED
      BY <3>1, <3>2
  <2>3. Times(pre[y], x) = IF x = b /\ y = t THEN Times(F.pre[y], x) + 1 ELSE Times(F.pre[y], x)
    <3>1. CASE y = t
      <4>1. IsList(F.pre[t]) /\ pre[t] = Append(F.pre[t], b)
        BY <1>0, <1>5, <1>6
      <4>2. Times(Append(F.pre[t], b), x) = IF b = x THEN Times(F.pre[t], x) + 1
                                            ELSE Times(F.pre[t], x)
        BY ONLY <4>1, TimesAppend
      <4> QED
        BY <3>1, <4>1, <4>2
    <3>2. CASE y # t
      BY <3>2, <1>5
    <3> QED
      BY <3>1, <3>2
  <2> QED
    BY <2>1, <2>2, <2>3
<1>11. pre[1] = <<>>
  BY <1>0, <1>5 DEF Linked, Shape
<1>13. ASSUME NEW x \in Blocks(n), NEW y \in Nat \ Blocks(n)
       PROVE  Times(succ[x], y) = 0 /\ Times(pre[x], y) = 0
  <2>1. Times(F.succ[x], y) = 0 /\ Times(F.pre[x], y) = 0 /\ y # t /\ y # b
    BY <1>0 DEF Linked
  <2>2. IsList(F.succ[x]) /\ IsList(F.pre[x])
    BY <1>6
  <2>3. Times(Append(F.succ[x], t), y) = 0 /\ Times(Append(F.pre[x], b), y) = 0
    BY ONLY <2>1, <2>2, TimesAppend
  <2> QED
    BY <2>1, <2>3, <1>5
<1>12. Linked(G, n)
  BY <1>2, <1>10, <1>11, <1>13 DEF Linked
<1> QED
  BY <1>2, <1>5, <1>9, <1>12 DEF G, EdgeTo

LEMMA WithEdgeFacts ==
    ASSUME NEW e, NEW n, IsBuilder(e), Shape(e.body, n), Linked(e.body, n), e.at \in Blocks(n),
           NEW t \in Later(n)
    PROVE  /\ IsBuilder(WithEdge(e, t)) /\ WithEdge(e, t).at = e.at
           /\ EdgeTo(e.body, WithEdge(e, t).body, n, e.at, t)
<1>1. /\ WithEdge(e, t).body = Edge(e.body, e.at, t)
      /\ WithEdge(e, t).at = e.at /\ IsBuilder(WithEdge(e, t))
  BY DEF WithEdge, BuilderAt, IsBuilder
<1>2. EdgeTo(e.body, Edge(e.body, e.at, t), n, e.at, t)
  BY EdgeFacts
<1> QED
  BY <1>1, <1>2

LEMMA RetCloses ==
    ASSUME NEW e, NEW O, NEW n, Ready(e, O, n), NEW operands
    PROVE  Closed(e, Add(e, "ret", "", VoidType, operands), O, n)
<1>1. /\ IsBuilder(e) /\ Shape(e.body, n) /\ O \subseteq Blocks(n) /\ e.at \in O /\ Linked(e.body, n)
      /\ \A b \in O : Unended(e.body, b)
      /\ \A b \in Blocks(n) \ O : Ended(e.body, b)
  BY DEF Ready, BodyOK
<1>2. /\ e.body.succ[e.at] = <<>>
      /\ \A k \in DOMAIN e.body.code[e.at] : ~ IsTerminator(e.body.code[e.at][k])
  BY <1>1 DEF Unended
<1>3. Targets(Inst("ret", "", VoidType, operands)) = <<>>
  BY DEF Targets, Inst
<1> QED
  BY <1>1, <1>2, <1>3, Closes

LEMMA BrCloses ==
    ASSUME NEW e, NEW O, NEW n, Ready(e, O, n), NEW t \in Later(n)
    PROVE  Closed(e, create_br(e, t), O, n)
<1> DEFINE g == WithEdge(e, t)
<1>1. /\ IsBuilder(e) /\ Shape(e.body, n) /\ O \subseteq Blocks(n) /\ e.at \in O /\ Linked(e.body, n)
      /\ \A b \in O : Unended(e.body, b)
      /\ \A b \in Blocks(n) \ O : Ended(e.body, b)
      /\ e.at \in Blocks(n)
  BY DEF Ready, BodyOK
<1>2. IsBuilder(g) /\ g.at = e.at /\ EdgeTo(e.body, g.body, n, e.at, t)
  BY <1>1, WithEdgeFacts
<1> HIDE DEF g
<1>3. /\ Shape(g.body, n) /\ Linked(g.body, n) /\ g.body.code = e.body.code
      /\ g.body.succ[e.at] = Append(e.body.succ[e.at], t)
      /\ \A x \in Blocks(n) : x # e.at => g.body.succ[x] = e.body.succ[x]
  BY <1>2 DEF EdgeTo
<1>4. g.body.succ[g.at] = <<t>>
  <2>1. e.body.succ[e.at] = <<>>
    BY <1>1 DEF Unended
  <2> QED
    BY ONLY <2>1, <1>2, <1>3
<1>5. \A k \in DOMAIN g.body.code[g.at] : ~ IsTerminator(g.body.code[g.at][k])
  BY <1>1, <1>2, <1>3 DEF Unended
<1>6. Targets(Inst("br", "", VoidType, <<t>>)) = <<t>>
  BY DEF Targets, Inst
<1>7. \A b \in O \ {g.at} : Unended(g.body, b)
  BY <1>1, <1>2, <1>3 DEF Unended
<1>8. \A b \in Blocks(n) \ O : Ended(g.body, b)
  BY <1>1, <1>2, <1>3 DEF Ended
<1>9. g.body.succ[g.at] = Targets(Inst("br", "", VoidType, <<t>>)) /\ g.at \in O
  BY <1>1, <1>2, <1>4, <1>6
<1>10. Closed(g, Add(g, "br", "", VoidType, <<t>>), O, n)
  BY <1>1, <1>2, <1>3, <1>5, <1>7, <1>8, <1>9, Closes
<1> QED
  BY <1>2, <1>10 DEF create_br, g, Closed

LEMMA AppendPair ==
    ASSUME NEW x, NEW y
    PROVE  Append(<<x>>, y) = <<x, y>>
<1> DEFINE S == {x, y}
           a == Append(<<x>>, y)
           b == <<x, y>>
<1>1. <<x>> \in Seq(S) /\ y \in S /\ Len(<<x>>) = 1 /\ <<x>>[1] = x
  OBVIOUS
<1>2. a \in Seq(S) /\ Len(a) = 2 /\ a[1] = x /\ a[2] = y
  <2> HIDE DEF S
  <2>1. /\ a \in Seq(S) /\ Len(a) = Len(<<x>>) + 1
        /\ \A i \in 1 .. Len(<<x>>) : a[i] = <<x>>[i]
        /\ a[Len(<<x>>) + 1] = y
    BY ONLY <1>1, AppendProperties
  <2> QED
    BY ONLY <1>1, <2>1
<1>3. b \in Seq(S) /\ Len(b) = 2 /\ b[1] = x /\ b[2] = y
  OBVIOUS
<1>4. \A i \in 1 .. Len(a) : a[i] = b[i]
  <2> HIDE DEF a, b
  <2>1. ASSUME NEW i \in 1 .. Len(a)
        PROVE  a[i] = b[i]
    <3>1. i = 1 \/ i = 2
      BY ONLY <1>2, i \in 1 .. Len(a)
    <3> QED
      BY ONLY <3>1, <1>2, <1>3
  <2> QED
    BY <2>1
<1> HIDE DEF a, b, S
<1>5. a = b
  BY <1>2, <1>3, <1>4, SeqEqual
<1> QED
  BY <1>5 DEF a, b

LEMMA CondBrCloses ==
    ASSUME NEW e, NEW O, NEW n, Ready(e, O, n), NEW cond, NEW t \in Later(n), NEW u \in Later(n)
    PROVE  Closed(e, create_cond_br(e, cond, t, u), O, n)
<1> DEFINE g == WithEdge(e, u)
           h == WithEdge(g, t)
<1>1. /\ IsBuilder(e) /\ Shape(e.body, n) /\ O \subseteq Blocks(n) /\ e.at \in O /\ Linked(e.body, n)
      /\ \A b \in O : Unended(e.body, b)
      /\ \A b \in Blocks(n) \ O : Ended(e.body, b)
      /\ e.at \in Blocks(n)
  BY DEF Ready, BodyOK
<1>2. IsBuilder(g) /\ g.at = e.at /\ EdgeTo(e.body, g.body, n, e.at, u)
  BY <1>1, WithEdgeFacts
<1> HIDE DEF g
<1>3. /\ Shape(g.body, n) /\ Linked(g.body, n) /\ g.body.code = e.body.code
      /\ g.body.succ[e.at] = Append(e.body.succ[e.at], u)
      /\ \A x \in Blocks(n) : x # e.at => g.body.succ[x] = e.body.succ[x]
  BY <1>2 DEF EdgeTo
<1>4. IsBuilder(h) /\ h.at = g.at /\ EdgeTo(g.body, h.body, n, g.at, t)
  BY <1>1, <1>2, <1>3, WithEdgeFacts
<1> HIDE DEF h
<1>5. /\ Shape(h.body, n) /\ Linked(h.body, n) /\ h.body.code = e.body.code
      /\ h.body.succ[e.at] = Append(g.body.succ[e.at], t)
      /\ \A x \in Blocks(n) : x # e.at => h.body.succ[x] = e.body.succ[x]
      /\ h.at = e.at
  BY <1>2, <1>3, <1>4 DEF EdgeTo
<1>6. h.body.succ[h.at] = <<u, t>>
  <2>1. e.body.succ[e.at] = <<>>
    BY <1>1 DEF Unended
  <2>2. g.body.succ[e.at] = <<u>>
    BY ONLY <2>1, <1>3
  <2>3. Append(<<u>>, t) = <<u, t>>
    BY ONLY AppendPair
  <2> QED
    BY ONLY <2>2, <2>3, <1>5
<1>7. \A k \in DOMAIN h.body.code[h.at] : ~ IsTerminator(h.body.code[h.at][k])
  BY <1>1, <1>5 DEF Unended
<1>8. Targets(Inst("br", "", VoidType, <<cond, t, u>>)) = <<u, t>>
  BY DEF Targets, Inst
<1>9. \A b \in O \ {h.at} : Unended(h.body, b)
  BY <1>1, <1>5 DEF Unended
<1>10. \A b \in Blocks(n) \ O : Ended(h.body, b)
  BY <1>1, <1>5 DEF Ended
<1>11. h.body.succ[h.at] = Targets(Inst("br", "", VoidType, <<cond, t, u>>)) /\ h.at \in O
  BY <1>1, <1>5, <1>6, <1>8
<1>12. Closed(h, Add(h, "br", "", VoidType, <<cond, t, u>>), O, n)
  BY <1>1, <1>4, <1>5, <1>7, <1>9, <1>10, <1>11, Closes
<1> QED
  BY <1>5, <1>12 DEF create_cond_br, g, h, Closed

Grown(f, g, m, n) ==
    /\ HasDomain(g, 1 .. m + n)
    /\ \A b \in 1 .. m : g[b] = f[b]
    /\ \A b \in m + 1 .. m + n : g[b] = <<>>

LEMMA GrownList ==
    ASSUME NEW m \in Nat, NEW n \in Nat, NEW f, HasDomain(f, 1 .. m)
    PROVE  Grown(f, Longer(f, n), m, n)
<1> DEFINE h == [k \in 1 .. n |-> <<>>]
           g == f \o h
<1>1. IsList(f) /\ Len(f) = m
  BY FunctionList DEF HasDomain
<1>2. IsList(h) /\ Len(h) = n /\ \A k \in 1 .. n : h[k] = <<>>
  <2>1. h = [k \in 1 .. n |-> h[k]] /\ \A k \in 1 .. n : h[k] = <<>>
    OBVIOUS
  <2> QED
    BY <2>1, FunctionList
<1> HIDE DEF h
<1>3. /\ IsList(g) /\ Len(g) = m + n
      /\ \A k \in 1 .. m : g[k] = f[k]
      /\ \A k \in 1 .. n : g[m + k] = h[k]
  BY <1>1, <1>2, ConcatList
<1> HIDE DEF g
<1>4. ASSUME NEW b \in m + 1 .. m + n
      PROVE  g[b] = <<>>
  <2>1. b - m \in 1 .. n /\ b = m + (b - m)
    OBVIOUS
  <2> QED
    BY <2>1, <1>2, <1>3
<1>5. HasDomain(g, 1 .. m + n)
  <2>1. PICK S : g \in Seq(S)
    BY <1>3 DEF IsList
  <2>2. DOMAIN g = 1 .. m + n /\ g = [x \in DOMAIN g |-> g[x]]
    BY <2>1, <1>3
  <2> QED
    BY <2>2 DEF HasDomain
<1> QED
  BY <1>3, <1>4, <1>5 DEF g, h, Grown, Longer

\* G is F with n blocks more.
GrownTo(F, G, m, n) ==
    /\ Shape(G, m + n)
    /\ \A b \in Blocks(m) : G.code[b] = F.code[b] /\ G.succ[b] = F.succ[b] /\ G.pre[b] = F.pre[b]
    /\ \A b \in Blocks(m + n) \ Blocks(m) : G.code[b] = <<>> /\ G.succ[b] = <<>> /\ G.pre[b] = <<>>

LEMMA GrownShape ==
    ASSUME NEW F, NEW m, Shape(F, m), NEW n \in Nat
    PROVE  GrownTo(F, WithBlocks(F, n), m, n)
<1> DEFINE code == Longer(F.code, n)
           succ == Longer(F.succ, n)
           pre == Longer(F.pre, n)
           G == WithBlocks(F, n)
<1>1. m \in Nat \ {0} /\ HasDomain(F.code, 1 .. m) /\ HasDomain(F.succ, 1 .. m) /\ HasDomain(F.pre, 1 .. m)
  BY DEF Shape, Blocks
<1>2. /\ HasDomain(code, 1 .. m + n)
      /\ \A b \in 1 .. m : code[b] = F.code[b]
      /\ \A b \in m + 1 .. m + n : code[b] = <<>>
  <2>1. Grown(F.code, code, m, n)
    BY <1>1, GrownList
  <2> QED
    BY ONLY <2>1 DEF Grown
<1>3. /\ HasDomain(succ, 1 .. m + n)
      /\ \A b \in 1 .. m : succ[b] = F.succ[b]
      /\ \A b \in m + 1 .. m + n : succ[b] = <<>>
  <2>1. Grown(F.succ, succ, m, n)
    BY <1>1, GrownList
  <2> QED
    BY ONLY <2>1 DEF Grown
<1>4. /\ HasDomain(pre, 1 .. m + n)
      /\ \A b \in 1 .. m : pre[b] = F.pre[b]
      /\ \A b \in m + 1 .. m + n : pre[b] = <<>>
  <2>1. Grown(F.pre, pre, m, n)
    BY <1>1, GrownList
  <2> QED
    BY ONLY <2>1 DEF Grown
<1>5. IsBody(G) /\ G.code = code /\ G.succ = succ /\ G.pre = pre
  BY DEF WithBlocks, IsBody
<1> HIDE DEF code, succ, pre, G
<1>6. Blocks(m) = 1 .. m /\ Blocks(m + n) = 1 .. m + n
  BY DEF Blocks
<1>7. Blocks(m + n) \ Blocks(m) = m + 1 .. m + n
  BY <1>1, <1>6
<1>8. \A b \in Blocks(m) : IsList(F.code[b]) /\ IsList(F.succ[b]) /\ IsList(F.pre[b])
  BY DEF Shape
<1>9. \A b \in Blocks(m + n) : b \in Blocks(m) \/ b \in m + 1 .. m + n
  BY <1>7
<1>10. \A b \in Blocks(m + n) : IsList(code[b]) /\ IsList(succ[b]) /\ IsList(pre[b])
  BY <1>2, <1>3, <1>4, <1>6, <1>8, <1>9, EmptyList
<1>11. m + n \in Nat \ {0}
  BY <1>1
<1>12. Shape(G, m + n)
  BY <1>2, <1>3, <1>4, <1>5, <1>6, <1>10, <1>11 DEF Shape
<1> QED
  BY <1>2, <1>3, <1>4, <1>5, <1>6, <1>7, <1>12 DEF G, GrownTo

\* The new blocks are open and without edges.
LEMMA GrownBody ==
    ASSUME NEW F, NEW O, NEW m, BodyOK(F, O, m), NEW n \in Nat
    PROVE  BodyOK(WithBlocks(F, n), O \cup (m + 1 .. m + n), m + n)
<1> DEFINE G == WithBlocks(F, n)
           P == O \cup (m + 1 .. m + n)
<1>1. Shape(F, m) /\ O \subseteq Blocks(m) /\ Linked(F, m) /\ m \in Nat \ {0}
      /\ (\A b \in O : Unended(F, b)) /\ (\A b \in Blocks(m) \ O : Ended(F, b))
  BY DEF BodyOK, Shape
<1>2. /\ Shape(G, m + n)
      /\ \A b \in Blocks(m) : G.code[b] = F.code[b] /\ G.succ[b] = F.succ[b] /\ G.pre[b] = F.pre[b]
      /\ \A b \in Blocks(m + n) \ Blocks(m) : G.code[b] = <<>> /\ G.succ[b] = <<>> /\ G.pre[b] = <<>>
  <2>1. GrownTo(F, G, m, n)
    BY ONLY <1>1, n \in Nat, GrownShape
  <2> HIDE DEF G
  <2> QED
    BY ONLY <2>1 DEF GrownTo
<1> HIDE DEF G
<1>3. /\ Blocks(m + n) = Blocks(m) \cup (m + 1 .. m + n)
      /\ Blocks(m + n) \ Blocks(m) = m + 1 .. m + n
      /\ 1 \in Blocks(m)
  BY <1>1 DEF Blocks
<1>4. \A b \in P : Unended(G, b)
  <2>1. ASSUME NEW b \in O
        PROVE  Unended(G, b)
    BY <1>1, <1>2 DEF Unended
  <2>2. ASSUME NEW b \in m + 1 .. m + n
        PROVE  Unended(G, b)
    <3>1. G.code[b] = <<>> /\ G.succ[b] = <<>>
      BY <1>2, <1>3
    <3>2. DOMAIN <<>> = {}
      OBVIOUS
    <3> QED
      BY <3>1, <3>2 DEF Unended
  <2> QED
    BY <2>1, <2>2
<1>5. \A b \in Blocks(m + n) \ P : Ended(G, b)
  <2>1. \A b \in Blocks(m + n) \ P : b \in Blocks(m) \ O
    BY <1>3
  <2> QED
    BY <2>1, <1>1, <1>2 DEF Ended
<1>10. Blocks(m + n) \subseteq Nat
  BY <1>1 DEF Blocks
<1>6. ASSUME NEW x \in Blocks(m + n), NEW y \in Blocks(m + n)
      PROVE  Times(G.succ[x], y) = Times(G.pre[y], x)
  <2> DEFINE New == Blocks(m + n) \ Blocks(m)
  <2>0. /\ x \in New => G.succ[x] = <<>>
        /\ y \in New => G.pre[y] = <<>>
        /\ x \in Blocks(m) => G.succ[x] = F.succ[x]
        /\ y \in Blocks(m) => G.pre[y] = F.pre[y]
    BY <1>2
  <2>1. CASE x \in Blocks(m) /\ y \in Blocks(m)
    BY <2>0, <2>1, <1>1 DEF Linked
  <2>2. CASE x \in New /\ y \in New
    BY <2>0, <2>2, TimesEmpty
  <2>3. CASE x \in Blocks(m) /\ y \in New
    <3>1. Times(F.succ[x], y) = 0
      BY <2>3, <1>1, <1>10 DEF Linked
    <3> QED
      BY <3>1, <2>0, <2>3, TimesEmpty
  <2>4. CASE x \in New /\ y \in Blocks(m)
    <3>1. Times(F.pre[y], x) = 0
      BY <2>4, <1>1, <1>10 DEF Linked
    <3> QED
      BY <3>1, <2>0, <2>4, TimesEmpty
  <2> QED
    BY <2>1, <2>2, <2>3, <2>4
<1>7. G.pre[1] = <<>>
  BY <1>1, <1>2, <1>3 DEF Linked
<1>11. ASSUME NEW x \in Blocks(m + n), NEW y \in Nat \ Blocks(m + n)
       PROVE  Times(G.succ[x], y) = 0 /\ Times(G.pre[x], y) = 0
  <2>1. CASE x \in Blocks(m)
    BY <2>1, <1>1, <1>2, <1>3 DEF Linked
  <2>2. CASE x \notin Blocks(m)
    BY <2>2, <1>2, TimesEmpty
  <2> QED
    BY <2>1, <2>2
<1>8. Linked(G, m + n)
  BY <1>6, <1>7, <1>11 DEF Linked
<1>9. P \subseteq Blocks(m + n)
  BY <1>1, <1>3
<1> QED
  BY <1>2, <1>4, <1>5, <1>8, <1>9 DEF BodyOK, G

LEMMA BodyFacts ==
    ASSUME NEW F, NEW O, NEW n, BodyOK(F, O, n)
    PROVE  /\ n \in Nat \ {0} /\ 1 \in Blocks(n) /\ Len(F.code) = n /\ F.code # <<>>
           /\ O \subseteq Blocks(n)
           /\ \A b \in O : ~ Terminated(F, b)
           /\ \A b \in Blocks(n) \ O : Terminated(F, b)
<1>1. Shape(F, n) /\ O \subseteq Blocks(n) /\ n \in Nat \ {0}
  BY DEF BodyOK, Shape
<1>2. IsList(F.code) /\ Len(F.code) = n
  BY <1>1, FunctionList DEF Shape, HasDomain, Blocks
<1>3. 1 \in Blocks(n) /\ F.code # <<>>
  BY <1>1, <1>2, ListFacts DEF Blocks
<1>4. \A b \in Blocks(n) : IsList(F.code[b])
  BY <1>1 DEF Shape
<1>5. ASSUME NEW b \in Blocks(n), F.code[b] # <<>>
      PROVE  Len(F.code[b]) \in DOMAIN F.code[b]
  BY <1>4, <1>5, ListFacts
<1>6. \A b \in O : ~ Terminated(F, b)
  BY <1>1, <1>5 DEF BodyOK, Unended, Terminated, IsTerminator
<1>7. \A b \in Blocks(n) \ O : Terminated(F, b)
  BY <1>5 DEF BodyOK, Ended, Terminated, IsTerminator
<1> QED
  BY <1>1, <1>2, <1>3, <1>6, <1>7

\* A function with one block.
LEMMA FreshBody ==
    ASSUME NEW r, NEW p
    PROVE  BodyOK(BasicBlockCreate(Function(r, p)), {1}, 1)
<1> DEFINE F == Function(r, p)
           G == WithBlocks(F, 1)
           one == Longer(<<>>, 1)
<1>1. F.code = <<>> /\ F.succ = <<>> /\ F.pre = <<>>
  BY DEF Function
<1>2. IsBody(G) /\ G.code = one /\ G.succ = one /\ G.pre = one
  BY <1>1 DEF WithBlocks, IsBody
<1> HIDE DEF F, G, one
<1>3. Grown(<<>>, one, 0, 1)
  <2>1. HasDomain(<<>>, 1 .. 0)
    <3>1. <<>> = [x \in {} |-> <<>>[x]]
      OBVIOUS
    <3>2. 1 .. 0 = {}
      OBVIOUS
    <3> QED
      BY <3>1, <3>2 DEF HasDomain
  <2> QED
    BY <2>1, GrownList DEF one
<1>4. HasDomain(one, 1 .. 1) /\ one[1] = <<>>
  BY <1>3 DEF Grown
<1>5. Blocks(1) = 1 .. 1 /\ \A b \in Blocks(1) : b = 1
  BY DEF Blocks
<1>6. Shape(G, 1)
  BY <1>2, <1>4, <1>5, EmptyList DEF Shape
<1>7. Unended(G, 1)
  <2>1. DOMAIN <<>> = {}
    OBVIOUS
  <2> QED
    BY <2>1, <1>2, <1>4 DEF Unended
<1>8. Linked(G, 1)
  <2>1. \A x \in Blocks(1) : G.succ[x] = <<>> /\ G.pre[x] = <<>>
    BY <1>2, <1>4, <1>5
  <2> QED
    BY <2>1, <1>5, TimesEmpty DEF Linked
<1>9. BodyOK(G, {1}, 1)
  BY <1>5, <1>6, <1>7, <1>8 DEF BodyOK
<1> QED
  BY <1>9 DEF BasicBlockCreate, F, G

-----------------------------------------------------------------------------
(* What the operators of IRBuilder and of the visits leave                 *)

LEMMA AtPoint ==
    ASSUME NEW e, NEW O, NEW n, BodyOK(e.body, O, n), NEW b \in O
    PROVE  Ready(set_insert_point(e, b), O, n) /\ set_insert_point(e, b).at = b
PROOF BY AtBlock DEF set_insert_point

LEMMA KeepsAll ==
    ASSUME NEW e, NEW f, NEW g, NEW O, NEW n, Keeps(e, f, O, n), Keeps(f, g, O, n)
    PROVE  Keeps(e, g, O, n)
PROOF BY DEF Keeps

LEMMA KeepsItself ==
    ASSUME NEW e, NEW O, NEW n, Ready(e, O, n)
    PROVE  Keeps(e, e, O, n) /\ \A v : Keeps(e, WithValue(e, v), O, n)
<1>1. \A v : Keeps(e, WithValue(e, v), O, n)
  BY AtBlock DEF WithValue, Keeps, Ready
<1> QED
  BY <1>1 DEF Keeps

LEMMA NewBlocksReady ==
    ASSUME NEW e, NEW O, NEW m, Ready(e, O, m), NEW n \in Nat
    PROVE  Keeps(e, NewBlocks(e, n), O \cup (m + 1 .. m + n), m + n)
<1> DEFINE P == O \cup (m + 1 .. m + n)
<1>1. BodyOK(WithBlocks(e.body, n), P, m + n) /\ e.at \in O
  BY GrownBody DEF Ready
<1>2. e.at \in P
  BY <1>1
<1> HIDE DEF P
<1>3. Ready(NewBlocks(e, n), P, m + n) /\ NewBlocks(e, n).at = e.at
  BY <1>1, <1>2, AtBlock DEF NewBlocks
<1>4. Keeps(e, NewBlocks(e, n), P, m + n)
  BY ONLY <1>3 DEF Keeps
<1> QED
  BY <1>4 DEF P

LEMMA CreateKeeps ==
    ASSUME NEW e, NEW O, NEW n, Ready(e, O, n), NEW v, NEW w, NEW x
    PROVE  /\ Keeps(e, create_icmp(e, x, v, w), O, n)
           /\ Keeps(e, create_fcmp(e, x, v, w), O, n)
           /\ Keeps(e, create_zext(e, v, w), O, n)
           /\ Keeps(e, create_sitofp(e, v, w), O, n)
           /\ Keeps(e, create_fptosi(e, v, w), O, n)
           /\ Keeps(e, create_alloca(e, v), O, n)
           /\ Keeps(e, create_load(e, v), O, n)
           /\ Keeps(e, create_store(e, v, w), O, n)
           /\ Keeps(e, create_gep(e, v, w), O, n)
           /\ Keeps(e, create_call(e, v, w, x), O, n)
<1>1. Keeps(e, create_icmp(e, x, v, w), O, n)
  BY AddReady DEF create_icmp
<1>2. Keeps(e, create_fcmp(e, x, v, w), O, n)
  BY AddReady DEF create_fcmp
<1>3. Keeps(e, create_zext(e, v, w), O, n)
  BY AddReady DEF create_zext
<1>4. Keeps(e, create_sitofp(e, v, w), O, n)
  BY AddReady DEF create_sitofp
<1>5. Keeps(e, create_fptosi(e, v, w), O, n)
  BY AddReady DEF create_fptosi
<1>6. Keeps(e, create_alloca(e, v), O, n)
  BY AddReady DEF create_alloca
<1>7. Keeps(e, create_load(e, v), O, n)
  BY AddReady DEF create_load
<1>8. Keeps(e, create_store(e, v, w), O, n)
  BY AddReady DEF create_store
<1>9. Keeps(e, create_gep(e, v, w), O, n)
  BY AddReady DEF create_gep
<1>10. Keeps(e, create_call(e, v, w, x), O, n)
  BY AddReady DEF create_call
<1> QED
  BY <1>1, <1>2, <1>3, <1>4, <1>5, <1>6, <1>7, <1>8, <1>9, <1>10

LEMMA BinaryKeeps ==
    ASSUME NEW e, NEW O, NEW n, Ready(e, O, n), NEW v, NEW w,
           NEW op \in {"add", "fadd", "sub", "fsub", "mul", "fmul", "sdiv", "fdiv"}
    PROVE  Keeps(e, create_binary(e, op, v, w), O, n)
PROOF BY AddReady DEF create_binary

LEMMA ConvertKeeps ==
    ASSUME NEW e, NEW O, NEW n, Ready(e, O, n), NEW v, NEW type
    PROVE  /\ Keeps(e, ConvertReturned(e, v), O, n)
           /\ Keeps(e, ConvertIndex(e, v), O, n)
           /\ Keeps(e, ConvertStored(e, v, type), O, n)
           /\ Keeps(e, ConvertArgument(e, v, type), O, n)
<1>1. Keeps(e, WithValue(e, v), O, n) /\ Keeps(e, ToInt(e, v), O, n) /\ Keeps(e, ToFloat(e, v), O, n)
  BY KeepsItself, CreateKeeps DEF ToInt, ToFloat
<1>2. Keeps(e, ConvertReturned(e, v), O, n)
  BY <1>1 DEF ConvertReturned
<1>3. Keeps(e, ConvertIndex(e, v), O, n)
  BY <1>1 DEF ConvertIndex
<1>4. Keeps(e, ConvertStored(e, v, type), O, n)
  BY <1>1 DEF ConvertStored
<1>5. Keeps(e, ConvertArgument(e, v, type), O, n)
  BY <1>1 DEF ConvertArgument
<1> QED
  BY <1>2, <1>3, <1>4, <1>5

LEMMA PromoteKeeps ==
    ASSUME NEW e, NEW O, NEW n, Ready(e, O, n), NEW l, NEW r
    PROVE  Keeps(e, Promote(e, l, r).e, O, n)
<1>1. /\ Keeps(e, e, O, n)
      /\ Keeps(e, create_sitofp(e, l, FloatType), O, n)
      /\ Keeps(e, create_sitofp(e, r, FloatType), O, n)
  BY KeepsItself, CreateKeeps
<1>2. \/ Promote(e, l, r).e = e
      \/ Promote(e, l, r).e = create_sitofp(e, l, FloatType)
      \/ Promote(e, l, r).e = create_sitofp(e, r, FloatType)
  BY DEF Promote
<1> QED
  BY <1>1, <1>2

LEMMA NotZeroKeeps ==
    ASSUME NEW e, NEW O, NEW n, Ready(e, O, n), NEW v
    PROVE  Keeps(e, NotZero(e, v), O, n)
PROOF BY CreateKeeps DEF NotZero

LEMMA WholeVarKeeps ==
    ASSUME NEW e, NEW O, NEW n, Ready(e, O, n), NEW var
    PROVE  Keeps(e, WholeVar(e, var), O, n)
PROOF BY CreateKeeps DEF WholeVar

LEMMA ElementKeeps ==
    ASSUME NEW e, NEW O, NEW n, Ready(e, O, n), NEW var, NEW val
    PROVE  Keeps(e, ElementOf(e, var, val), O, n)
<1> DEFINE load == create_load(e, var)
<1>1. Keeps(e, load, O, n)
  BY CreateKeeps
<1>2. Keeps(load, create_gep(load, load.val, <<val>>), O, n)
  BY <1>1, CreateKeeps DEF Keeps
<1>3. Keeps(e, create_gep(load, load.val, <<val>>), O, n)
  BY <1>1, <1>2, KeepsAll
<1>4. /\ Keeps(e, create_gep(e, var, <<ConstantInt(0), val>>), O, n)
      /\ Keeps(e, create_gep(e, var, <<val>>), O, n)
  BY CreateKeeps
<1> QED
  BY <1>3, <1>4 DEF ElementOf

LEMMA ReturnCloses ==
    ASSUME NEW e, NEW O, NEW n, Ready(e, O, n)
    PROVE  Closed(e, ReturnDefault(e), O, n)
<1>1. Closed(e, create_void_ret(e), O, n) /\ \A v : Closed(e, create_ret(e, v), O, n)
  BY RetCloses DEF create_void_ret, create_ret
<1> QED
  BY <1>1 DEF ReturnDefault

\* The block of the exception is closed; the builder is in the one after.
LEMMA CheckIndexLeaves ==
    ASSUME NEW e, NEW O, NEW n, Ready(e, O, n), NEW val,
           NEW x \in O \cap Later(n), NEW c \in O \cap Later(n), x # c, x # e.at, c # e.at
    PROVE  /\ Ready(CheckIndex(e, val, x, c), (O \ {e.at}) \ {x}, n)
           /\ CheckIndex(e, val, x, c).at = c
<1> DEFINE neg == create_icmp(e, "lt", val, ConstantInt(0))
           branch == create_cond_br(neg, neg.val, x, c)
           fun == find(inner, "neg_idx_except")[2]
           inside == set_insert_point(branch, x)
           thrown == create_call(inside, fun, functions[fun].ret, <<>>)
           back == ReturnDefault(thrown)
           P == O \ {e.at}
<1>1. Ready(neg, O, n) /\ neg.at = e.at
  BY CreateKeeps DEF Keeps
<1>2. BodyOK(branch.body, P, n)
  <2>1. Closed(neg, branch, O, n)
    BY <1>1, CondBrCloses
  <2> QED
    BY <2>1, <1>1 DEF Closed
<1>3. Ready(inside, P, n) /\ inside.at = x
  BY <1>2, AtPoint
<1>4. Ready(thrown, P, n) /\ thrown.at = x
  BY <1>3, CreateKeeps DEF Keeps
<1>5. BodyOK(back.body, P \ {x}, n)
  <2>1. Closed(thrown, back, P, n)
    BY <1>4, ReturnCloses
  <2> QED
    BY <2>1, <1>4 DEF Closed
<1>6. c \in P \ {x}
  OBVIOUS
<1>7. CheckIndex(e, val, x, c) = set_insert_point(back, c)
  BY DEF CheckIndex
<1> HIDE DEF back, P
<1>8. Ready(set_insert_point(back, c), P \ {x}, n) /\ set_insert_point(back, c).at = c
  BY <1>5, <1>6, AtPoint
<1> QED
  BY <1>7, <1>8 DEF P

-----------------------------------------------------------------------------
(* The stack of work                                                       *)

\* What holds between two items of the stack: whether the insert block is open,
\* closed or one of the two, or there is no function; how many maps the scope
\* has; which request is out; the blocks that will be inserted at later; and how
\* many blocks there are at least.
State == [mode : {"open", "any", "closed", "top"}, depth : Nat \ {0},
          asked : {"nothing", "scope", "address"}, pend : SUBSET Nat, blocks : Nat]
At(m, d, a, p, b) == [mode |-> m, depth |-> d, asked |-> a, pend |-> p, blocks |-> b]
Final == At("top", 1, "nothing", {}, 0)

ExprKinds == {"num", "var", "assign-expression", "simple-expression", "additive-expression",
              "term", "call"}
StmtKinds == {"compound-stmt", "expression-stmt", "selection-stmt", "iteration-stmt", "return-stmt"}

\* An expression is evaluated in an open block and leaves one, with its node at
\* hand.
ExprSteps == ExprKinds \cup
    {"index", "address", "store", "relation right", "relation made", "sum right", "sum made",
     "product right", "product made", "arguments", "argument"}
IsExpr(i, kind) == i.node \in ExprNode /\ i.node.kind = kind
IsBinary(i, kind) == IsExpr(i, kind) /\ Len(i.node.operands) = 2
ExprMoves(i, s, t) ==
    /\ i.step \in ExprSteps =>
           s.mode = "open" /\ t.mode = "open" /\ t.depth = s.depth /\ t.pend = s.pend
    /\ i.step \in ExprKinds => IsExpr(i, i.step)
    /\ i.step = "address" => IsExpr(i, "assign-expression")
    /\ i.step = "relation right" => IsBinary(i, "simple-expression")
    /\ i.step \in {"sum right", "sum made"} => IsBinary(i, "additive-expression")
    /\ i.step \in {"product right", "product made"} => IsBinary(i, "term")
    /\ i.step \in {"arguments", "argument"} => IsExpr(i, "call") /\ IsList(i.saved[2])

\* A statement begins in an open block; whether it leaves one is not known.
IsStmt(i, kind) == i.node \in StmtNode /\ i.node.kind = kind
StmtMoves(i, s, t) ==
    /\ i.step \in StmtKinds \cup {"branches", "loop", "return"} =>
           s.mode = "open" /\ t.mode = "any" /\ t.depth = s.depth /\ t.pend = s.pend
    /\ i.step \in StmtKinds => IsStmt(i, i.step)
    /\ i.step = "branches" => IsStmt(i, "selection-stmt")
    /\ i.step = "loop" => IsStmt(i, "iteration-stmt") /\ i.saved[1] \in Later(s.blocks)
    /\ i.step = "statements" =>
           /\ IsStmt(i, "compound-stmt")
           /\ i.saved[1] \in Nat \ {0} /\ i.saved[2] \in BOOLEAN
           /\ s.mode \in {"open", "any"} /\ (i.saved[1] = 1 => s.mode = "open")
           /\ t.mode = "any" /\ t.pend = s.pend
           /\ s.depth = IF i.saved[2] THEN t.depth + 1 ELSE t.depth
    /\ i.step = "jump" =>
           /\ s.mode \in {"open", "any"} /\ i.saved[1] \in Later(s.blocks)
           /\ t.mode = "closed" /\ t.depth = s.depth /\ t.pend = s.pend
    /\ i.step = "insert at" =>
           /\ s.mode = "closed" /\ i.saved[1] \in s.pend
           /\ t.mode \in {"open", "any"} /\ t.depth = s.depth /\ t.pend = s.pend \ {i.saved[1]}

\* Declarations.
IsFun(i) == i.node \in DeclNode /\ i.node.kind = "fun-declaration"
IsVar(i) == i.node \in DeclNode /\ i.node.kind = "var-declaration"
InLibrary(entry) == \E k \in DOMAIN Library : Library[k] = entry
DeclMoves(i, s, t) ==
    /\ i.step \in {"library", "program", "fun-declaration"} => s = Final /\ t = Final
    /\ i.step = "library" => InLibrary(i.node) /\ i.node[2].code = <<>>
    /\ i.step = "program" => Nodes(i.node.declarations, DeclNode)
    /\ i.step = "fun-declaration" => IsFun(i)
    /\ i.step = "var-declaration" => IsVar(i) /\ t = s /\ (s = Final \/ s.mode = "open")
    /\ i.step = "scope" => IsFun(i) /\ s.mode = "open" /\ s.depth = 1 /\ s.pend = {} /\ t = Final
    /\ i.step = "param" =>
           /\ IsFun(i) /\ i.saved[1] \in DOMAIN i.node.params
           /\ s.mode = "open" /\ s.asked = "scope" /\ t = s
    /\ i.step = "end" =>
           s.mode \in {"open", "any"} /\ s.depth = 2 /\ s.pend = {} /\ t = Final

\* An item leads from s to t.
Moves(i, s, t) ==
    /\ s \in State /\ t \in State
    /\ s.asked = "address" => i.step = "var"
    /\ s.asked = "scope" => i.step \in {"param", "compound-stmt"}
    /\ i.step # "param" => t.asked = "nothing"
    /\ t.blocks <= s.blocks
    /\ ExprMoves(i, s, t) /\ StmtMoves(i, s, t) /\ DeclMoves(i, s, t)

\* A stack of work leads from s to t.
TypedFrom(w, s, t) ==
    /\ IsList(w)
    /\ \E q : /\ q[1] = s /\ q[Len(w) + 1] = t
              /\ \A k \in 1 .. Len(w) : Moves(w[k], q[k], q[k + 1])

LEMMA TypedNone ==
    ASSUME NEW s
    PROVE  TypedFrom(<<>>, s, s)
<1> DEFINE q == [k \in 1 .. 1 |-> s]
<1>1. q[1] = s /\ q[Len(<<>>) + 1] = s
  BY EmptyList
<1>2. \A k \in 1 .. Len(<<>>) : Moves(<<>>[k], q[k], q[k + 1])
  BY EmptyList
<1> HIDE DEF q
<1> QED
  BY <1>1, <1>2, EmptyList DEF TypedFrom

LEMMA TypedOne ==
    ASSUME NEW i, NEW s, NEW t, Moves(i, s, t)
    PROVE  TypedFrom(<<i>>, s, t)
<1> DEFINE q == [k \in 1 .. 2 |-> IF k = 1 THEN s ELSE t]
           w == <<i>>
<1>1. IsList(w) /\ Len(w) = 1 /\ w[1] = i
  <2>1. w \in Seq({i})
    OBVIOUS
  <2> QED
    BY <2>1 DEF IsList
<1>2. q[1] = s /\ q[2] = t
  OBVIOUS
<1> HIDE DEF q, w
<1>3. \A k \in 1 .. Len(w) : Moves(w[k], q[k], q[k + 1])
  <2>1. \A k \in 1 .. Len(w) : k = 1 /\ k + 1 = 2
    BY <1>1
  <2> QED
    BY <2>1, <1>1, <1>2
<1>4. TypedFrom(w, s, t)
  BY <1>1, <1>2, <1>3 DEF TypedFrom
<1> QED
  BY <1>4 DEF w

LEMMA TypedConcat ==
    ASSUME NEW v, NEW w, NEW s, NEW u, NEW t, TypedFrom(v, s, u), TypedFrom(w, u, t)
    PROVE  TypedFrom(v \o w, s, t)
<1>1. IsList(v) /\ IsList(w) /\ Len(v) \in Nat /\ Len(w) \in Nat
  BY ListFacts DEF TypedFrom
<1>2. PICK p : /\ p[1] = s /\ p[Len(v) + 1] = u
               /\ \A k \in 1 .. Len(v) : Moves(v[k], p[k], p[k + 1])
  BY DEF TypedFrom
<1>3. PICK r : /\ r[1] = u /\ r[Len(w) + 1] = t
               /\ \A k \in 1 .. Len(w) : Moves(w[k], r[k], r[k + 1])
  BY DEF TypedFrom
<1> DEFINE x == v \o w
           m == Len(v)
           n == Len(w)
           q == [k \in 1 .. m + n + 1 |-> IF k <= m THEN p[k] ELSE r[k - m]]
<1>4. /\ IsList(x) /\ Len(x) = m + n
      /\ \A k \in 1 .. m : x[k] = v[k]
      /\ \A k \in 1 .. n : x[m + k] = w[k]
  BY <1>1, ConcatList
<1>5. m \in Nat /\ n \in Nat
  BY <1>1
<1> HIDE DEF x, m, n
<1>6. /\ \A k \in 1 .. m : q[k] = p[k]
      /\ \A k \in 1 .. n + 1 : q[m + k] = r[k]
  BY <1>5
<1> HIDE DEF q
<1>7. p[m + 1] = u /\ r[n + 1] = t
  BY <1>2, <1>3 DEF m, n
<1>8. q[1] = s
  <2>1. CASE m = 0
    BY <2>1, <1>2, <1>3, <1>5, <1>6, <1>7
  <2>2. CASE m # 0
    BY <2>2, <1>2, <1>5, <1>6
  <2> QED
    BY <2>1, <2>2
<1>9. q[m + n + 1] = t
  <2>1. n + 1 \in 1 .. n + 1 /\ m + (n + 1) = m + n + 1
    BY <1>5
  <2> QED
    BY <2>1, <1>6, <1>7
<1>10. ASSUME NEW k \in 1 .. m + n
       PROVE  Moves(x[k], q[k], q[k + 1])
  <2>1. CASE k \in 1 .. m
    <3>1. Moves(v[k], p[k], p[k + 1]) /\ x[k] = v[k] /\ q[k] = p[k]
      BY <2>1, <1>2, <1>4, <1>6 DEF m
    <3>2. q[k + 1] = p[k + 1]
      <4>1. CASE k = m
        <5>1. 1 \in 1 .. n + 1 /\ m + 1 = k + 1
          BY <4>1, <1>5
        <5> QED
          BY <5>1, <1>3, <1>6, <1>7
      <4>2. CASE k # m
        <5>1. k + 1 \in 1 .. m
          BY <4>2, <2>1, <1>5
        <5> QED
          BY <5>1, <1>6
      <4> QED
        BY <4>1, <4>2
    <3> QED
      BY <3>1, <3>2
  <2>2. CASE k \notin 1 .. m
    <3> DEFINE j == k - m
    <3>1. j \in 1 .. n /\ j \in 1 .. n + 1 /\ j + 1 \in 1 .. n + 1 /\ k = m + j /\ k + 1 = m + (j + 1)
      BY <2>2, <1>5
    <3> HIDE DEF j
    <3>2. Moves(w[j], r[j], r[j + 1])
      BY <3>1, <1>3 DEF n
    <3>3. x[k] = w[j] /\ q[k] = r[j] /\ q[k + 1] = r[j + 1]
      BY <3>1, <1>4, <1>6
    <3> QED
      BY <3>2, <3>3
  <2> QED
    BY <2>1, <2>2
<1>11. Len(x) + 1 = m + n + 1
  BY <1>4
<1>12. TypedFrom(x, s, t)
  BY <1>4, <1>8, <1>9, <1>10, <1>11 DEF TypedFrom
<1> QED
  BY <1>12 DEF x

LEMMA TypedTwo ==
    ASSUME NEW i, NEW j, NEW s, NEW u, NEW t, Moves(i, s, u), Moves(j, u, t)
    PROVE  TypedFrom(<<i, j>>, s, t)
<1> DEFINE q == [k \in 1 .. 3 |-> IF k = 1 THEN s ELSE IF k = 2 THEN u ELSE t]
           w == <<i, j>>
<1>1. IsList(w) /\ Len(w) = 2 /\ w[1] = i /\ w[2] = j
  <2>1. w \in Seq({i, j})
    OBVIOUS
  <2> QED
    BY <2>1 DEF IsList
<1>2. q[1] = s /\ q[2] = u /\ q[3] = t
  OBVIOUS
<1> HIDE DEF q, w
<1>3. \A k \in 1 .. Len(w) : Moves(w[k], q[k], q[k + 1])
  <2>1. \A k \in 1 .. Len(w) : (k = 1 /\ k + 1 = 2) \/ (k = 2 /\ k + 1 = 3)
    BY <1>1
  <2> QED
    BY <2>1, <1>1, <1>2
<1>4. TypedFrom(w, s, t)
  BY <1>1, <1>2, <1>3 DEF TypedFrom
<1> QED
  BY <1>4 DEF w

LEMMA TypedThree ==
    ASSUME NEW i, NEW j, NEW l, NEW s, NEW u, NEW v, NEW t,
           Moves(i, s, u), Moves(j, u, v), Moves(l, v, t)
    PROVE  TypedFrom(<<i, j, l>>, s, t)
<1> DEFINE q == [k \in 1 .. 4 |-> IF k = 1 THEN s ELSE IF k = 2 THEN u ELSE IF k = 3 THEN v ELSE t]
           w == <<i, j, l>>
<1>1. IsList(w) /\ Len(w) = 3 /\ w[1] = i /\ w[2] = j /\ w[3] = l
  <2>1. w \in Seq({i, j, l})
    OBVIOUS
  <2> QED
    BY <2>1 DEF IsList
<1>2. q[1] = s /\ q[2] = u /\ q[3] = v /\ q[4] = t
  OBVIOUS
<1> HIDE DEF q, w
<1>3. \A k \in 1 .. Len(w) : Moves(w[k], q[k], q[k + 1])
  <2>1. \A k \in 1 .. Len(w) : \/ k = 1 /\ k + 1 = 2
                               \/ k = 2 /\ k + 1 = 3
                               \/ k = 3 /\ k + 1 = 4
    BY <1>1
  <2> QED
    BY <2>1, <1>1, <1>2
<1>4. TypedFrom(w, s, t)
  BY <1>1, <1>2, <1>3 DEF TypedFrom
<1> QED
  BY <1>4 DEF w

\* A list of items each of which leaves things as they are.
LEMMA TypedAll ==
    ASSUME NEW n \in Nat, NEW w, HasDomain(w, 1 .. n), NEW s,
           \A k \in 1 .. n : Moves(w[k], s, s)
    PROVE  TypedFrom(w, s, s)
<1> DEFINE q == [k \in 1 .. n + 1 |-> s]
<1>1. IsList(w) /\ Len(w) = n
  BY FunctionList DEF HasDomain
<1>2. \A k \in 1 .. n + 1 : q[k] = s
  OBVIOUS
<1> HIDE DEF q
<1>3. q[1] = s /\ q[Len(w) + 1] = s
  BY <1>1, <1>2
<1>4. ASSUME NEW k \in 1 .. Len(w)
      PROVE  Moves(w[k], q[k], q[k + 1])
  <2>1. k \in 1 .. n /\ k \in 1 .. n + 1 /\ k + 1 \in 1 .. n + 1
    BY <1>1
  <2> QED
    BY <2>1, <1>2
<1> QED
  BY <1>1, <1>3, <1>4 DEF TypedFrom

LEMMA TypedVisits ==
    ASSUME NEW S, NEW nodes \in Seq(S), NEW s, \A n \in S : Moves(Visit(n), s, s)
    PROVE  TypedFrom(VisitAll(nodes), s, s)
<1> DEFINE w == VisitAll(nodes)
<1>1. Len(nodes) \in Nat /\ DOMAIN nodes = 1 .. Len(nodes)
  OBVIOUS
<1>2. w = [k \in 1 .. Len(nodes) |-> Visit(nodes[k])]
  BY <1>1 DEF VisitAll
<1>3. \A k \in 1 .. Len(nodes) : nodes[k] \in S
  OBVIOUS
<1> HIDE DEF w
<1>4. \A k \in 1 .. Len(nodes) : Moves(w[k], s, s)
  BY <1>2, <1>3
<1>5. HasDomain(w, 1 .. Len(nodes))
  BY <1>2 DEF HasDomain
<1>6. TypedFrom(w, s, s)
  BY <1>1, <1>4, <1>5, TypedAll
<1> QED
  BY <1>6 DEF w

\* The top of the stack and the rest.
LEMMA TypedSplit ==
    ASSUME NEW w, NEW s, NEW t, TypedFrom(w, s, t), w # <<>>
    PROVE  \E u : Moves(Head(w), s, u) /\ TypedFrom(Tail(w), u, t)
<1>1. IsList(w) /\ Len(w) \in Nat /\ Len(w) # 0
  BY ListFacts DEF TypedFrom
<1>2. PICK p : /\ p[1] = s /\ p[Len(w) + 1] = t
               /\ \A k \in 1 .. Len(w) : Moves(w[k], p[k], p[k + 1])
  BY DEF TypedFrom
<1> DEFINE v == Tail(w)
           q == [k \in 1 .. Len(w) |-> p[k + 1]]
<1>3. /\ IsList(v) /\ Len(v) = Len(w) - 1
      /\ \A k \in 1 .. Len(v) : v[k] = w[k + 1]
      /\ Head(w) = w[1]
  BY <1>1, TailList
<1>4. \A k \in 1 .. Len(w) : q[k] = p[k + 1]
  OBVIOUS
<1> HIDE DEF v, q
<1>5. Moves(Head(w), s, p[2])
  BY <1>1, <1>2, <1>3
<1>6. q[1] = p[2] /\ q[Len(v) + 1] = t
  BY <1>1, <1>2, <1>3, <1>4
<1>7. ASSUME NEW k \in 1 .. Len(v)
      PROVE  Moves(v[k], q[k], q[k + 1])
  <2>1. k \in 1 .. Len(w) /\ k + 1 \in 1 .. Len(w)
    BY <1>1, <1>3
  <2> QED
    BY <2>1, <1>2, <1>3, <1>4
<1>8. TypedFrom(v, p[2], t)
  BY <1>3, <1>6, <1>7 DEF TypedFrom
<1> QED
  BY <1>5, <1>8 DEF v

LEMMA TypedEnd ==
    ASSUME NEW s, NEW t, TypedFrom(<<>>, s, t)
    PROVE  s = t
PROOF BY EmptyList DEF TypedFrom

\* What goes on from a block that may be closed goes on from an open one.
Opened(s) == At("open", s.depth, s.asked, s.pend, s.blocks)

LEMMA MovesOpened ==
    ASSUME NEW i, NEW s, NEW t, Moves(i, s, t), s.mode = "any"
    PROVE  Moves(i, Opened(s), t)
<1>1. /\ Opened(s) \in State /\ Opened(s).mode = "open" /\ Opened(s).depth = s.depth
      /\ Opened(s).asked = s.asked /\ Opened(s).pend = s.pend /\ Opened(s).blocks = s.blocks
      /\ s # Final
  BY DEF Moves, State, Opened, At, Final
<1>2. ExprMoves(i, Opened(s), t)
  BY <1>1 DEF Moves, ExprMoves
<1>3. StmtMoves(i, Opened(s), t)
  BY <1>1 DEF Moves, StmtMoves
<1>4. DeclMoves(i, Opened(s), t)
  BY <1>1 DEF Moves, DeclMoves
<1> QED
  BY <1>1, <1>2, <1>3, <1>4 DEF Moves

LEMMA TypedOpened ==
    ASSUME NEW w, NEW s, TypedFrom(w, s, Final), s.mode = "any"
    PROVE  TypedFrom(w, Opened(s), Final)
<1>1. w # <<>>
  <2>1. s # Final
    BY DEF Final, At
  <2> QED
    BY <2>1, TypedEnd
<1>2. IsList(w) /\ Len(w) \in Nat /\ Len(w) # 0
  BY <1>1, ListFacts DEF TypedFrom
<1>3. PICK p : /\ p[1] = s /\ p[Len(w) + 1] = Final
               /\ \A k \in 1 .. Len(w) : Moves(w[k], p[k], p[k + 1])
  BY DEF TypedFrom
<1> DEFINE q == [k \in 1 .. Len(w) + 1 |-> IF k = 1 THEN Opened(s) ELSE p[k]]
<1>4. q[1] = Opened(s) /\ \A k \in 1 .. Len(w) + 1 : k # 1 => q[k] = p[k]
  BY <1>2
<1> HIDE DEF q
<1>5. q[Len(w) + 1] = Final
  BY <1>2, <1>3, <1>4
<1>6. ASSUME NEW k \in 1 .. Len(w)
      PROVE  Moves(w[k], q[k], q[k + 1])
  <2>1. k + 1 \in 1 .. Len(w) + 1 /\ k + 1 # 1 /\ k \in 1 .. Len(w) + 1
    BY <1>2
  <2>2. q[k + 1] = p[k + 1] /\ Moves(w[k], p[k], p[k + 1])
    BY <2>1, <1>3, <1>4
  <2>3. CASE k = 1
    <3>1. Moves(w[k], s, p[k + 1])
      BY <2>2, <2>3, <1>3
    <3>2. Moves(w[k], Opened(s), p[k + 1])
      BY <3>1, MovesOpened
    <3> QED
      BY <3>2, <2>2, <2>3, <1>4
  <2>4. CASE k # 1
    BY <2>1, <2>2, <2>4, <1>4
  <2> QED
    BY <2>3, <2>4
<1> QED
  BY <1>2, <1>4, <1>5, <1>6 DEF TypedFrom

-----------------------------------------------------------------------------
(* The invariant                                                           *)

\* The insert block b of F, at a point s of the stack.
Stands(F, b, s, n) ==
    /\ b \in Blocks(n) /\ b \notin s.pend /\ s.blocks <= n
    /\ \/ s.mode \in {"open", "any"} /\ BodyOK(F, s.pend \cup {b}, n)
       \/ s.mode \in {"closed", "any"} /\ BodyOK(F, s.pend, n)

\* A function of the library, or one that is ready.
Complete(F) == F.code = <<>> \/ \E n : BodyOK(F, {}, n)

\* The builder is at the point s.
ScopeAt(s) == IsList(inner) /\ Len(inner) = s.depth
FlagsAt(s) ==
    require_lvalue = (s.asked = "address") /\ pre_enter_scope = (s.asked = "scope")
FunctionsAt(s) ==
    /\ \A f \in DOMAIN functions : (s.mode # "top" /\ f = cur_fun) \/ Complete(functions[f])
    /\ s.mode # "top" =>
           cur_fun \in DOMAIN functions /\ \E n : Stands(functions[cur_fun], at, s, n)
Current(s) == s \in State /\ ScopeAt(s) /\ FlagsAt(s) /\ FunctionsAt(s)

BuilderInv ==
    /\ source \in Source
    /\ phase \in {"parsed", "build", "done"}
    /\ phase = "build" => \E s : Current(s) /\ TypedFrom(work, s, Final)
    /\ phase # "build" => Current(Final)

\* The next visit leads from s to t.
Before(s, t) ==
    /\ source \in Source /\ phase = "build" /\ work # <<>>
    /\ Current(s) /\ Moves(Head(work), s, t) /\ TypedFrom(Tail(work), t, Final)

\* The items of a visit lead from where it has come to where it was to lead, or
\* to the same point with an open block.
LEMMA Continues ==
    ASSUME NEW s, NEW t, NEW u, NEW v, NEW items, Before(s, t),
           Then(items), phase' = phase, source' = source,
           Current(u)', TypedFrom(items, u, v), v = t \/ (t.mode = "any" /\ v = Opened(t))
    PROVE  BuilderInv'
<1>1. TypedFrom(Tail(work), v, Final)
  BY TypedOpened DEF Before
<1>2. TypedFrom(items \o Tail(work), u, Final)
  BY <1>1, TypedConcat
<1>3. work' = items \o Tail(work)
  BY DEF Then
<1>4. TypedFrom(work', u, Final)
  BY <1>2, <1>3
<1>5. phase' = "build" /\ source' \in Source
  BY DEF Before
<1> QED
  BY <1>4, <1>5 DEF BuilderInv

\* A visit that makes no others.
LEMMA Returns ==
    ASSUME NEW s, NEW t, Before(s, t), Then(<<>>), phase' = phase, source' = source, Current(t)'
    PROVE  BuilderInv'
PROOF BY Continues, TypedNone

LEMMA PushList ==
    ASSUME NEW s, IsList(s), s # <<>>, NEW n, NEW v
    PROVE  IsList(push(s, n, v)) /\ Len(push(s, n, v)) = Len(s)
<1> DEFINE x == Bind(s[Len(s)], n, v)
           r == [s EXCEPT ![Len(s)] = x]
<1>1. PICK S : s \in Seq(S)
  BY DEF IsList
<1>2. s \in Seq(S \cup {x}) /\ x \in S \cup {x} /\ Len(s) \in 1 .. Len(s)
  BY <1>1, SeqMonotonic, EmptySeq
<1> HIDE DEF x
<1>3. r \in Seq(S \cup {x}) /\ Len(r) = Len(s)
  BY <1>2, ExceptSeq
<1>4. push(s, n, v) = r \/ push(s, n, v) = s
  BY DEF push, x
<1> QED
  BY <1>3, <1>4 DEF IsList

LEMMA EnterList ==
    ASSUME NEW s, IsList(s)
    PROVE  IsList(enter(s)) /\ Len(enter(s)) = Len(s) + 1
PROOF BY AppendList DEF enter

LEMMA ExitList ==
    ASSUME NEW s, IsList(s), s # <<>>
    PROVE  IsList(exit(s)) /\ Len(exit(s)) = Len(s) - 1
<1>1. PICK S : s \in Seq(S)
  BY DEF IsList
<1>2. Len(s) \in Nat /\ Len(s) # 0
  BY <1>1, EmptySeq
<1> DEFINE n == Len(s) - 1
<1>3. 1 \in 1 .. Len(s) + 1 /\ n \in 1 - 1 .. Len(s) /\ n \in Nat
  BY <1>2
<1>4. exit(s) = SubSeq(s, 1, n)
  BY DEF exit
<1> HIDE DEF n
<1>5. /\ SubSeq(s, 1, n) \in Seq(S)
      /\ Len(SubSeq(s, 1, n)) = IF 1 <= n THEN n - 1 + 1 ELSE 0
  BY <1>1, <1>3, SubSeqProperties
<1>6. Len(SubSeq(s, 1, n)) = n
  BY <1>3, <1>5
<1>7. exit(s) \in Seq(S) /\ Len(exit(s)) = Len(s) - 1
  BY <1>4, <1>5, <1>6 DEF n
<1> QED
  BY <1>7 DEF IsList

\* What the builder has emitted is the body of the function.
LEMMA EmitFunctions ==
    ASSUME NEW s, Current(s), s.mode # "top", NEW t, t.mode # "top", NEW e, NEW n,
           Stands(e.body, e.at, t, n), Emit(e), cur_fun' = cur_fun
    PROVE  FunctionsAt(t)'
<1>1. cur_fun \in DOMAIN functions
  BY DEF Current, FunctionsAt
<1>2. functions' = [functions EXCEPT ![cur_fun] = e.body] /\ at' = e.at
  BY DEF Emit
<1>3. /\ DOMAIN functions' = DOMAIN functions
      /\ functions'[cur_fun] = e.body
      /\ \A f \in DOMAIN functions : f # cur_fun => functions'[f] = functions[f]
  BY <1>1, <1>2
<1>4. \A f \in DOMAIN functions : f = cur_fun \/ Complete(functions[f])
  BY DEF Current, FunctionsAt
<1>5. \A f \in DOMAIN functions' : f = cur_fun' \/ Complete(functions'[f])
  BY <1>3, <1>4
<1>6. Stands(functions'[cur_fun'], at', t, n)
  BY <1>2, <1>3
<1> QED
  BY <1>1, <1>3, <1>5, <1>6 DEF FunctionsAt

\* Without an instruction more.
LEMMA SameFunctions ==
    ASSUME NEW s, FunctionsAt(s), NEW t,
           t.mode = s.mode \/ (s.mode = "open" /\ t.mode = "any"), t.pend = s.pend, t.blocks <= s.blocks,
           s.blocks \in Nat, t.blocks \in Nat,
           UNCHANGED <<functions, at, cur_fun>>
    PROVE  FunctionsAt(t)'
<1>1. ASSUME NEW n, Stands(functions[cur_fun], at, s, n)
      PROVE  Stands(functions[cur_fun], at, t, n)
  <2>1. n \in Nat
    BY <1>1, BodyFacts DEF Stands
  <2>2. t.blocks <= n
    BY <1>1, <2>1 DEF Stands
  <2> QED
    BY <1>1, <2>2 DEF Stands
<1> QED
  BY <1>1 DEF FunctionsAt

\* The builder in the open block of the function.
LEMMA OpenHere ==
    ASSUME NEW s, Current(s), s.mode = "open"
    PROVE  \E n : /\ Ready(Here, s.pend \cup {at}, n) /\ Here.at = at /\ Here.body = Body
                  /\ at \notin s.pend /\ s.blocks <= n /\ n \in Nat \ {0} /\ s.blocks \in Nat
                  /\ at \in Blocks(n) /\ s.pend \subseteq Blocks(n)
                  /\ Len(Body.code) = n /\ ~ Terminated(Body, at)
<1>1. PICK n : Stands(functions[cur_fun], at, s, n)
  BY DEF Current, FunctionsAt
<1>2. BodyOK(functions[cur_fun], s.pend \cup {at}, n) /\ at \notin s.pend /\ s.blocks <= n
  BY <1>1 DEF Stands
<1>3. /\ Ready(Here, s.pend \cup {at}, n) /\ Here.at = at
  BY <1>2, AtBlock DEF Here
<1>4. Here.body = Body
  BY DEF Here, Body, BuilderAt
<1>5. /\ n \in Nat \ {0} /\ Len(Body.code) = n /\ s.pend \cup {at} \subseteq Blocks(n)
      /\ ~ Terminated(Body, at)
  BY <1>2, BodyFacts DEF Body
<1>6. s.blocks \in Nat
  BY DEF Current, State
<1> QED
  BY <1>2, <1>3, <1>4, <1>5, <1>6

-----------------------------------------------------------------------------
(* Expressions                                                             *)

LEMMA OpenedItself ==
    ASSUME NEW t \in State
    PROVE  /\ t.mode = "open" => Opened(t) = t
           /\ Opened(t) \in State /\ Opened(t).mode = "open" /\ Opened(t).depth = t.depth
           /\ Opened(t).asked = t.asked /\ Opened(t).pend = t.pend /\ Opened(t).blocks = t.blocks
PROOF BY DEF State, Opened, At

\* A visit without effect on the function that makes other visits.
LEMMA Nested ==
    ASSUME NEW s, NEW t, Before(s, t), s.mode = "open", t.mode \in {"open", "any"},
           t.asked = "nothing", t.depth = s.depth, t.pend = s.pend,
           NEW items, TypedFrom(items, Opened(t), Opened(t)), Then(items),
           UNCHANGED <<source, inner, cur_fun, functions, at, phase>>,
           require_lvalue' = FALSE, pre_enter_scope' = FALSE
    PROVE  BuilderInv'
<1> DEFINE u == Opened(t)
<1>1. s \in State /\ t \in State /\ t.blocks <= s.blocks /\ Current(s)
  BY DEF Before, Moves
<1>2. /\ u \in State /\ u.mode = "open" /\ u.depth = s.depth /\ u.asked = "nothing"
      /\ u.pend = s.pend /\ u.blocks = t.blocks /\ (t.mode = "open" => u = t)
      /\ u.blocks \in Nat /\ s.blocks \in Nat
  BY <1>1, OpenedItself DEF State
<1> HIDE DEF u
<1>3. FunctionsAt(u)'
  BY <1>1, <1>2, SameFunctions DEF Current
<1>4. ScopeAt(u)'
  BY <1>1, <1>2 DEF Current, ScopeAt
<1>5. FlagsAt(u)'
  BY <1>2 DEF FlagsAt
<1>6. Current(u)'
  BY <1>2, <1>3, <1>4, <1>5 DEF Current
<1>7. TypedFrom(items, u, u)
  BY DEF u
<1>8. u = t \/ (t.mode = "any" /\ u = Opened(t))
  BY <1>2 DEF u
<1> QED
  BY <1>6, <1>7, <1>8, Continues

\* A visit that emits e, is in an open block and may make others.
LEMMA Emitted ==
    ASSUME NEW s, NEW t, Before(s, t), s.mode = "open", t.mode = "open",
           t.asked = "nothing", t.depth = s.depth,
           NEW e, NEW n, Ready(e, t.pend \cup {e.at}, n), e.at \notin t.pend, t.blocks <= n,
           NEW items, TypedFrom(items, t, t),
           Emit(e), Then(items), UNCHANGED <<source, cur_fun, phase>>,
           IsList(inner'), Len(inner') = Len(inner),
           require_lvalue' = FALSE, pre_enter_scope' = FALSE
    PROVE  BuilderInv'
<1>1. Current(s) /\ t \in State
  BY DEF Before, Moves
<1>2. Stands(e.body, e.at, t, n)
  BY BodyFacts DEF Stands, Ready
<1>3. FunctionsAt(t)'
  BY <1>1, <1>2, EmitFunctions
<1>4. ScopeAt(t)'
  BY <1>1 DEF Current, ScopeAt
<1>5. FlagsAt(t)'
  BY DEF FlagsAt
<1>6. Current(t)'
  BY <1>1, <1>3, <1>4, <1>5 DEF Current
<1> QED
  BY <1>6, Continues

LEMMA ExprPoint ==
    ASSUME NEW s, NEW t, Before(s, t), Head(work).step \in ExprSteps
    PROVE  /\ s \in State /\ t \in State /\ Current(s)
           /\ s.mode = "open" /\ t.mode = "open" /\ t.depth = s.depth /\ t.pend = s.pend
           /\ t.asked = "nothing" /\ t.blocks <= s.blocks /\ Opened(t) = t
           /\ pre_enter_scope = FALSE
           /\ Head(work).step # "var" => s.asked = "nothing" /\ require_lvalue = FALSE
<1>1. Moves(Head(work), s, t) /\ Current(s)
  BY DEF Before
<1>2. /\ s \in State /\ t \in State
      /\ s.mode = "open" /\ t.mode = "open" /\ t.depth = s.depth /\ t.pend = s.pend
      /\ t.blocks <= s.blocks
  BY <1>1 DEF Moves, ExprMoves
<1>3. Head(work).step \notin {"param", "compound-stmt"}
  BY DEF ExprSteps, ExprKinds
<1>4. t.asked = "nothing" /\ s.asked # "scope" /\ (s.asked = "address" => Head(work).step = "var")
  BY <1>1, <1>3 DEF Moves
<1>5. s.asked \in {"nothing", "scope", "address"}
  BY <1>2 DEF State
<1> QED
  BY <1>1, <1>2, <1>4, <1>5, OpenedItself DEF Current, FlagsAt

\* A step of an expression that has its node leads from an open block to it.
LEMMA ExprItem ==
    ASSUME NEW x \in State, x.mode = "open", x.asked = "nothing",
           NEW i, i.step \in ExprSteps, ExprMoves(i, x, x)
    PROVE  Moves(i, x, x)
<1>1. x.blocks <= x.blocks
  BY DEF State
<1>2. StmtMoves(i, x, x) /\ DeclMoves(i, x, x)
  BY DEF StmtMoves, DeclMoves, ExprSteps, ExprKinds, StmtKinds
<1> QED
  BY <1>1, <1>2 DEF Moves

LEMMA ExprVisit ==
    ASSUME NEW x \in State, x.mode = "open", x.asked = "nothing", NEW n \in ExprNode
    PROVE  Moves(Visit(n), x, x)
<1>1. n.kind \in ExprKinds
  BY BuilderAssumption DEF IsExpression, BinaryKinds, ExprKinds
<1>2. Visit(n).step = n.kind /\ Visit(n).node = n
  BY DEF Visit, Item
<1>3. n.kind \notin ExprSteps \ ExprKinds /\ n.kind \in ExprSteps
  BY <1>1 DEF ExprSteps, ExprKinds
<1>4. ExprMoves(Visit(n), x, x)
  BY <1>1, <1>2 DEF ExprMoves, ExprKinds, IsExpr
<1> QED
  BY <1>2, <1>3, <1>4, ExprItem

LEMMA VisitNumStep ==
    ASSUME NEW s, NEW t, Before(s, t), VisitNum
    PROVE  BuilderInv'
<1>1. /\ Head(work).step = "num" /\ Then(<<>>)
      /\ UNCHANGED <<source, inner, cur_fun, functions, at, phase>>
      /\ require_lvalue' = require_lvalue /\ pre_enter_scope' = pre_enter_scope
  BY DEF VisitNum, Doing, flags, irVars
<1>2. Head(work).step \in ExprSteps /\ Head(work).step # "var"
  BY <1>1 DEF ExprSteps, ExprKinds
<1> QED
  BY <1>1, <1>2, ExprPoint, TypedNone, Nested

\* What an expression has made in its block.
LEMMA EmittedHere ==
    ASSUME NEW s, NEW t, Before(s, t), Head(work).step \in ExprSteps,
           NEW e, \A n : Ready(Here, s.pend \cup {at}, n) => Keeps(Here, e, s.pend \cup {at}, n),
           NEW items, TypedFrom(items, t, t),
           Emit(e), Then(items), UNCHANGED <<source, inner, cur_fun, phase>>,
           require_lvalue' = FALSE, pre_enter_scope' = FALSE
    PROVE  BuilderInv'
<1>1. /\ Current(s) /\ s.mode = "open" /\ t.mode = "open" /\ t.depth = s.depth /\ t.pend = s.pend
      /\ t.asked = "nothing" /\ t.blocks <= s.blocks /\ s \in State /\ t \in State
  BY ExprPoint
<1>2. PICK n : /\ Ready(Here, s.pend \cup {at}, n) /\ Here.at = at
               /\ at \notin s.pend /\ s.blocks <= n /\ n \in Nat \ {0}
  BY <1>1, OpenHere
<1>3. Ready(e, s.pend \cup {at}, n) /\ e.at = at
  BY <1>2 DEF Keeps
<1>4. Ready(e, t.pend \cup {e.at}, n) /\ e.at \notin t.pend
  BY <1>1, <1>2, <1>3
<1>5. t.blocks <= n
  <2>1. s.blocks \in Nat /\ t.blocks \in Nat
    BY <1>1 DEF State
  <2> QED
    BY <2>1, <1>1, <1>2
<1>6. IsList(inner') /\ Len(inner') = Len(inner)
  BY <1>1 DEF Current, ScopeAt
<1> QED
  BY <1>1, <1>4, <1>5, <1>6, Emitted

LEMMA VisitVarStep ==
    ASSUME NEW s, NEW t, Before(s, t), VisitVar
    PROVE  BuilderInv'
<1>0. Head(work).step \in {"var", "index"}
  BY DEF VisitVar, Doing
<1>1. Head(work).step \in ExprSteps
  BY <1>0 DEF ExprSteps, ExprKinds
<1>2. /\ Current(s) /\ s.mode = "open" /\ t.mode = "open" /\ t.depth = s.depth /\ t.pend = s.pend
      /\ t.asked = "nothing" /\ t.blocks <= s.blocks /\ s \in State /\ t \in State
      /\ Opened(t) = t /\ pre_enter_scope = FALSE
      /\ Moves(Head(work), s, t)
  BY <1>1, ExprPoint DEF Before
<1>3. CASE Head(work).step = "var" /\ Node.expression = <<>>
  <2> DEFINE var == find(inner, Node.id)
             e == IF require_lvalue THEN WithValue(Here, var) ELSE WholeVar(Here, var)
  <2>1. /\ Emit(e) /\ Then(<<>>) /\ UNCHANGED <<source, inner, cur_fun, phase>>
        /\ require_lvalue' = FALSE /\ pre_enter_scope' = FALSE
    BY <1>2, <1>3 DEF VisitVar, Doing, TakeRequest
  <2>2. ASSUME NEW n, Ready(Here, s.pend \cup {at}, n)
        PROVE  Keeps(Here, e, s.pend \cup {at}, n)
    BY <2>2, KeepsItself, WholeVarKeeps
  <2> HIDE DEF e
  <2> QED
    BY <1>1, <2>1, <2>2, EmittedHere, TypedNone
<1>4. CASE Head(work).step = "var" /\ Node.expression # <<>>
  <2> DEFINE saved == <<find(inner, Node.id), require_lvalue>>
             items == <<Visit(Node.expression[1]), Item("index", Node, saved)>>
  <2>1. /\ Then(items) /\ UNCHANGED <<source, inner, cur_fun, functions, at, phase>>
        /\ require_lvalue' = FALSE /\ pre_enter_scope' = FALSE
    BY <1>2, <1>4 DEF VisitVar, Doing, TakeRequest, irVars
  <2>2. Node.expression[1] \in ExprNode
    <3>1. Node \in ExprNode /\ Node.kind = "var"
      BY <1>2, <1>4 DEF Moves, ExprMoves, IsExpr, ExprKinds, Node
    <3>2. Node.expression \in Seq(ExprNode)
      BY <3>1, BuilderAssumption DEF IsExpression, Nodes, BinaryKinds
    <3> QED
      BY <3>2, <1>4, EmptySeq, ElementOfSeq
  <2>3. Moves(Visit(Node.expression[1]), t, t)
    BY <2>2, <1>2, ExprVisit
  <2>4. Moves(Item("index", Node, saved), t, t)
    <3>1. Item("index", Node, saved).step = "index"
      BY DEF Item
    <3>2. ExprMoves(Item("index", Node, saved), t, t)
      BY <3>1, <1>2 DEF ExprMoves, ExprKinds
    <3>3. "index" \in ExprSteps
      BY DEF ExprSteps
    <3> QED
      BY <3>1, <3>2, <3>3, <1>2, ExprItem
  <2>5. TypedFrom(items, Opened(t), Opened(t))
    BY <2>3, <2>4, <1>2, TypedTwo
  <2> HIDE DEF items
  <2> QED
    BY <2>1, <2>5, <1>2, Nested
<1>5. CASE Head(work).step = "index"
  <2> DEFINE x == Len(Body.code) + 1
             b == NewBlocks(Here, 2)
             i == ConvertIndex(b, tmp_val)
             c == CheckIndex(i, i.val, x, x + 1)
             ptr == ElementOf(c, Saved[1], i.val)
             e == IF Saved[2] THEN ptr ELSE create_load(ptr, ptr.val)
  <2>1. /\ Emit(e) /\ Then(<<>>) /\ UNCHANGED <<source, inner, cur_fun, phase>>
        /\ require_lvalue' = require_lvalue /\ pre_enter_scope' = pre_enter_scope
    BY <1>5 DEF VisitVar, Doing, flags
  <2>2. require_lvalue = FALSE
    BY <1>1, <1>5, ExprPoint
  <2>3. PICK n : /\ Ready(Here, s.pend \cup {at}, n) /\ Here.at = at
                 /\ at \notin s.pend /\ s.blocks <= n /\ n \in Nat \ {0} /\ s.blocks \in Nat
                 /\ at \in Blocks(n) /\ s.pend \subseteq Blocks(n) /\ Len(Body.code) = n
    BY <1>2, OpenHere
  <2> DEFINE O == s.pend \cup {at} \cup (n + 1 .. n + 2)
  <2>4. Keeps(Here, b, O, n + 2)
    BY <2>3, NewBlocksReady
  <2> HIDE DEF b
  <2>5. Keeps(b, i, O, n + 2)
    BY <2>4, ConvertKeeps DEF Keeps
  <2>6. Ready(i, O, n + 2) /\ i.at = at
    BY <2>3, <2>4, <2>5 DEF Keeps
  <2> HIDE DEF i
  <2>7. /\ n + 1 \in O \cap Later(n + 2) /\ n + 2 \in O \cap Later(n + 2) /\ n + 1 # n + 2
        /\ n + 1 # at /\ n + 2 # at /\ (O \ {at}) \ {n + 1} = s.pend \cup {n + 2}
        /\ n + 2 \notin s.pend /\ x = n + 1 /\ x + 1 = n + 2
    <3>1. at \in 1 .. n /\ s.pend \subseteq 1 .. n
      BY <2>3 DEF Blocks
    <3>2. n + 1 .. n + 2 = {n + 1, n + 2}
      BY <2>3
    <3>3. n + 1 \in Later(n + 2) /\ n + 2 \in Later(n + 2)
      BY <2>3 DEF Later
    <3>4. x = n + 1 /\ x + 1 = n + 2
      BY <2>3
    <3> QED
      BY <3>1, <3>2, <3>3, <3>4, <2>3
  <2> HIDE DEF O, x
  <2>8. Ready(c, s.pend \cup {n + 2}, n + 2) /\ c.at = n + 2
    <3>1. c = CheckIndex(i, i.val, n + 1, n + 2)
      BY <2>7
    <3>2. /\ Ready(CheckIndex(i, i.val, n + 1, n + 2), (O \ {i.at}) \ {n + 1}, n + 2)
          /\ CheckIndex(i, i.val, n + 1, n + 2).at = n + 2
      BY <2>6, <2>7, CheckIndexLeaves
    <3> QED
      BY <3>1, <3>2, <2>6, <2>7
  <2> HIDE DEF c
  <2>9. Ready(ptr, s.pend \cup {n + 2}, n + 2) /\ ptr.at = n + 2
    BY <2>8, ElementKeeps DEF Keeps
  <2> HIDE DEF ptr
  <2>10. Ready(e, s.pend \cup {n + 2}, n + 2) /\ e.at = n + 2
    BY <2>9, CreateKeeps DEF Keeps
  <2> HIDE DEF e
  <2>11. Ready(e, t.pend \cup {e.at}, n + 2) /\ e.at \notin t.pend
    BY <2>10, <2>7, <1>2
  <2>12. t.blocks <= n + 2
    <3>1. t.blocks \in Nat
      BY <1>2 DEF State
    <3> QED
      BY <3>1, <2>3, <1>2
  <2>13. IsList(inner') /\ Len(inner') = Len(inner)
    BY <1>2, <2>1 DEF Current, ScopeAt
  <2> QED
    BY <1>2, <2>1, <2>2, <2>11, <2>12, <2>13, Emitted, TypedNone
<1> QED
  BY <1>0, <1>3, <1>4, <1>5

\* A step that is no visit, with its node.
LEMMA ExprStep ==
    ASSUME NEW x \in State, x.mode = "open", x.asked = "nothing",
           NEW node, NEW saved, NEW step \in ExprSteps \ ExprKinds,
           ExprMoves(Item(step, node, saved), x, x)
    PROVE  Moves(Item(step, node, saved), x, x)
<1>1. Item(step, node, saved).step = step
  BY DEF Item
<1> QED
  BY <1>1, ExprItem

LEMMA VisitAssignExpressionStep ==
    ASSUME NEW s, NEW t, Before(s, t), VisitAssignExpression
    PROVE  BuilderInv'
<1>0. Head(work).step \in {"assign-expression", "address", "store"}
  BY DEF VisitAssignExpression, Doing
<1>1. Head(work).step \in ExprSteps /\ Head(work).step # "var"
  BY <1>0 DEF ExprSteps, ExprKinds
<1>2. /\ Current(s) /\ s.mode = "open" /\ t.mode = "open" /\ t.depth = s.depth /\ t.pend = s.pend
      /\ t.asked = "nothing" /\ t.blocks <= s.blocks /\ s \in State /\ t \in State
      /\ Opened(t) = t /\ pre_enter_scope = FALSE /\ require_lvalue = FALSE
      /\ Moves(Head(work), s, t)
  BY <1>1, ExprPoint DEF Before
<1>3. Head(work).step # "store" => IsExpr(Head(work), "assign-expression")
  BY <1>0, <1>2 DEF Moves, ExprMoves, ExprKinds
<1>4. Head(work).step # "store" =>
          /\ Node \in ExprNode /\ Node.kind = "assign-expression"
          /\ Node.expression \in ExprNode /\ Node.var \in ExprNode /\ Node.var.kind = "var"
  BY <1>3, BuilderAssumption DEF IsExpr, IsExpression, BinaryKinds, Node
<1>5. CASE Head(work).step = "assign-expression"
  <2> DEFINE items == <<Visit(Node.expression), Item("address", Node, <<>>)>>
  <2>1. /\ Then(items) /\ UNCHANGED <<source, inner, cur_fun, functions, at, phase>>
        /\ require_lvalue' = FALSE /\ pre_enter_scope' = FALSE
    BY <1>2, <1>5 DEF VisitAssignExpression, Doing, irVars, flags
  <2>2. Moves(Visit(Node.expression), t, t)
    BY <1>2, <1>4, <1>5, ExprVisit
  <2>3. Moves(Item("address", Node, <<>>), t, t)
    <3>1. ExprMoves(Item("address", Node, <<>>), t, t)
      BY <1>2, <1>4, <1>5 DEF ExprMoves, Item, ExprKinds, IsExpr
    <3>2. "address" \in ExprSteps \ ExprKinds
      BY DEF ExprSteps, ExprKinds
    <3> QED
      BY <3>1, <3>2, <1>2, ExprStep
  <2>4. TypedFrom(items, Opened(t), Opened(t))
    BY <2>2, <2>3, <1>2, TypedTwo
  <2> HIDE DEF items
  <2> QED
    BY <2>1, <2>4, <1>2, Nested
<1>6. CASE Head(work).step = "address"
  <2> DEFINE items == <<Visit(Node.var), Item("store", Node, <<tmp_val>>)>>
             u == At("open", t.depth, "address", t.pend, t.blocks)
  <2>1. /\ Then(items) /\ UNCHANGED <<source, inner, cur_fun, functions, at, phase>>
        /\ require_lvalue' = TRUE /\ pre_enter_scope' = FALSE
    BY <1>2, <1>6 DEF VisitAssignExpression, Doing, irVars
  <2>2. /\ u \in State /\ u.mode = "open" /\ u.depth = t.depth /\ u.asked = "address"
        /\ u.pend = t.pend /\ u.blocks = t.blocks /\ u.blocks \in Nat /\ s.blocks \in Nat
    BY <1>2 DEF State, At
  <2>3. Moves(Visit(Node.var), u, t)
    <3>1. Visit(Node.var).step = "var" /\ Visit(Node.var).node = Node.var
      BY <1>4, <1>6 DEF Visit, Item
    <3>2. ExprMoves(Visit(Node.var), u, t)
      BY <3>1, <2>2, <1>2, <1>4, <1>6 DEF ExprMoves, ExprKinds, IsExpr
    <3>3. StmtMoves(Visit(Node.var), u, t) /\ DeclMoves(Visit(Node.var), u, t)
      BY <3>1 DEF StmtMoves, DeclMoves, StmtKinds
    <3> QED
      BY <3>1, <3>2, <3>3, <2>2, <1>2 DEF Moves
  <2>4. Moves(Item("store", Node, <<tmp_val>>), t, t)
    <3>1. ExprMoves(Item("store", Node, <<tmp_val>>), t, t)
      BY <1>2 DEF ExprMoves, Item, ExprKinds
    <3>2. "store" \in ExprSteps \ ExprKinds
      BY DEF ExprSteps, ExprKinds
    <3> QED
      BY <3>1, <3>2, <1>2, ExprStep
  <2>5. TypedFrom(items, u, t)
    BY <2>3, <2>4, TypedTwo
  <2> HIDE DEF items, u
  <2>6. FunctionsAt(u)'
    BY <2>1, <2>2, <1>2, SameFunctions DEF Current
  <2>7. ScopeAt(u)' /\ FlagsAt(u)'
    BY <2>1, <2>2, <1>2 DEF Current, ScopeAt, FlagsAt
  <2>8. Current(u)'
    BY <2>2, <2>6, <2>7 DEF Current
  <2> QED
    BY <2>1, <2>5, <2>8, Continues
<1>7. CASE Head(work).step = "store"
  <2> DEFINE result == ConvertStored(Here, Saved[1], ElementType(Here, tmp_val))
             e == create_store(result, result.val, tmp_val)
  <2>1. /\ Emit(e) /\ Then(<<>>) /\ UNCHANGED <<source, inner, cur_fun, phase>>
        /\ require_lvalue' = FALSE /\ pre_enter_scope' = FALSE
    BY <1>2, <1>7 DEF VisitAssignExpression, Doing, flags
  <2>2. ASSUME NEW n, Ready(Here, s.pend \cup {at}, n)
        PROVE  Keeps(Here, e, s.pend \cup {at}, n)
    <3>1. Keeps(Here, result, s.pend \cup {at}, n)
      BY <2>2, ConvertKeeps
    <3> HIDE DEF result
    <3>2. Keeps(result, e, s.pend \cup {at}, n)
      BY <3>1, CreateKeeps DEF Keeps
    <3> QED
      BY <3>1, <3>2, KeepsAll
  <2> HIDE DEF e
  <2> QED
    BY <1>1, <2>1, <2>2, EmittedHere, TypedNone
<1> QED
  BY <1>0, <1>5, <1>6, <1>7

\* The three classes of binary expressions, with the two steps of each.
Binaries == {<<"simple-expression", "relation right", "relation made">>,
             <<"additive-expression", "sum right", "sum made">>,
             <<"term", "product right", "product made">>}

LEMMA VisitOperandsStep ==
    ASSUME NEW s, NEW t, Before(s, t), NEW kind, NEW right, NEW made,
           <<kind, right, made>> \in Binaries, VisitOperands(kind, right, made)
    PROVE  BuilderInv'
<1>0. \/ kind = "simple-expression" /\ right = "relation right" /\ made = "relation made"
      \/ kind = "additive-expression" /\ right = "sum right" /\ made = "sum made"
      \/ kind = "term" /\ right = "product right" /\ made = "product made"
  BY DEF Binaries
<1>1. Head(work).step \in {kind, right}
  BY DEF VisitOperands, Doing
<1>2. /\ Head(work).step \in ExprSteps /\ Head(work).step # "var"
      /\ kind \in BinaryKinds /\ kind \in ExprKinds
      /\ right \in ExprSteps \ ExprKinds /\ made \in ExprSteps \ ExprKinds
  BY <1>0, <1>1 DEF ExprSteps, ExprKinds, BinaryKinds
<1>3. /\ Current(s) /\ s.mode = "open" /\ t.mode = "open" /\ t.depth = s.depth /\ t.pend = s.pend
      /\ t.asked = "nothing" /\ t.blocks <= s.blocks /\ s \in State /\ t \in State
      /\ Opened(t) = t /\ pre_enter_scope = FALSE /\ require_lvalue = FALSE
      /\ Moves(Head(work), s, t)
  BY <1>2, ExprPoint DEF Before
<1>4. /\ Node \in ExprNode /\ Node.kind = kind
      /\ Head(work).step = right => Len(Node.operands) = 2
  BY <1>0, <1>1, <1>3 DEF Moves, ExprMoves, IsExpr, IsBinary, ExprKinds, Node
<1>5. Node.operands \in Seq(ExprNode) /\ Len(Node.operands) \in {1, 2}
  BY <1>2, <1>4, BuilderAssumption DEF IsExpression, Nodes, BinaryKinds
<1>6. /\ Moves(Visit(Node.operands[1]), t, t)
      /\ Len(Node.operands) = 2 => Moves(Visit(Node.operands[2]), t, t)
  <2>1. /\ Node.operands[1] \in ExprNode
        /\ Len(Node.operands) = 2 => Node.operands[2] \in ExprNode
    BY <1>5
  <2> QED
    BY <2>1, <1>3, ExprVisit
<1>7. ASSUME Len(Node.operands) = 2, NEW saved, NEW step \in {right, made}
      PROVE  Moves(Item(step, Node, saved), t, t)
  <2>1. Item(step, Node, saved).step = step /\ Item(step, Node, saved).node = Node
    BY DEF Item
  <2>2. ExprMoves(Item(step, Node, saved), t, t)
    BY <2>1, <1>0, <1>3, <1>4, <1>7 DEF ExprMoves, ExprKinds, IsExpr, IsBinary
  <2> QED
    BY <2>2, <1>2, <1>3, ExprStep
<1>8. CASE Head(work).step = kind
  <2> DEFINE rest == IF Len(Node.operands) = 1 THEN <<>> ELSE <<Item(right, Node, <<>>)>>
             items == <<Visit(Node.operands[1])>> \o rest
  <2>1. /\ Then(items) /\ UNCHANGED <<source, inner, cur_fun, functions, at, phase>>
        /\ require_lvalue' = FALSE /\ pre_enter_scope' = FALSE
    BY <1>0, <1>3, <1>8 DEF VisitOperands, Doing, irVars, flags
  <2>2. TypedFrom(rest, t, t)
    BY <1>5, <1>7, TypedNone, TypedOne
  <2>3. TypedFrom(<<Visit(Node.operands[1])>>, t, t)
    BY <1>6, TypedOne
  <2> HIDE DEF rest
  <2>4. TypedFrom(items, Opened(t), Opened(t))
    BY <2>2, <2>3, <1>3, TypedConcat
  <2> HIDE DEF items
  <2> QED
    BY <2>1, <2>4, <1>3, Nested
<1>9. CASE Head(work).step = right
  <2> DEFINE items == <<Visit(Node.operands[2]), Item(made, Node, <<tmp_val>>)>>
  <2>1. /\ Then(items) /\ UNCHANGED <<source, inner, cur_fun, functions, at, phase>>
        /\ require_lvalue' = FALSE /\ pre_enter_scope' = FALSE
    BY <1>0, <1>3, <1>9 DEF VisitOperands, Doing, irVars, flags
  <2>2. Moves(Visit(Node.operands[2]), t, t) /\ Moves(Item(made, Node, <<tmp_val>>), t, t)
    BY <1>4, <1>6, <1>7, <1>9
  <2>3. TypedFrom(items, Opened(t), Opened(t))
    BY <2>2, <1>3, TypedTwo
  <2> HIDE DEF items
  <2> QED
    BY <2>1, <2>3, <1>3, Nested
<1> QED
  BY <1>1, <1>8, <1>9

LEMMA VisitSimpleExpressionStep ==
    ASSUME NEW s, NEW t, Before(s, t), VisitSimpleExpression
    PROVE  BuilderInv'
<1>1. CASE VisitOperands("simple-expression", "relation right", "relation made")
  <2>1. <<"simple-expression", "relation right", "relation made">> \in Binaries
    BY DEF Binaries
  <2> QED
    BY <1>1, <2>1, VisitOperandsStep
<1>2. CASE ~ VisitOperands("simple-expression", "relation right", "relation made")
  <2> DEFINE p == Promote(Here, Saved[1], tmp_val)
             cmp == IF p.is_int THEN create_icmp(p.e, RelationOf(Node.op), p.l, p.r)
                    ELSE create_fcmp(p.e, RelationOf(Node.op), p.l, p.r)
             e == create_zext(cmp, cmp.val, Int32Type)
  <2>1. /\ Head(work).step = "relation made"
        /\ Emit(e) /\ Then(<<>>) /\ UNCHANGED <<source, inner, cur_fun, phase>>
        /\ require_lvalue' = require_lvalue /\ pre_enter_scope' = pre_enter_scope
    BY <1>2 DEF VisitSimpleExpression, Made, Doing, flags
  <2>2. Head(work).step \in ExprSteps /\ Head(work).step # "var"
    BY <2>1 DEF ExprSteps
  <2>3. pre_enter_scope = FALSE /\ require_lvalue = FALSE
    BY <2>2, ExprPoint
  <2>4. ASSUME NEW n, Ready(Here, s.pend \cup {at}, n)
        PROVE  Keeps(Here, e, s.pend \cup {at}, n)
    <3>1. Keeps(Here, p.e, s.pend \cup {at}, n)
      BY <2>4, PromoteKeeps
    <3> HIDE DEF p
    <3>2. Keeps(p.e, cmp, s.pend \cup {at}, n)
      BY <3>1, CreateKeeps DEF Keeps
    <3> HIDE DEF cmp
    <3>3. Keeps(cmp, e, s.pend \cup {at}, n)
      BY <3>2, CreateKeeps DEF Keeps
    <3> QED
      BY <3>1, <3>2, <3>3, KeepsAll
  <2> HIDE DEF e
  <2> QED
    BY <2>1, <2>2, <2>3, <2>4, EmittedHere, TypedNone
<1> QED
  BY <1>1, <1>2

LEMMA VisitAdditiveExpressionStep ==
    ASSUME NEW s, NEW t, Before(s, t), VisitAdditiveExpression
    PROVE  BuilderInv'
<1>1. CASE VisitOperands("additive-expression", "sum right", "sum made")
  <2>1. <<"additive-expression", "sum right", "sum made">> \in Binaries
    BY DEF Binaries
  <2> QED
    BY <1>1, <2>1, VisitOperandsStep
<1>2. CASE ~ VisitOperands("additive-expression", "sum right", "sum made")
  <2> DEFINE p == Promote(Here, Saved[1], tmp_val)
             op == CASE Node.op = "+" -> IF p.is_int THEN "add" ELSE "fadd"
                     [] Node.op = "-" -> IF p.is_int THEN "sub" ELSE "fsub"
             e == create_binary(p.e, op, p.l, p.r)
  <2>1. /\ Head(work).step = "sum made"
        /\ Emit(e) /\ Then(<<>>) /\ UNCHANGED <<source, inner, cur_fun, phase>>
        /\ require_lvalue' = require_lvalue /\ pre_enter_scope' = pre_enter_scope
    BY <1>2 DEF VisitAdditiveExpression, Made, Doing, flags
  <2>2. Head(work).step \in ExprSteps /\ Head(work).step # "var"
    BY <2>1 DEF ExprSteps
  <2>3. pre_enter_scope = FALSE /\ require_lvalue = FALSE
    BY <2>2, ExprPoint
  <2>4. Node.op \in {"+", "-"}
    <3>1. Node \in ExprNode /\ Node.kind = "additive-expression" /\ Len(Node.operands) = 2
      BY <2>1 DEF Before, Moves, ExprMoves, IsBinary, IsExpr, Node
    <3>2. Node.op \in Operators("additive-expression")
      BY <3>1, BuilderAssumption DEF IsExpression, BinaryKinds
    <3> QED
      BY <3>2 DEF Operators
  <2>5. op \in {"add", "fadd", "sub", "fsub", "mul", "fmul", "sdiv", "fdiv"}
    BY <2>4
  <2>6. ASSUME NEW n, Ready(Here, s.pend \cup {at}, n)
        PROVE  Keeps(Here, e, s.pend \cup {at}, n)
    <3>1. Keeps(Here, p.e, s.pend \cup {at}, n)
      BY <2>6, PromoteKeeps
    <3> HIDE DEF p, op
    <3>2. Keeps(p.e, e, s.pend \cup {at}, n)
      BY <2>5, <3>1, BinaryKeeps DEF Keeps
    <3> QED
      BY <3>1, <3>2, KeepsAll
  <2> HIDE DEF e
  <2> QED
    BY <2>1, <2>2, <2>3, <2>6, EmittedHere, TypedNone
<1> QED
  BY <1>1, <1>2

LEMMA VisitTermStep ==
    ASSUME NEW s, NEW t, Before(s, t), VisitTerm
    PROVE  BuilderInv'
<1>1. CASE VisitOperands("term", "product right", "product made")
  <2>1. <<"term", "product right", "product made">> \in Binaries
    BY DEF Binaries
  <2> QED
    BY <1>1, <2>1, VisitOperandsStep
<1>2. CASE ~ VisitOperands("term", "product right", "product made")
  <2> DEFINE p == Promote(Here, Saved[1], tmp_val)
             op == CASE Node.op = "*" -> IF p.is_int THEN "mul" ELSE "fmul"
                     [] Node.op = "/" -> IF p.is_int THEN "sdiv" ELSE "fdiv"
             e == create_binary(p.e, op, p.l, p.r)
  <2>1. /\ Head(work).step = "product made"
        /\ Emit(e) /\ Then(<<>>) /\ UNCHANGED <<source, inner, cur_fun, phase>>
        /\ require_lvalue' = require_lvalue /\ pre_enter_scope' = pre_enter_scope
    BY <1>2 DEF VisitTerm, Made, Doing, flags
  <2>2. Head(work).step \in ExprSteps /\ Head(work).step # "var"
    BY <2>1 DEF ExprSteps
  <2>3. pre_enter_scope = FALSE /\ require_lvalue = FALSE
    BY <2>2, ExprPoint
  <2>4. Node.op \in {"*", "/"}
    <3>1. Node \in ExprNode /\ Node.kind = "term" /\ Len(Node.operands) = 2
      BY <2>1 DEF Before, Moves, ExprMoves, IsBinary, IsExpr, Node
    <3>2. Node.op \in Operators("term")
      BY <3>1, BuilderAssumption DEF IsExpression, BinaryKinds
    <3> QED
      BY <3>2 DEF Operators
  <2>5. op \in {"add", "fadd", "sub", "fsub", "mul", "fmul", "sdiv", "fdiv"}
    BY <2>4
  <2>6. ASSUME NEW n, Ready(Here, s.pend \cup {at}, n)
        PROVE  Keeps(Here, e, s.pend \cup {at}, n)
    <3>1. Keeps(Here, p.e, s.pend \cup {at}, n)
      BY <2>6, PromoteKeeps
    <3> HIDE DEF p, op
    <3>2. Keeps(p.e, e, s.pend \cup {at}, n)
      BY <2>5, <3>1, BinaryKeeps DEF Keeps
    <3> QED
      BY <3>1, <3>2, KeepsAll
  <2> HIDE DEF e
  <2> QED
    BY <2>1, <2>2, <2>3, <2>6, EmittedHere, TypedNone
<1> QED
  BY <1>1, <1>2

LEMMA VisitCallStep ==
    ASSUME NEW s, NEW t, Before(s, t), VisitCall
    PROVE  BuilderInv'
<1>0. Head(work).step \in {"call", "arguments", "argument"}
  BY DEF VisitCall, Doing
<1>1. Head(work).step \in ExprSteps /\ Head(work).step # "var"
  BY <1>0 DEF ExprSteps, ExprKinds
<1>2. /\ Current(s) /\ s.mode = "open" /\ t.mode = "open" /\ t.depth = s.depth /\ t.pend = s.pend
      /\ t.asked = "nothing" /\ t.blocks <= s.blocks /\ s \in State /\ t \in State
      /\ Opened(t) = t /\ pre_enter_scope = FALSE /\ require_lvalue = FALSE
      /\ Moves(Head(work), s, t)
  BY <1>1, ExprPoint DEF Before
<1>3. /\ Node \in ExprNode /\ Node.kind = "call"
      /\ Head(work).step # "call" => IsList(Saved[2])
  BY <1>0, <1>2 DEF Moves, ExprMoves, IsExpr, ExprKinds, Node, Saved
<1>4. Node.args \in Seq(ExprNode)
  BY <1>3, BuilderAssumption DEF IsExpression, Nodes, BinaryKinds
<1>5. ASSUME NEW step \in {"arguments", "argument"}, NEW saved, IsList(saved[2])
      PROVE  Moves(Item(step, Node, saved), t, t)
  <2>1. ExprMoves(Item(step, Node, saved), t, t)
    BY <1>2, <1>3, <1>5 DEF ExprMoves, ExprKinds, Item, IsExpr
  <2>2. step \in ExprSteps \ ExprKinds
    BY DEF ExprSteps, ExprKinds
  <2> QED
    BY <2>1, <2>2, <1>2, ExprStep
<1>6. CASE Head(work).step = "call"
  <2> DEFINE saved == <<find(inner, Node.id)[2], <<>>>>
             items == <<Item("arguments", Node, saved)>>
  <2>1. /\ Then(items) /\ UNCHANGED <<source, inner, cur_fun, functions, at, phase>>
        /\ require_lvalue' = FALSE /\ pre_enter_scope' = FALSE
    BY <1>2, <1>6 DEF VisitCall, Doing, irVars, flags
  <2>2. IsList(saved[2])
    BY EmptyList
  <2> HIDE DEF saved
  <2>3. TypedFrom(items, Opened(t), Opened(t))
    BY <2>2, <1>2, <1>5, TypedOne
  <2> HIDE DEF items
  <2> QED
    BY <2>1, <2>3, <1>2, Nested
<1>7. CASE Head(work).step = "arguments" /\ Len(Saved[2]) < Len(Node.args)
  <2> DEFINE arg == Node.args[Len(Saved[2]) + 1]
             items == <<Visit(arg), Item("argument", Node, Saved)>>
  <2>1. /\ Then(items) /\ UNCHANGED <<source, inner, cur_fun, functions, at, phase>>
        /\ require_lvalue' = FALSE /\ pre_enter_scope' = FALSE
    <3>1. Len(Saved[2]) # Len(Node.args)
      <4>1. Len(Saved[2]) \in Nat /\ Len(Node.args) \in Nat
        BY <1>3, <1>4, <1>7, ListFacts
      <4> QED
        BY <4>1, <1>7
    <3> QED
      BY <3>1, <1>2, <1>7 DEF VisitCall, Doing, irVars, flags
  <2>2. arg \in ExprNode
    <3>1. Len(Saved[2]) \in Nat /\ Len(Node.args) \in Nat
      BY <1>3, <1>4, <1>7, ListFacts
    <3>2. Len(Saved[2]) + 1 \in 1 .. Len(Node.args)
      BY <3>1, <1>7
    <3> QED
      BY <3>2, <1>4, ElementOfSeq
  <2> HIDE DEF arg
  <2>3. Moves(Visit(arg), t, t)
    BY <2>2, <1>2, ExprVisit
  <2>4. Moves(Item("argument", Node, Saved), t, t)
    BY <1>3, <1>5, <1>7
  <2>5. TypedFrom(items, Opened(t), Opened(t))
    BY <2>3, <2>4, <1>2, TypedTwo
  <2> HIDE DEF items
  <2> QED
    BY <2>1, <2>5, <1>2, Nested
<1>8. CASE Head(work).step = "argument"
  <2> DEFINE type == functions[Saved[1]].params[Len(Saved[2]) + 1]
             e == ConvertArgument(Here, tmp_val, type)
             saved == <<Saved[1], Append(Saved[2], e.val)>>
             items == <<Item("arguments", Node, saved)>>
  <2>1. /\ Emit(e) /\ Then(items) /\ UNCHANGED <<source, inner, cur_fun, phase>>
        /\ require_lvalue' = FALSE /\ pre_enter_scope' = FALSE
    BY <1>2, <1>8 DEF VisitCall, Doing, flags
  <2>2. IsList(saved[2])
    BY <1>3, <1>8, AppendList
  <2> HIDE DEF saved
  <2>3. TypedFrom(items, t, t)
    BY <2>2, <1>5, TypedOne
  <2> HIDE DEF items
  <2>4. ASSUME NEW n, Ready(Here, s.pend \cup {at}, n)
        PROVE  Keeps(Here, e, s.pend \cup {at}, n)
    BY <2>4, KeepsItself, ConvertKeeps
  <2> HIDE DEF e
  <2> QED
    BY <1>1, <2>1, <2>3, <2>4, EmittedHere
<1>9. CASE Head(work).step = "arguments" /\ ~ (Len(Saved[2]) < Len(Node.args))
  <2> DEFINE e == create_call(Here, Saved[1], functions[Saved[1]].ret, Saved[2])
  <2>1. /\ Emit(e) /\ Then(<<>>) /\ UNCHANGED <<source, inner, cur_fun, phase>>
        /\ require_lvalue' = FALSE /\ pre_enter_scope' = FALSE
    BY <1>2, <1>9 DEF VisitCall, Doing, flags
  <2>2. ASSUME NEW n, Ready(Here, s.pend \cup {at}, n)
        PROVE  Keeps(Here, e, s.pend \cup {at}, n)
    BY <2>2, CreateKeeps
  <2> HIDE DEF e
  <2> QED
    BY <1>1, <2>1, <2>2, EmittedHere, TypedNone
<1> QED
  BY <1>0, <1>6, <1>7, <1>8, <1>9

-----------------------------------------------------------------------------
(* Statements                                                              *)

Any(x) == At("any", x.depth, x.asked, x.pend, x.blocks)
Shut(x) == At("closed", x.depth, x.asked, x.pend, x.blocks)

LEMMA Modes ==
    ASSUME NEW x \in State
    PROVE  /\ Any(x) \in State /\ Any(x).mode = "any" /\ Any(x).depth = x.depth
           /\ Any(x).asked = x.asked /\ Any(x).pend = x.pend /\ Any(x).blocks = x.blocks
           /\ Shut(x) \in State /\ Shut(x).mode = "closed" /\ Shut(x).depth = x.depth
           /\ Shut(x).asked = x.asked /\ Shut(x).pend = x.pend /\ Shut(x).blocks = x.blocks
           /\ x.blocks \in Nat /\ x.depth \in Nat \ {0}
PROOF BY DEF State, Any, Shut, At

\* A visit that emits e and goes on at u.
LEMMA EmittedTo ==
    ASSUME NEW s, NEW t, Before(s, t), s.mode # "top", NEW u \in State, u.mode # "top",
           NEW e, NEW n, Stands(e.body, e.at, u, n), Emit(e),
           UNCHANGED <<source, cur_fun, phase>>,
           IsList(inner'), Len(inner') = u.depth,
           require_lvalue' = (u.asked = "address"), pre_enter_scope' = (u.asked = "scope"),
           NEW v, v = t \/ (t.mode = "any" /\ v = Opened(t)),
           NEW items, TypedFrom(items, u, v), Then(items)
    PROVE  BuilderInv'
<1>1. Current(s)
  BY DEF Before
<1>2. FunctionsAt(u)'
  BY <1>1, EmitFunctions
<1>3. ScopeAt(u)'
  BY DEF ScopeAt
<1>4. FlagsAt(u)'
  BY DEF FlagsAt
<1>5. Current(u)'
  BY <1>2, <1>3, <1>4 DEF Current
<1> QED
  BY <1>5, Continues

\* A visit that emits nothing and goes on at u.
LEMMA GoesOn ==
    ASSUME NEW s, NEW t, Before(s, t), NEW u \in State,
           u.mode = s.mode \/ (s.mode = "open" /\ u.mode = "any"),
           u.pend = s.pend, u.blocks <= s.blocks,
           UNCHANGED <<source, cur_fun, functions, at, phase>>,
           IsList(inner'), Len(inner') = u.depth,
           require_lvalue' = (u.asked = "address"), pre_enter_scope' = (u.asked = "scope"),
           NEW v, v = t \/ (t.mode = "any" /\ v = Opened(t)),
           NEW items, TypedFrom(items, u, v), Then(items)
    PROVE  BuilderInv'
<1>1. Current(s) /\ s.blocks \in Nat /\ u.blocks \in Nat
  BY DEF Before, Current, State
<1>2. FunctionsAt(u)'
  BY <1>1, SameFunctions DEF Current
<1>3. ScopeAt(u)'
  BY DEF ScopeAt
<1>4. FlagsAt(u)'
  BY DEF FlagsAt
<1>5. Current(u)'
  BY <1>2, <1>3, <1>4 DEF Current
<1> QED
  BY <1>5, Continues

StmtSteps == StmtKinds \cup {"branches", "loop", "return"}

LEMMA StmtPoint ==
    ASSUME NEW s, NEW t, Before(s, t), Head(work).step \in StmtSteps
    PROVE  /\ s \in State /\ t \in State /\ Current(s)
           /\ s.mode = "open" /\ t.mode = "any" /\ t.depth = s.depth /\ t.pend = s.pend
           /\ t.asked = "nothing" /\ t.blocks <= s.blocks
           /\ require_lvalue = FALSE
           /\ Head(work).step # "compound-stmt" => s.asked = "nothing" /\ pre_enter_scope = FALSE
           /\ IsList(inner) /\ Len(inner) = s.depth
           /\ Opened(t) \in State /\ Opened(t).mode = "open" /\ Opened(t).depth = t.depth
           /\ Opened(t).asked = "nothing" /\ Opened(t).pend = t.pend /\ Opened(t).blocks = t.blocks
<1>1. Moves(Head(work), s, t) /\ Current(s)
  BY DEF Before
<1>2. /\ s \in State /\ t \in State
      /\ s.mode = "open" /\ t.mode = "any" /\ t.depth = s.depth /\ t.pend = s.pend
      /\ t.blocks <= s.blocks
  BY <1>1 DEF Moves, StmtMoves, StmtSteps
<1>3. Head(work).step \notin {"param", "var"}
  BY DEF StmtSteps, StmtKinds
<1>4. /\ t.asked = "nothing" /\ s.asked # "address"
      /\ s.asked = "scope" => Head(work).step = "compound-stmt"
  BY <1>1, <1>3 DEF Moves
<1>5. s.asked \in {"nothing", "scope", "address"}
  BY <1>2 DEF State
<1> QED
  BY <1>1, <1>2, <1>4, <1>5, OpenedItself DEF Current, FlagsAt, ScopeAt

\* A statement, from an open block.
LEMMA StmtItem ==
    ASSUME NEW x \in State, x.mode = "open", x.asked = "nothing",
           NEW y \in State, y.mode = "any", y.asked = "nothing",
           y.depth = x.depth, y.pend = x.pend, y.blocks <= x.blocks,
           NEW i, i.step \in StmtSteps, StmtMoves(i, x, y)
    PROVE  Moves(i, x, y)
<1>1. ExprMoves(i, x, y) /\ DeclMoves(i, x, y)
  BY DEF ExprMoves, DeclMoves, ExprSteps, ExprKinds, StmtSteps, StmtKinds
<1> QED
  BY <1>1 DEF Moves

LEMMA StmtVisit ==
    ASSUME NEW x \in State, x.mode = "open", x.asked = "nothing",
           NEW y \in State, y.mode = "any", y.asked = "nothing",
           y.depth = x.depth, y.pend = x.pend, y.blocks <= x.blocks, NEW n \in StmtNode
    PROVE  Moves(Visit(n), x, y)
<1>1. n.kind \in StmtKinds
  BY BuilderAssumption DEF IsStatement, StmtKinds
<1>2. Visit(n).step = n.kind /\ Visit(n).node = n
  BY DEF Visit, Item
<1>3. StmtMoves(Visit(n), x, y)
  BY <1>1, <1>2 DEF StmtMoves, StmtKinds, IsStmt
<1> QED
  BY <1>1, <1>2, <1>3, StmtItem DEF StmtSteps

LEMMA JumpItem ==
    ASSUME NEW x \in State, x.mode \in {"open", "any"}, x.asked = "nothing",
           NEW node, NEW saved, saved[1] \in Later(x.blocks)
    PROVE  Moves(Item("jump", node, saved), x, Shut(x))
<1> DEFINE i == Item("jump", node, saved)
<1>1. i.step = "jump" /\ i.saved = saved
  BY DEF Item
<1> HIDE DEF i
<1>2. ExprMoves(i, x, Shut(x)) /\ DeclMoves(i, x, Shut(x))
  BY <1>1 DEF ExprMoves, DeclMoves, ExprSteps, ExprKinds
<1>3. StmtMoves(i, x, Shut(x))
  BY <1>1, Modes DEF StmtMoves, StmtKinds
<1>4. Moves(i, x, Shut(x))
  BY <1>1, <1>2, <1>3, Modes DEF Moves
<1> QED
  BY <1>4 DEF i

LEMMA InsertItem ==
    ASSUME NEW x \in State, x.mode = "closed", x.asked = "nothing",
           NEW y \in State, y.mode \in {"open", "any"}, y.asked = "nothing",
           NEW node, NEW b \in x.pend, y.depth = x.depth, y.pend = x.pend \ {b}, y.blocks <= x.blocks
    PROVE  Moves(Item("insert at", node, <<b>>), x, y)
<1> DEFINE i == Item("insert at", node, <<b>>)
<1>1. i.step = "insert at" /\ i.saved[1] = b
  BY DEF Item
<1> HIDE DEF i
<1>2. ExprMoves(i, x, y) /\ DeclMoves(i, x, y)
  BY <1>1 DEF ExprMoves, DeclMoves, ExprSteps, ExprKinds
<1>3. StmtMoves(i, x, y)
  BY <1>1 DEF StmtMoves, StmtKinds
<1>4. Moves(i, x, y)
  BY <1>1, <1>2, <1>3 DEF Moves
<1> QED
  BY <1>4 DEF i

LEMMA VisitExpressionStmtStep ==
    ASSUME NEW s, NEW t, Before(s, t), VisitExpressionStmt
    PROVE  BuilderInv'
<1>1. /\ Head(work).step = "expression-stmt" /\ Then(VisitAll(Node.expression))
      /\ UNCHANGED <<source, inner, cur_fun, functions, at, phase>>
      /\ require_lvalue' = require_lvalue /\ pre_enter_scope' = pre_enter_scope
  BY DEF VisitExpressionStmt, Doing, flags, irVars
<1>2. Head(work).step \in StmtSteps /\ Head(work).step \in StmtKinds /\ Head(work).step # "compound-stmt"
  BY <1>1 DEF StmtSteps, StmtKinds
<1>3. /\ s.mode = "open" /\ t.mode = "any" /\ t.asked = "nothing" /\ t.depth = s.depth
      /\ t.pend = s.pend /\ require_lvalue = FALSE /\ pre_enter_scope = FALSE
      /\ Opened(t) \in State /\ Opened(t).mode = "open" /\ Opened(t).asked = "nothing"
  BY <1>2, StmtPoint
<1>4. Node.expression \in Seq(ExprNode)
  <2>1. Node \in StmtNode /\ Node.kind = "expression-stmt"
    BY <1>1, <1>2 DEF Before, Moves, StmtMoves, IsStmt, Node
  <2> QED
    BY <2>1, BuilderAssumption DEF IsStatement, Nodes
<1>5. \A n \in ExprNode : Moves(Visit(n), Opened(t), Opened(t))
  BY <1>3, ExprVisit
<1>6. TypedFrom(VisitAll(Node.expression), Opened(t), Opened(t))
  BY <1>4, <1>5, TypedVisits
<1> QED
  BY <1>1, <1>3, <1>6, Nested

LEMMA JumpStep ==
    ASSUME NEW s, NEW t, Before(s, t), Jump
    PROVE  BuilderInv'
<1> DEFINE e == JumpTo(Saved[1])
<1>1. /\ Head(work).step = "jump" /\ Emit(e) /\ Then(<<>>)
      /\ UNCHANGED <<source, inner, cur_fun, phase>>
      /\ require_lvalue' = require_lvalue /\ pre_enter_scope' = pre_enter_scope
  BY DEF Jump, Doing, flags
<1>2. /\ Current(s) /\ s \in State /\ t \in State /\ s.mode \in {"open", "any"} /\ t.mode = "closed"
      /\ t.depth = s.depth /\ t.pend = s.pend /\ Saved[1] \in Later(s.blocks)
      /\ t.asked = "nothing" /\ s.asked \notin {"address", "scope"} /\ t.blocks <= s.blocks
  BY <1>1 DEF Before, Moves, StmtMoves, Saved
<1>3. PICK n : Stands(functions[cur_fun], at, s, n)
  BY <1>2 DEF Current, FunctionsAt
<1>4. at \in Blocks(n) /\ at \notin s.pend /\ s.blocks <= n /\ n \in Nat /\ s.blocks \in Nat /\ t.blocks \in Nat
  BY <1>2, <1>3, BodyFacts DEF Stands, State
<1>5. BodyOK(e.body, s.pend, n) /\ e.at = at
  <2>1. CASE BodyOK(Body, s.pend \cup {at}, n)
    <3>1. Ready(Here, s.pend \cup {at}, n) /\ Here.at = at
      BY <2>1, AtBlock DEF Here, Body
    <3>2. ~ Terminated(Body, at)
      BY <2>1, BodyFacts
    <3>3. Saved[1] \in Later(n)
      BY <1>2, <1>4 DEF Later
    <3>4. Closed(Here, create_br(Here, Saved[1]), s.pend \cup {at}, n)
      BY <3>1, <3>3, BrCloses
    <3>5. e = create_br(Here, Saved[1])
      BY <3>2 DEF JumpTo
    <3>6. (s.pend \cup {at}) \ {at} = s.pend
      BY <1>4
    <3> HIDE DEF e
    <3> QED
      BY <3>1, <3>4, <3>5, <3>6 DEF Closed
  <2>2. CASE BodyOK(Body, s.pend, n)
    <3>1. Terminated(Body, at)
      BY <2>2, <1>4, BodyFacts
    <3>2. e = Here
      BY <3>1 DEF JumpTo
    <3>3. Here.at = at /\ Here.body = Body
      BY DEF Here, Body, BuilderAt
    <3> QED
      BY <3>2, <3>3, <2>2
  <2> QED
    BY <2>1, <2>2, <1>3 DEF Stands, Body
<1> HIDE DEF e
<1>6. Stands(e.body, e.at, t, n)
  BY <1>2, <1>4, <1>5 DEF Stands
<1>7. /\ require_lvalue' = (t.asked = "address") /\ pre_enter_scope' = (t.asked = "scope")
      /\ IsList(inner') /\ Len(inner') = t.depth
  BY <1>1, <1>2 DEF Current, FlagsAt, ScopeAt
<1> QED
  BY <1>1, <1>2, <1>6, <1>7, TypedNone, EmittedTo

LEMMA SetInsertPointStep ==
    ASSUME NEW s, NEW t, Before(s, t), SetInsertPoint
    PROVE  BuilderInv'
<1> DEFINE b == Saved[1]
           e == set_insert_point(Here, b)
<1>1. /\ Head(work).step = "insert at" /\ Emit(e) /\ Then(<<>>)
      /\ UNCHANGED <<source, inner, cur_fun, phase>>
      /\ require_lvalue' = require_lvalue /\ pre_enter_scope' = pre_enter_scope
  BY DEF SetInsertPoint, Doing, flags
<1>2. /\ Current(s) /\ s \in State /\ t \in State /\ s.mode = "closed" /\ t.mode \in {"open", "any"}
      /\ t.depth = s.depth /\ b \in s.pend /\ t.pend = s.pend \ {b}
      /\ t.asked = "nothing" /\ s.asked \notin {"address", "scope"} /\ t.blocks <= s.blocks
  BY <1>1 DEF Before, Moves, StmtMoves, Saved
<1>3. PICK n : Stands(functions[cur_fun], at, s, n)
  BY <1>2 DEF Current, FunctionsAt
<1>4. BodyOK(Body, s.pend, n) /\ s.blocks <= n /\ n \in Nat /\ s.blocks \in Nat /\ t.blocks \in Nat
      /\ s.pend \subseteq Blocks(n)
  BY <1>2, <1>3, BodyFacts DEF Stands, State, Body
<1> HIDE DEF b
<1>5. e.body = Body /\ e.at = b
  BY DEF set_insert_point, Here, Body, BuilderAt
<1> HIDE DEF e
<1>6. s.pend = t.pend \cup {b} /\ b \notin t.pend /\ b \in Blocks(n) /\ t.blocks <= n
  BY <1>2, <1>4
<1>7. Stands(e.body, e.at, t, n)
  BY <1>2, <1>4, <1>5, <1>6 DEF Stands
<1>8. /\ require_lvalue' = (t.asked = "address") /\ pre_enter_scope' = (t.asked = "scope")
      /\ IsList(inner') /\ Len(inner') = t.depth
  BY <1>1, <1>2 DEF Current, FlagsAt, ScopeAt
<1> QED
  BY <1>1, <1>2, <1>7, <1>8, TypedNone, EmittedTo

\* The builder in the open block where a statement begins.
LEMMA StmtHere ==
    ASSUME NEW s, NEW t, Before(s, t), Head(work).step \in StmtSteps
    PROVE  \E n : /\ Ready(Here, s.pend \cup {at}, n) /\ Here.at = at /\ at \in Blocks(n)
                  /\ at \notin s.pend /\ s.pend \subseteq Blocks(n) /\ n \in Nat \ {0}
                  /\ t.blocks \in Nat /\ s.blocks \in Nat /\ s.blocks <= n /\ t.blocks <= n
                  /\ Len(Body.code) = n /\ ~ Terminated(Body, at)
<1>1. Current(s) /\ s \in State /\ t \in State /\ s.mode = "open" /\ t.blocks <= s.blocks
  BY StmtPoint
<1>2. t.blocks \in Nat /\ s.blocks \in Nat
  BY <1>1 DEF State
<1>3. PICK n : /\ Ready(Here, s.pend \cup {at}, n) /\ Here.at = at
               /\ at \notin s.pend /\ s.blocks <= n /\ n \in Nat \ {0} /\ s.blocks \in Nat
               /\ at \in Blocks(n) /\ s.pend \subseteq Blocks(n)
               /\ Len(Body.code) = n /\ ~ Terminated(Body, at)
  BY <1>1, OpenHere
<1>4. t.blocks <= n
  BY <1>1, <1>2, <1>3
<1> QED
  BY <1>2, <1>3, <1>4

\* A statement that ends its block.
LEMMA ClosedHere ==
    ASSUME NEW s, NEW t, Before(s, t), Head(work).step \in StmtSteps \ {"compound-stmt"},
           NEW e, \A n : Ready(Here, s.pend \cup {at}, n) => Closed(Here, e, s.pend \cup {at}, n),
           Emit(e), Then(<<>>), UNCHANGED <<source, inner, cur_fun, phase>>,
           require_lvalue' = require_lvalue, pre_enter_scope' = pre_enter_scope
    PROVE  BuilderInv'
<1>1. /\ s \in State /\ t \in State /\ s.mode = "open" /\ t.mode = "any" /\ t.depth = s.depth
      /\ t.pend = s.pend /\ t.asked = "nothing" /\ require_lvalue = FALSE
      /\ pre_enter_scope = FALSE /\ IsList(inner) /\ Len(inner) = s.depth
  BY StmtPoint
<1>2. PICK n : /\ Ready(Here, s.pend \cup {at}, n) /\ Here.at = at /\ at \in Blocks(n)
               /\ at \notin s.pend /\ t.blocks <= n
  BY StmtHere
<1>3. BodyOK(e.body, (s.pend \cup {at}) \ {at}, n) /\ e.at = at
  BY <1>2 DEF Closed
<1>4. (s.pend \cup {at}) \ {at} = t.pend
  BY <1>1, <1>2
<1>5. Stands(e.body, e.at, t, n)
  BY <1>1, <1>2, <1>3, <1>4 DEF Stands
<1>6. /\ require_lvalue' = (t.asked = "address") /\ pre_enter_scope' = (t.asked = "scope")
      /\ IsList(inner') /\ Len(inner') = t.depth
  BY <1>1
<1> QED
  BY <1>1, <1>5, <1>6, TypedNone, EmittedTo

LEMMA VisitReturnStmtStep ==
    ASSUME NEW s, NEW t, Before(s, t), VisitReturnStmt
    PROVE  BuilderInv'
<1>1. \/ Head(work).step = "return-stmt" /\ Node.expression = <<>>
      \/ Head(work).step = "return-stmt" /\ Node.expression # <<>>
      \/ Head(work).step = "return"
  BY DEF VisitReturnStmt, Doing
<1>2. /\ Head(work).step \in StmtSteps \ {"compound-stmt"}
      /\ Head(work).step = "return-stmt" => Head(work).step \in StmtKinds
  BY <1>1 DEF StmtSteps, StmtKinds
<1>3. CASE Head(work).step = "return-stmt" /\ Node.expression = <<>>
  <2> DEFINE e == create_void_ret(Here)
  <2>1. /\ Emit(e) /\ Then(<<>>) /\ UNCHANGED <<source, inner, cur_fun, phase>>
        /\ require_lvalue' = require_lvalue /\ pre_enter_scope' = pre_enter_scope
    BY <1>3 DEF VisitReturnStmt, Doing, flags
  <2>2. ASSUME NEW n, Ready(Here, s.pend \cup {at}, n)
        PROVE  Closed(Here, e, s.pend \cup {at}, n)
    BY <2>2, RetCloses DEF create_void_ret
  <2> HIDE DEF e
  <2> QED
    BY <1>2, <2>1, <2>2, ClosedHere
<1>4. CASE Head(work).step = "return-stmt" /\ Node.expression # <<>>
  <2> DEFINE u == Opened(t)
             v == Visit(Node.expression[1])
             r == Item("return", Node, <<>>)
  <2>1. /\ Then(<<v, r>>) /\ UNCHANGED <<source, inner, cur_fun, functions, at, phase>>
        /\ require_lvalue' = require_lvalue /\ pre_enter_scope' = pre_enter_scope
    BY <1>4 DEF VisitReturnStmt, Doing, flags, irVars
  <2>2. /\ t \in State /\ s.mode = "open" /\ t.mode = "any" /\ t.asked = "nothing"
        /\ t.depth = s.depth /\ t.pend = s.pend /\ t.blocks <= s.blocks
        /\ require_lvalue = FALSE /\ pre_enter_scope = FALSE
        /\ IsList(inner) /\ Len(inner) = s.depth
        /\ u \in State /\ u.mode = "open" /\ u.depth = t.depth /\ u.asked = "nothing"
        /\ u.pend = t.pend /\ u.blocks = t.blocks
    BY <1>2, StmtPoint
  <2>3. Node.expression[1] \in ExprNode
    <3>1. Node \in StmtNode /\ Node.kind = "return-stmt"
      BY <1>2, <1>4 DEF Before, Moves, StmtMoves, IsStmt, Node
    <3>2. Node.expression \in Seq(ExprNode)
      BY <3>1, BuilderAssumption DEF IsStatement, Nodes
    <3> QED
      BY <3>2, <1>4
  <2> HIDE DEF u
  <2>4. Moves(v, u, u)
    BY <2>2, <2>3, ExprVisit
  <2>5. Moves(r, u, t)
    <3>1. r.step = "return"
      BY DEF Item
    <3> HIDE DEF r
    <3>2. StmtMoves(r, u, t)
      BY <2>2, <3>1 DEF StmtMoves, StmtKinds
    <3>3. r.step \in StmtSteps
      BY <3>1 DEF StmtSteps
    <3>4. t.blocks <= u.blocks
      BY <2>2 DEF State
    <3> QED
      BY <2>2, <3>2, <3>3, <3>4, StmtItem
  <2> HIDE DEF v, r
  <2>6. TypedFrom(<<v, r>>, u, t)
    BY <2>4, <2>5, TypedTwo
  <2>7. /\ require_lvalue' = (u.asked = "address") /\ pre_enter_scope' = (u.asked = "scope")
        /\ IsList(inner') /\ Len(inner') = u.depth
    BY <2>1, <2>2
  <2> QED
    BY <2>1, <2>2, <2>6, <2>7, GoesOn
<1>5. CASE Head(work).step = "return"
  <2> DEFINE c == ConvertReturned(Here, tmp_val)
             e == create_ret(c, c.val)
  <2>1. /\ Emit(e) /\ Then(<<>>) /\ UNCHANGED <<source, inner, cur_fun, phase>>
        /\ require_lvalue' = require_lvalue /\ pre_enter_scope' = pre_enter_scope
    BY <1>5 DEF VisitReturnStmt, Doing, flags
  <2>2. ASSUME NEW n, Ready(Here, s.pend \cup {at}, n)
        PROVE  Closed(Here, e, s.pend \cup {at}, n)
    <3>1. Keeps(Here, c, s.pend \cup {at}, n)
      BY <2>2, ConvertKeeps
    <3> HIDE DEF c
    <3>2. Closed(c, e, s.pend \cup {at}, n)
      BY <3>1, RetCloses DEF Keeps, create_ret
    <3> HIDE DEF e
    <3> QED
      BY <3>1, <3>2 DEF Keeps, Closed
  <2> HIDE DEF e
  <2> QED
    BY <1>2, <2>1, <2>2, ClosedHere
<1> QED
  BY <1>1, <1>3, <1>4, <1>5

\* The builder where a condition, in new blocks, is true.
Branch(e, k, v, yes, no) ==
    LET c == NotZero(NewBlocks(e, k), v)
    IN  set_insert_point(create_cond_br(c, c.val, yes, no), yes)

BranchOK(f, O, n, k) ==
    /\ BodyOK(f.body, (O \cup (n + 2 .. n + k)) \cup {n + 1}, n + k)
    /\ f.at = n + 1
    /\ O \subseteq Blocks(n)

LEMMA BranchReady ==
    ASSUME NEW e, NEW O, NEW Q, NEW n \in Nat \ {0}, Ready(e, Q, n), e.at \notin O,
           Q = O \cup {e.at}, NEW k \in {2, 3}, NEW v, NEW no \in n + 2 .. n + k
    PROVE  BranchOK(Branch(e, k, v, n + 1, no), O, n, k)
<1> DEFINE P == (O \cup {e.at}) \cup (n + 1 .. n + k)
           b == NewBlocks(e, k)
           c == NotZero(b, v)
           d == create_cond_br(c, c.val, n + 1, no)
           f == set_insert_point(d, n + 1)
<1>1. Keeps(e, b, P, n + k)
  BY NewBlocksReady
<1>2. O \cup {e.at} \subseteq Blocks(n)
  BY BodyFacts DEF Ready
<1>3. e.at \in Nat /\ e.at <= n
  BY <1>2 DEF Blocks
<1>4. P \ {e.at} = (O \cup (n + 2 .. n + k)) \cup {n + 1}
  BY <1>3
<1>5. n + 1 \in P \ {e.at}
  BY <1>4
<1> HIDE DEF P, b
<1>6. Keeps(b, c, P, n + k)
  BY <1>1, NotZeroKeeps DEF Keeps
<1>7. Ready(c, P, n + k) /\ c.at = e.at
  BY <1>1, <1>6 DEF Keeps
<1>8. n + 1 \in Later(n + k) /\ no \in Later(n + k)
  BY DEF Later
<1> HIDE DEF c
<1>9. Closed(c, d, P, n + k)
  BY <1>7, <1>8, CondBrCloses
<1> HIDE DEF d
<1>10. Ready(f, P \ {e.at}, n + k) /\ f.at = n + 1
  BY <1>5, <1>7, <1>9, AtPoint DEF Closed
<1>11. Branch(e, k, v, n + 1, no) = f
  BY DEF Branch, b, c, d
<1> HIDE DEF f
<1> QED
  BY <1>2, <1>4, <1>10, <1>11 DEF Ready, BranchOK

\* The first branch of a selection or a loop, in a block of its own; the others
\* wait.
LEMMA BranchTaken ==
    ASSUME NEW s, NEW t, Before(s, t), Head(work).step \in StmtSteps \ {"compound-stmt"},
           NEW k \in {2, 3}, NEW n, n = Len(Body.code), NEW no \in n + 2 .. n + k,
           Emit(Branch(Here, k, tmp_val, n + 1, no)),
           UNCHANGED <<source, inner, cur_fun, phase>>,
           require_lvalue' = require_lvalue, pre_enter_scope' = pre_enter_scope,
           NEW u, u = At("open", s.depth, "nothing", s.pend \cup (n + 2 .. n + k), n + k),
           NEW items, TypedFrom(items, u, t), Then(items)
    PROVE  BuilderInv'
<1> DEFINE f == Branch(Here, k, tmp_val, n + 1, no)
           R == n + 2 .. n + k
<1>1. /\ s \in State /\ s.mode = "open" /\ require_lvalue = FALSE
      /\ pre_enter_scope = FALSE /\ IsList(inner) /\ Len(inner) = s.depth
  BY StmtPoint
<1>2. /\ Ready(Here, s.pend \cup {at}, n) /\ Here.at = at /\ at \in Blocks(n)
      /\ at \notin s.pend /\ n \in Nat \ {0}
  BY StmtHere
<1>3. BodyOK(f.body, (s.pend \cup R) \cup {n + 1}, n + k) /\ f.at = n + 1 /\ s.pend \subseteq Blocks(n)
  <2> DEFINE Q == s.pend \cup {at}
  <2>1. /\ Ready(Here, Q, n) /\ Here.at \notin s.pend /\ n \in Nat \ {0}
        /\ Q = s.pend \cup {Here.at}
    BY <1>2
  <2> HIDE DEF Q
  <2>2. k \in {2, 3} /\ no \in n + 2 .. n + k
    OBVIOUS
  <2>3. BranchOK(Branch(Here, k, tmp_val, n + 1, no), s.pend, n, k)
    BY ONLY <2>1, <2>2, BranchReady
  <2> QED
    BY <2>3 DEF BranchOK
<1>4. /\ u.mode = "open" /\ u.depth = s.depth /\ u.asked = "nothing" /\ u.pend = s.pend \cup R
      /\ u.blocks = n + k
  BY DEF At
<1>5. n + 1 \notin s.pend /\ n + 1 \notin R /\ R \subseteq Nat /\ n + k \in Nat /\ n + 1 \in Blocks(n + k)
  BY <1>2, <1>3 DEF Blocks
<1> HIDE DEF R
<1>6. u \in State
  BY <1>1, <1>5 DEF At, State, R
<1> HIDE DEF f
<1>7. Stands(f.body, f.at, u, n + k)
  <2>1. BodyOK(f.body, u.pend \cup {f.at}, n + k) /\ f.at \in Blocks(n + k) /\ f.at \notin u.pend
    BY <1>3, <1>4, <1>5
  <2>2. u.blocks <= n + k
    BY <1>4, <1>5
  <2> QED
    BY <1>4, <2>1, <2>2 DEF Stands
<1>8. /\ require_lvalue' = (u.asked = "address") /\ pre_enter_scope' = (u.asked = "scope")
      /\ IsList(inner') /\ Len(inner') = u.depth
  BY <1>1, <1>4
<1>9. Emit(f)
  BY DEF f
<1> QED
  BY <1>1, <1>4, <1>6, <1>7, <1>8, <1>9, EmittedTo

\* A statement, and the jump behind it.
LEMMA TypedBranch ==
    ASSUME NEW u \in State, u.mode = "open", u.asked = "nothing", NEW n \in StmtNode,
           NEW node, NEW saved, saved[1] \in Later(u.blocks)
    PROVE  TypedFrom(<<Visit(n), Item("jump", node, saved)>>, u, Shut(u))
<1>1. Moves(Visit(n), u, Any(u))
  BY Modes, StmtVisit
<1>2. Any(u) \in State /\ Any(u).mode = "any" /\ Any(u).asked = "nothing" /\ Any(u).blocks = u.blocks
  BY Modes
<1>3. Moves(Item("jump", node, saved), Any(u), Shut(Any(u)))
  BY <1>2, JumpItem
<1>4. Shut(Any(u)) = Shut(u)
  BY DEF Shut, Any, At
<1> QED
  BY <1>1, <1>3, <1>4, TypedTwo

\* A selection without an else, and with one.
LEMMA OneBranch ==
    ASSUME NEW s \in State, NEW t \in State, s.mode = "open", t.mode = "any", t.depth = s.depth,
           t.pend = s.pend, t.asked = "nothing", NEW n \in Nat \ {0}, t.blocks <= n,
           s.pend \subseteq Blocks(n), NEW node, NEW i \in StmtNode,
           NEW u, u = At("open", s.depth, "nothing", s.pend \cup (n + 2 .. n + 2), n + 2)
    PROVE  TypedFrom(<<Visit(i), Item("jump", node, <<n + 2>>)>> \o <<>>
                     \o <<Item("insert at", node, <<n + 2>>)>>, u, t)
<1>1. /\ u.mode = "open" /\ u.depth = s.depth /\ u.asked = "nothing"
      /\ u.pend = s.pend \cup {n + 2} /\ u.blocks = n + 2
  BY DEF At
<1>2. n + 2 \notin s.pend /\ n + 2 \in Later(n + 2)
  BY DEF Blocks, Later
<1>3. u \in State
  BY <1>1 DEF At, State
<1>4. <<n + 2>>[1] = n + 2
  OBVIOUS
<1>5. TypedFrom(<<Visit(i), Item("jump", node, <<n + 2>>)>>, u, Shut(u))
  BY <1>1, <1>2, <1>3, <1>4, TypedBranch
<1>6. Moves(Item("insert at", node, <<n + 2>>), Shut(u), t)
  <2> DEFINE x == Shut(u)
  <2>1. /\ x \in State /\ x.mode = "closed" /\ x.depth = u.depth /\ x.asked = u.asked
        /\ x.pend = u.pend /\ x.blocks = u.blocks
    BY <1>3, Modes
  <2>2. n + 2 \in x.pend /\ t.pend = x.pend \ {n + 2}
    BY <1>1, <1>2, <2>1
  <2>3. t.blocks <= x.blocks
    BY <1>1, <2>1 DEF State
  <2> HIDE DEF x
  <2>4. Moves(Item("insert at", node, <<n + 2>>), x, t)
    BY <1>1, <2>1, <2>2, <2>3, InsertItem
  <2> QED
    BY <2>4 DEF x
<1> DEFINE a == <<Visit(i), Item("jump", node, <<n + 2>>)>>
           b == <<Item("insert at", node, <<n + 2>>)>>
<1>7. TypedFrom(b, Shut(u), t)
  BY <1>6, TypedOne
<1>8. TypedFrom(a, u, Shut(u))
  BY <1>5
<1> HIDE DEF a, b
<1>9. TypedFrom(a \o <<>>, u, Shut(u))
  BY <1>8, TypedNone, TypedConcat
<1>10. TypedFrom(a \o <<>> \o b, u, t)
  BY <1>7, <1>9, TypedConcat
<1> QED
  BY <1>10 DEF a, b

LEMMA TwoBranches ==
    ASSUME NEW s \in State, NEW t \in State, s.mode = "open", t.mode = "any", t.depth = s.depth,
           t.pend = s.pend, t.asked = "nothing", NEW n \in Nat \ {0}, t.blocks <= n,
           s.pend \subseteq Blocks(n), NEW node, NEW i \in StmtNode, NEW j \in StmtNode,
           NEW u, u = At("open", s.depth, "nothing", s.pend \cup (n + 2 .. n + 3), n + 3)
    PROVE  TypedFrom(<<Visit(i), Item("jump", node, <<n + 2>>)>>
                     \o <<Item("insert at", node, <<n + 3>>), Visit(j), Item("jump", node, <<n + 2>>)>>
                     \o <<Item("insert at", node, <<n + 2>>)>>, u, t)
<1> DEFINE w == At("open", s.depth, "nothing", s.pend \cup {n + 2}, n + 3)
<1>1. /\ u.mode = "open" /\ u.depth = s.depth /\ u.asked = "nothing"
      /\ u.pend = s.pend \cup (n + 2 .. n + 3) /\ u.blocks = n + 3
      /\ w.mode = "open" /\ w.depth = s.depth /\ w.asked = "nothing"
      /\ w.pend = s.pend \cup {n + 2} /\ w.blocks = n + 3
  BY DEF At
<1>2. /\ n + 2 \notin s.pend /\ n + 3 \notin s.pend /\ n + 2 \in Later(n + 3)
      /\ n + 2 .. n + 3 = {n + 2, n + 3} /\ n + 2 # n + 3
  BY DEF Blocks, Later
<1>3. u \in State /\ w \in State
  BY <1>1 DEF At, State
<1> HIDE DEF w
<1>4. <<n + 2>>[1] = n + 2
  OBVIOUS
<1>5. TypedFrom(<<Visit(i), Item("jump", node, <<n + 2>>)>>, u, Shut(u))
  BY <1>1, <1>2, <1>3, <1>4, TypedBranch
<1>6. TypedFrom(<<Visit(j), Item("jump", node, <<n + 2>>)>>, w, Shut(w))
  BY <1>1, <1>2, <1>3, <1>4, TypedBranch
<1>7. Moves(Item("insert at", node, <<n + 3>>), Shut(u), w)
  <2> DEFINE x == Shut(u)
  <2>1. /\ x \in State /\ x.mode = "closed" /\ x.depth = u.depth /\ x.asked = u.asked
        /\ x.pend = u.pend /\ x.blocks = u.blocks
    BY <1>3, Modes
  <2>2. n + 3 \in x.pend /\ w.pend = x.pend \ {n + 3}
    BY <1>1, <1>2, <2>1
  <2>3. w.blocks <= x.blocks
    BY <1>1, <2>1
  <2> HIDE DEF x
  <2>4. Moves(Item("insert at", node, <<n + 3>>), x, w)
    BY <1>1, <1>3, <2>1, <2>2, <2>3, InsertItem
  <2> QED
    BY <2>4 DEF x
<1>8. Moves(Item("insert at", node, <<n + 2>>), Shut(w), t)
  <2> DEFINE x == Shut(w)
  <2>1. /\ x \in State /\ x.mode = "closed" /\ x.depth = w.depth /\ x.asked = w.asked
        /\ x.pend = w.pend /\ x.blocks = w.blocks
    BY <1>3, Modes
  <2>2. n + 2 \in x.pend /\ t.pend = x.pend \ {n + 2}
    BY <1>1, <1>2, <2>1
  <2>3. t.blocks <= x.blocks
    BY <1>1, <2>1 DEF State
  <2> HIDE DEF x
  <2>4. Moves(Item("insert at", node, <<n + 2>>), x, t)
    BY <1>1, <2>1, <2>2, <2>3, InsertItem
  <2> QED
    BY <2>4 DEF x
<1> DEFINE a == <<Visit(i), Item("jump", node, <<n + 2>>)>>
           b == <<Item("insert at", node, <<n + 3>>), Visit(j), Item("jump", node, <<n + 2>>)>>
           c == <<Item("insert at", node, <<n + 2>>)>>
<1>9. TypedFrom(a, u, Shut(u))
  BY <1>5
<1>10. TypedFrom(b, Shut(u), Shut(w))
  <2>1. Moves(Visit(j), w, Any(w))
    BY <1>1, <1>3, Modes, StmtVisit
  <2>2. Moves(Item("jump", node, <<n + 2>>), Any(w), Shut(Any(w)))
    <3>1. Any(w) \in State /\ Any(w).mode = "any" /\ Any(w).asked = "nothing" /\ Any(w).blocks = w.blocks
      BY <1>1, <1>3, Modes
    <3> QED
      BY <3>1, <1>1, <1>2, <1>4, JumpItem
  <2>3. Shut(Any(w)) = Shut(w)
    BY DEF Shut, Any, At
  <2> QED
    BY <1>7, <2>1, <2>2, <2>3, TypedThree
<1>11. TypedFrom(c, Shut(w), t)
  BY <1>8, TypedOne
<1> HIDE DEF a, b, c
<1>12. TypedFrom(a \o b, u, Shut(w))
  BY <1>9, <1>10, TypedConcat
<1>13. TypedFrom(a \o b \o c, u, t)
  BY <1>11, <1>12, TypedConcat
<1> QED
  BY <1>13 DEF a, b, c

LEMMA VisitSelectionStmtStep ==
    ASSUME NEW s, NEW t, Before(s, t), VisitSelectionStmt
    PROVE  BuilderInv'
<1>1. Head(work).step = "selection-stmt" \/ Head(work).step = "branches"
  BY DEF VisitSelectionStmt, Doing
<1>2. Head(work).step \in StmtSteps \ {"compound-stmt"}
  BY <1>1 DEF StmtSteps, StmtKinds
<1>3. Node \in StmtNode /\ Node.kind = "selection-stmt"
  BY <1>1 DEF Before, Moves, StmtMoves, StmtKinds, IsStmt, Node
<1>4. Node.expression \in ExprNode /\ Node.if_statement \in StmtNode /\ Node.else_statement \in Seq(StmtNode)
  BY <1>3, BuilderAssumption DEF IsStatement, Nodes
<1>5. /\ s \in State /\ t \in State /\ s.mode = "open" /\ t.mode = "any" /\ t.asked = "nothing"
      /\ t.depth = s.depth /\ t.pend = s.pend /\ t.blocks <= s.blocks
      /\ require_lvalue = FALSE /\ pre_enter_scope = FALSE
      /\ IsList(inner) /\ Len(inner) = s.depth
      /\ Opened(t) \in State /\ Opened(t).mode = "open" /\ Opened(t).depth = t.depth
      /\ Opened(t).asked = "nothing" /\ Opened(t).pend = t.pend /\ Opened(t).blocks = t.blocks
  BY <1>2, StmtPoint
<1>6. CASE Head(work).step = "selection-stmt"
  <2> DEFINE u == Opened(t)
             v == Visit(Node.expression)
             r == Item("branches", Node, <<>>)
  <2>1. /\ Then(<<v, r>>) /\ UNCHANGED <<source, inner, cur_fun, functions, at, phase>>
        /\ require_lvalue' = require_lvalue /\ pre_enter_scope' = pre_enter_scope
    BY <1>6 DEF VisitSelectionStmt, Doing, flags, irVars
  <2> HIDE DEF u
  <2>2. Moves(v, u, u)
    BY <1>4, <1>5, ExprVisit DEF u
  <2>3. Moves(r, u, t)
    <3>1. r.step = "branches" /\ r.node = Node
      BY DEF Item
    <3> HIDE DEF r
    <3>2. StmtMoves(r, u, t)
      BY <1>3, <1>5, <3>1 DEF StmtMoves, StmtKinds, IsStmt, u
    <3>3. r.step \in StmtSteps
      BY <3>1 DEF StmtSteps
    <3>4. t.blocks <= u.blocks
      BY <1>5 DEF State, u
    <3> QED
      BY <1>5, <3>2, <3>3, <3>4, StmtItem DEF u
  <2> HIDE DEF v, r
  <2>4. TypedFrom(<<v, r>>, u, t)
    BY <2>2, <2>3, TypedTwo
  <2>5. /\ require_lvalue' = (u.asked = "address") /\ pre_enter_scope' = (u.asked = "scope")
        /\ IsList(inner') /\ Len(inner') = u.depth
    BY <1>5, <2>1 DEF u
  <2>6. u \in State /\ u.mode = s.mode /\ u.pend = s.pend /\ u.blocks <= s.blocks
    BY <1>5 DEF u
  <2> QED
    BY <2>1, <2>4, <2>5, <2>6, GoesOn
<1>7. CASE Head(work).step = "branches"
  <2> DEFINE n == Len(Body.code)
  <2>1. /\ s.pend \subseteq Blocks(n) /\ n \in Nat \ {0} /\ t.blocks <= n
    BY <1>2, StmtHere
  <2>2. /\ UNCHANGED <<source, inner, cur_fun, phase>>
        /\ require_lvalue' = require_lvalue /\ pre_enter_scope' = pre_enter_scope
    BY <1>7 DEF VisitSelectionStmt, Doing, flags
  <2> DEFINE trueBB == Len(Body.code) + 1
             contBB == trueBB + 1
             falseBB == IF Node.else_statement = <<>> THEN contBB ELSE contBB + 1
             k == falseBB - Len(Body.code)
             middle == IF Node.else_statement = <<>> THEN <<>>
                       ELSE <<Item("insert at", Node, <<falseBB>>), Visit(Node.else_statement[1]),
                              Item("jump", Node, <<contBB>>)>>
  <2>3. /\ Emit(Branch(Here, k, tmp_val, trueBB, falseBB))
        /\ Then(<<Visit(Node.if_statement), Item("jump", Node, <<contBB>>)>> \o middle
                \o <<Item("insert at", Node, <<contBB>>)>>)
    BY <1>7 DEF VisitSelectionStmt, Doing, Branch
  <2>4. trueBB = n + 1 /\ contBB = n + 2
    BY <2>1
  <2>5. CASE Node.else_statement = <<>>
    <3> DEFINE items == <<Visit(Node.if_statement), Item("jump", Node, <<n + 2>>)>> \o <<>>
                        \o <<Item("insert at", Node, <<n + 2>>)>>
               u == At("open", s.depth, "nothing", s.pend \cup (n + 2 .. n + 2), n + 2)
    <3>a. falseBB = n + 2 /\ k = 2 /\ middle = <<>>
      BY <2>1, <2>5
    <3> HIDE DEF trueBB, contBB, falseBB, k, middle
    <3>1. Emit(Branch(Here, 2, tmp_val, n + 1, n + 2)) /\ Then(items)
      BY <2>3, <2>4, <3>a
    <3>2. TypedFrom(items, u, t)
      BY <1>4, <1>5, <2>1, OneBranch
    <3> HIDE DEF items, u, n
    <3>3. n = Len(Body.code) /\ 2 \in {2, 3} /\ n + 2 \in n + 2 .. n + 2
      BY <2>1 DEF n
    <3>4. u = At("open", s.depth, "nothing", s.pend \cup (n + 2 .. n + 2), n + 2)
      BY DEF u
    <3> QED
      BY <1>2, <2>2, <3>1, <3>2, <3>3, <3>4, BranchTaken
  <2>6. CASE Node.else_statement # <<>>
    <3> DEFINE items == <<Visit(Node.if_statement), Item("jump", Node, <<n + 2>>)>>
                        \o <<Item("insert at", Node, <<n + 3>>), Visit(Node.else_statement[1]),
                             Item("jump", Node, <<n + 2>>)>>
                        \o <<Item("insert at", Node, <<n + 2>>)>>
               u == At("open", s.depth, "nothing", s.pend \cup (n + 2 .. n + 3), n + 3)
    <3>a. falseBB = n + 3 /\ k = 3
      BY <2>1, <2>6
    <3>b. middle = <<Item("insert at", Node, <<falseBB>>), Visit(Node.else_statement[1]),
                     Item("jump", Node, <<contBB>>)>>
      BY <2>6
    <3> HIDE DEF trueBB, contBB, falseBB, k, middle
    <3>1. Emit(Branch(Here, 3, tmp_val, n + 1, n + 3)) /\ Then(items)
      BY <2>3, <2>4, <3>a, <3>b
    <3>2. Node.else_statement[1] \in StmtNode
      BY <1>4, <2>6
    <3>3. TypedFrom(items, u, t)
      BY <1>4, <1>5, <2>1, <3>2, TwoBranches
    <3> HIDE DEF items, u, n
    <3>4. n = Len(Body.code) /\ 3 \in {2, 3} /\ n + 3 \in n + 2 .. n + 3
      BY <2>1 DEF n
    <3>5. u = At("open", s.depth, "nothing", s.pend \cup (n + 2 .. n + 3), n + 3)
      BY DEF u
    <3> QED
      BY <1>2, <2>2, <3>1, <3>3, <3>4, <3>5, BranchTaken
  <2> QED
    BY <2>5, <2>6
<1> QED
  BY <1>1, <1>6, <1>7

\* The builder in the block of a loop's condition.
IntoNext(e, to) == set_insert_point(create_br(NewBlocks(e, 1), to), to)
NextOK(f, O, n) == BodyOK(f.body, O \cup {n + 1}, n + 1) /\ f.at = n + 1 /\ n + 1 \notin O

LEMMA NextReady ==
    ASSUME NEW e, NEW O, NEW Q, NEW n \in Nat \ {0}, Ready(e, Q, n), e.at \notin O, Q = O \cup {e.at}
    PROVE  NextOK(IntoNext(e, n + 1), O, n)
<1> DEFINE P == (O \cup {e.at}) \cup (n + 1 .. n + 1)
           b == NewBlocks(e, 1)
           d == create_br(b, n + 1)
           f == set_insert_point(d, n + 1)
<1>1. Keeps(e, b, P, n + 1)
  BY NewBlocksReady
<1>2. O \cup {e.at} \subseteq Blocks(n)
  BY BodyFacts DEF Ready
<1>3. e.at \in Nat /\ e.at <= n /\ n + 1 \notin O
  BY <1>2 DEF Blocks
<1>4. P \ {e.at} = O \cup {n + 1}
  BY <1>3
<1>5. n + 1 \in P \ {e.at}
  BY <1>4
<1> HIDE DEF P, b
<1>6. Ready(b, P, n + 1) /\ b.at = e.at
  BY <1>1 DEF Keeps
<1>7. n + 1 \in Later(n + 1)
  BY DEF Later
<1>8. Closed(b, d, P, n + 1)
  BY <1>6, <1>7, BrCloses
<1> HIDE DEF d
<1>9. Ready(f, P \ {e.at}, n + 1) /\ f.at = n + 1
  BY <1>5, <1>6, <1>8, AtPoint DEF Closed
<1>10. IntoNext(e, n + 1) = f
  BY DEF IntoNext, b, d
<1> HIDE DEF f
<1> QED
  BY <1>3, <1>4, <1>9, <1>10 DEF Ready, NextOK

LEMMA LoopItem ==
    ASSUME NEW x \in State, x.mode = "open", x.asked = "nothing",
           NEW y \in State, y.mode = "any", y.asked = "nothing",
           y.depth = x.depth, y.pend = x.pend, y.blocks <= x.blocks,
           NEW n \in StmtNode, n.kind = "iteration-stmt", NEW saved, saved[1] \in Later(x.blocks)
    PROVE  Moves(Item("loop", n, saved), x, y)
<1> DEFINE i == Item("loop", n, saved)
<1>1. i.step = "loop" /\ i.node = n /\ i.saved = saved
  BY DEF Item
<1> HIDE DEF i
<1>2. StmtMoves(i, x, y)
  BY <1>1 DEF StmtMoves, StmtKinds, IsStmt
<1>3. i.step \in StmtSteps
  BY <1>1 DEF StmtSteps
<1>4. Moves(i, x, y)
  BY <1>2, <1>3, StmtItem
<1> QED
  BY <1>4 DEF i

LEMMA TypedLoop ==
    ASSUME NEW s \in State, NEW t \in State, s.mode = "open", t.mode = "any", t.depth = s.depth,
           t.pend = s.pend, t.asked = "nothing", NEW n \in Nat \ {0}, t.blocks <= n, s.blocks <= n,
           s.pend \subseteq Blocks(n), NEW node, NEW i \in StmtNode,
           NEW saved, saved[1] \in Later(s.blocks),
           NEW u, u = At("open", s.depth, "nothing", s.pend \cup (n + 2 .. n + 2), n + 2)
    PROVE  TypedFrom(<<Visit(i), Item("jump", node, saved), Item("insert at", node, <<n + 2>>)>>, u, t)
<1>1. /\ u.mode = "open" /\ u.depth = s.depth /\ u.asked = "nothing"
      /\ u.pend = s.pend \cup {n + 2} /\ u.blocks = n + 2
  BY DEF At
<1>2. n + 2 \notin s.pend /\ s.blocks \in Nat /\ t.blocks \in Nat
  BY DEF Blocks, State
<1>3. u \in State
  BY <1>1 DEF At, State
<1>4. saved[1] \in Later(u.blocks)
  BY <1>1, <1>2 DEF Later
<1>5. Moves(Visit(i), u, Any(u))
  BY <1>1, <1>3, Modes, StmtVisit
<1>6. Moves(Item("jump", node, saved), Any(u), Shut(Any(u)))
  <2>1. Any(u) \in State /\ Any(u).mode = "any" /\ Any(u).asked = "nothing" /\ Any(u).blocks = u.blocks
    BY <1>1, <1>3, Modes
  <2> QED
    BY <2>1, <1>4, JumpItem
<1>7. Shut(Any(u)) = Shut(u)
  BY DEF Shut, Any, At
<1>8. Moves(Item("insert at", node, <<n + 2>>), Shut(u), t)
  <2> DEFINE x == Shut(u)
  <2>1. /\ x \in State /\ x.mode = "closed" /\ x.depth = u.depth /\ x.asked = u.asked
        /\ x.pend = u.pend /\ x.blocks = u.blocks
    BY <1>3, Modes
  <2>2. n + 2 \in x.pend /\ t.pend = x.pend \ {n + 2}
    BY <1>1, <1>2, <2>1
  <2>3. t.blocks <= x.blocks
    BY <1>1, <1>2, <2>1
  <2> HIDE DEF x
  <2>4. Moves(Item("insert at", node, <<n + 2>>), x, t)
    BY <1>1, <2>1, <2>2, <2>3, InsertItem
  <2> QED
    BY <2>4 DEF x
<1> QED
  BY <1>5, <1>6, <1>7, <1>8, TypedThree

LEMMA VisitIterationStmtStep ==
    ASSUME NEW s, NEW t, Before(s, t), VisitIterationStmt
    PROVE  BuilderInv'
<1> DEFINE n == Len(Body.code)
<1>1. Head(work).step = "iteration-stmt" \/ Head(work).step = "loop"
  BY DEF VisitIterationStmt, Doing
<1>2. Head(work).step \in StmtSteps \ {"compound-stmt"}
  BY <1>1 DEF StmtSteps, StmtKinds
<1>3. Node \in StmtNode /\ Node.kind = "iteration-stmt"
  BY <1>1 DEF Before, Moves, StmtMoves, StmtKinds, IsStmt, Node
<1>4. Node.expression \in ExprNode /\ Node.statement \in StmtNode
  BY <1>3, BuilderAssumption DEF IsStatement
<1>5. /\ s \in State /\ t \in State /\ s.mode = "open" /\ t.mode = "any" /\ t.asked = "nothing"
      /\ t.depth = s.depth /\ t.pend = s.pend /\ t.blocks <= s.blocks
      /\ require_lvalue = FALSE /\ pre_enter_scope = FALSE
      /\ IsList(inner) /\ Len(inner) = s.depth
  BY <1>2, StmtPoint
<1>6. /\ Ready(Here, s.pend \cup {at}, n) /\ Here.at = at /\ at \notin s.pend
      /\ s.pend \subseteq Blocks(n) /\ n \in Nat \ {0} /\ t.blocks \in Nat /\ s.blocks \in Nat
      /\ s.blocks <= n /\ t.blocks <= n /\ ~ Terminated(Body, at)
  BY <1>2, StmtHere
<1>7. /\ UNCHANGED <<source, inner, cur_fun, phase>>
      /\ require_lvalue' = require_lvalue /\ pre_enter_scope' = pre_enter_scope
  BY DEF VisitIterationStmt, flags
<1>8. CASE Head(work).step = "iteration-stmt"
  <2> DEFINE e == IntoNext(Here, n + 1)
             u == At("open", t.depth, "nothing", t.pend, n + 1)
             v == Visit(Node.expression)
             r == Item("loop", Node, <<n + 1>>)
  <2>1. Emit(e) /\ Then(<<v, r>>)
    BY <1>6, <1>8 DEF VisitIterationStmt, Doing, IntoNext
  <2>2. NextOK(e, s.pend, n)
    <3> DEFINE Q == s.pend \cup {at}
    <3>1. Ready(Here, Q, n) /\ Q = s.pend \cup {Here.at} /\ Here.at \notin s.pend /\ n \in Nat \ {0}
      BY <1>6
    <3> HIDE DEF Q, n
    <3> QED
      BY ONLY <3>1, NextReady
  <2> HIDE DEF e
  <2>3. /\ u.mode = "open" /\ u.depth = t.depth /\ u.asked = "nothing" /\ u.pend = t.pend
        /\ u.blocks = n + 1
    BY DEF At
  <2> HIDE DEF n
  <2>4. u \in State /\ t.blocks <= u.blocks /\ <<n + 1>>[1] = n + 1
    BY <1>5, <1>6 DEF State, At
  <2> HIDE DEF u
  <2>5. Stands(e.body, e.at, u, n + 1)
    <3>1. BodyOK(e.body, u.pend \cup {e.at}, n + 1) /\ e.at = n + 1 /\ e.at \notin u.pend
      BY <1>5, <2>2, <2>3 DEF NextOK
    <3>2. n + 1 \in Blocks(n + 1) /\ u.blocks <= n + 1
      BY <1>6, <2>3 DEF Blocks
    <3> QED
      BY <2>3, <3>1, <3>2 DEF Stands
  <2>6. Moves(v, u, u)
    BY <1>4, <2>3, <2>4, ExprVisit
  <2>7. n + 1 \in Later(u.blocks)
    BY <1>6, <2>3 DEF Later
  <2>8. Moves(r, u, t)
    BY <1>3, <1>5, <2>3, <2>4, <2>7, LoopItem
  <2> HIDE DEF v, r
  <2>9. TypedFrom(<<v, r>>, u, t)
    BY <2>6, <2>8, TypedTwo
  <2>10. /\ require_lvalue' = (u.asked = "address") /\ pre_enter_scope' = (u.asked = "scope")
         /\ IsList(inner') /\ Len(inner') = u.depth
    BY <1>5, <1>7, <2>3
  <2> QED
    BY <1>5, <1>7, <2>1, <2>3, <2>4, <2>5, <2>9, <2>10, EmittedTo
<1>9. CASE Head(work).step = "loop"
  <2> DEFINE trueBB == Len(Body.code) + 1
             contBB == trueBB + 1
             items == <<Visit(Node.statement), Item("jump", Node, Saved),
                        Item("insert at", Node, <<n + 2>>)>>
             u == At("open", s.depth, "nothing", s.pend \cup (n + 2 .. n + 2), n + 2)
  <2>1. /\ Emit(Branch(Here, 2, tmp_val, trueBB, contBB))
        /\ Then(<<Visit(Node.statement), Item("jump", Node, Saved), Item("insert at", Node, <<contBB>>)>>)
    BY <1>9 DEF VisitIterationStmt, Doing, Branch
  <2>2. trueBB = n + 1 /\ contBB = n + 2
    BY <1>6
  <2> HIDE DEF trueBB, contBB
  <2>3. Emit(Branch(Here, 2, tmp_val, n + 1, n + 2)) /\ Then(items)
    BY <2>1, <2>2
  <2>4. Saved[1] \in Later(s.blocks)
    BY <1>9 DEF Before, Moves, StmtMoves, Saved
  <2>5. TypedFrom(items, u, t)
    BY <1>4, <1>5, <1>6, <2>4, TypedLoop
  <2> HIDE DEF items, u
  <2>6. 2 \in {2, 3} /\ n + 2 \in n + 2 .. n + 2
    BY <1>6
  <2>7. u = At("open", s.depth, "nothing", s.pend \cup (n + 2 .. n + 2), n + 2)
    BY DEF u
  <2> QED
    BY <1>2, <1>7, <2>3, <2>5, <2>6, <2>7, BranchTaken
<1> QED
  BY <1>1, <1>8, <1>9

\* A block that is seen to be open.
LEMMA OpenBefore ==
    ASSUME NEW s, NEW t, Before(s, t), s.mode = "open" \/ (s.mode = "any" /\ ~ Terminated(Body, at))
    PROVE  Before(Opened(s), t)
<1>1. CASE s.mode = "open"
  BY <1>1, OpenedItself DEF Before, Moves
<1>2. CASE s.mode = "any" /\ ~ Terminated(Body, at)
  <2> DEFINE x == Opened(s)
  <2>1. Current(s) /\ Moves(Head(work), s, t) /\ s \in State
    BY DEF Before, Moves
  <2>2. /\ x \in State /\ x.mode = "open" /\ x.depth = s.depth /\ x.asked = s.asked
        /\ x.pend = s.pend /\ x.blocks = s.blocks
    BY <2>1, OpenedItself
  <2>3. Moves(Head(work), x, t)
    BY <1>2, <2>1, MovesOpened
  <2> HIDE DEF x
  <2>4. /\ cur_fun \in DOMAIN functions
        /\ \A f \in DOMAIN functions : f = cur_fun \/ Complete(functions[f])
    BY <1>2, <2>1 DEF Current, FunctionsAt
  <2>5. PICK n : Stands(functions[cur_fun], at, s, n)
    BY <1>2, <2>1 DEF Current, FunctionsAt
  <2>6. BodyOK(Body, s.pend \cup {at}, n)
    <3>1. at \in Blocks(n) /\ at \notin s.pend
      BY <2>5 DEF Stands
    <3>2. ~ BodyOK(Body, s.pend, n)
      BY <1>2, <3>1, BodyFacts
    <3> QED
      BY <1>2, <2>5, <3>2 DEF Stands, Body
  <2>7. Stands(functions[cur_fun], at, x, n)
    BY <2>2, <2>5, <2>6 DEF Stands, Body
  <2>8. FunctionsAt(x)
    BY <2>2, <2>4, <2>7 DEF FunctionsAt
  <2>9. Current(x)
    BY <2>1, <2>2, <2>8 DEF Current, ScopeAt, FlagsAt
  <2>10. Before(x, t)
    BY <2>3, <2>9 DEF Before
  <2> QED
    BY <2>10 DEF x
<1> QED
  BY <1>1, <1>2

LEMMA DeclarationItem ==
    ASSUME NEW x \in State, x.mode = "open" \/ x = Final, x.asked = "nothing",
           NEW d \in DeclNode, d.kind = "var-declaration"
    PROVE  Moves(Visit(d), x, x)
<1> DEFINE i == Visit(d)
<1>1. i.step = "var-declaration" /\ IsVar(i)
  BY DEF Visit, Item, IsVar
<1> HIDE DEF i
<1>2. ExprMoves(i, x, x) /\ StmtMoves(i, x, x)
  BY <1>1 DEF ExprMoves, StmtMoves, ExprSteps, ExprKinds, StmtKinds
<1>3. DeclMoves(i, x, x)
  BY <1>1 DEF DeclMoves
<1>4. x.blocks <= x.blocks
  BY DEF State
<1>5. Moves(i, x, x)
  BY <1>1, <1>2, <1>3, <1>4 DEF Moves
<1> QED
  BY <1>5 DEF i

LEMMA StatementsItem ==
    ASSUME NEW x \in State, x.mode \in {"open", "any"}, x.asked = "nothing",
           NEW y \in State, y.mode = "any", y.asked = "nothing", y.pend = x.pend, y.blocks <= x.blocks,
           NEW n \in StmtNode, n.kind = "compound-stmt",
           NEW k \in Nat \ {0}, k = 1 => x.mode = "open",
           NEW b \in BOOLEAN, x.depth = IF b THEN y.depth + 1 ELSE y.depth
    PROVE  Moves(Item("statements", n, <<k, b>>), x, y)
<1> DEFINE i == Item("statements", n, <<k, b>>)
<1>1. i.step = "statements" /\ i.node = n /\ i.saved[1] = k /\ i.saved[2] = b
  BY DEF Item
<1> HIDE DEF i
<1>2. ExprMoves(i, x, y) /\ DeclMoves(i, x, y)
  BY <1>1 DEF ExprMoves, DeclMoves, ExprSteps, ExprKinds
<1>3. StmtMoves(i, x, y)
  BY <1>1 DEF StmtMoves, StmtKinds, IsStmt
<1>4. Moves(i, x, y)
  BY <1>1, <1>2, <1>3 DEF Moves
<1> QED
  BY <1>4 DEF i

LEMMA EnterCompoundStmt ==
    ASSUME NEW s, NEW t, Before(s, t), VisitCompoundStmt, Head(work).step = "compound-stmt"
    PROVE  BuilderInv'
<1> DEFINE u == At("open", Len(inner'), "nothing", t.pend, t.blocks)
           decls == VisitAll(Node.local_declarations)
           list == <<Item("statements", Node, <<1, ~ pre_enter_scope>>)>>
<1>1. /\ inner' = IF pre_enter_scope THEN inner ELSE enter(inner)
      /\ pre_enter_scope' = FALSE /\ require_lvalue' = require_lvalue
      /\ Then(decls \o list)
      /\ UNCHANGED <<source, cur_fun, functions, at, phase>>
  BY DEF VisitCompoundStmt, Doing, flags, irVars
<1>2. Head(work).step \in StmtSteps /\ Head(work).step \in StmtKinds
  BY DEF StmtSteps, StmtKinds
<1>3. /\ s \in State /\ t \in State /\ s.mode = "open" /\ t.mode = "any" /\ t.asked = "nothing"
      /\ t.depth = s.depth /\ t.pend = s.pend /\ t.blocks <= s.blocks
      /\ require_lvalue = FALSE /\ IsList(inner) /\ Len(inner) = s.depth
  BY <1>2, StmtPoint
<1>4. Node \in StmtNode /\ Node.kind = "compound-stmt"
  BY <1>2 DEF Before, Moves, StmtMoves, IsStmt, Node
<1>5. Node.local_declarations \in Seq({d \in DeclNode : d.kind = "var-declaration"})
  BY <1>4, BuilderAssumption DEF IsStatement, Nodes
<1>6. pre_enter_scope \in BOOLEAN
  BY DEF Before, Current, FlagsAt
<1>7. /\ IsList(inner') /\ Len(inner') \in Nat \ {0}
      /\ Len(inner') = IF ~ pre_enter_scope THEN t.depth + 1 ELSE t.depth
  BY <1>1, <1>3, <1>6, EnterList DEF State
<1>8. /\ u \in State /\ u.mode = "open" /\ u.depth = Len(inner') /\ u.asked = "nothing"
      /\ u.pend = t.pend /\ u.blocks = t.blocks
  BY <1>3, <1>7 DEF At, State
<1> HIDE DEF u
<1>9. TypedFrom(decls, u, u)
  <2> DEFINE D == {d \in DeclNode : d.kind = "var-declaration"}
  <2>1. \A d \in D : Moves(Visit(d), u, u)
    BY <1>8, DeclarationItem
  <2>2. Node.local_declarations \in Seq(D)
    BY <1>5
  <2> HIDE DEF D
  <2> QED
    BY <2>1, <2>2, TypedVisits
<1>10. Moves(Item("statements", Node, <<1, ~ pre_enter_scope>>), u, t)
  <2> DEFINE b == ~ pre_enter_scope
  <2>1. b \in BOOLEAN /\ u.depth = IF b THEN t.depth + 1 ELSE t.depth
    BY <1>7, <1>8
  <2>2. t.blocks <= u.blocks
    BY <1>3, <1>8 DEF State
  <2> HIDE DEF b
  <2>3. Moves(Item("statements", Node, <<1, b>>), u, t)
    BY <1>3, <1>4, <1>8, <2>1, <2>2, StatementsItem
  <2> QED
    BY <2>3 DEF b
<1>11. TypedFrom(list, u, t)
  BY <1>10, TypedOne
<1> HIDE DEF decls, list
<1>12. TypedFrom(decls \o list, u, t)
  BY <1>9, <1>11, TypedConcat
<1>13. /\ require_lvalue' = (u.asked = "address") /\ pre_enter_scope' = (u.asked = "scope")
       /\ u.mode = s.mode /\ u.pend = s.pend /\ u.blocks <= s.blocks
  BY <1>1, <1>3, <1>8
<1> QED
  BY <1>1, <1>7, <1>8, <1>12, <1>13, GoesOn

LEMMA NextStatement ==
    ASSUME NEW s, NEW t, Before(s, t), VisitCompoundStmt, Head(work).step = "statements"
    PROVE  BuilderInv'
<1> DEFINE k == Saved[1]
           b == Saved[2]
           over == k > Len(Node.statement_list) \/ (k > 1 /\ Terminated(Body, at))
<1>1. /\ UNCHANGED <<source, cur_fun, functions, at, phase>>
      /\ require_lvalue' = require_lvalue /\ pre_enter_scope' = pre_enter_scope
      /\ over => Then(<<>>) /\ inner' = IF b THEN exit(inner) ELSE inner
      /\ ~ over => /\ Then(<<Visit(Node.statement_list[k]), Item("statements", Node, <<k + 1, b>>)>>)
                   /\ inner' = inner
  BY DEF VisitCompoundStmt, Doing, flags, irVars
<1>2. /\ Current(s) /\ s \in State /\ t \in State /\ k \in Nat \ {0} /\ b \in BOOLEAN
      /\ s.mode \in {"open", "any"} /\ (k = 1 => s.mode = "open")
      /\ t.mode = "any" /\ t.pend = s.pend /\ t.asked = "nothing" /\ s.asked \notin {"address", "scope"}
      /\ t.blocks <= s.blocks /\ s.depth = IF b THEN t.depth + 1 ELSE t.depth
      /\ Node \in StmtNode /\ Node.kind = "compound-stmt"
  BY DEF Before, Moves, StmtMoves, Saved, Node, IsStmt
<1>3. Node.statement_list \in Seq(StmtNode)
  BY <1>2, BuilderAssumption DEF IsStatement, Nodes
<1>4. /\ require_lvalue = FALSE /\ pre_enter_scope = FALSE /\ IsList(inner) /\ Len(inner) = s.depth
      /\ s.depth \in Nat \ {0} /\ t.depth \in Nat \ {0} /\ s.blocks \in Nat
  BY <1>2 DEF Current, FlagsAt, ScopeAt, State
<1>5. CASE over
  <2>1. Then(<<>>) /\ inner' = IF b THEN exit(inner) ELSE inner
    BY <1>1, <1>5
  <2>2. inner # <<>>
    BY <1>4, EmptyList
  <2>3. IsList(inner') /\ Len(inner') = t.depth
    BY <1>2, <1>4, <2>1, <2>2, ExitList
  <2> QED
    BY <1>1, <1>2, <1>4, <2>1, <2>3, TypedNone, GoesOn
<1>6. CASE ~ over
  <2> DEFINE x == Opened(s)
             v == Visit(Node.statement_list[k])
             r == Item("statements", Node, <<k + 1, b>>)
  <2>1. Then(<<v, r>>) /\ inner' = inner
    BY <1>1, <1>6
  <2>2. k \in 1 .. Len(Node.statement_list) /\ (k = 1 \/ ~ Terminated(Body, at))
    BY <1>2, <1>3, <1>6
  <2>3. Before(x, t)
    BY <1>2, <2>2, OpenBefore
  <2>4. /\ x \in State /\ x.mode = "open" /\ x.depth = s.depth /\ x.asked = s.asked
        /\ x.pend = s.pend /\ x.blocks = s.blocks
    BY <1>2, OpenedItself
  <2>5. x.asked = "nothing"
    BY <1>2, <2>4 DEF State
  <2> HIDE DEF x
  <2>6. Node.statement_list[k] \in StmtNode
    BY <1>3, <2>2
  <2>7. /\ Any(x) \in State /\ Any(x).mode = "any" /\ Any(x).depth = s.depth /\ Any(x).asked = "nothing"
        /\ Any(x).pend = s.pend /\ Any(x).blocks = s.blocks
    BY <2>4, <2>5, Modes
  <2>8. Moves(v, x, Any(x))
    BY <1>4, <2>4, <2>5, <2>6, <2>7, StmtVisit
  <2>9. Moves(r, Any(x), t)
    <3> DEFINE y == Any(x)
               m == k + 1
    <3>1. m \in Nat \ {0} /\ m # 1
      BY <1>2
    <3>2. /\ y \in State /\ y.mode \in {"open", "any"} /\ y.asked = "nothing" /\ t.pend = y.pend
          /\ t.blocks <= y.blocks /\ y.depth = IF b THEN t.depth + 1 ELSE t.depth
      BY <1>2, <2>7
    <3> HIDE DEF y, m, b
    <3>3. Moves(Item("statements", Node, <<m, b>>), y, t)
      BY <1>2, <3>1, <3>2, StatementsItem
    <3> QED
      BY <3>3 DEF y, m
  <2> HIDE DEF v, r
  <2>10. TypedFrom(<<v, r>>, x, t)
    BY <2>8, <2>9, TypedTwo
  <2>11. /\ require_lvalue' = (x.asked = "address") /\ pre_enter_scope' = (x.asked = "scope")
         /\ IsList(inner') /\ Len(inner') = x.depth
    BY <1>1, <1>4, <2>1, <2>4, <2>5
  <2>12. x.blocks <= x.blocks
    BY <1>4, <2>4
  <2> QED
    BY <1>1, <2>1, <2>3, <2>4, <2>10, <2>11, <2>12, GoesOn
<1> QED
  BY <1>5, <1>6

LEMMA VisitCompoundStmtStep ==
    ASSUME NEW s, NEW t, Before(s, t), VisitCompoundStmt
    PROVE  BuilderInv'
<1>1. Head(work).step = "compound-stmt" \/ Head(work).step = "statements"
  BY DEF VisitCompoundStmt, Doing
<1> QED
  BY <1>1, EnterCompoundStmt, NextStatement

-----------------------------------------------------------------------------
(* Declarations                                                            *)

LEMMA FinalState ==
    /\ Final \in State /\ Final.mode = "top" /\ Final.depth = 1 /\ Final.asked = "nothing"
    /\ Final.pend = {} /\ Final.blocks = 0
PROOF BY DEF Final, State, At

\* The scope of the program, and that of a function.
LEMMA ProgramScope ==
    ASSUME IsList(inner), Len(inner) = 1
    PROVE  /\ inner # <<>>
           /\ \A n, v : IsList(push(inner, n, v)) /\ Len(push(inner, n, v)) = 1
           /\ IsList(enter(inner)) /\ Len(enter(inner)) = 2
<1>1. inner # <<>>
  BY EmptyList
<1>2. \A n, v : IsList(push(inner, n, v)) /\ Len(push(inner, n, v)) = Len(inner)
  BY ONLY <1>1, IsList(inner), PushList
<1>3. IsList(enter(inner)) /\ Len(enter(inner)) = Len(inner) + 1
  BY ONLY IsList(inner), EnterList
<1> QED
  BY <1>1, <1>2, <1>3

LEMMA FunctionScope ==
    ASSUME IsList(inner), Len(inner) = 2
    PROVE  IsList(exit(inner)) /\ Len(exit(inner)) = 1
<1>1. inner # <<>>
  BY EmptyList
<1>2. IsList(exit(inner)) /\ Len(exit(inner)) = Len(inner) - 1
  BY ONLY <1>1, IsList(inner), ExitList
<1> QED
  BY <1>2

LEMMA FunctionJoins ==
    ASSUME NEW f, NEW fun, WithFunction(f, fun)
    PROVE  /\ DOMAIN functions' = DOMAIN functions \cup {f}
           /\ functions'[f] = fun
           /\ \A g \in DOMAIN functions : g # f => functions'[g] = functions[g]
PROOF BY DEF WithFunction

\* What a declaration makes in the open block.
LEMMA EmittedStill ==
    ASSUME NEW s, NEW t, Before(s, t), s.mode = "open", t = s,
           NEW e, \A n : Ready(Here, s.pend \cup {at}, n) => Keeps(Here, e, s.pend \cup {at}, n),
           Emit(e), Then(<<>>), UNCHANGED <<source, cur_fun, phase>>,
           IsList(inner'), Len(inner') = Len(inner),
           require_lvalue' = require_lvalue, pre_enter_scope' = pre_enter_scope
    PROVE  BuilderInv'
<1>1. s \in State /\ Current(s)
  BY DEF Before, Moves
<1>2. PICK n : /\ Ready(Here, s.pend \cup {at}, n) /\ Here.at = at
               /\ at \notin s.pend /\ s.blocks <= n /\ at \in Blocks(n)
  BY <1>1, OpenHere
<1>3. Keeps(Here, e, s.pend \cup {at}, n)
  BY <1>2
<1>4. Stands(e.body, e.at, s, n)
  BY <1>2, <1>3 DEF Stands, Keeps, Ready
<1>5. /\ require_lvalue' = (s.asked = "address") /\ pre_enter_scope' = (s.asked = "scope")
      /\ Len(inner') = s.depth
  BY <1>1 DEF Current, FlagsAt, ScopeAt
<1> QED
  BY <1>1, <1>4, <1>5, TypedNone, EmittedTo

LEMMA DeclareLibraryStep ==
    ASSUME NEW s, NEW t, Before(s, t), DeclareLibrary
    PROVE  BuilderInv'
<1>1. /\ Head(work).step = "library" /\ WithFunction(Node[1], Node[2]) /\ Then(<<>>)
      /\ inner' = push(inner, Node[1], FunctionValue(Node[1]))
      /\ UNCHANGED <<source, cur_fun, at, phase>>
      /\ require_lvalue' = require_lvalue /\ pre_enter_scope' = pre_enter_scope
  BY DEF DeclareLibrary, Doing, flags
<1>2. s = Final /\ t = Final /\ Node[2].code = <<>> /\ Current(Final)
  BY <1>1 DEF Before, Moves, DeclMoves, Node
<1>3. \A f \in DOMAIN functions : Complete(functions[f])
  BY <1>2, FinalState DEF Current, FunctionsAt
<1>4. \A f \in DOMAIN functions' : Complete(functions'[f])
  <2> DEFINE a == Node[1]
             F == Node[2]
  <2>1. /\ DOMAIN functions' = DOMAIN functions \cup {a} /\ functions'[a] = F
        /\ \A g \in DOMAIN functions : g # a => functions'[g] = functions[g]
    BY <1>1, FunctionJoins
  <2>2. Complete(F)
    BY <1>2 DEF Complete
  <2> HIDE DEF a, F
  <2> QED
    BY <1>3, <2>1, <2>2
<1>5. FunctionsAt(Final)'
  BY <1>4, FinalState DEF FunctionsAt
<1>6. IsList(inner) /\ Len(inner) = 1 /\ require_lvalue = FALSE /\ pre_enter_scope = FALSE
  BY <1>2, FinalState DEF Current, ScopeAt, FlagsAt
<1>7. IsList(inner') /\ Len(inner') = 1
  <2>1. \A n, v : IsList(push(inner, n, v)) /\ Len(push(inner, n, v)) = 1
    BY ONLY <1>6, ProgramScope
  <2> QED
    BY <1>1, <2>1
<1>8. Current(Final)'
  BY <1>1, <1>5, <1>6, <1>7, FinalState DEF Current, ScopeAt, FlagsAt
<1> QED
  BY <1>1, <1>2, <1>8, Returns

LEMMA FunItem ==
    ASSUME NEW d \in DeclNode, d.kind = "fun-declaration"
    PROVE  Moves(Visit(d), Final, Final)
<1> DEFINE i == Visit(d)
<1>1. i.step = "fun-declaration" /\ i.node = d
  BY DEF Visit, Item
<1> HIDE DEF i
<1>2. ExprMoves(i, Final, Final) /\ StmtMoves(i, Final, Final)
  BY <1>1 DEF ExprMoves, StmtMoves, ExprSteps, ExprKinds, StmtKinds
<1>3. DeclMoves(i, Final, Final)
  BY <1>1 DEF DeclMoves, IsFun
<1>4. Moves(i, Final, Final)
  BY <1>1, <1>2, <1>3, FinalState DEF Moves
<1> QED
  BY <1>4 DEF i

LEMMA VisitProgramStep ==
    ASSUME NEW s, NEW t, Before(s, t), VisitProgram
    PROVE  BuilderInv'
<1> DEFINE items == VisitAll(Node.declarations)
<1>1. /\ Head(work).step = "program" /\ Then(items)
      /\ UNCHANGED <<source, inner, cur_fun, functions, at, phase>>
      /\ require_lvalue' = require_lvalue /\ pre_enter_scope' = pre_enter_scope
  BY DEF VisitProgram, Doing, flags, irVars
<1>2. s = Final /\ t = Final /\ Node.declarations \in Seq(DeclNode) /\ Current(Final)
  BY <1>1 DEF Before, Moves, DeclMoves, Node, Nodes
<1>3. \A d \in DeclNode : Moves(Visit(d), Final, Final)
  BY BuilderAssumption, FunItem, DeclarationItem, FinalState DEF IsDeclaration
<1>4. TypedFrom(items, Final, Final)
  BY <1>2, <1>3, TypedVisits
<1> HIDE DEF items
<1>5. /\ require_lvalue' = (Final.asked = "address") /\ pre_enter_scope' = (Final.asked = "scope")
      /\ IsList(inner') /\ Len(inner') = Final.depth
  BY <1>1, <1>2 DEF Current, FlagsAt, ScopeAt
<1>6. Final.blocks <= Final.blocks
  BY FinalState
<1> QED
  BY <1>1, <1>2, <1>4, <1>5, <1>6, FinalState, GoesOn

LEMMA VisitVarDeclarationStep ==
    ASSUME NEW s, NEW t, Before(s, t), VisitVarDeclaration
    PROVE  BuilderInv'
<1> DEFINE ty == IF Node.num = <<>> THEN DeclaredType(Node.type)
                 ELSE ArrayType(DeclaredType(Node.type), Node.num[1])
           e == create_alloca(Here, ty)
<1>1. /\ Head(work).step = "var-declaration" /\ Then(<<>>)
      /\ UNCHANGED <<source, cur_fun, phase>>
      /\ require_lvalue' = require_lvalue /\ pre_enter_scope' = pre_enter_scope
      /\ \/ UNCHANGED <<functions, at>> /\ \E v : inner' = push(inner, Node.id, v)
         \/ ~ in_global(inner) /\ Emit(e) /\ inner' = push(inner, Node.id, e.val)
  BY DEF VisitVarDeclaration, Doing, flags, irVars
<1>2. t = s /\ (s = Final \/ s.mode = "open") /\ s \in State /\ Current(s)
  BY <1>1 DEF Before, Moves, DeclMoves
<1>3. IsList(inner) /\ Len(inner) = s.depth /\ s.depth \in Nat \ {0} /\ s.blocks \in Nat
  BY <1>2 DEF Current, ScopeAt, State
<1>4. inner # <<>>
  BY <1>3, EmptyList
<1>5. \A v : IsList(push(inner, Node.id, v)) /\ Len(push(inner, Node.id, v)) = Len(inner)
  BY <1>3, <1>4, PushList
<1>6. IsList(inner') /\ Len(inner') = Len(inner)
  BY <1>1, <1>5
<1>7. require_lvalue = (s.asked = "address") /\ pre_enter_scope = (s.asked = "scope")
  BY <1>2 DEF Current, FlagsAt
<1>8. CASE UNCHANGED <<functions, at>>
  <2>1. s.blocks <= s.blocks
    BY <1>3
  <2> QED
    BY <1>1, <1>2, <1>3, <1>6, <1>7, <1>8, <2>1, TypedNone, GoesOn
<1>9. CASE ~ in_global(inner) /\ Emit(e)
  <2>1. s # Final
    BY <1>3, <1>9, FinalState DEF in_global
  <2>2. ASSUME NEW n, Ready(Here, s.pend \cup {at}, n)
        PROVE  Keeps(Here, e, s.pend \cup {at}, n)
    BY <2>2, CreateKeeps
  <2> HIDE DEF e
  <2> QED
    BY <1>1, <1>2, <1>6, <1>9, <2>1, <2>2, EmittedStill
<1> QED
  BY <1>1, <1>8, <1>9

LEMMA EnterFunDeclaration ==
    ASSUME NEW s, NEW t, Before(s, t), VisitFunDeclaration, Head(work).step = "fun-declaration"
    PROVE  BuilderInv'
<1> DEFINE ret == IF Node.type = "void" THEN VoidType ELSE DeclaredType(Node.type)
           params == [k \in DOMAIN Node.params |-> ParamType(Node.params[k])]
           F == BasicBlockCreate(Function(ret, params))
           f == Node.id
           u == At("open", 1, "nothing", {}, 1)
           i == Item("scope", Node, <<>>)
<1>1. /\ WithFunction(f, F) /\ Then(<<i>>) /\ cur_fun' = f /\ at' = 1
      /\ inner' = push(inner, f, FunctionValue(f))
      /\ UNCHANGED <<source, phase>>
      /\ require_lvalue' = require_lvalue /\ pre_enter_scope' = pre_enter_scope
  BY DEF VisitFunDeclaration, Doing, flags
<1>2. s = Final /\ t = Final /\ Node \in DeclNode /\ Node.kind = "fun-declaration" /\ Current(Final)
  BY DEF Before, Moves, DeclMoves, IsFun, Node
<1> HIDE DEF ret, params
<1>3. BodyOK(F, {1}, 1)
  BY FreshBody
<1> HIDE DEF F
<1>4. /\ DOMAIN functions' = DOMAIN functions \cup {f} /\ functions'[f] = F
      /\ \A g \in DOMAIN functions : g # f => functions'[g] = functions[g]
  BY <1>1, FunctionJoins
<1> HIDE DEF f
<1>5. \A g \in DOMAIN functions : Complete(functions[g])
  BY <1>2, FinalState DEF Current, FunctionsAt
<1>6. /\ u \in State /\ u.mode = "open" /\ u.depth = 1 /\ u.asked = "nothing" /\ u.pend = {}
      /\ u.blocks = 1
  BY DEF At, State
<1> HIDE DEF u
<1>7. Stands(F, 1, u, 1)
  <2>1. u.pend \cup {1} = {1} /\ 1 \in Blocks(1) /\ 1 \notin u.pend /\ u.blocks <= 1
    BY <1>6 DEF Blocks
  <2> QED
    BY <1>3, <1>6, <2>1 DEF Stands
<1>8. FunctionsAt(u)'
  BY <1>1, <1>4, <1>5, <1>6, <1>7 DEF FunctionsAt
<1>9. IsList(inner) /\ Len(inner) = 1 /\ require_lvalue = FALSE /\ pre_enter_scope = FALSE
  BY <1>2, FinalState DEF Current, ScopeAt, FlagsAt
<1>10. IsList(inner') /\ Len(inner') = 1
  <2>1. \A n, v : IsList(push(inner, n, v)) /\ Len(push(inner, n, v)) = 1
    BY ONLY <1>9, ProgramScope
  <2> QED
    BY <1>1, <2>1
<1>11. Current(u)'
  BY <1>1, <1>6, <1>8, <1>9, <1>10 DEF Current, ScopeAt, FlagsAt
<1>12. Moves(i, u, Final)
  <2>1. i.step = "scope" /\ i.node = Node
    BY DEF Item
  <2> HIDE DEF i
  <2>2. ExprMoves(i, u, Final) /\ StmtMoves(i, u, Final)
    BY <2>1 DEF ExprMoves, StmtMoves, ExprSteps, ExprKinds, StmtKinds
  <2>3. DeclMoves(i, u, Final)
    BY <1>2, <1>6, <2>1 DEF DeclMoves, IsFun
  <2> QED
    BY <1>6, <2>1, <2>2, <2>3, FinalState DEF Moves
<1> HIDE DEF i
<1>13. TypedFrom(<<i>>, u, t)
  BY <1>2, <1>12, TypedOne
<1> QED
  BY <1>1, <1>11, <1>13, Continues

LEMMA EnterFunctionScope ==
    ASSUME NEW s, NEW t, Before(s, t), VisitFunDeclaration, Head(work).step = "scope"
    PROVE  BuilderInv'
<1> DEFINE w == [k \in DOMAIN Node.params |-> Item("param", Node, <<k>>)]
           c == Visit(Node.compound_stmt)
           z == Item("end", Node, <<>>)
           u == At("open", 2, "scope", {}, s.blocks)
           v == At("any", 2, "nothing", {}, s.blocks)
<1>1. /\ inner' = enter(inner) /\ pre_enter_scope' = TRUE /\ require_lvalue' = require_lvalue
      /\ Then(w \o <<c, z>>) /\ UNCHANGED <<source, cur_fun, functions, at, phase>>
  BY DEF VisitFunDeclaration, Doing, irVars
<1>2. /\ s \in State /\ s.mode = "open" /\ s.depth = 1 /\ s.pend = {} /\ t = Final /\ Current(s)
      /\ Node \in DeclNode /\ Node.kind = "fun-declaration"
      /\ s.asked \notin {"address", "scope"}
  BY DEF Before, Moves, DeclMoves, IsFun, Node
<1>3. /\ Len(Node.params) \in Nat /\ DOMAIN Node.params = 1 .. Len(Node.params)
      /\ Node.compound_stmt \in StmtNode /\ Node.compound_stmt.kind = "compound-stmt"
  BY <1>2, BuilderAssumption DEF IsDeclaration
<1>4. /\ u \in State /\ u.mode = "open" /\ u.depth = 2 /\ u.asked = "scope" /\ u.pend = {}
      /\ u.blocks = s.blocks /\ s.blocks \in Nat
      /\ v \in State /\ v.mode = "any" /\ v.depth = 2 /\ v.asked = "nothing" /\ v.pend = {}
      /\ v.blocks = s.blocks
  BY <1>2 DEF At, State
<1> HIDE DEF u, v
<1>5. ASSUME NEW k \in DOMAIN Node.params
      PROVE  Moves(Item("param", Node, <<k>>), u, u)
  <2> DEFINE i == Item("param", Node, <<k>>)
  <2>1. i.step = "param" /\ i.node = Node /\ i.saved[1] = k
    BY DEF Item
  <2> HIDE DEF i
  <2>2. ExprMoves(i, u, u) /\ StmtMoves(i, u, u)
    BY <2>1 DEF ExprMoves, StmtMoves, ExprSteps, ExprKinds, StmtKinds
  <2>3. DeclMoves(i, u, u)
    BY <1>2, <1>4, <2>1 DEF DeclMoves, IsFun
  <2>4. u.blocks <= u.blocks
    BY <1>4
  <2>5. Moves(i, u, u)
    BY <1>4, <2>1, <2>2, <2>3, <2>4 DEF Moves
  <2> QED
    BY <2>5 DEF i
<1>6. TypedFrom(w, u, u)
  <2> DEFINE n == Len(Node.params)
  <2>1. n \in Nat /\ HasDomain(w, 1 .. n)
    BY <1>3 DEF HasDomain
  <2>2. \A k \in 1 .. n : w[k] = Item("param", Node, <<k>>)
    BY <1>3
  <2> HIDE DEF w, n
  <2>3. \A k \in 1 .. n : Moves(w[k], u, u)
    BY <1>3, <1>5, <2>2 DEF n
  <2> QED
    BY <2>1, <2>3, TypedAll
<1>7. Moves(c, u, v)
  <2>1. c.step = "compound-stmt" /\ c.node = Node.compound_stmt
    BY <1>3 DEF Visit, Item
  <2> HIDE DEF c
  <2>2. ExprMoves(c, u, v) /\ DeclMoves(c, u, v)
    BY <2>1 DEF ExprMoves, DeclMoves, ExprSteps, ExprKinds
  <2>3. StmtMoves(c, u, v)
    BY <1>3, <1>4, <2>1 DEF StmtMoves, StmtKinds, IsStmt
  <2>4. v.blocks <= u.blocks
    BY <1>4
  <2> QED
    BY <1>4, <2>1, <2>2, <2>3, <2>4 DEF Moves
<1>8. Moves(z, v, t)
  <2>1. z.step = "end"
    BY DEF Item
  <2> HIDE DEF z
  <2>2. ExprMoves(z, v, Final) /\ StmtMoves(z, v, Final)
    BY <2>1 DEF ExprMoves, StmtMoves, ExprSteps, ExprKinds, StmtKinds
  <2>3. DeclMoves(z, v, Final)
    BY <1>4, <2>1 DEF DeclMoves
  <2>4. Final.blocks <= v.blocks
    BY <1>4, FinalState
  <2> QED
    BY <1>2, <1>4, <2>1, <2>2, <2>3, <2>4, FinalState DEF Moves
<1>9. TypedFrom(<<c, z>>, u, t)
  BY <1>7, <1>8, TypedTwo
<1> HIDE DEF w, c, z
<1>10. TypedFrom(w \o <<c, z>>, u, t)
  BY <1>6, <1>9, TypedConcat
<1>11. IsList(inner) /\ Len(inner) = 1 /\ require_lvalue = FALSE
  BY <1>2 DEF Current, ScopeAt, FlagsAt
<1>12. IsList(inner') /\ Len(inner') = u.depth
  <2>1. IsList(enter(inner)) /\ Len(enter(inner)) = 2
    BY ONLY <1>11, ProgramScope
  <2> QED
    BY <1>1, <1>4, <2>1
<1>13. /\ require_lvalue' = (u.asked = "address") /\ pre_enter_scope' = (u.asked = "scope")
       /\ u.mode = s.mode /\ u.pend = s.pend
  BY <1>1, <1>2, <1>4, <1>11
<1>14. u.blocks <= s.blocks
  BY <1>4
<1> QED
  BY <1>1, <1>4, <1>10, <1>12, <1>13, <1>14, GoesOn

LEMMA StoreParam ==
    ASSUME NEW s, NEW t, Before(s, t), VisitFunDeclaration, Head(work).step = "param"
    PROVE  BuilderInv'
<1> DEFINE q == Node.params[Saved[1]]
           a == create_alloca(Here, ParamType(q))
           e == create_store(a, Argument(Saved[1]), a.val)
<1>1. /\ Emit(e) /\ inner' = push(inner, q.id, a.val) /\ Then(<<>>)
      /\ UNCHANGED <<source, cur_fun, phase>>
      /\ require_lvalue' = require_lvalue /\ pre_enter_scope' = pre_enter_scope
  BY DEF VisitFunDeclaration, Doing, flags
<1>2. s.mode = "open" /\ t = s /\ s \in State /\ Current(s)
  BY DEF Before, Moves, DeclMoves
<1>3. ASSUME NEW n, Ready(Here, s.pend \cup {at}, n)
      PROVE  Keeps(Here, e, s.pend \cup {at}, n)
  <2>1. Keeps(Here, a, s.pend \cup {at}, n)
    BY <1>3, CreateKeeps
  <2> HIDE DEF a
  <2>2. Keeps(a, e, s.pend \cup {at}, n)
    BY <2>1, CreateKeeps DEF Keeps
  <2> HIDE DEF e
  <2> QED
    BY <2>1, <2>2, KeepsAll
<1>4. IsList(inner) /\ Len(inner) = s.depth /\ s.depth \in Nat \ {0}
  BY <1>2 DEF Current, ScopeAt, State
<1>5. inner # <<>>
  BY <1>4, EmptyList
<1>6. \A n, v : IsList(push(inner, n, v)) /\ Len(push(inner, n, v)) = Len(inner)
  BY <1>4, <1>5, PushList
<1>7. IsList(inner') /\ Len(inner') = Len(inner)
  BY <1>1, <1>6
<1> HIDE DEF e
<1> QED
  BY <1>1, <1>2, <1>3, <1>7, EmittedStill

LEMMA EndFunction ==
    ASSUME NEW s, NEW t, Before(s, t), VisitFunDeclaration, Head(work).step = "end"
    PROVE  BuilderInv'
<1> DEFINE e == IF Terminated(Body, at) THEN Here ELSE ReturnDefault(Here)
<1>1. /\ Emit(e) /\ inner' = exit(inner) /\ Then(<<>>)
      /\ UNCHANGED <<source, cur_fun, phase>>
      /\ require_lvalue' = require_lvalue /\ pre_enter_scope' = pre_enter_scope
  BY DEF VisitFunDeclaration, Doing, flags
<1>2. /\ s \in State /\ s.mode \in {"open", "any"} /\ s.depth = 2 /\ s.pend = {} /\ t = Final
      /\ Current(s) /\ s.asked \notin {"address", "scope"}
  BY DEF Before, Moves, DeclMoves
<1>3. PICK n : Stands(functions[cur_fun], at, s, n)
  BY <1>2 DEF Current, FunctionsAt
<1>4. BodyOK(e.body, {}, n)
  <2>1. CASE BodyOK(Body, {at}, n)
    <3>1. Ready(Here, {at}, n) /\ Here.at = at
      BY <2>1, AtBlock DEF Here, Body
    <3>2. ~ Terminated(Body, at)
      BY <2>1, BodyFacts
    <3>3. Closed(Here, ReturnDefault(Here), {at}, n)
      BY <3>1, ReturnCloses
    <3>4. {at} \ {at} = {} /\ e = ReturnDefault(Here)
      BY <3>2
    <3> HIDE DEF e
    <3> QED
      BY <3>1, <3>3, <3>4 DEF Closed
  <2>2. CASE BodyOK(Body, {}, n)
    <3>1. Terminated(Body, at)
      BY <2>2, <1>3, BodyFacts DEF Stands
    <3>2. e = Here
      BY <3>1
    <3>3. Here.body = Body
      BY DEF Here, Body, BuilderAt
    <3> QED
      BY <3>2, <3>3, <2>2
  <2> QED
    BY <2>1, <2>2, <1>2, <1>3 DEF Stands, Body
<1> HIDE DEF e
<1>5. /\ cur_fun \in DOMAIN functions
      /\ \A f \in DOMAIN functions : f = cur_fun \/ Complete(functions[f])
  BY <1>2 DEF Current, FunctionsAt
<1>6. \A f \in DOMAIN functions' : Complete(functions'[f])
  <2>1. Complete(e.body)
    BY <1>4 DEF Complete
  <2>2. /\ DOMAIN functions' = DOMAIN functions /\ functions'[cur_fun] = e.body
        /\ \A f \in DOMAIN functions : f # cur_fun => functions'[f] = functions[f]
    BY <1>1, <1>5 DEF Emit
  <2> QED
    BY <1>5, <2>1, <2>2
<1>7. FunctionsAt(Final)'
  BY <1>6, FinalState DEF FunctionsAt
<1>8. IsList(inner) /\ Len(inner) = 2 /\ require_lvalue = FALSE /\ pre_enter_scope = FALSE
  BY <1>2 DEF Current, ScopeAt, FlagsAt
<1>9. IsList(inner') /\ Len(inner') = 1
  <2>1. IsList(exit(inner)) /\ Len(exit(inner)) = 1
    BY ONLY <1>8, FunctionScope
  <2> QED
    BY <1>1, <2>1
<1>10. Current(Final)'
  BY <1>1, <1>7, <1>8, <1>9, FinalState DEF Current, ScopeAt, FlagsAt
<1> QED
  BY <1>1, <1>2, <1>10, Returns

LEMMA VisitFunDeclarationStep ==
    ASSUME NEW s, NEW t, Before(s, t), VisitFunDeclaration
    PROVE  BuilderInv'
<1>1. Head(work).step \in {"fun-declaration", "scope", "param", "end"}
  BY DEF VisitFunDeclaration, Doing
<1> QED
  BY <1>1, EnterFunDeclaration, EnterFunctionScope, StoreParam, EndFunction

-----------------------------------------------------------------------------
(* The program                                                             *)

LEMMA SameCurrent ==
    ASSUME NEW s, Current(s), UNCHANGED <<inner, require_lvalue, pre_enter_scope, cur_fun, at, functions>>
    PROVE  Current(s)'
<1>1. FunctionsAt(s)'
  BY DEF Current, FunctionsAt
<1>2. ScopeAt(s)' /\ FlagsAt(s)'
  BY DEF Current, ScopeAt, FlagsAt
<1> QED
  BY <1>1, <1>2 DEF Current

LEMMA BuilderInit ==
    ASSUME Init
    PROVE  BuilderInv
<1>1. /\ source \in Source /\ phase = "parsed" /\ inner = <<Empty>> /\ DOMAIN functions = {}
      /\ require_lvalue = FALSE /\ pre_enter_scope = FALSE
  BY DEF Init, ScopeInit
<1>2. IsList(inner) /\ Len(inner) = 1
  <2>1. <<Empty>> \in Seq({Empty}) /\ Len(<<Empty>>) = 1
    OBVIOUS
  <2> QED
    BY <1>1, <2>1 DEF IsList
<1>3. FunctionsAt(Final)
  BY <1>1, FinalState DEF FunctionsAt
<1>4. Current(Final)
  BY <1>1, <1>2, <1>3, FinalState DEF Current, ScopeAt, FlagsAt
<1> QED
  BY <1>1, <1>4 DEF BuilderInv

LEMMA LibraryItems ==
    /\ DOMAIN Library = 1 .. 4
    /\ \A k \in 1 .. 4 : Library[k][2].code = <<>>
PROOF BY DEF Library, Function

LEMMA LibraryItem ==
    ASSUME NEW n, InLibrary(n), n[2].code = <<>>
    PROVE  Moves(Item("library", n, <<>>), Final, Final)
<1> DEFINE i == Item("library", n, <<>>)
<1>1. i.step = "library" /\ i.node = n
  BY DEF Item
<1> HIDE DEF i
<1>2. ExprMoves(i, Final, Final) /\ StmtMoves(i, Final, Final)
  BY <1>1 DEF ExprMoves, StmtMoves, ExprSteps, ExprKinds, StmtKinds
<1>3. DeclMoves(i, Final, Final)
  BY <1>1 DEF DeclMoves
<1>4. Moves(i, Final, Final)
  BY <1>1, <1>2, <1>3, FinalState DEF Moves
<1> QED
  BY <1>4 DEF i

LEMMA ProgramItem ==
    ASSUME NEW p \in Source
    PROVE  Moves(Visit(AstOf(p)), Final, Final)
<1> DEFINE i == Visit(AstOf(p))
<1>1. i.step = "program" /\ i.node = AstOf(p)
  BY BuilderAssumption DEF Visit, Item
<1>2. Nodes(AstOf(p).declarations, DeclNode)
  BY BuilderAssumption
<1> HIDE DEF i
<1>3. ExprMoves(i, Final, Final) /\ StmtMoves(i, Final, Final)
  BY <1>1 DEF ExprMoves, StmtMoves, ExprSteps, ExprKinds, StmtKinds
<1>4. DeclMoves(i, Final, Final)
  BY <1>1, <1>2 DEF DeclMoves
<1>5. Moves(i, Final, Final)
  BY <1>1, <1>3, <1>4, FinalState DEF Moves
<1> QED
  BY <1>5 DEF i

LEMMA RunVisitorStep ==
    ASSUME BuilderInv, RunVisitor
    PROVE  BuilderInv'
<1> DEFINE w == [k \in DOMAIN Library |-> Item("library", Library[k], <<>>)]
           p == <<Visit(AstOf(source))>>
<1>1. /\ phase = "parsed" /\ phase' = "build" /\ work' = w \o p
      /\ UNCHANGED <<source, inner, require_lvalue, pre_enter_scope, cur_fun, at, functions>>
  BY DEF RunVisitor, flags, irVars
<1>2. source \in Source /\ Current(Final)
  BY <1>1 DEF BuilderInv
<1>3. Current(Final)'
  BY <1>1, <1>2, SameCurrent
<1>4. TypedFrom(w, Final, Final)
  <2>1. HasDomain(w, 1 .. 4) /\ \A k \in 1 .. 4 : w[k] = Item("library", Library[k], <<>>)
    BY LibraryItems DEF HasDomain
  <2> HIDE DEF w
  <2>2. \A k \in 1 .. 4 : InLibrary(Library[k])
    BY LibraryItems DEF InLibrary
  <2>3. \A k \in 1 .. 4 : Moves(w[k], Final, Final)
    BY <2>1, <2>2, LibraryItems, LibraryItem
  <2>4. 4 \in Nat
    OBVIOUS
  <2> QED
    BY <2>1, <2>3, <2>4, TypedAll
<1>5. TypedFrom(p, Final, Final)
  BY <1>2, ProgramItem, TypedOne
<1> HIDE DEF w, p
<1>6. TypedFrom(work', Final, Final)
  BY <1>1, <1>4, <1>5, TypedConcat
<1> QED
  BY <1>1, <1>2, <1>3, <1>6 DEF BuilderInv

LEMMA DoneStep ==
    ASSUME BuilderInv, Done
    PROVE  BuilderInv'
<1>1. /\ phase = "build" /\ work = <<>> /\ phase' = "done"
      /\ UNCHANGED <<source, inner, require_lvalue, pre_enter_scope, cur_fun, at, functions>>
  BY DEF Done, flags, irVars
<1>2. PICK s : Current(s) /\ TypedFrom(work, s, Final)
  BY <1>1 DEF BuilderInv
<1>3. s = Final
  BY <1>1, <1>2, TypedEnd
<1>4. Current(Final)'
  BY <1>1, <1>2, <1>3, SameCurrent
<1> QED
  BY <1>1, <1>4 DEF BuilderInv

LEMMA StutterStep ==
    ASSUME BuilderInv, UNCHANGED vars
    PROVE  BuilderInv'
<1>1. UNCHANGED <<source, work, phase, inner, require_lvalue, pre_enter_scope, cur_fun, at, functions>>
  BY DEF vars, flags, irVars
<1>2. \A s : Current(s) => Current(s)'
  BY <1>1, SameCurrent
<1> QED
  BY <1>1, <1>2 DEF BuilderInv

\* Between two items there is a point, and the next item leads on from it.
LEMMA AtItem ==
    ASSUME BuilderInv, phase = "build", work # <<>>
    PROVE  \E s, t : Before(s, t)
<1>1. PICK s : Current(s) /\ TypedFrom(work, s, Final)
  BY DEF BuilderInv
<1>2. PICK t : Moves(Head(work), s, t) /\ TypedFrom(Tail(work), t, Final)
  BY <1>1, TypedSplit
<1>3. Before(s, t)
  BY <1>1, <1>2 DEF Before, BuilderInv
<1> QED
  BY <1>3

\* The steps that visit a node.
Visits ==
    \/ DeclareLibrary \/ VisitProgram \/ VisitVarDeclaration \/ VisitFunDeclaration
    \/ VisitCompoundStmt \/ VisitExpressionStmt \/ VisitSelectionStmt \/ VisitIterationStmt
    \/ Jump \/ SetInsertPoint \/ VisitReturnStmt \/ VisitNum \/ VisitVar \/ VisitAssignExpression
    \/ VisitSimpleExpression \/ VisitAdditiveExpression \/ VisitTerm \/ VisitCall

LEMMA VisitsWork ==
    ASSUME Visits
    PROVE  phase = "build" /\ work # <<>>
<1>1. CASE DeclareLibrary \/ VisitProgram \/ VisitVarDeclaration \/ VisitFunDeclaration
  BY <1>1 DEF DeclareLibrary, VisitProgram, VisitVarDeclaration, VisitFunDeclaration, Doing
<1>2. CASE VisitCompoundStmt \/ VisitExpressionStmt \/ VisitSelectionStmt \/ VisitIterationStmt
  BY <1>2 DEF VisitCompoundStmt, VisitExpressionStmt, VisitSelectionStmt, VisitIterationStmt, Doing
<1>3. CASE Jump \/ SetInsertPoint \/ VisitReturnStmt
  BY <1>3 DEF Jump, SetInsertPoint, VisitReturnStmt, Doing
<1>4. CASE VisitNum \/ VisitVar \/ VisitAssignExpression \/ VisitCall
  BY <1>4 DEF VisitNum, VisitVar, VisitAssignExpression, VisitCall, Doing
<1>5. CASE VisitSimpleExpression
  BY <1>5 DEF VisitSimpleExpression, VisitOperands, Made, Doing
<1>6. CASE VisitAdditiveExpression
  BY <1>6 DEF VisitAdditiveExpression, VisitOperands, Made, Doing
<1>7. CASE VisitTerm
  BY <1>7 DEF VisitTerm, VisitOperands, Made, Doing
<1> QED
  BY <1>1, <1>2, <1>3, <1>4, <1>5, <1>6, <1>7 DEF Visits

LEMMA VisitStep ==
    ASSUME BuilderInv, Visits
    PROVE  BuilderInv'
<1>1. PICK s, t : Before(s, t)
  BY VisitsWork, AtItem
<1>2. CASE DeclareLibrary
  BY <1>1, <1>2, DeclareLibraryStep
<1>3. CASE VisitProgram
  BY <1>1, <1>3, VisitProgramStep
<1>4. CASE VisitVarDeclaration
  BY <1>1, <1>4, VisitVarDeclarationStep
<1>5. CASE VisitFunDeclaration
  BY <1>1, <1>5, VisitFunDeclarationStep
<1>6. CASE VisitCompoundStmt
  BY <1>1, <1>6, VisitCompoundStmtStep
<1>7. CASE VisitExpressionStmt
  BY <1>1, <1>7, VisitExpressionStmtStep
<1>8. CASE VisitSelectionStmt
  BY <1>1, <1>8, VisitSelectionStmtStep
<1>9. CASE VisitIterationStmt
  BY <1>1, <1>9, VisitIterationStmtStep
<1>10. CASE Jump
  BY <1>1, <1>10, JumpStep
<1>11. CASE SetInsertPoint
  BY <1>1, <1>11, SetInsertPointStep
<1>12. CASE VisitReturnStmt
  BY <1>1, <1>12, VisitReturnStmtStep
<1>13. CASE VisitNum
  BY <1>1, <1>13, VisitNumStep
<1>14. CASE VisitVar
  BY <1>1, <1>14, VisitVarStep
<1>15. CASE VisitAssignExpression
  BY <1>1, <1>15, VisitAssignExpressionStep
<1>16. CASE VisitSimpleExpression
  BY <1>1, <1>16, VisitSimpleExpressionStep
<1>17. CASE VisitAdditiveExpression
  BY <1>1, <1>17, VisitAdditiveExpressionStep
<1>18. CASE VisitTerm
  BY <1>1, <1>18, VisitTermStep
<1>19. CASE VisitCall
  BY <1>1, <1>19, VisitCallStep
<1> QED
  BY <1>2, <1>3, <1>4, <1>5, <1>6, <1>7, <1>8, <1>9, <1>10, <1>11, <1>12, <1>13, <1>14, <1>15,
     <1>16, <1>17, <1>18, <1>19 DEF Visits

LEMMA BuilderNext ==
    ASSUME BuilderInv, [Next]_vars
    PROVE  BuilderInv'
<1>1. RunVisitor \/ Visits \/ Done \/ UNCHANGED vars
  BY DEF Next, Step, Visits, Finished
<1> QED
  BY <1>1, RunVisitorStep, VisitStep, DoneStep, StutterStep

LEMMA BuilderInvariant == Spec => []BuilderInv
<1>1. Init => BuilderInv
  BY BuilderInit
<1>2. BuilderInv /\ [Next]_vars => BuilderInv'
  BY BuilderNext
<1> QED
  BY <1>1, <1>2, PTL DEF Spec

\* A function that is ready is a graph of blocks that each end once.
LEMMA CompleteBlocks ==
    ASSUME NEW F, Complete(F), F.code # <<>>
    PROVE  /\ \A b \in DOMAIN F.code :
                  /\ F.code[b] # <<>>
                  /\ \A k \in DOMAIN F.code[b] :
                         IsTerminator(F.code[b][k]) <=> k = Len(F.code[b])
                  /\ F.succ[b] = Targets(F.code[b][Len(F.code[b])])
                  /\ \A t \in DOMAIN F.code : Times(F.succ[b], t) = Times(F.pre[t], b)
           /\ F.pre[1] = <<>>
<1>1. PICK n : BodyOK(F, {}, n)
  BY DEF Complete
<1>2. Shape(F, n) /\ Linked(F, n) /\ \A b \in Blocks(n) : Ended(F, b)
  BY <1>1 DEF BodyOK
<1>3. DOMAIN F.code = Blocks(n)
  BY <1>2 DEF Shape, HasDomain
<1> QED
  BY <1>2, <1>3 DEF Linked, Ended

\* Every function that the builder has made of a program, of any program there
\* is, is a well-formed graph of blocks: each block ends with its one terminator,
\* the lists of its edges agree, and nothing leads to the entry (create_br,
\* create_cond_br, the visits of statements).
THEOREM BuilderBlocksWellFormed == Spec => []BlocksWellFormed
<1>1. BuilderInv => BlocksWellFormed
  <2> SUFFICES ASSUME BuilderInv, phase = "done", NEW f \in Built
               PROVE  Complete(functions[f]) /\ functions[f].code # <<>>
    BY CompleteBlocks DEF BlocksWellFormed
  <2>1. Current(Final)
    BY DEF BuilderInv
  <2>2. f \in DOMAIN functions /\ functions[f].code # <<>>
    BY DEF Built
  <2> QED
    BY <2>1, <2>2, FinalState DEF Current, FunctionsAt
<1> QED
  BY <1>1, BuilderInvariant, PTL

\* A request for an address or for a scope that has been left in a global is
\* still out only until the visit it is meant for, and in the end all scopes but
\* the first have been left (require_lvalue, pre_enter_scope, need_exit_scope).
THEOREM BuilderRequestsServed == Spec => []RequestsServed
<1>1. BuilderInv => RequestsServed
  <2> SUFFICES ASSUME BuilderInv
               PROVE  RequestsServed
    OBVIOUS
  <2>1. CASE phase = "build"
    <3>1. PICK s : Current(s) /\ TypedFrom(work, s, Final)
      BY <2>1 DEF BuilderInv
    <3>2. require_lvalue = (s.asked = "address") /\ pre_enter_scope = (s.asked = "scope")
      BY <3>1 DEF Current, FlagsAt
    <3>3. s.asked \in {"address", "scope"} => work # <<>>
      BY <3>1, TypedEnd, FinalState
    <3>4. work # <<>> => \E u : Moves(Head(work), s, u)
      BY <3>1, TypedSplit
    <3> QED
      BY <2>1, <3>2, <3>3, <3>4 DEF RequestsServed, Moves
  <2>2. CASE phase # "build"
    BY <2>2, FinalState DEF BuilderInv, Current, FlagsAt, ScopeAt, RequestsServed
  <2> QED
    BY <2>1, <2>2
<1> QED
  BY <1>1, BuilderInvariant, PTL
-----------------------------------------------------------------------------
(* What the visits do to the scope                                         *)

\* A scope can hold every name that the library or a declaration gives, and every
\* value that one is given: functions, global variables, and allocas, which are
\* instructions.
VarType(d) ==
    IF d.num = <<>> THEN DeclaredType(d.type) ELSE ArrayType(DeclaredType(d.type), d.num[1])
ScopeHolds ==
    /\ \A k \in DOMAIN Library : Library[k][1] \in Name /\ FunctionValue(Library[k][1]) \in Val
    /\ \A d \in DeclNode :
           /\ d.id \in Name
           /\ d.kind = "var-declaration" => GlobalVariable(d.id, VarType(d)) \in Val
           /\ d.kind = "fun-declaration" =>
                  FunctionValue(d.id) \in Val /\ \A k \in DOMAIN d.params : d.params[k].id \in Name
    /\ \A b, k \in Nat : Instruction(b, k) \in Val

LEMMA AllocaValue ==
    ASSUME ScopeHolds, NEW s, Current(s), s.mode = "open", NEW ty
    PROVE  create_alloca(Here, ty).val \in Val
<1> DEFINE k == Len(Here.body.code[Here.at]) + 1
<1>1. PICK n : /\ Ready(Here, s.pend \cup {at}, n) /\ Here.at = at
               /\ n \in Nat \ {0} /\ at \in Blocks(n)
  BY OpenHere
<1>2. Shape(Here.body, n) /\ Here.at \in Blocks(n)
  BY <1>1 DEF Ready, BodyOK
<1>3. IsList(Here.body.code[Here.at])
  BY <1>2 DEF Shape
<1>4. k \in Nat /\ Here.at \in Nat
  BY <1>1, <1>3, ListFacts DEF Blocks
<1>5. create_alloca(Here, ty).val = Instruction(Here.at, k)
  BY DEF create_alloca, Add, BuilderAt
<1> HIDE DEF k
<1> QED
  BY <1>4, <1>5 DEF ScopeHolds

LEMMA PushStep ==
    ASSUME NEW n \in Name, NEW v \in Val, inner' = push(inner, n, v)
    PROVE  ScopeNext
PROOF BY DEF ScopeNext, Push

\* Only a scope that was entered is left.
LEMMA ExitStep ==
    ASSUME NEW s, Current(s), s.depth # 1, inner' = exit(inner)
    PROVE  ScopeNext
PROOF BY DEF Current, ScopeAt, ScopeNext, Exit, in_global

LEMMA LibraryScope ==
    ASSUME ScopeHolds, NEW s, NEW t, Before(s, t), DeclareLibrary
    PROVE  ScopeNext
<1>1. Head(work).step = "library" /\ inner' = push(inner, Node[1], FunctionValue(Node[1]))
  BY DEF DeclareLibrary, Doing
<1>2. PICK k \in DOMAIN Library : Library[k] = Node
  BY <1>1 DEF Before, Moves, DeclMoves, InLibrary, Node
<1>3. Node[1] \in Name /\ FunctionValue(Node[1]) \in Val
  BY <1>2 DEF ScopeHolds
<1> QED
  BY <1>1, <1>3, PushStep

LEMMA VarScope ==
    ASSUME ScopeHolds, NEW s, NEW t, Before(s, t), VisitVarDeclaration
    PROVE  ScopeNext
<1> DEFINE e == create_alloca(Here, VarType(Node))
<1>1. /\ Head(work).step = "var-declaration"
      /\ \/ in_global(inner) /\ inner' = push(inner, Node.id, GlobalVariable(Node.id, VarType(Node)))
         \/ ~ in_global(inner) /\ inner' = push(inner, Node.id, e.val)
  BY DEF VisitVarDeclaration, Doing, VarType
<1>2. /\ Node \in DeclNode /\ Node.kind = "var-declaration"
      /\ Current(s) /\ (s = Final \/ s.mode = "open")
  BY <1>1 DEF Before, Moves, DeclMoves, IsVar, Node
<1>3. Node.id \in Name /\ GlobalVariable(Node.id, VarType(Node)) \in Val
  BY <1>2 DEF ScopeHolds
<1>4. CASE in_global(inner)
  BY <1>1, <1>3, <1>4, PushStep
<1>5. CASE ~ in_global(inner)
  <2>1. s.mode = "open"
    BY <1>2, <1>5, FinalState DEF in_global, Current, ScopeAt
  <2>2. e.val \in Val
    BY <1>2, <2>1, AllocaValue
  <2> HIDE DEF e
  <2> QED
    BY <1>1, <1>3, <1>5, <2>2, PushStep
<1> QED
  BY <1>4, <1>5

LEMMA FunScope ==
    ASSUME ScopeHolds, NEW s, NEW t, Before(s, t), VisitFunDeclaration
    PROVE  ScopeNext
<1>1. Current(s) /\ Moves(Head(work), s, t)
  BY DEF Before
<1>2. CASE Head(work).step = "fun-declaration"
  <2>1. inner' = push(inner, Node.id, FunctionValue(Node.id))
    BY <1>2 DEF VisitFunDeclaration, Doing
  <2>2. Node \in DeclNode /\ Node.kind = "fun-declaration"
    BY <1>1, <1>2 DEF Moves, DeclMoves, IsFun, Node
  <2>3. Node.id \in Name /\ FunctionValue(Node.id) \in Val
    BY <2>2 DEF ScopeHolds
  <2> QED
    BY <2>1, <2>3, PushStep
<1>3. CASE Head(work).step = "scope"
  BY <1>3 DEF VisitFunDeclaration, Doing, ScopeNext, Enter
<1>4. CASE Head(work).step = "param"
  <2> DEFINE q == Node.params[Saved[1]]
             a == create_alloca(Here, ParamType(q))
  <2>1. inner' = push(inner, q.id, a.val)
    BY <1>4 DEF VisitFunDeclaration, Doing
  <2>2. /\ Node \in DeclNode /\ Node.kind = "fun-declaration" /\ Saved[1] \in DOMAIN Node.params
        /\ s.mode = "open"
    BY <1>1, <1>4 DEF Moves, DeclMoves, IsFun, Node, Saved
  <2>3. q.id \in Name
    BY <2>2 DEF ScopeHolds
  <2>4. a.val \in Val
    BY <1>1, <2>2, AllocaValue
  <2> HIDE DEF q, a
  <2> QED
    BY <2>1, <2>3, <2>4, PushStep
<1>5. CASE Head(work).step = "end"
  <2>1. inner' = exit(inner)
    BY <1>5 DEF VisitFunDeclaration, Doing
  <2>2. s.depth = 2
    BY <1>1, <1>5 DEF Moves, DeclMoves
  <2> QED
    BY <1>1, <2>1, <2>2, ExitStep
<1>6. Head(work).step \in {"fun-declaration", "scope", "param", "end"}
  BY DEF VisitFunDeclaration, Doing
<1> QED
  BY <1>2, <1>3, <1>4, <1>5, <1>6

LEMMA CompoundScope ==
    ASSUME NEW s, NEW t, Before(s, t), VisitCompoundStmt
    PROVE  ScopeNext \/ inner' = inner
<1>1. Current(s) /\ Moves(Head(work), s, t)
  BY DEF Before
<1>2. CASE Head(work).step = "compound-stmt"
  BY <1>2 DEF VisitCompoundStmt, Doing, ScopeNext, Enter
<1>3. CASE Head(work).step = "statements"
  <2>1. inner' = inner \/ (Saved[2] /\ inner' = exit(inner))
    BY <1>3 DEF VisitCompoundStmt, Doing
  <2>2. Saved[2] => s.depth = t.depth + 1 /\ t.depth \in Nat \ {0}
    BY <1>1, <1>3 DEF Moves, StmtMoves, Saved, State
  <2> QED
    BY <1>1, <2>1, <2>2, ExitStep
<1> QED
  BY <1>2, <1>3 DEF VisitCompoundStmt, Doing

LEMMA OtherScope ==
    ASSUME [Next]_vars
    PROVE  \/ inner' = inner
           \/ DeclareLibrary \/ VisitVarDeclaration \/ VisitFunDeclaration \/ VisitCompoundStmt
<1>1. CASE RunVisitor \/ VisitProgram \/ Done \/ Finished \/ UNCHANGED vars
  BY <1>1 DEF RunVisitor, VisitProgram, Done, Finished, vars
<1>2. CASE VisitExpressionStmt \/ VisitSelectionStmt \/ VisitIterationStmt
  BY <1>2 DEF VisitExpressionStmt, VisitSelectionStmt, VisitIterationStmt
<1>3. CASE Jump \/ SetInsertPoint \/ VisitReturnStmt
  BY <1>3 DEF Jump, SetInsertPoint, VisitReturnStmt
<1>4. CASE VisitNum \/ VisitVar \/ VisitAssignExpression \/ VisitCall
  BY <1>4 DEF VisitNum, VisitVar, VisitAssignExpression, VisitCall
<1>5. CASE VisitSimpleExpression
  BY <1>5 DEF VisitSimpleExpression, VisitOperands, Made
<1>6. CASE VisitAdditiveExpression
  BY <1>6 DEF VisitAdditiveExpression, VisitOperands, Made
<1>7. CASE VisitTerm
  BY <1>7 DEF VisitTerm, VisitOperands, Made
<1> QED
  BY <1>1, <1>2, <1>3, <1>4, <1>5, <1>6, <1>7 DEF Next, Step

\* A step of the builder is one operation of the scope, or none.
LEMMA BuilderScope ==
    ASSUME ScopeHolds, BuilderInv, [Next]_vars
    PROVE  [ScopeNext]_scopeVars
<1>1. CASE inner' = inner
  BY <1>1 DEF scopeVars
<1>2. CASE DeclareLibrary \/ VisitVarDeclaration \/ VisitFunDeclaration \/ VisitCompoundStmt
  <2>1. PICK s, t : Before(s, t)
    BY <1>2, VisitsWork, AtItem DEF Visits
  <2> QED
    BY <1>2, <2>1, LibraryScope, VarScope, FunScope, CompoundScope DEF scopeVars
<1> QED
  BY <1>1, <1>2, OtherScope

\* In every program a name stands for its innermost declaration at every step of
\* the visitor, the first one of its block: the visits enter and leave scopes in
\* pairs and never leave that of the program (CminusfBuilder::visit of the
\* declarations and of the compound statement, Scope).
THEOREM BuilderNamesResolve == ScopeHolds => (Spec => NamesResolve)
<1> DEFINE I == ScopeHolds /\ BuilderInv /\ ScopeTypeOK
<1>1. ScopeHolds /\ Init => I
  BY BuilderInit, ScopeInitType DEF Init
<1>2. I /\ [Next]_vars => I' /\ [ScopeNext]_scopeVars
  <2> SUFFICES ASSUME I, [Next]_vars
               PROVE  I' /\ [ScopeNext]_scopeVars
    OBVIOUS
  <2>1. BuilderInv' /\ [ScopeNext]_scopeVars
    BY BuilderNext, BuilderScope
  <2>2. ScopeTypeOK'
    BY <2>1, ScopeNextType
  <2>3. ScopeHolds'
    OBVIOUS
  <2> QED
    BY <2>1, <2>2, <2>3
<1>3. I /\ [ScopeNext]_scopeVars => [N!Next]_(N!nameVars)
  BY ScopeNextRefines
<1>4. Init => N!Init
  BY ScopeInitRefines DEF Init
<1> QED
  BY <1>1, <1>2, <1>3, <1>4, PTL DEF Spec, NamesResolve, N!Spec
=============================================================================
