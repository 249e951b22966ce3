----------------------------- MODULE CFGProofs -----------------------------
(***************************************************************************)
(* Facts about control-flow graphs that the correctness of Dominators::run *)
(* and Mem2Reg::run rests on.  Paths are reasoned about without paths: the *)
(* blocks reached are the least set that holds the entry and is closed     *)
(* under succ_bbs_.                                                        *)
(***************************************************************************)
EXTENDS CFG, FiniteSetTheorems, SequenceTheorems, WellFoundedInduction, TLAPS

-----------------------------------------------------------------------------
(* Induction over the naturals, on a set rather than on a predicate, and   *)
(* the existence of functions defined by recursion.                        *)

\* A set that holds 0 and with n also n + 1 holds all naturals.
LEMMA SetInduction ==
    ASSUME NEW S, 0 \in S, \A n \in Nat : n \in S => n + 1 \in S
    PROVE  Nat \subseteq S
<1> DEFINE R == {ss \in Nat \X Nat : ss[1] < ss[2]}
           T == {n \in Nat : n \notin S}
<1>1. IsWellFoundedOn(R, Nat)
  BY NatLessThanWellFounded DEF OpToRel
<1>2. SUFFICES ASSUME T # {} PROVE FALSE
  OBVIOUS
<1>3. PICK m \in T : \A y \in T : ~ (<<y, m>> \in R)
  BY <1>1, <1>2, WFMin
<1>4. m # 0 /\ m - 1 \in Nat
  OBVIOUS
<1>5. m - 1 \in T /\ <<m - 1, m>> \in R
  BY <1>4
<1> QED
  BY <1>3, <1>5

\* f starts at a and makes the n-th step from its n-th value.
Iterates(f, S, a, step) ==
    /\ f \in [Nat -> S]
    /\ f[0] = a
    /\ \A n \in Nat : f[n + 1] = step[<<n, f[n]>>]

\* A step on S can be iterated from any member of S.
LEMMA Iteration ==
    ASSUME NEW S, NEW a, NEW step, a \in S, step \in [Nat \X S -> S]
    PROVE  \E f : Iterates(f, S, a, step)
<1> DEFINE Upto(n) == {g \in [0 .. n -> S] :
                          g[0] = a /\ \A k \in 0 .. n - 1 : g[k + 1] = step[<<k, g[k]>>]}
           Good == {n \in Nat : Upto(n) # {}}
<1>1. Nat \subseteq Good
  <2>1. 0 \in Good
    <3>1. [k \in 0 .. 0 |-> a] \in Upto(0)
      OBVIOUS
    <3> QED
      BY <3>1
  <2>2. ASSUME NEW n \in Nat, n \in Good PROVE n + 1 \in Good
    <3>1. PICK g : g \in Upto(n)
      BY <2>2
    <3> DEFINE h == [k \in 0 .. n + 1 |-> IF k <= n THEN g[k] ELSE step[<<n, g[n]>>]]
    <3>2. \A k \in 0 .. n + 1 : h[k] \in S
      BY <3>1
    <3>3. h[0] = a
      BY <3>1
    <3>4. \A k \in 0 .. n : h[k + 1] = step[<<k, h[k]>>]
      <4> TAKE k \in 0 .. n
      <4>1. k + 1 \in 0 .. n + 1 /\ k \in 0 .. n + 1
        OBVIOUS
      <4>2. h[k] = g[k]
        BY <4>1
      <4>3. CASE k = n
        BY <4>1, <4>2, <4>3
      <4>4. CASE k # n
        <5>1. k \in 0 .. n - 1 /\ k + 1 <= n
          BY <4>4
        <5>2. h[k + 1] = g[k + 1]
          BY <4>1, <5>1
        <5>3. g[k + 1] = step[<<k, g[k]>>]
          BY <3>1, <5>1
        <5> QED
          BY <4>2, <5>2, <5>3
      <4> QED
        BY <4>3, <4>4
    <3>5. (n + 1) - 1 = n /\ n + 1 \in Nat
      OBVIOUS
    <3>6. h \in [0 .. n + 1 -> S]
      BY <3>2
    <3>7. h \in Upto(n + 1)
      <4> HIDE DEF h
      <4> QED
        BY <3>3, <3>4, <3>5, <3>6
    <3> QED
      BY <3>5, <3>7
  <2> HIDE DEF Good
  <2> QED
    BY <2>1, <2>2, SetInduction
<1> HIDE DEF Good
<1>2. ASSUME NEW n \in Nat, NEW m \in Nat, m <= n, NEW g \in Upto(n), NEW h \in Upto(m)
      PROVE  g[m] = h[m]
  <2> DEFINE Same == {k \in Nat : k <= m => g[k] = h[k]}
  <2>1. 0 \in Same
    OBVIOUS
  <2>2. ASSUME NEW k \in Nat, k \in Same PROVE k + 1 \in Same
    <3>1. SUFFICES ASSUME k + 1 <= m PROVE g[k + 1] = h[k + 1]
      OBVIOUS
    <3>2. k \in 0 .. m - 1 /\ k \in 0 .. n - 1 /\ g[k] = h[k]
      BY <1>2, <2>2, <3>1
    <3>3. g[k + 1] = step[<<k, g[k]>>] /\ h[k + 1] = step[<<k, h[k]>>]
      BY <3>2
    <3> QED
      BY <3>2, <3>3
  <2>3. Nat \subseteq Same
    <3> HIDE DEF Same
    <3> QED
      BY <2>1, <2>2, SetInduction
  <2> QED
    BY <2>3
<1> DEFINE G(n) == CHOOSE g : g \in Upto(n)
           f == [n \in Nat |-> G(n)[n]]
<1>3. \A n \in Nat : G(n) \in Upto(n)
  BY <1>1 DEF Good
<1>4. f \in [Nat -> S]
  <2>1. ASSUME NEW n \in Nat PROVE G(n)[n] \in S
    <3>1. G(n) \in Upto(n)
      BY <1>3
    <3> HIDE DEF G
    <3> QED
      BY <3>1
  <2> HIDE DEF G
  <2> QED
    BY <2>1
<1>5. f[0] = a
  <2>1. G(0) \in Upto(0)
    BY <1>3
  <2> HIDE DEF G
  <2> QED
    BY <2>1
<1>6. ASSUME NEW n \in Nat PROVE f[n + 1] = step[<<n, f[n]>>]
  <2>1. n + 1 \in Nat /\ n <= n + 1
    OBVIOUS
  <2>2. G(n + 1) \in Upto(n + 1) /\ G(n) \in Upto(n)
    <3> HIDE DEF Upto, G
    <3> QED
      BY <1>3, <2>1
  <2>3. G(n + 1)[n] = G(n)[n]
    <3> HIDE DEF Upto, G
    <3> QED
      BY <1>2, <2>1, <2>2
  <2>4. G(n + 1)[n + 1] = step[<<n, G(n + 1)[n]>>]
    <3> HIDE DEF G
    <3> QED
      BY <2>2
  <2> HIDE DEF G, Upto
  <2> QED
    BY <2>1, <2>3, <2>4
<1>7. Iterates(f, S, a, step)
  <2> HIDE DEF f
  <2> QED
    BY <1>4, <1>5, <1>6 DEF Iterates
<1> QED
  BY <1>7

\* Sets that grow step by step inside a finite set are closed after as many steps
\* as it has members: each that is not closed yet is larger than the one before.
LEMMA Saturates ==
    ASSUME NEW S, IsFiniteSet(S), NEW w \in [Nat -> SUBSET S],
           NEW F \in [SUBSET S -> SUBSET S],
           \A A \in SUBSET S : A \subseteq F[A],
           \A n \in Nat : w[n + 1] = F[w[n]]
    PROVE  F[w[Cardinality(S)]] = w[Cardinality(S)]
<1> DEFINE Large == {n \in Nat : Cardinality(w[n]) >= n \/ F[w[n]] = w[n]}
<1>1. ASSUME NEW n \in Nat
      PROVE  /\ w[n] \in SUBSET S /\ w[n + 1] \in SUBSET S
             /\ w[n] \subseteq w[n + 1] /\ w[n + 1] = F[w[n]]
             /\ IsFiniteSet(w[n]) /\ Cardinality(w[n]) \in Nat
             /\ IsFiniteSet(w[n + 1]) /\ Cardinality(w[n + 1]) \in Nat
  <2>1. w[n] \in SUBSET S /\ w[n + 1] \in SUBSET S
    OBVIOUS
  <2>2. w[n + 1] = F[w[n]] /\ w[n] \subseteq w[n + 1]
    BY <2>1
  <2>3. IsFiniteSet(w[n]) /\ IsFiniteSet(w[n + 1])
    BY <2>1, FS_Subset
  <2> QED
    BY <2>1, <2>2, <2>3, FS_CardinalityType
<1>2. 0 \in Large
  BY <1>1
<1>3. ASSUME NEW n \in Nat, n \in Large PROVE n + 1 \in Large
  <2>1. CASE F[w[n]] = w[n]
    <3>1. w[n + 1] = w[n]
      BY <1>1, <2>1
    <3> QED
      BY <2>1, <3>1
  <2>2. CASE F[w[n]] # w[n]
    <3>1. w[n + 1] # w[n] /\ Cardinality(w[n]) >= n
      BY <1>1, <1>3, <2>2
    <3>2. Cardinality(w[n]) <= Cardinality(w[n + 1])
      BY <1>1, FS_Subset
    <3>3. Cardinality(w[n]) # Cardinality(w[n + 1])
      BY <1>1, <3>1, FS_Subset
    <3>4. Cardinality(w[n]) \in Nat /\ Cardinality(w[n + 1]) \in Nat
      BY <1>1
    <3>5. Cardinality(w[n + 1]) >= n + 1
      <4> DEFINE c == Cardinality(w[n])
                 d == Cardinality(w[n + 1])
      <4>1. c \in Nat /\ d \in Nat /\ c >= n /\ c <= d /\ c # d
        BY <3>1, <3>2, <3>3, <3>4
      <4> HIDE DEF c, d
      <4>2. d >= n + 1
        BY <4>1
      <4> QED
        BY <4>2 DEF d
    <3> QED
      BY <3>5
  <2> QED
    BY <2>1, <2>2
<1>4. Cardinality(S) \in Nat
  BY FS_CardinalityType
<1>5. Cardinality(S) \in Large
  <2> HIDE DEF Large
  <2> QED
    BY <1>2, <1>3, <1>4, SetInduction
<1> DEFINE R == w[Cardinality(S)]
<1>6. CASE Cardinality(R) >= Cardinality(S)
  <2>1. R \in SUBSET S
    BY <1>1, <1>4
  <2>2. Cardinality(R) \in Nat /\ Cardinality(R) <= Cardinality(S)
    BY <1>1, <1>4, <2>1, FS_Subset
  <2>3. Cardinality(S) = Cardinality(R)
    BY <1>4, <1>6, <2>2
  <2>4. R = S
    BY <2>1, <2>3, FS_Subset
  <2>5. F[S] \in SUBSET S /\ S \subseteq F[S]
    OBVIOUS
  <2> QED
    BY <2>4, <2>5
<1> QED
  BY <1>5, <1>6

-----------------------------------------------------------------------------
(* Sequences used as stacks: the last element goes, is replaced, is        *)
(* replaced and followed by one more.                                      *)

LEMMA SeqDrop ==
    ASSUME NEW S, NEW s \in Seq(S), s # <<>>
    PROVE  LET t == SubSeq(s, 1, Len(s) - 1)
           IN  /\ Len(s) \in Nat \ {0} /\ s[Len(s)] \in S
               /\ t \in Seq(S) /\ Len(t) = Len(s) - 1
               /\ \A i \in 1 .. Len(s) - 1 : t[i] = s[i]
<1>1. Len(s) \in Nat \ {0}
  OBVIOUS
<1>2. s[Len(s)] \in S
  BY <1>1
<1> DEFINE n == Len(s) - 1
<1>3. n \in Int /\ 1 \in Int /\ \A i \in 1 .. n : s[i] \in S
  BY <1>1
<1>4. /\ SubSeq(s, 1, n) \in Seq(S)
      /\ Len(SubSeq(s, 1, n)) = IF 1 <= n THEN n - 1 + 1 ELSE 0
      /\ \A i \in 1 .. n - 1 + 1 : SubSeq(s, 1, n)[i] = s[1 + i - 1]
  <2> HIDE DEF n
  <2> QED
    BY <1>3, SubSeqProperties
<1>5. n \in Nat /\ n - 1 + 1 = n /\ \A i \in 1 .. n : 1 + i - 1 = i
  BY <1>1
<1>6. Len(SubSeq(s, 1, n)) = n /\ \A i \in 1 .. n : SubSeq(s, 1, n)[i] = s[i]
  <2> HIDE DEF n
  <2> QED
    BY <1>4, <1>5
<1> QED
  BY <1>1, <1>2, <1>4, <1>6

LEMMA SeqWider ==
    ASSUME NEW S, NEW T, S \subseteq T PROVE Seq(S) \subseteq Seq(T)
<1> SUFFICES ASSUME NEW s \in Seq(S) PROVE s \in Seq(T)
  OBVIOUS
<1>1. Len(s) \in Nat /\ s \in [1 .. Len(s) -> T]
  OBVIOUS
<1>2. \E n \in Nat : s \in [1 .. n -> T]
  BY <1>1
<1>3. Seq(T) = UNION {[1 .. n -> T] : n \in Nat}
  BY SeqDef
<1> QED
  BY <1>2, <1>3

LEMMA SeqAdd ==
    ASSUME NEW S, NEW s \in Seq(S), NEW f \in S
    PROVE  LET t == Append(s, f)
           IN  /\ t \in Seq(S) /\ Len(t) = Len(s) + 1 /\ t[Len(s) + 1] = f
               /\ \A i \in 1 .. Len(s) : t[i] = s[i]
OBVIOUS

LEMMA SeqReplace ==
    ASSUME NEW S, NEW s \in Seq(S), s # <<>>, NEW f \in S
    PROVE  LET t == Append(SubSeq(s, 1, Len(s) - 1), f)
           IN  /\ t \in Seq(S) /\ Len(t) = Len(s)
               /\ \A i \in 1 .. Len(s) : t[i] = IF i = Len(s) THEN f ELSE s[i]
<1> DEFINE u == SubSeq(s, 1, Len(s) - 1)
<1>1. /\ Len(s) \in Nat \ {0} /\ u \in Seq(S) /\ Len(u) = Len(s) - 1
      /\ \A i \in 1 .. Len(s) - 1 : u[i] = s[i]
  BY SeqDrop
<1> HIDE DEF u
<1>2. Append(u, f) \in Seq(S) /\ Len(Append(u, f)) = Len(s)
  BY <1>1
<1>3. \A i \in 1 .. Len(s) : Append(u, f)[i] = IF i = Len(s) THEN f ELSE s[i]
  BY <1>1
<1> QED
  BY <1>2, <1>3 DEF u

LEMMA SeqReplacePush ==
    ASSUME NEW S, NEW s \in Seq(S), s # <<>>, NEW f \in S, NEW h \in S
    PROVE  LET t == Append(Append(SubSeq(s, 1, Len(s) - 1), f), h)
           IN  /\ t \in Seq(S) /\ Len(t) = Len(s) + 1
               /\ \A i \in 1 .. Len(s) + 1 :
                     t[i] = IF i = Len(s) + 1 THEN h ELSE IF i = Len(s) THEN f ELSE s[i]
<1> DEFINE u == Append(SubSeq(s, 1, Len(s) - 1), f)
<1>1. /\ u \in Seq(S) /\ Len(u) = Len(s) /\ Len(s) \in Nat \ {0}
      /\ \A i \in 1 .. Len(s) : u[i] = IF i = Len(s) THEN f ELSE s[i]
  BY SeqReplace
<1> HIDE DEF u
<1>2. Append(u, h) \in Seq(S) /\ Len(Append(u, h)) = Len(s) + 1
  BY <1>1
<1>3. \A i \in 1 .. Len(s) + 1 :
         Append(u, h)[i] = IF i = Len(s) + 1 THEN h ELSE IF i = Len(s) THEN f ELSE s[i]
  BY <1>1
<1> QED
  BY <1>2, <1>3 DEF u

-----------------------------------------------------------------------------
(* Reachability                                                            *)

\* succ_bbs_ names blocks of the function, never the entry.
LEMMA SuccType ==
    ASSUME NEW succ, WellFormedCFG(succ), NEW b \in Block
    PROVE  Succ(succ, b) \subseteq Block \ {Entry}
BY DEF WellFormedCFG, Succ

\* B and what one more edge adds.
Further(succ, Avoid, B) == B \cup ((UNION {Succ(succ, p) : p \in B}) \ Avoid)

\* w[n] is what paths of n edges reach.
Within(w, succ, Avoid) ==
    /\ w \in [Nat -> SUBSET Block]
    /\ w[0] = {Entry} \ Avoid
    /\ \A n \in Nat : w[n + 1] = Further(succ, Avoid, w[n])

\* The recursion in ReachableAvoiding has a solution.
LEMMA WithinExists ==
    ASSUME NEW succ, WellFormedCFG(succ), NEW Avoid
    PROVE  \E w : /\ Within(w, succ, Avoid)
                  /\ ReachableAvoiding(succ, Avoid) = w[Cardinality(Block)]
<1> DEFINE step == [x \in Nat \X SUBSET Block |-> Further(succ, Avoid, x[2])]
           IsWithin(w) == w = [n \in Nat |-> IF n = 0 THEN {Entry} \ Avoid
                                             ELSE Further(succ, Avoid, w[n - 1])]
           within == CHOOSE w : IsWithin(w)
<1>1. {Entry} \ Avoid \in SUBSET Block
  BY CFGAssumption
<1>2. step \in [Nat \X SUBSET Block -> SUBSET Block]
  BY SuccType DEF Further
<1>3. PICK f : Iterates(f, SUBSET Block, {Entry} \ Avoid, step)
  <2> HIDE DEF step
  <2> QED
    BY <1>1, <1>2, Iteration, Zenon
<1>4. f[0] = {Entry} \ Avoid /\ \A n \in Nat : f[n + 1] = Further(succ, Avoid, f[n])
  BY <1>3 DEF Iterates
<1>5. IsWithin(f)
  <2>1. ASSUME NEW n \in Nat, n # 0 PROVE f[n] = Further(succ, Avoid, f[n - 1])
    <3>1. n - 1 \in Nat /\ (n - 1) + 1 = n
      BY <2>1
    <3> QED
      BY <1>4, <3>1
  <2>2. f \in [Nat -> SUBSET Block]
    BY <1>3 DEF Iterates
  <2> QED
    BY <1>4, <2>1, <2>2
<1>6. IsWithin(within)
  <2>1. \E w : IsWithin(w)
    BY <1>5
  <2> HIDE DEF IsWithin
  <2> QED
    BY <2>1, Zenon
<1>7. within[0] = {Entry} \ Avoid
  <2> HIDE DEF within
  <2> QED
    BY <1>6
<1>8. ASSUME NEW n \in Nat PROVE within[n + 1] = Further(succ, Avoid, within[n])
  <2> HIDE DEF within
  <2>1. n + 1 \in Nat /\ n + 1 # 0 /\ (n + 1) - 1 = n
    OBVIOUS
  <2> QED
    BY <1>6, <2>1
<1>9. within \in [Nat -> SUBSET Block]
  <2> DEFINE Fine == {n \in Nat : within[n] \in SUBSET Block}
  <2>1. 0 \in Fine
    BY <1>1, <1>7
  <2>2. ASSUME NEW n \in Nat, n \in Fine PROVE n + 1 \in Fine
    <3> HIDE DEF within
    <3> QED
      BY <1>8, <2>2, SuccType DEF Further
  <2>3. Nat \subseteq Fine
    <3> HIDE DEF Fine
    <3> QED
      BY <2>1, <2>2, SetInduction
  <2>4. within = [n \in Nat |-> within[n]]
    <3> HIDE DEF within
    <3> QED
      BY <1>6
  <2> HIDE DEF within
  <2> QED
    BY <2>3, <2>4
<1>10. ReachableAvoiding(succ, Avoid) = within[Cardinality(Block)]
  BY DEF ReachableAvoiding, Further
<1> HIDE DEF within
<1> QED
  BY <1>7, <1>8, <1>9, <1>10 DEF Within

\* The set w[Cardinality(Block)] is closed.
LEMMA WithinStable ==
    ASSUME NEW succ, WellFormedCFG(succ), NEW Avoid, NEW w, Within(w, succ, Avoid)
    PROVE  LET R == w[Cardinality(Block)] IN Further(succ, Avoid, R) = R
<1> DEFINE F == [B \in SUBSET Block |-> Further(succ, Avoid, B)]
<1>1. F \in [SUBSET Block -> SUBSET Block] /\ \A B \in SUBSET Block : B \subseteq F[B]
  BY SuccType DEF Further
<1>2. w \in [Nat -> SUBSET Block] /\ \A n \in Nat : w[n + 1] = F[w[n]]
  BY DEF Within
<1>3. F[w[Cardinality(Block)]] = w[Cardinality(Block)]
  <2> HIDE DEF F
  <2> QED
    BY <1>1, <1>2, Saturates, CFGAssumption
<1> QED
  BY <1>2, <1>3, CFGAssumption, FS_CardinalityType

\* What is reached lies in the function and outside Avoid.
LEMMA ReachType ==
    ASSUME NEW succ, WellFormedCFG(succ), NEW Avoid
    PROVE  ReachableAvoiding(succ, Avoid) \subseteq Block \ Avoid
<1>1. PICK w : /\ Within(w, succ, Avoid)
               /\ ReachableAvoiding(succ, Avoid) = w[Cardinality(Block)]
  BY WithinExists
<1> DEFINE Fine == {n \in Nat : w[n] \cap Avoid = {}}
<1>2. 0 \in Fine
  BY <1>1 DEF Within
<1>3. ASSUME NEW n \in Nat, n \in Fine PROVE n + 1 \in Fine
  <2>1. w[n + 1] = Further(succ, Avoid, w[n]) /\ w[n] \in SUBSET Block
    BY <1>1 DEF Within
  <2> QED
    BY <1>3, <2>1 DEF Further
<1>4. Cardinality(Block) \in Nat
  BY CFGAssumption, FS_CardinalityType
<1>5. Cardinality(Block) \in Fine
  <2> HIDE DEF Fine
  <2> QED
    BY <1>2, <1>3, <1>4, SetInduction
<1>6. w[Cardinality(Block)] \in SUBSET Block
  BY <1>1, <1>4 DEF Within
<1> QED
  BY <1>1, <1>5, <1>6

\* The entry is reached.
LEMMA ReachEntry ==
    ASSUME NEW succ, WellFormedCFG(succ), NEW Avoid, Entry \notin Avoid
    PROVE  Entry \in ReachableAvoiding(succ, Avoid)
<1>1. PICK w : /\ Within(w, succ, Avoid)
               /\ ReachableAvoiding(succ, Avoid) = w[Cardinality(Block)]
  BY WithinExists
<1> DEFINE Fine == {n \in Nat : Entry \in w[n]}
<1>2. 0 \in Fine
  BY <1>1 DEF Within
<1>3. ASSUME NEW n \in Nat, n \in Fine PROVE n + 1 \in Fine
  <2>1. w[n + 1] = Further(succ, Avoid, w[n]) /\ w[n] \in SUBSET Block
    BY <1>1 DEF Within
  <2> QED
    BY <1>3, <2>1 DEF Further
<1>4. Cardinality(Block) \in Nat
  BY CFGAssumption, FS_CardinalityType
<1>5. Cardinality(Block) \in Fine
  <2> HIDE DEF Fine
  <2> QED
    BY <1>2, <1>3, <1>4, SetInduction
<1> QED
  BY <1>1, <1>5

\* With a block its successors are reached.
LEMMA ReachStep ==
    ASSUME NEW succ, WellFormedCFG(succ), NEW Avoid,
           NEW p \in ReachableAvoiding(succ, Avoid), NEW s \in Succ(succ, p), s \notin Avoid
    PROVE  s \in ReachableAvoiding(succ, Avoid)
<1>1. PICK w : /\ Within(w, succ, Avoid)
               /\ ReachableAvoiding(succ, Avoid) = w[Cardinality(Block)]
  BY WithinExists
<1>2. Further(succ, Avoid, w[Cardinality(Block)]) = w[Cardinality(Block)]
  BY <1>1, WithinStable
<1> QED
  BY <1>1, <1>2 DEF Further

\* Nothing else is reached.
LEMMA ReachLeast ==
    ASSUME NEW succ, WellFormedCFG(succ), NEW Avoid, NEW S,
           Entry \notin Avoid => Entry \in S,
           \A p \in S \cap Block : Succ(succ, p) \ Avoid \subseteq S
    PROVE  ReachableAvoiding(succ, Avoid) \subseteq S
<1>1. PICK w : /\ Within(w, succ, Avoid)
               /\ ReachableAvoiding(succ, Avoid) = w[Cardinality(Block)]
  BY WithinExists
<1> DEFINE Fine == {n \in Nat : w[n] \subseteq S}
<1>2. 0 \in Fine
  BY <1>1 DEF Within
<1>3. ASSUME NEW n \in Nat, n \in Fine PROVE n + 1 \in Fine
  <2>1. w[n + 1] = Further(succ, Avoid, w[n]) /\ w[n] \in SUBSET Block
    BY <1>1 DEF Within
  <2> QED
    BY <1>3, <2>1 DEF Further
<1>4. Cardinality(Block) \in Nat
  BY CFGAssumption, FS_CardinalityType
<1>5. Cardinality(Block) \in Fine
  <2> HIDE DEF Fine
  <2> QED
    BY <1>2, <1>3, <1>4, SetInduction
<1> QED
  BY <1>1, <1>5

\* Avoiding blocks reaches no others.
LEMMA ReachAvoidingLess ==
    ASSUME NEW succ, WellFormedCFG(succ), NEW Avoid
    PROVE  ReachableAvoiding(succ, Avoid) \subseteq Reachable(succ)
<1> DEFINE S == Reachable(succ)
<1>1. Entry \in S
  BY ReachEntry DEF Reachable
<1>2. \A p \in S \cap Block : Succ(succ, p) \ Avoid \subseteq S
  BY ReachStep DEF Reachable
<1> HIDE DEF S
<1>3. ReachableAvoiding(succ, Avoid) \subseteq S
  BY <1>1, <1>2, ReachLeast
<1> QED
  BY <1>3 DEF S

\* A block reached from the entry is closed under succ_bbs_.
LEMMA ReachableStep ==
    ASSUME NEW succ, WellFormedCFG(succ), NEW p \in Reachable(succ), NEW s \in Succ(succ, p)
    PROVE  s \in Reachable(succ)
BY ReachStep DEF Reachable

\* The reached blocks are blocks of the function, the entry among them.
LEMMA ReachableType ==
    ASSUME NEW succ, WellFormedCFG(succ)
    PROVE  Reachable(succ) \subseteq Block /\ Entry \in Reachable(succ)
BY ReachType, ReachEntry DEF Reachable

\* succ_bbs_ and pre_bbs_ describe the same edges; none leads to the entry.
LEMMA PreType ==
    ASSUME NEW succ, WellFormedCFG(succ), NEW b, NEW p \in Pre(succ, b)
    PROVE  p \in Block /\ b \in Succ(succ, p) /\ b \in Block \ {Entry}
BY SuccType DEF Pre

-----------------------------------------------------------------------------
(* Dominance                                                               *)

\* Dominators are blocks of the function.
LEMMA DomType ==
    ASSUME NEW succ, NEW b PROVE Dom(succ, b) \subseteq Block
BY DEF Dom

\* A block dominates itself.
LEMMA DomSelf ==
    ASSUME NEW succ, WellFormedCFG(succ), NEW b \in Block
    PROVE  b \in Dom(succ, b)
BY ReachType DEF Dom

\* Only the entry dominates the entry.
LEMMA DomEntry ==
    ASSUME NEW succ, WellFormedCFG(succ)
    PROVE  Dom(succ, Entry) = {Entry}
<1>1. Entry \in Dom(succ, Entry)
  BY DomSelf, CFGAssumption
<1>2. ASSUME NEW d \in Block, d # Entry PROVE d \notin Dom(succ, Entry)
  <2>1. Entry \in ReachableAvoiding(succ, {d})
    BY <1>2, ReachEntry
  <2> QED
    BY <2>1 DEF Dom
<1> QED
  BY <1>1, <1>2, DomType

\* The entry dominates every block.
LEMMA EntryDom ==
    ASSUME NEW succ, WellFormedCFG(succ), NEW b \in Block
    PROVE  Entry \in Dom(succ, b)
<1> DEFINE S == {}
<1>1. ReachableAvoiding(succ, {Entry}) \subseteq S
  <2>1. /\ Entry \notin {Entry} => Entry \in S
        /\ \A p \in S \cap Block : Succ(succ, p) \ {Entry} \subseteq S
    OBVIOUS
  <2> HIDE DEF S
  <2> QED
    BY <2>1, ReachLeast
<1> QED
  BY <1>1, CFGAssumption DEF Dom

\* What dominates a block and is another one dominates all its predecessors.
LEMMA DomPred ==
    ASSUME NEW succ, WellFormedCFG(succ), NEW b, NEW p \in Pre(succ, b)
    PROVE  Dom(succ, b) \ {b} \subseteq Dom(succ, p)
<1> SUFFICES ASSUME NEW d \in Dom(succ, b), d # b, d \notin Dom(succ, p)
             PROVE  FALSE
  OBVIOUS
<1>1. d \in Block /\ p \in Block /\ b \in Succ(succ, p)
  BY DomType, PreType
<1>2. p \in ReachableAvoiding(succ, {d})
  BY <1>1 DEF Dom
<1>3. b \in ReachableAvoiding(succ, {d})
  BY <1>1, <1>2, ReachStep
<1> QED
  BY <1>3 DEF Dom

\* What dominates the only predecessor of a block dominates the block.
LEMMA DomOnlyPred ==
    ASSUME NEW succ, WellFormedCFG(succ), NEW b \in Block \ {Entry}, NEW p, Pre(succ, b) = {p},
           NEW d \in Dom(succ, p), d # b
    PROVE  d \in Dom(succ, b)
<1> DEFINE S == ReachableAvoiding(succ, {d}) \ {b}
<1>1. d \in Block /\ p \notin ReachableAvoiding(succ, {d})
  BY DEF Dom
<1>2. Entry \notin {d} => Entry \in S
  BY ReachEntry
<1>3. ASSUME NEW x \in S \cap Block, NEW s \in Succ(succ, x), s # d PROVE s \in S
  <2>1. s \in ReachableAvoiding(succ, {d})
    BY <1>3, ReachStep
  <2>2. s # b
    <3>1. x # p
      BY <1>1
    <3>2. x \notin Pre(succ, b)
      BY <3>1
    <3> QED
      BY <3>2 DEF Pre
  <2> QED
    BY <2>1, <2>2
<1>4. \A x \in S \cap Block : Succ(succ, x) \ {d} \subseteq S
  BY <1>3
<1>5. ReachableAvoiding(succ, {d}) \subseteq S
  <2> HIDE DEF S
  <2> QED
    BY <1>2, <1>4, ReachLeast
<1> QED
  BY <1>1, <1>5 DEF Dom

\* a dominates every member of a set that paths from the entry enter through a.
LEMMA DomOfRegion ==
    ASSUME NEW succ, WellFormedCFG(succ), NEW a \in Block, NEW S,
           a # Entry => Entry \notin S,
           \A b \in S \ {a} : Pre(succ, b) \cap Reachable(succ) \subseteq S
    PROVE  \A b \in S : a \in Dom(succ, b)
<1> DEFINE C == Reachable(succ) \ S
<1>1. Entry \notin {a} => Entry \in C
  BY ReachableType
<1>2. ASSUME NEW p \in C \cap Block, NEW s \in Succ(succ, p), s # a PROVE s \in C
  <2>1. s \in Reachable(succ)
    BY ReachableStep
  <2>2. p \in Pre(succ, s)
    BY DEF Pre
  <2> QED
    BY <1>2, <2>1, <2>2
<1>3. \A p \in C \cap Block : Succ(succ, p) \ {a} \subseteq C
  BY <1>2
<1>4. ReachableAvoiding(succ, {a}) \subseteq C
  <2> HIDE DEF C
  <2> QED
    BY <1>1, <1>3, ReachLeast
<1> QED
  BY <1>4 DEF Dom

\* The dominators of a block that is reached are reached.
LEMMA DomReachable ==
    ASSUME NEW succ, WellFormedCFG(succ), NEW b \in Reachable(succ), NEW d \in Dom(succ, b)
    PROVE  d \in Reachable(succ)
<1> SUFFICES ASSUME d \notin Reachable(succ) PROVE FALSE
  OBVIOUS
<1> DEFINE S == ReachableAvoiding(succ, {d})
<1>1. Entry \in S
  BY ReachEntry, ReachableType
<1>2. ASSUME NEW p \in S \cap Block, NEW s \in Succ(succ, p) PROVE s \in S
  <2>1. p \in Reachable(succ)
    BY ReachAvoidingLess
  <2>2. s # d
    BY <2>1, ReachableStep
  <2> QED
    BY <2>2, ReachStep
<1>3. \A p \in S \cap Block : Succ(succ, p) \ {} \subseteq S
  BY <1>2
<1>4. ReachableAvoiding(succ, {}) \subseteq S
  <2> HIDE DEF S
  <2> QED
    BY <1>1, <1>3, ReachLeast
<1> QED
  BY <1>4 DEF Dom, Reachable

\* Dominance is transitive.
LEMMA DomTransitive ==
    ASSUME NEW succ, WellFormedCFG(succ), NEW c, NEW b \in Dom(succ, c), NEW a \in Dom(succ, b)
    PROVE  a \in Dom(succ, c)
<1> SUFFICES ASSUME a \notin Dom(succ, c) PROVE FALSE
  OBVIOUS
<1> DEFINE S == ReachableAvoiding(succ, {b})
<1>1. a \in Block /\ b \in Block
  BY DomType
<1>2. c \in ReachableAvoiding(succ, {a})
  BY <1>1 DEF Dom
<1>3. b \notin ReachableAvoiding(succ, {a})
  BY DEF Dom
<1>4. Entry \notin {a} => Entry \in S
  <2>1. CASE b = Entry
    BY <1>3, <2>1, ReachEntry
  <2>2. CASE b # Entry
    BY <2>2, ReachEntry
  <2> QED
    BY <2>1, <2>2
<1> DEFINE T == S \cap ReachableAvoiding(succ, {a})
<1>5. Entry \notin {a} => Entry \in T
  BY <1>4, ReachEntry
<1>6. ASSUME NEW p \in T \cap Block, NEW s \in Succ(succ, p), s # a PROVE s \in T
  <2>1. s \in ReachableAvoiding(succ, {a})
    BY <1>6, ReachStep
  <2>2. s # b
    BY <2>1, <1>3
  <2>3. s \in S
    BY <2>2, ReachStep
  <2> QED
    BY <2>1, <2>3
<1>7. \A p \in T \cap Block : Succ(succ, p) \ {a} \subseteq T
  BY <1>6
<1>8. ReachableAvoiding(succ, {a}) \subseteq T
  <2> HIDE DEF T
  <2> QED
    BY <1>5, <1>7, ReachLeast
<1> QED
  BY <1>2, <1>8 DEF Dom

\* Two different blocks, one of them reached, do not dominate each other.
LEMMA DomAntisymmetric ==
    ASSUME NEW succ, WellFormedCFG(succ), NEW a \in Reachable(succ), NEW b \in Dom(succ, a),
           a \in Dom(succ, b)
    PROVE  a = b
<1> SUFFICES ASSUME a # b PROVE FALSE
  OBVIOUS
<1>1. a \in Block /\ b \in Block
  BY DomType, ReachableType
<1>2. a \notin ReachableAvoiding(succ, {b}) /\ b \notin ReachableAvoiding(succ, {a})
  BY DEF Dom
<1>3. a # Entry /\ b # Entry
  BY DomEntry
<1> DEFINE T == ReachableAvoiding(succ, {a}) \cap ReachableAvoiding(succ, {b})
<1>4. Entry \in T
  BY <1>3, ReachEntry
<1>5. ASSUME NEW p \in T \cap Block, NEW s \in Succ(succ, p) PROVE s \in T
  <2>1. s # a
    <3>1. s \notin {b} => s \in ReachableAvoiding(succ, {b})
      BY ReachStep
    <3> QED
      BY <1>2, <3>1
  <2>2. s # b
    <3>1. s \notin {a} => s \in ReachableAvoiding(succ, {a})
      BY ReachStep
    <3> QED
      BY <1>2, <3>1
  <2> QED
    BY <2>1, <2>2, ReachStep
<1>6. \A p \in T \cap Block : Succ(succ, p) \ {} \subseteq T
  BY <1>5
<1>7. ReachableAvoiding(succ, {}) \subseteq T
  <2> HIDE DEF T
  <2> QED
    BY <1>4, <1>6, ReachLeast
<1> QED
  BY <1>2, <1>7 DEF Reachable

\* The dominators of a block that is reached dominate one another, in a chain.
LEMMA DomChain ==
    ASSUME NEW succ, WellFormedCFG(succ), NEW c \in Reachable(succ),
           NEW a \in Dom(succ, c), NEW b \in Dom(succ, c)
    PROVE  a \in Dom(succ, b) \/ b \in Dom(succ, a)
<1> SUFFICES ASSUME a \notin Dom(succ, b), b \notin Dom(succ, a) PROVE FALSE
  OBVIOUS
<1>1. a \in Block /\ b \in Block
  BY DomType
<1>2. b \in ReachableAvoiding(succ, {a}) /\ a \in ReachableAvoiding(succ, {b})
  BY <1>1 DEF Dom
<1>3. c \notin ReachableAvoiding(succ, {a}) /\ c \notin ReachableAvoiding(succ, {b})
  BY DEF Dom
<1>4. a # Entry /\ b # Entry
  BY <1>1, EntryDom
<1> DEFINE T == ReachableAvoiding(succ, {a}) \cup ReachableAvoiding(succ, {b})
<1>5. Entry \in T
  BY <1>4, ReachEntry
<1>6. ASSUME NEW p \in T \cap Block, NEW s \in Succ(succ, p) PROVE s \in T
  <2>1. CASE s = a \/ s = b
    BY <1>2, <2>1
  <2>2. CASE s # a /\ s # b
    BY <2>2, ReachStep
  <2> QED
    BY <2>1, <2>2
<1>7. \A p \in T \cap Block : Succ(succ, p) \ {} \subseteq T
  BY <1>6
<1>8. ReachableAvoiding(succ, {}) \subseteq T
  <2> HIDE DEF T
  <2> QED
    BY <1>5, <1>7, ReachLeast
<1> QED
  BY <1>3, <1>8 DEF Reachable

-----------------------------------------------------------------------------
(* The immediate dominator                                                 *)

\* Of the strict dominators of a block one is dominated by all of them.
LEMMA IDomExists ==
    ASSUME NEW succ, WellFormedCFG(succ), NEW b \in Reachable(succ), b # Entry
    PROVE  \E d \in Dom(succ, b) \ {b} : Dom(succ, b) \ {b} = Dom(succ, d)
<1> DEFINE Strict == Dom(succ, b) \ {b}
           Size(d) == Cardinality(Dom(succ, d))
           Sizes == {n \in Nat : \E d \in Strict : Cardinality(Block) - n = Size(d)}
           R == {ss \in Nat \X Nat : ss[1] < ss[2]}
<1>1. Entry \in Strict /\ Strict \subseteq Block
  BY EntryDom, DomType, ReachableType
<1>2. Cardinality(Block) \in Nat
  BY CFGAssumption, FS_CardinalityType
<1>3. \A d \in Block : /\ IsFiniteSet(Dom(succ, d)) /\ Size(d) \in Nat
                       /\ Size(d) <= Cardinality(Block)
  BY CFGAssumption, DomType, FS_Subset, FS_CardinalityType
<1>4. PICK d \in Strict : \A e \in Strict : Size(e) <= Size(d)
  <2>1. Cardinality(Block) - Size(Entry) \in Sizes
    <3> HIDE DEF Size
    <3> QED
      BY <1>1, <1>2, <1>3
  <2>2. IsWellFoundedOn(R, Nat)
    BY NatLessThanWellFounded DEF OpToRel
  <2>3. PICK n \in Sizes : \A m \in Sizes : ~ (<<m, n>> \in R)
    <3>1. Sizes \subseteq Nat /\ Sizes # {}
      BY <2>1
    <3> HIDE DEF Sizes, R
    <3> QED
      BY <2>2, <3>1, WFMin
  <2> HIDE DEF Size
  <2>4. PICK d \in Strict : Cardinality(Block) - n = Size(d)
    BY <2>3
  <2>5. ASSUME NEW e \in Strict PROVE Size(e) <= Size(d)
    <3>1. e \in Block /\ d \in Block
      BY <1>1
    <3>2. Cardinality(Block) - Size(e) \in Sizes
      BY <1>2, <1>3, <3>1
    <3>3. ~ (Cardinality(Block) - Size(e) < n)
      BY <2>3, <3>2
    <3> QED
      BY <1>2, <1>3, <2>3, <2>4, <3>1, <3>3
  <2> QED
    BY <2>5
<1>5. d \in Block /\ d \in Reachable(succ)
  BY <1>1, DomReachable
<1>6. ASSUME NEW e \in Strict PROVE e \in Dom(succ, d)
  <2>1. CASE d \in Dom(succ, e)
    <3>1. Dom(succ, d) \subseteq Dom(succ, e)
      BY <2>1, DomTransitive
    <3>2. e \in Block
      BY <1>1
    <3>3. Size(d) = Size(e)
      <4>1. Size(d) <= Size(e)
        BY <1>3, <1>5, <3>1, <3>2, FS_Subset
      <4> HIDE DEF Size
      <4> QED
        BY <1>3, <1>4, <1>5, <3>2, <4>1
    <3>4. Dom(succ, d) = Dom(succ, e)
      BY <1>3, <3>1, <3>2, <3>3, FS_Subset
    <3> QED
      BY <3>2, <3>4, DomSelf
  <2> QED
    BY <2>1, DomChain
<1>7. ASSUME NEW e \in Dom(succ, d) PROVE e \in Strict
  <2>1. e \in Dom(succ, b)
    BY DomTransitive
  <2>2. e # b
    BY DomAntisymmetric, <1>4
  <2> QED
    BY <2>1, <2>2
<1> QED
  BY <1>6, <1>7

\* Different blocks that are reached have different dominators.
LEMMA DomInjective ==
    ASSUME NEW succ, WellFormedCFG(succ), NEW d \in Reachable(succ), NEW e \in Block,
           Dom(succ, d) = Dom(succ, e)
    PROVE  d = e
BY DomAntisymmetric, DomSelf, ReachableType

\* IDom is the block it is meant to be.
LEMMA IDomSpec ==
    ASSUME NEW succ, WellFormedCFG(succ), NEW b \in Reachable(succ), b # Entry
    PROVE  /\ IDom(succ, b) \in Dom(succ, b) \ {b}
           /\ Dom(succ, b) \ {b} = Dom(succ, IDom(succ, b))
           /\ IDom(succ, b) \in Reachable(succ)
<1> DEFINE strict == Dom(succ, b) \ {b}
           d == CHOOSE x \in strict : strict = Dom(succ, x)
<1>1. \E x \in strict : strict = Dom(succ, x)
  BY IDomExists
<1>2. d \in strict /\ strict = Dom(succ, d)
  <2> HIDE DEF strict
  <2> QED
    BY <1>1
<1> QED
  BY <1>2, DomReachable DEF IDom

\* No other block is.
LEMMA IDomUnique ==
    ASSUME NEW succ, WellFormedCFG(succ), NEW b \in Reachable(succ), b # Entry,
           NEW d \in Block, Dom(succ, b) \ {b} = Dom(succ, d)
    PROVE  d = IDom(succ, b)
BY IDomSpec, DomInjective

\* On the way from a strict dominator down to a block there is a block whose
\* immediate dominator it is.
LEMMA IDomBetween ==
    ASSUME NEW succ, WellFormedCFG(succ), NEW b \in Reachable(succ),
           NEW a \in Dom(succ, b) \ {b}
    PROVE  \E e \in Dom(succ, b) : e \in Reachable(succ) \ {Entry} /\ IDom(succ, e) = a
<1> DEFINE Under == {d \in Dom(succ, b) : a \in Dom(succ, d) \ {d}}
           Size(d) == Cardinality(Dom(succ, d))
           Sizes == {n \in Nat : \E d \in Under : n = Size(d)}
           R == {ss \in Nat \X Nat : ss[1] < ss[2]}
<1>1. b \in Block /\ b \in Under /\ Under \subseteq Block
  BY ReachableType, DomSelf, DomType
<1>2. \A d \in Block : IsFiniteSet(Dom(succ, d)) /\ Size(d) \in Nat
  BY CFGAssumption, DomType, FS_Subset, FS_CardinalityType
<1>3. PICK e \in Under : \A d \in Under : ~ (Size(d) < Size(e))
  <2>1. Size(b) \in Sizes
    BY <1>1, <1>2
  <2>2. IsWellFoundedOn(R, Nat)
    BY NatLessThanWellFounded DEF OpToRel
  <2>3. PICK n \in Sizes : \A m \in Sizes : ~ (<<m, n>> \in R)
    <3>1. Sizes \subseteq Nat /\ Sizes # {}
      BY <2>1
    <3> HIDE DEF Sizes, R
    <3> QED
      BY <2>2, <3>1, WFMin
  <2>4. PICK e \in Under : n = Size(e)
    BY <2>3
  <2>5. \A d \in Under : Size(d) \in Sizes
    BY <1>1, <1>2
  <2> HIDE DEF Size
  <2> QED
    BY <1>1, <1>2, <2>3, <2>4, <2>5
<1>4. e \in Reachable(succ) /\ e # Entry /\ e \in Block
  BY <1>1, <1>3, DomReachable, DomEntry
<1> DEFINE p == IDom(succ, e)
<1>5. p \in Dom(succ, e) \ {e} /\ Dom(succ, e) \ {e} = Dom(succ, p) /\ p \in Reachable(succ)
  BY <1>4, IDomSpec
<1>6. p \in Dom(succ, b)
  BY <1>3, <1>5, DomTransitive
<1>7. CASE a # p
  <2>1. p \in Under
    BY <1>3, <1>5, <1>6, <1>7
  <2>2. Size(p) < Size(e)
    <3>1. Dom(succ, p) = Dom(succ, e) \ {e} /\ e \in Dom(succ, e)
      BY <1>4, <1>5, DomSelf
    <3>2. Size(p) = Size(e) - 1 /\ Size(e) \in Nat
      <4>1. IsFiniteSet(Dom(succ, e)) /\ Size(e) \in Nat
        BY <1>2, <1>4
      <4>2. Cardinality(Dom(succ, e) \ {e}) = Cardinality(Dom(succ, e)) - 1
        BY ONLY <3>1, <4>1, FS_RemoveElement
      <4> QED
        BY <3>1, <4>1, <4>2
    <3> HIDE DEF Size
    <3> QED
      BY <3>2
  <2> QED
    BY <1>3, <2>1, <2>2
<1>8. CASE a = p
  BY <1>3, <1>4, <1>8
<1> QED
  BY <1>7, <1>8
=============================================================================
