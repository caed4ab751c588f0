------------------------------- MODULE Counting ------------------------------
(***************************************************************************)
(* What the proofs about the algorithms share: numbers, induction over the *)
(* members of a finite set and over the stages of a function defined by    *)
(* recursion, each stated of a set of those it holds of, finite sums, and  *)
(* lists joined of lists.                                                  *)
(***************************************************************************)
EXTENDS Integers, Sequences, FiniteSets, FiniteSetTheorems, WellFoundedInduction, TLAPS
Sums == INSTANCE Functions
Strung == INSTANCE SequencesExt

-----------------------------------------------------------------------------
(* Numbers and finite sets.                                                 *)

\* Some numbers have a least one.
LEMMA LeastOfSome == ASSUME NEW S \in SUBSET Nat, S # {} PROVE \E i \in S : \A j \in S : i <= j
<1>0. S \subseteq Nat
  OBVIOUS
<1>1. PICK i \in S : \A j \in S : ~ (<<j, i>> \in OpToRel(<, Nat))
  BY <1>0, NatLessThanWellFounded, WFMin
<1>2. \A j \in S : ~(j < i)
  BY <1>0, <1>1 DEF OpToRel
<1> QED BY <1>2

\* Some numbers up to a number have a last one.
LEMMA LatestOfSome ==
  ASSUME NEW n \in Nat, NEW S \in SUBSET (0..n), S # {} PROVE \E i \in S : \A j \in S : j <= i
<1> DEFINE T == {n - i : i \in S}
<1>1. T \in SUBSET Nat /\ T # {}
  <2>1. \A i \in S : n - i \in Nat
    OBVIOUS
  <2>2. PICK i \in S : TRUE
    OBVIOUS
  <2>3. n - i \in T
    OBVIOUS
  <2> QED BY <2>1, <2>3
<1>2. PICK t \in T : \A u \in T : t <= u
  BY <1>1, LeastOfSome
<1>3. PICK i \in S : t = n - i
  BY <1>2
<1>4. ASSUME NEW j \in S PROVE j <= i
  <2>1. n - j \in T
    OBVIOUS
  <2>2. n - i <= n - j
    BY <1>2, <1>3, <2>1
  <2> QED BY <2>2
<1> QED BY <1>4

\* What holds of 0 and of each number after one it holds of holds of all up to n.
LEMMA StageByStage ==
  ASSUME NEW n \in Nat, NEW G, 0 \in G, \A i \in 1..n : i - 1 \in G => i \in G PROVE \A i \in 0..n : i \in G
<1> DEFINE Bad == {i \in 0..n : i \notin G}
<1>1. SUFFICES ASSUME Bad # {} PROVE FALSE
  OBVIOUS
<1>2. Bad \in SUBSET Nat
  OBVIOUS
<1>3. PICK i \in Bad : \A j \in Bad : i <= j
  BY <1>1, <1>2, LeastOfSome
<1>4. i \in 1..n /\ i - 1 \in 0..n /\ ~(i <= i - 1)
  BY <1>3
<1>5. i - 1 \notin Bad
  <2> HIDE DEF Bad
  <2> QED BY <1>3, <1>4
<1> QED BY <1>3, <1>4, <1>5

\* What is left of some things without one of them.
LEMMA OneLess ==
  ASSUME NEW s, IsFiniteSet(s), NEW x \in s
  PROVE  /\ IsFiniteSet(s \ {x}) /\ Cardinality(s) \in Nat \ {0} /\ Cardinality(s \ {x}) \in Nat
         /\ Cardinality(s \ {x}) = Cardinality(s) - 1
<1>1. IsFiniteSet(s \ {x}) /\ Cardinality(s \ {x}) = Cardinality(s) - 1
  BY FS_RemoveElement
<1>2. Cardinality(s) \in Nat /\ Cardinality(s \ {x}) \in Nat
  BY <1>1, FS_CardinalityType
<1> QED BY <1>1, <1>2

\* What holds of no things, and of some when it holds of all of them but one, whichever,
\* holds of all finitely many.
LEMMA OneByOne ==
  ASSUME NEW S, IsFiniteSet(S), NEW G, {} \in G,
         \A s \in SUBSET S : s # {} /\ (\A x \in s : s \ {x} \in G) => s \in G
  PROVE  \A s \in SUBSET S : s \in G
<1> DEFINE Bad == {n \in Nat : \E s \in SUBSET S : Cardinality(s) = n /\ s \notin G}
<1>0. \A s \in SUBSET S : IsFiniteSet(s) /\ Cardinality(s) \in Nat
  BY FS_Subset, FS_CardinalityType
<1>1. Bad = {}
  <2>1. SUFFICES ASSUME Bad # {} PROVE FALSE
    OBVIOUS
  <2>2. PICK n \in Bad : \A j \in Bad : n <= j
    BY <2>1, LeastOfSome
  <2>3. PICK s \in SUBSET S : Cardinality(s) = n /\ s \notin G
    BY <2>2
  <2>4. ASSUME NEW x \in s PROVE s \ {x} \in G
    <3>1. Cardinality(s \ {x}) \in Nat /\ ~(n <= Cardinality(s \ {x}))
      BY <1>0, <2>3, OneLess
    <3>2. Cardinality(s \ {x}) \notin Bad
      <4> HIDE DEF Bad
      <4> QED BY <2>2, <3>1
    <3> QED BY <3>1, <3>2
  <2> QED BY <2>3, <2>4
<1> QED BY <1>0, <1>1

\* A finite set of numbers has one before which any fewer of them come.
LEMMA RankTaken ==
  ASSUME NEW S \in SUBSET Nat, IsFiniteSet(S), NEW m \in Nat, m < Cardinality(S)
  PROVE  \E i \in S : Cardinality({j \in S : j < i}) = m
<1> DEFINE Ahead(i) == {j \in S : j < i}
           B == {n \in Nat : n < Cardinality(S) /\ ~ \E i \in S : Cardinality(Ahead(i)) = n}
<1> SUFFICES ASSUME m \in B PROVE FALSE
  OBVIOUS
<1>1. PICK b \in B : \A n \in B : b <= n
  <2>1. B \in SUBSET Nat /\ B # {}
    OBVIOUS
  <2> HIDE DEF B
  <2> QED BY <2>1, LeastOfSome
<1>2. b \in Nat /\ b < Cardinality(S) /\ Cardinality(S) \in Nat /\ ~ \E i \in S : Cardinality(Ahead(i)) = b
  BY <1>1, FS_CardinalityType
<1>3. S # {}
  BY <1>2, FS_EmptySet
<1>4. CASE b = 0
  <2>1. PICK i \in S : \A j \in S : i <= j
    BY <1>3, LeastOfSome
  <2>2. \A j \in S : j \in Nat /\ ~(j < i)
    BY <2>1
  <2>3. Ahead(i) = {}
    BY <2>2
  <2> QED BY <2>3, <1>2, <1>4, FS_EmptySet
<1>5. CASE b > 0
  <2>1. b - 1 \in Nat /\ b - 1 < Cardinality(S) /\ b - 1 \notin B
    BY <1>1, <1>2, <1>5
  <2>2. PICK i \in S : Cardinality(Ahead(i)) = b - 1
    BY <2>1
  <2> DEFINE R == {j \in S : i < j}
             upTo == Ahead(i) \cup {i}
  <2>3. IsFiniteSet(Ahead(i)) /\ i \notin Ahead(i) /\ IsFiniteSet(Ahead(i)) /\ i \in Nat
    BY FS_Subset
  <2>4. Cardinality(upTo) = b
    <3>1. Cardinality(upTo) = Cardinality(Ahead(i)) + 1
      BY <2>3, FS_AddElement
    <3> QED BY <3>1, <2>2, <1>2
  <2>5. R # {}
    <3>0. S # upTo
      <4> HIDE DEF upTo
      <4> QED BY <2>4, <1>2
    <3>1. SUFFICES ASSUME R = {} PROVE S = upTo
      BY <3>0
    <3>2. \A j \in S : j \in Nat /\ ~(i < j)
      BY <3>1
    <3>3. \A j \in S : j < i \/ j = i
      BY <3>2, <2>3
    <3> QED BY <3>3
  <2>6. PICK k \in R : \A j \in R : k <= j
    <3>1. R \in SUBSET Nat
      OBVIOUS
    <3> HIDE DEF R
    <3> QED BY <3>1, <2>5, LeastOfSome
  <2>7. k \in S /\ k \in Nat /\ i < k
    BY <2>6
  <2>8. \A j \in S : j < k <=> j \in upTo
    <3> SUFFICES ASSUME NEW j \in S PROVE j < k <=> j <= i
      BY <2>3
    <3> QED BY <2>6, <2>7, <2>3
  <2>9. Ahead(k) = upTo
    BY <2>8, <2>7
  <2> QED BY <2>9, <2>4, <2>7, <1>2
<1> QED BY <1>4, <1>5, <1>2

\* Some numbers in order, the least first: each of them, once, and each after those below it.
Ordered(S) == [k \in 1..Cardinality(S) |-> CHOOSE i \in S : Cardinality({j \in S : j < i}) = k - 1]
LEMMA OrderedIs ==
  ASSUME NEW S \in SUBSET Nat, IsFiniteSet(S)
  PROVE  /\ Cardinality(S) \in Nat
         /\ \A k \in 1..Cardinality(S) : Ordered(S)[k] \in S /\ Cardinality({j \in S : j < Ordered(S)[k]}) = k - 1
         /\ \A i \in S : Cardinality({j \in S : j < i}) + 1 \in 1..Cardinality(S) /\ Ordered(S)[Cardinality({j \in S : j < i}) + 1] = i
         /\ \A k, l \in 1..Cardinality(S) : Ordered(S)[k] = Ordered(S)[l] => k = l
<1> DEFINE Rank(p) == Cardinality({q \in S : q < p})
<1>1. Cardinality(S) \in Nat
  BY FS_CardinalityType
<1>2. ASSUME NEW k \in 1..Cardinality(S) PROVE Ordered(S)[k] \in S /\ Rank(Ordered(S)[k]) = k - 1
  <2>1. k - 1 \in Nat /\ k - 1 < Cardinality(S)
    BY <1>1
  <2>2. \E p \in S : Rank(p) = k - 1
    BY <2>1, RankTaken
  <2> QED BY <2>2 DEF Ordered
<1>3. ASSUME NEW p \in S PROVE Rank(p) \in Nat /\ Rank(p) < Cardinality(S)
  <2>1. p \in S /\ p \notin {q \in S : q < p} /\ {q \in S : q < p} \in SUBSET S
    OBVIOUS
  <2>2. Rank(p) \in Nat /\ Rank(p) <= Cardinality(S) /\ (Rank(p) = Cardinality(S) => {q \in S : q < p} = S)
    BY <2>1, FS_Subset, FS_CardinalityType
  <2> QED BY <2>1, <2>2, <1>1
<1>4. ASSUME NEW p \in S, NEW o \in S, p < o PROVE Rank(p) # Rank(o)
  <2>0. \A q \in S : q \in Nat /\ (q < p => q < o)
    BY <1>4
  <2>1. {q \in S : q < p} \in SUBSET {q \in S : q < o}
    BY <2>0
  <2>2. IsFiniteSet({q \in S : q < o})
    BY FS_Subset
  <2>3. Rank(p) = Rank(o) => {q \in S : q < p} = {q \in S : q < o}
    BY <2>1, <2>2, FS_Subset
  <2>4. p \in {q \in S : q < o} /\ p \notin {q \in S : q < p}
    BY <1>4
  <2> QED BY <2>3, <2>4
<1>5. \A p, o \in S : Rank(p) = Rank(o) => p = o
  <2> SUFFICES ASSUME NEW p \in S, NEW o \in S, Rank(p) = Rank(o), p # o PROVE FALSE
    OBVIOUS
  <2>1. p < o \/ o < p
    OBVIOUS
  <2> QED BY <2>1, <1>4
<1> HIDE DEF Rank
<1>6. ASSUME NEW p \in S PROVE Rank(p) + 1 \in 1..Cardinality(S) /\ Ordered(S)[Rank(p) + 1] = p
  <2>1. Rank(p) + 1 \in 1..Cardinality(S)
    BY <1>1, <1>3
  <2>2. Rank(Ordered(S)[Rank(p) + 1]) = Rank(p) /\ Ordered(S)[Rank(p) + 1] \in S
    BY <2>1, <1>2, <1>3
  <2> QED BY <2>1, <2>2, <1>5
<1>7. ASSUME NEW k \in 1..Cardinality(S), NEW l \in 1..Cardinality(S), Ordered(S)[k] = Ordered(S)[l] PROVE k = l
  <2>1. k - 1 = l - 1
    BY <1>2, <1>7
  <2> QED BY <2>1, <1>1
<1> QED BY <1>1, <1>2, <1>6, <1>7 DEF Rank

-----------------------------------------------------------------------------
(* Functions defined by recursion.                                          *)

\* There is a function that starts at base and takes each step.
Stages(g, n, base, step) == g = [i \in 0..n |-> IF i = 0 THEN base ELSE step[<<i, g[i - 1]>>]]
LEMMA StagesExist == ASSUME NEW n \in Nat, NEW base, NEW step PROVE \E g : Stages(g, n, base, step)
<1> DEFINE G == {i \in Nat : \E g : Stages(g, i, base, step)}
<1>1. 0 \in G
  <2> DEFINE g == [i \in 0..0 |-> base]
  <2>1. Stages(g, 0, base, step)
    BY DEF Stages
  <2> QED BY <2>1
<1>2. ASSUME NEW k \in 1..n, k - 1 \in G PROVE k \in G
  <2>1. PICK g : Stages(g, k - 1, base, step)
    BY <1>2
  <2> DEFINE h == [i \in 0..k |-> IF i = 0 THEN base ELSE step[<<i, g[i - 1]>>]]
  <2>2. ASSUME NEW i \in 0..(k - 1) PROVE h[i] = g[i]
    BY <2>1 DEF Stages
  <2>3. ASSUME NEW i \in 0..k PROVE h[i] = IF i = 0 THEN base ELSE step[<<i, h[i - 1]>>]
    <3>1. CASE i = 0
      BY <3>1
    <3>2. CASE i # 0
      <4>1. i - 1 \in 0..(k - 1) /\ h[i] = step[<<i, g[i - 1]>>]
        BY <3>2
      <4>2. h[i - 1] = g[i - 1]
        BY <2>2, <4>1
      <4> HIDE DEF h
      <4> QED BY <3>2, <4>1, <4>2
    <3> QED BY <3>1, <3>2
  <2>4. h = [i \in 0..k |-> h[i]]
    OBVIOUS
  <2>5. Stages(h, k, base, step)
    <3> HIDE DEF h
    <3> QED BY <2>3, <2>4 DEF Stages
  <2> QED BY <2>5
<1>3. \A i \in 0..n : i \in G
  <2> HIDE DEF G
  <2> QED BY <1>1, <1>2, StageByStage
<1>4. n \in G
  BY <1>3
<1> QED BY <1>4

\* Where each step stays, every stage is.
Stays(step, n, V) == \A i \in 1..n : \A s \in V : step[<<i, s>>] \in V
Follows(g, n, base, step) == g[0] = base /\ \A i \in 1..n : g[i] = step[<<i, g[i - 1]>>]
LEMMA StagesStay ==
  ASSUME NEW n \in Nat, NEW V, NEW base \in V, NEW step, Stays(step, n, V)
  PROVE  \E g \in [0..n -> V] : Follows(g, n, base, step)
<1>0. PICK g : Stages(g, n, base, step)
  BY StagesExist
<1>1. DOMAIN g = 0..n /\ g = [i \in 0..n |-> g[i]] /\ g[0] = base
  BY <1>0 DEF Stages
<1>2. ASSUME NEW i \in 1..n PROVE g[i] = step[<<i, g[i - 1]>>]
  <2>1. i \in 0..n /\ i # 0
    OBVIOUS
  <2> QED BY <1>0, <2>1 DEF Stages
<1> DEFINE G == {i \in 0..n : g[i] \in V}
<1>3. ASSUME NEW i \in 1..n, i - 1 \in G PROVE i \in G
  <2>1. g[i - 1] \in V /\ i \in 0..n
    BY <1>3
  <2>2. step[<<i, g[i - 1]>>] \in V
    BY <2>1 DEF Stays
  <2> QED BY <1>2, <2>1, <2>2
<1>4. 0 \in G
  BY <1>1
<1>5. \A i \in 0..n : i \in G
  <2> HIDE DEF G
  <2> QED BY <1>3, <1>4, StageByStage
<1>6. \A i \in 0..n : g[i] \in V
  BY <1>5
<1>7. g \in [0..n -> V]
  BY <1>1, <1>6
<1>8. Follows(g, n, base, step)
  BY <1>1, <1>2 DEF Follows
<1> QED BY <1>7, <1>8

-----------------------------------------------------------------------------
(* Sums.                                                                    *)

\* Of the values w has for the members of S.
SumOf(w, S) == Sums!SumFunctionOnSet(w, S)

\* g is that sum for every part of S, as the library walks a part.
Walks(g, w, S) ==
  g = [s \in SUBSET S |-> IF s = {} THEN 0 ELSE w[CHOOSE x \in s : TRUE] + g[s \ {CHOOSE x \in s : TRUE}]]
\* g is the sum whichever is taken first.
Adds(g, w, S) ==
  /\ DOMAIN g = SUBSET S /\ g[{}] = 0
  /\ \A s \in SUBSET S : g[s] \in Int /\ \A x \in s : g[s] = w[x] + g[s \ {x}]

\* The sum of the parts of at most n.
WalksTo(g, w, S, n) ==
  g = [s \in {t \in SUBSET S : Cardinality(t) <= n} |->
         IF s = {} THEN 0 ELSE w[CHOOSE x \in s : TRUE] + g[s \ {CHOOSE x \in s : TRUE}]]
LEMMA WalkExists == ASSUME NEW S, IsFiniteSet(S), NEW w PROVE \E g : Walks(g, w, S)
<1> DEFINE G == {n \in Nat : \E g : WalksTo(g, w, S, n)}
<1>0. \A s \in SUBSET S : IsFiniteSet(s) /\ Cardinality(s) \in Nat /\ Cardinality(s) <= Cardinality(S)
  BY FS_Subset, FS_CardinalityType
<1>00. Cardinality(S) \in Nat
  BY FS_CardinalityType
<1>1. 0 \in G
  <2>1. \A s \in SUBSET S : Cardinality(s) <= 0 => s = {}
    BY <1>0, FS_EmptySet
  <2> DEFINE g == [s \in {t \in SUBSET S : Cardinality(t) <= 0} |-> 0]
  <2>2. \A s \in {t \in SUBSET S : Cardinality(t) <= 0} : s = {}
    BY <2>1
  <2>3. WalksTo(g, w, S, 0)
    BY <2>2 DEF WalksTo
  <2> QED BY <2>3
<1>2. ASSUME NEW n \in 1..Cardinality(S), n - 1 \in G PROVE n \in G
  <2>1. PICK g : WalksTo(g, w, S, n - 1)
    BY <1>2
  <2> DEFINE Small(k) == {t \in SUBSET S : Cardinality(t) <= k}
             rest(s) == s \ {CHOOSE x \in s : TRUE}
             h == [s \in Small(n) |-> IF s = {} THEN 0 ELSE w[CHOOSE x \in s : TRUE] + g[rest(s)]]
  <2>2. n - 1 \in Nat /\ n \in Nat
    BY <1>00
  <2>3. ASSUME NEW s \in Small(n), s # {} PROVE rest(s) \in Small(n - 1) /\ rest(s) \in Small(n)
    <3>1. (CHOOSE x \in s : TRUE) \in s
      BY <2>3
    <3>2. Cardinality(rest(s)) = Cardinality(s) - 1 /\ Cardinality(s) \in Nat
      BY <1>0, <3>1, OneLess
    <3> QED BY <2>2, <3>2
  <2>4. ASSUME NEW s \in Small(n - 1) PROVE h[s] = g[s]
    <3>1. s \in Small(n)
      BY <1>0, <2>2
    <3> QED BY <2>1, <3>1 DEF WalksTo
  <2>5. ASSUME NEW s \in Small(n) PROVE h[s] = IF s = {} THEN 0 ELSE w[CHOOSE x \in s : TRUE] + h[rest(s)]
    <3>1. CASE s = {}
      BY <3>1
    <3>2. CASE s # {}
      <4>1. h[s] = w[CHOOSE x \in s : TRUE] + g[rest(s)]
        BY <3>2
      <4>2. h[rest(s)] = g[rest(s)]
        <5> HIDE DEF h, rest, Small
        <5> QED BY <2>3, <2>4, <3>2
      <4> QED BY <3>2, <4>1, <4>2
    <3> QED BY <3>1, <3>2
  <2>6. h = [s \in Small(n) |-> h[s]]
    OBVIOUS
  <2>7. WalksTo(h, w, S, n)
    <3> HIDE DEF h
    <3> QED BY <2>5, <2>6 DEF WalksTo
  <2> QED BY <2>2, <2>7
<1>3. \A n \in 0..Cardinality(S) : n \in G
  <2> HIDE DEF G
  <2> QED BY <1>00, <1>1, <1>2, StageByStage
<1>4. PICK g : WalksTo(g, w, S, Cardinality(S))
  BY <1>00, <1>3
<1>5. {t \in SUBSET S : Cardinality(t) <= Cardinality(S)} = SUBSET S
  BY <1>0
<1>6. Walks(g, w, S)
  BY <1>4, <1>5 DEF Walks, WalksTo
<1> QED BY <1>6

LEMMA WalkAdds == ASSUME NEW S, IsFiniteSet(S), NEW w, \A x \in S : w[x] \in Int, NEW g, Walks(g, w, S) PROVE Adds(g, w, S)
<1> DEFINE Fine(s) == g[s] \in Int /\ \A x \in s : g[s] = w[x] + g[s \ {x}]
           G == {s \in SUBSET S : \A t \in SUBSET s : Fine(t)}
<1>1. {} \in G
  <2>1. Fine({})
    BY DEF Walks
  <2> HIDE DEF Fine
  <2> QED BY <2>1
<1>2. ASSUME NEW s \in SUBSET S, s # {}, \A x \in s : s \ {x} \in G PROVE s \in G
  <2>1. ASSUME NEW t \in SUBSET s, t # s PROVE Fine(t)
    <3>1. PICK x \in s : x \notin t
      BY <2>1
    <3>2. t \in SUBSET (s \ {x}) /\ s \ {x} \in G
      BY <1>2, <3>1
    <3> HIDE DEF Fine
    <3> QED BY <3>2
  <2>2. PICK c \in s : g[s] = w[c] + g[s \ {c}]
    <3>1. (CHOOSE x \in s : TRUE) \in s
      BY <1>2
    <3>2. g[s] = w[CHOOSE x \in s : TRUE] + g[s \ {CHOOSE x \in s : TRUE}]
      BY <1>2 DEF Walks
    <3> QED BY <3>1, <3>2
  <2>3. \A x \in s : Fine(s \ {x}) /\ w[x] \in Int
    <3> HIDE DEF Fine
    <3> QED BY <2>1
  <2>4. g[s] \in Int
    BY SMTT(20), <2>2, <2>3
  <2>5. ASSUME NEW x \in s PROVE g[s] = w[x] + g[s \ {x}]
    <3>1. CASE x = c
      BY <2>2, <3>1
    <3>2. CASE x # c
      <4>1. g[s \ {c}] = w[x] + g[(s \ {c}) \ {x}] /\ g[s \ {x}] = w[c] + g[(s \ {x}) \ {c}]
        BY <2>3, <3>2
      <4>2. (s \ {c}) \ {x} = (s \ {x}) \ {c}
        OBVIOUS
      <4>3. (s \ {c}) \ {x} \in SUBSET s /\ (s \ {c}) \ {x} # s
        OBVIOUS
      <4> DEFINE rest == g[(s \ {c}) \ {x}]
      <4>4. rest \in Int
        BY <2>1, <4>3
      <4>5. g[s] = w[c] + (w[x] + rest) /\ g[s \ {x}] = w[c] + rest /\ w[c] \in Int /\ w[x] \in Int
        BY <2>2, <2>3, <4>1, <4>2
      <4> HIDE DEF rest
      <4> QED BY <4>4, <4>5
    <3> QED BY <3>1, <3>2
  <2>6. Fine(s)
    BY <2>4, <2>5
  <2> HIDE DEF Fine
  <2> QED BY <2>1, <2>6
<1>3. \A s \in SUBSET S : s \in G
  <2> HIDE DEF G
  <2> QED BY <1>1, <1>2, OneByOne
<1>4. \A s \in SUBSET S : Fine(s)
  <2> HIDE DEF Fine
  <2> QED BY <1>3
<1> QED BY <1>4 DEF Adds, Walks

\* Two such sums are one, wherever both are.
LEMMA AddsAgree ==
  ASSUME NEW S, NEW T, NEW w, NEW v, NEW g, Adds(g, w, S), NEW h, Adds(h, v, T),
         NEW D, IsFiniteSet(D), D \subseteq S, D \subseteq T, \A x \in D : w[x] = v[x]
  PROVE  g[D] = h[D]
<1> DEFINE G == {s \in SUBSET D : g[s] = h[s]}
<1>1. {} \in G
  BY DEF Adds
<1>2. ASSUME NEW s \in SUBSET D, s # {}, \A x \in s : s \ {x} \in G PROVE s \in G
  <2>1. PICK x \in s : TRUE
    BY <1>2
  <2>2. g[s] = w[x] + g[s \ {x}] /\ h[s] = v[x] + h[s \ {x}]
    BY DEF Adds
  <2>3. g[s \ {x}] = h[s \ {x}] /\ w[x] = v[x]
    BY <1>2
  <2> QED BY <2>2, <2>3
<1>3. \A s \in SUBSET D : s \in G
  <2> HIDE DEF G
  <2> QED BY <1>1, <1>2, OneByOne
<1> QED BY <1>3

LEMMA SumWalks == ASSUME NEW S, IsFiniteSet(S), NEW w PROVE \E g : Walks(g, w, S) /\ SumOf(w, S) = g[S]
<1>1. PICK g : Walks(g, w, S)
  BY WalkExists
<1> QED BY <1>1 DEF SumOf, Walks, Sums!SumFunctionOnSet, Sums!FoldFunctionOnSet, Sums!MapThenFoldSet

LEMMA SumAdds ==
  ASSUME NEW S, IsFiniteSet(S), NEW w, \A x \in S : w[x] \in Int
  PROVE  \E g : Adds(g, w, S) /\ \A s \in SUBSET S : SumOf(w, s) = g[s]
<1>1. PICK g : Walks(g, w, S) /\ SumOf(w, S) = g[S]
  BY SumWalks
<1>2. Adds(g, w, S)
  BY <1>1, WalkAdds
<1>3. ASSUME NEW s \in SUBSET S PROVE SumOf(w, s) = g[s]
  <2>1. IsFiniteSet(s) /\ \A x \in s : w[x] \in Int
    BY FS_Subset
  <2>2. PICK h : Walks(h, w, s) /\ SumOf(w, s) = h[s]
    BY <2>1, SumWalks
  <2>3. Adds(h, w, s)
    BY <2>1, <2>2, WalkAdds
  <2>4. g[s] = h[s]
    BY <1>2, <2>1, <2>3, AddsAgree
  <2> QED BY <2>2, <2>4
<1> QED BY <1>2, <1>3

\* What the library comes to is the sum.
LEMMA WalkIsSum ==
  ASSUME NEW S, IsFiniteSet(S), NEW w, \A x \in S : w[x] \in Int, NEW g, Walks(g, w, S)
  PROVE  \A s \in SUBSET S : g[s] = SumOf(w, s)
<1>1. PICK h : Adds(h, w, S) /\ \A s \in SUBSET S : SumOf(w, s) = h[s]
  BY SumAdds
<1>2. Adds(g, w, S)
  BY WalkAdds
<1>3. ASSUME NEW s \in SUBSET S PROVE g[s] = h[s]
  <2>1. IsFiniteSet(s) /\ s \subseteq S /\ \A x \in s : w[x] = w[x]
    BY FS_Subset
  <2> QED BY <1>1, <1>2, <2>1, AddsAgree
<1> QED BY <1>1, <1>3

\* The sum of nothing is nothing, and any one may be taken out first.
LEMMA SumEmpty == ASSUME NEW w PROVE SumOf(w, {}) = 0
<1>1. IsFiniteSet({})
  BY FS_EmptySet
<1>2. PICK g : Walks(g, w, {}) /\ SumOf(w, {}) = g[{}]
  BY <1>1, SumWalks
<1> QED BY <1>2 DEF Walks

LEMMA SumTake ==
  ASSUME NEW S, IsFiniteSet(S), NEW w, \A x \in S : w[x] \in Int
  PROVE  SumOf(w, S) \in Int /\ \A x \in S : SumOf(w, S) = w[x] + SumOf(w, S \ {x})
<1>1. PICK g : Adds(g, w, S) /\ \A s \in SUBSET S : SumOf(w, s) = g[s]
  BY SumAdds
<1>2. S \in SUBSET S /\ \A x \in S : S \ {x} \in SUBSET S
  OBVIOUS
<1> QED BY <1>1, <1>2 DEF Adds

LEMMA SumOne == ASSUME NEW w, NEW x, w[x] \in Int PROVE SumOf(w, {x}) = w[x]
<1>1. IsFiniteSet({x}) /\ {x} \ {x} = {}
  BY FS_Singleton
<1>2. SumOf(w, {x}) = w[x] + SumOf(w, {x} \ {x})
  BY <1>1, SumTake
<1> QED BY <1>1, <1>2, SumEmpty

\* Sums of the same are the same.
LEMMA SumSame ==
  ASSUME NEW S, IsFiniteSet(S), NEW w, NEW v, \A x \in S : w[x] \in Int /\ v[x] = w[x] PROVE SumOf(w, S) = SumOf(v, S)
<1>1. PICK g : Adds(g, w, S) /\ \A s \in SUBSET S : SumOf(w, s) = g[s]
  BY SumAdds
<1>2. PICK h : Adds(h, v, S) /\ \A s \in SUBSET S : SumOf(v, s) = h[s]
  BY SumAdds
<1>a. S \subseteq S /\ \A x \in S : w[x] = v[x]
  OBVIOUS
<1>b. Adds(g, w, S) /\ Adds(h, v, S)
  BY <1>1, <1>2
<1>3. g[S] = h[S]
  BY <1>a, <1>b, AddsAgree
<1>4. S \in SUBSET S
  OBVIOUS
<1> QED BY <1>1, <1>2, <1>3, <1>4

\* The sum of what is apart is the sum of the sums.
LEMMA SumJoined ==
  ASSUME NEW S, IsFiniteSet(S), NEW w, \A x \in S : w[x] \in Int,
         NEW A \in SUBSET S, NEW B \in SUBSET S, A \cap B = {}
  PROVE  SumOf(w, A \cup B) = SumOf(w, A) + SumOf(w, B)
<1>1. PICK g : Adds(g, w, S) /\ \A s \in SUBSET S : SumOf(w, s) = g[s]
  BY SumAdds
<1> DEFINE G == {s \in SUBSET B : g[A \cup s] = g[A] + g[s]}
<1>2. {} \in G
  <2>1. A \cup {} = A /\ g[A] \in Int /\ g[{}] = 0
    BY <1>1 DEF Adds
  <2> QED BY <2>1
<1>3. ASSUME NEW s \in SUBSET B, s # {}, \A x \in s : s \ {x} \in G PROVE s \in G
  <2>1. PICK x \in s : TRUE
    BY <1>3
  <2>2. g[A \cup s] = w[x] + g[(A \cup s) \ {x}] /\ g[s] = w[x] + g[s \ {x}]
    BY <1>1 DEF Adds
  <2>3. (A \cup s) \ {x} = A \cup (s \ {x})
    OBVIOUS
  <2>4. g[A \cup (s \ {x})] = g[A] + g[s \ {x}]
    BY <1>3
  <2>5. w[x] \in Int /\ g[A] \in Int /\ g[s \ {x}] \in Int
    BY <1>1 DEF Adds
  <2>6. g[A \cup s] = w[x] + (g[A] + g[s \ {x}])
    BY <2>2, <2>3, <2>4
  <2>7. g[A \cup s] = g[A] + g[s]
    BY <2>2, <2>5, <2>6
  <2> QED BY <2>7
<1>4. IsFiniteSet(B)
  BY FS_Subset
<1>5. \A s \in SUBSET B : s \in G
  <2> HIDE DEF G
  <2> QED BY <1>2, <1>3, <1>4, OneByOne
<1>6. B \in G /\ A \cup B \in SUBSET S
  BY <1>5
<1> QED BY <1>1, <1>6

\* A sum over what is shared out is the sum of the shares.
LEMMA SumShared ==
  ASSUME NEW S, IsFiniteSet(S), NEW w, \A x \in S : w[x] \in Int,
         NEW R, IsFiniteSet(R), NEW share \in [R -> SUBSET S], \A r, o \in R : r # o => share[r] \cap share[o] = {},
         NEW u, \A r \in R : u[r] = SumOf(w, share[r])
  PROVE  SumOf(u, R) = SumOf(w, UNION {share[r] : r \in R})
<1> DEFINE Of(Q) == UNION {share[r] : r \in Q}
           G == {Q \in SUBSET R : SumOf(u, Q) = SumOf(w, Of(Q))}
<1>1. {} \in G
  <2>1. Of({}) = {}
    OBVIOUS
  <2> QED BY <2>1, SumEmpty
<1>2. \A s \in SUBSET S : SumOf(w, s) \in Int
  BY SumTake, FS_Subset
<1>3. \A r \in R : u[r] \in Int
  BY <1>2
<1>4. ASSUME NEW Q \in SUBSET R, Q # {}, \A r \in Q : Q \ {r} \in G PROVE Q \in G
  <2>1. PICK r \in Q : TRUE
    BY <1>4
  <2>2. IsFiniteSet(Q) /\ \A o \in Q : u[o] \in Int
    BY <1>3, FS_Subset
  <2>3. SumOf(u, Q) = u[r] + SumOf(u, Q \ {r})
    BY <2>2, SumTake
  <2>4. PICK A, B : A = share[r] /\ B = Of(Q \ {r})
    OBVIOUS
  <2>5. Of(Q) = A \cup B /\ A \cap B = {} /\ A \in SUBSET S /\ B \in SUBSET S
    BY <2>4
  <2>6. SumOf(w, A \cup B) = SumOf(w, A) + SumOf(w, B)
    BY <2>5, SumJoined
  <2>7. SumOf(u, Q \ {r}) = SumOf(w, B) /\ u[r] = SumOf(w, A)
    BY <1>4, <2>4
  <2> HIDE DEF Of
  <2>8. SumOf(u, Q) = SumOf(w, Of(Q))
    BY <2>3, <2>5, <2>6, <2>7
  <2> QED BY <2>8
<1>5. \A Q \in SUBSET R : Q \in G
  <2> HIDE DEF G
  <2> QED BY <1>1, <1>4, OneByOne
<1>6. R \in G
  BY <1>5
<1> QED BY <1>6

\* Of each so many times as much, so many times as much.
LEMMA TimesSum == \A k, i, j \in Int : k * (i + j) = k * i + k * j /\ k * i \in Int /\ k * 0 = 0
OBVIOUS
LEMMA SumScaled ==
  ASSUME NEW S, IsFiniteSet(S), NEW v, \A x \in S : v[x] \in Int, NEW k \in Int, NEW w, \A x \in S : w[x] = k * v[x]
  PROVE  SumOf(w, S) = k * SumOf(v, S)
<1>0. \A x \in S : w[x] \in Int
  BY TimesSum
<1>1. PICK g : Adds(g, w, S) /\ \A s \in SUBSET S : SumOf(w, s) = g[s]
  BY <1>0, SumAdds
<1>2. PICK h : Adds(h, v, S) /\ \A s \in SUBSET S : SumOf(v, s) = h[s]
  BY SumAdds
<1> DEFINE G == {s \in SUBSET S : g[s] = k * h[s]}
<1>3. {} \in G
  BY <1>1, <1>2, TimesSum DEF Adds
<1>4. ASSUME NEW s \in SUBSET S, s # {}, \A x \in s : s \ {x} \in G PROVE s \in G
  <2>1. PICK x \in s : TRUE
    BY <1>4
  <2>2. g[s] = w[x] + g[s \ {x}] /\ h[s] = v[x] + h[s \ {x}] /\ w[x] = k * v[x] /\ g[s \ {x}] = k * h[s \ {x}]
    BY <1>1, <1>2, <1>4 DEF Adds
  <2>3. v[x] \in Int /\ h[s \ {x}] \in Int
    BY <1>2 DEF Adds
  <2>4. k * h[s] = k * v[x] + k * h[s \ {x}]
    BY <2>2, <2>3, TimesSum
  <2>5. g[s] = k * h[s]
    BY <2>2, <2>4
  <2> QED BY <2>5
<1>5. \A s \in SUBSET S : s \in G
  <2> HIDE DEF G
  <2> QED BY <1>3, <1>4, OneByOne
<1>6. S \in G
  BY <1>5
<1> QED BY <1>1, <1>2, <1>6

\* Of numbers that are not negative, one that is not.
LEMMA SumOfNat == ASSUME NEW S, IsFiniteSet(S), NEW w, \A x \in S : w[x] \in Nat PROVE SumOf(w, S) \in Nat
<1>1. PICK g : Adds(g, w, S) /\ \A s \in SUBSET S : SumOf(w, s) = g[s]
  BY SumAdds
<1> DEFINE G == {s \in SUBSET S : g[s] \in Nat}
<1>2. {} \in G
  BY <1>1 DEF Adds
<1>3. ASSUME NEW s \in SUBSET S, s # {}, \A x \in s : s \ {x} \in G PROVE s \in G
  <2>1. PICK x \in s : TRUE
    BY <1>3
  <2>2. g[s] = w[x] + g[s \ {x}] /\ w[x] \in Nat /\ g[s \ {x}] \in Nat
    BY <1>1, <1>3 DEF Adds
  <2> QED BY <2>2
<1>4. \A s \in SUBSET S : s \in G
  <2> HIDE DEF G
  <2> QED BY <1>2, <1>3, OneByOne
<1>5. S \in G
  BY <1>4
<1> QED BY <1>1, <1>5

\* Of nothings, nothing; and of numbers that are nothing but for some, of those.
LEMMA SumZero == ASSUME NEW S, IsFiniteSet(S), NEW w, \A x \in S : w[x] = 0 PROVE SumOf(w, S) = 0
<1>1. PICK g : Adds(g, w, S) /\ \A s \in SUBSET S : SumOf(w, s) = g[s]
  BY SumAdds
<1> DEFINE G == {s \in SUBSET S : g[s] = 0}
<1>2. {} \in G
  BY <1>1 DEF Adds
<1>3. ASSUME NEW s \in SUBSET S, s # {}, \A x \in s : s \ {x} \in G PROVE s \in G
  <2>1. PICK x \in s : TRUE
    BY <1>3
  <2>2. g[s] = w[x] + g[s \ {x}] /\ w[x] = 0 /\ g[s \ {x}] = 0
    BY <1>1, <1>3, <2>1 DEF Adds
  <2> QED BY <2>2
<1>4. \A s \in SUBSET S : s \in G
  <2> HIDE DEF G
  <2> QED BY <1>2, <1>3, OneByOne
<1>5. S \in G
  BY <1>4
<1> QED BY <1>1, <1>5

LEMMA SumWithin ==
  ASSUME NEW S, IsFiniteSet(S), NEW w, \A x \in S : w[x] \in Int, NEW D \in SUBSET S, \A x \in S \ D : w[x] = 0
  PROVE  SumOf(w, S) = SumOf(w, D)
<1>1. S \ D \in SUBSET S /\ D \cap (S \ D) = {} /\ D \cup (S \ D) = S /\ IsFiniteSet(S \ D) /\ IsFiniteSet(D)
  BY FS_Subset
<1>2. SumOf(w, S) = SumOf(w, D) + SumOf(w, S \ D)
  BY <1>1, SumJoined
<1>3. SumOf(w, S \ D) = 0
  BY <1>1, SumZero
<1>4. SumOf(w, D) \in Int
  BY <1>1, SumTake
<1> QED BY <1>2, <1>3, <1>4

\* Of finitely many, one whose number no other's is above.
LEMMA GreatestOfSome ==
  ASSUME NEW S, IsFiniteSet(S), S # {}, NEW w, \A x \in S : w[x] \in Int PROVE \E k \in S : \A o \in S : w[o] <= w[k]
<1> DEFINE G == {s \in SUBSET S : s # {} => \E k \in s : \A o \in s : w[o] <= w[k]}
<1>1. {} \in G
  OBVIOUS
<1>2. ASSUME NEW s \in SUBSET S, s # {}, \A x \in s : s \ {x} \in G PROVE s \in G
  <2>1. PICK x \in s : TRUE
    BY <1>2
  <2>2. CASE s \ {x} = {}
    <3>1. \A o \in s : o = x
      BY <2>2
    <3>2. w[x] <= w[x]
      OBVIOUS
    <3> QED BY <3>1, <3>2
  <2>3. CASE s \ {x} # {}
    <3>1. PICK k \in s \ {x} : \A o \in s \ {x} : w[o] <= w[k]
      BY <1>2, <2>3
    <3>2. CASE w[x] <= w[k]
      BY <3>1, <3>2
    <3>3. CASE ~(w[x] <= w[k])
      <4>1. \A o \in s : w[o] <= w[x]
        BY <3>1, <3>3
      <4> QED BY <4>1
    <3> QED BY <3>2, <3>3
  <2> QED BY <2>2, <2>3
<1>3. \A s \in SUBSET S : s \in G
  <2> HIDE DEF G
  <2> QED BY <1>1, <1>2, OneByOne
<1>4. S \in G
  BY <1>3
<1> QED BY <1>4
-----------------------------------------------------------------------------
(* Lists, and what a list joined of lists holds.                            *)

AsList(s) == s \in Seq({s[i] : i \in DOMAIN s})

LEMMA ListIsOne == ASSUME NEW T, NEW s \in Seq(T) PROVE AsList(s)
<1>1. Len(s) \in Nat /\ DOMAIN s = 1..Len(s) /\ s = [i \in 1..Len(s) |-> s[i]]
  OBVIOUS
<1> QED BY <1>1 DEF AsList

LEMMA ListOf == ASSUME NEW T, NEW s, AsList(s), \A i \in DOMAIN s : s[i] \in T PROVE s \in Seq(T)
<1>1. Len(s) \in Nat /\ DOMAIN s = 1..Len(s) /\ s = [i \in 1..Len(s) |-> s[i]]
  BY DEF AsList
<1> QED BY <1>1

LEMMA BuiltList == ASSUME NEW n \in Nat, NEW s, DOMAIN s = 1..n, s = [i \in 1..n |-> s[i]] PROVE AsList(s) /\ Len(s) = n
<1> DEFINE T == {s[i] : i \in DOMAIN s}
<1>1. \A i \in 1..n : s[i] \in T
  OBVIOUS
<1> HIDE DEF T
<1>2. s \in Seq(T)
  BY <1>1
<1>3. Len(s) = n
  BY <1>2
<1> QED BY <1>2, <1>3 DEF AsList, T

\* The library's flattening walks its list with a function there is.
Strings(g, ss, n) == g = [i \in 1..n |-> IF i = 1 THEN ss[i] ELSE g[i - 1] \o ss[i]]
LEMMA StringsExist == ASSUME NEW ss, NEW n \in Nat PROVE \E g : Strings(g, ss, n)
<1> DEFINE Short == {k \in Nat : ~\E g : Strings(g, ss, k)}
<1>1. SUFFICES ASSUME Short # {} PROVE FALSE
  OBVIOUS
<1>2. PICK k \in Short : \A j \in Short : k <= j
  BY <1>1, LeastOfSome
<1>3. k # 0
  <2>1. Strings([i \in 1..0 |-> ss], ss, 0)
    BY DEF Strings
  <2> QED BY <1>2, <2>1
<1>4. PICK g : Strings(g, ss, k - 1)
  <2>1. k - 1 \in Nat /\ ~(k <= k - 1)
    BY <1>2, <1>3
  <2>2. k - 1 \notin Short
    BY <1>2, <2>1
  <2> QED BY <2>1, <2>2
<1> DEFINE h == [i \in 1..k |-> IF i = k THEN (IF k = 1 THEN ss[k] ELSE g[k - 1] \o ss[k]) ELSE g[i]]
<1>5. Strings(h, ss, k)
  <2>1. ASSUME NEW i \in 1..k PROVE h[i] = IF i = 1 THEN ss[i] ELSE h[i - 1] \o ss[i]
    <3>1. CASE i = k /\ k = 1
      BY <3>1
    <3>2. CASE i = k /\ k # 1
      <4>1. h[i - 1] = g[k - 1]
        BY <1>2, <3>2
      <4> QED BY <3>2, <4>1
    <3>3. CASE i # k /\ i = 1
      BY <1>2, <1>4, <3>3 DEF Strings
    <3>4. CASE i # k /\ i # 1
      <4>1. i \in 1..(k - 1) /\ i - 1 \in 1..k /\ i - 1 # k
        BY <1>2, <3>4
      <4>2. h[i] = g[i] /\ h[i - 1] = g[i - 1]
        BY <3>4, <4>1
      <4>3. g[i] = g[i - 1] \o ss[i]
        BY <1>4, <3>4, <4>1 DEF Strings
      <4> QED BY <3>4, <4>2, <4>3
    <3> QED BY <3>1, <3>2, <3>3, <3>4
  <2>2. h = [i \in 1..k |-> h[i]]
    OBVIOUS
  <2> HIDE DEF h
  <2> QED BY <2>1, <2>2 DEF Strings
<1> QED BY <1>2, <1>5

\* Two entries of a list of lists: in different ones, or apart in one.
PlacesIn(ss) == {p \in Nat \X Nat : p[1] \in DOMAIN ss /\ p[2] \in DOMAIN ss[p[1]]}
\* A list has what those up to the n-th have, each place of it from a place of its own.
Flattens(t, ss, n) ==
  /\ \A k \in DOMAIN t : \E i \in 1..n : \E j \in DOMAIN ss[i] : t[k] = ss[i][j]
  /\ \A i \in 1..n : \A j \in DOMAIN ss[i] : \E k \in DOMAIN t : t[k] = ss[i][j]
  /\ \A k, l \in DOMAIN t : k # l =>
       \E p, q \in PlacesIn(ss) : p # q /\ t[k] = ss[p[1]][p[2]] /\ t[l] = ss[q[1]][q[2]]

LEMMA OneListFlattens ==
  ASSUME NEW S, NEW ss \in Seq(Seq(S)), Len(ss) # 0
  PROVE  ss[1] \in Seq(S) /\ Flattens(ss[1], ss, 1)
<1>1. 1 \in DOMAIN ss /\ ss[1] \in Seq(S)
  OBVIOUS
<1>2. ASSUME NEW k \in DOMAIN ss[1], NEW l \in DOMAIN ss[1], k # l
      PROVE  \E p, q \in PlacesIn(ss) : p # q /\ ss[1][k] = ss[p[1]][p[2]] /\ ss[1][l] = ss[q[1]][q[2]]
  <2>1. k \in Nat /\ l \in Nat
    BY <1>1
  <2>2. <<1, k>> \in PlacesIn(ss) /\ <<1, l>> \in PlacesIn(ss) /\ <<1, k>> # <<1, l>>
    BY <1>1, <1>2, <2>1 DEF PlacesIn
  <2> QED BY <2>2
<1> QED BY <1>1, <1>2 DEF Flattens

LEMMA NextListFlattens ==
  ASSUME NEW S, NEW ss \in Seq(Seq(S)), NEW n \in 1..Len(ss), n # 1, NEW t \in Seq(S), Flattens(t, ss, n - 1)
  PROVE  t \o ss[n] \in Seq(S) /\ Flattens(t \o ss[n], ss, n)
<1>1. ss[n] \in Seq(S) /\ n \in DOMAIN ss /\ n \in Nat /\ n - 1 \in Nat /\ Len(ss) \in Nat
  OBVIOUS
<1> DEFINE u == ss[n]
           w == t \o u
<1>2. /\ w \in Seq(S) /\ Len(t) \in Nat /\ Len(u) \in Nat /\ DOMAIN t = 1..Len(t) /\ DOMAIN u = 1..Len(u)
      /\ DOMAIN w = 1..(Len(t) + Len(u))
      /\ \A k \in DOMAIN w : w[k] = IF k <= Len(t) THEN t[k] ELSE u[k - Len(t)]
  BY <1>1
<1>3. ASSUME NEW k \in DOMAIN w
      PROVE  (k \in DOMAIN t /\ w[k] = t[k]) \/ (k - Len(t) \in DOMAIN u /\ w[k] = u[k - Len(t)] /\ k \notin DOMAIN t)
  BY <1>2, <1>3
<1>4. \A k \in DOMAIN t : k \in DOMAIN w /\ w[k] = t[k]
  BY <1>2
<1>5. \A j \in DOMAIN u : Len(t) + j \in DOMAIN w /\ w[Len(t) + j] = u[j]
  BY SMTT(20), <1>2
<1> HIDE DEF u, w
<1>6. ASSUME NEW k \in DOMAIN w PROVE \E i \in 1..n : \E j \in DOMAIN ss[i] : w[k] = ss[i][j]
  <2>1. CASE k \in DOMAIN t /\ w[k] = t[k]
    <3>1. PICK i \in 1..(n - 1) : \E j \in DOMAIN ss[i] : t[k] = ss[i][j]
      BY <2>1 DEF Flattens
    <3>2. i \in 1..n
      BY <1>1
    <3> QED BY <2>1, <3>1, <3>2
  <2>2. CASE k - Len(t) \in DOMAIN u /\ w[k] = u[k - Len(t)]
    <3>1. n \in 1..n
      BY <1>1
    <3> QED BY <2>2, <3>1 DEF u
  <2> QED BY <1>3, <2>1, <2>2
<1>7. ASSUME NEW i \in 1..n, NEW j \in DOMAIN ss[i] PROVE \E k \in DOMAIN w : w[k] = ss[i][j]
  <2>1. CASE i = n
    BY <1>5, <2>1 DEF u
  <2>2. CASE i # n
    <3>1. i \in 1..(n - 1)
      BY <1>1, <2>2
    <3>2. PICK k \in DOMAIN t : t[k] = ss[i][j]
      BY <3>1 DEF Flattens
    <3> QED BY <1>4, <3>2
  <2> QED BY <2>1, <2>2
<1> DEFINE From(k, p) == p \in PlacesIn(ss) /\ w[k] = ss[p[1]][p[2]]
<1>8. ASSUME NEW k \in DOMAIN w, k \in DOMAIN t /\ w[k] = t[k] PROVE \E p : From(k, p) /\ p[1] # n
  <2>1. PICK i \in 1..(n - 1) : \E j \in DOMAIN ss[i] : t[k] = ss[i][j]
    BY <1>8 DEF Flattens
  <2>2. PICK j \in DOMAIN ss[i] : t[k] = ss[i][j]
    BY <2>1
  <2>3. i \in 1..Len(ss) /\ i \in DOMAIN ss /\ i \in Nat /\ i # n
    BY <1>1
  <2>4. ss[i] \in Seq(S)
    BY <2>3
  <2>5. j \in Nat
    BY <2>2, <2>4
  <2>6. <<i, j>> \in PlacesIn(ss)
    BY <2>2, <2>3, <2>5 DEF PlacesIn
  <2>7. From(k, <<i, j>>)
    BY <1>8, <2>2, <2>6
  <2>8. <<i, j>>[1] # n
    BY <2>3
  <2> HIDE DEF From
  <2> QED BY <2>7, <2>8
<1>9. ASSUME NEW k \in DOMAIN w, k - Len(t) \in DOMAIN u /\ w[k] = u[k - Len(t)] PROVE From(k, <<n, k - Len(t)>>)
  <2>1. k - Len(t) \in Nat
    BY <1>2, <1>9
  <2> QED BY <1>1, <1>9, <2>1 DEF PlacesIn, u
<1>10. ASSUME NEW k \in DOMAIN w, NEW l \in DOMAIN w, k # l PROVE \E p, q : p # q /\ From(k, p) /\ From(l, q)
  <2>1. CASE (k \in DOMAIN t /\ w[k] = t[k]) /\ (l \in DOMAIN t /\ w[l] = t[l])
    BY <1>10, <2>1 DEF Flattens
  <2>2. CASE (k \in DOMAIN t /\ w[k] = t[k]) /\ (l - Len(t) \in DOMAIN u /\ w[l] = u[l - Len(t)])
    <3>1. PICK p : From(k, p) /\ p[1] # n
      BY <1>8, <2>2
    <3>2. From(l, <<n, l - Len(t)>>) /\ p # <<n, l - Len(t)>>
      BY <1>9, <2>2, <3>1
    <3> QED BY <3>1, <3>2
  <2>3. CASE (l \in DOMAIN t /\ w[l] = t[l]) /\ (k - Len(t) \in DOMAIN u /\ w[k] = u[k - Len(t)])
    <3>1. PICK p : From(l, p) /\ p[1] # n
      BY <1>8, <2>3
    <3>2. From(k, <<n, k - Len(t)>>) /\ p # <<n, k - Len(t)>>
      BY <1>9, <2>3, <3>1
    <3> QED BY <3>1, <3>2
  <2>4. CASE (k - Len(t) \in DOMAIN u /\ w[k] = u[k - Len(t)]) /\ (l - Len(t) \in DOMAIN u /\ w[l] = u[l - Len(t)])
    <3>1. From(k, <<n, k - Len(t)>>) /\ From(l, <<n, l - Len(t)>>)
      BY <1>9, <2>4
    <3>2. <<n, k - Len(t)>> # <<n, l - Len(t)>>
      BY <1>2, <1>10
    <3> QED BY <3>1, <3>2
  <2> QED BY <1>3, <2>1, <2>2, <2>3, <2>4
<1>11. w \in Seq(S)
  BY <1>2
<1>12. Flattens(w, ss, n)
  BY <1>6, <1>7, <1>10 DEF Flattens
<1> QED BY <1>11, <1>12 DEF w, u

\* What flattening comes to.
LEMMA Flattened ==
  ASSUME NEW S, NEW ss \in Seq(Seq(S))
  PROVE  Strung!FlattenSeq(ss) \in Seq(S) /\ Flattens(Strung!FlattenSeq(ss), ss, Len(ss))
<1>1. CASE Len(ss) = 0
  <2>1. Strung!FlattenSeq(ss) = ss /\ ss = <<>>
    BY <1>1 DEF Strung!FlattenSeq
  <2> QED BY <1>1, <2>1 DEF Flattens
<1>2. CASE Len(ss) # 0
  <2>0. Len(ss) \in Nat
    OBVIOUS
  <2>1. \E g : Strings(g, ss, Len(ss))
    BY <2>0, StringsExist
  <2>2. PICK h : h = [i \in 1..Len(ss) |-> IF i = 1 THEN ss[i] ELSE h[i - 1] \o ss[i]] /\ Strung!FlattenSeq(ss) = h[Len(ss)]
    BY <1>2, <2>1 DEF Strung!FlattenSeq, Strings
  <2> DEFINE Wrong == {n \in 1..Len(ss) : ~(h[n] \in Seq(S) /\ Flattens(h[n], ss, n))}
  <2>3. ASSUME Wrong # {} PROVE FALSE
    <3>1. Wrong \in SUBSET Nat
      OBVIOUS
    <3>2. PICK n \in Wrong : \A m \in Wrong : n <= m
      BY <2>3, <3>1, LeastOfSome
    <3>3. CASE n = 1
      <4>1. h[1] = ss[1]
        BY <1>2, <2>2, <3>2, <3>3
      <4> QED BY <1>2, <3>2, <3>3, <4>1, OneListFlattens
    <3>4. CASE n # 1
      <4>1. n - 1 \in 1..Len(ss) /\ n - 1 \notin Wrong
        BY <3>2, <3>4
      <4>2. h[n] = h[n - 1] \o ss[n]
        BY <2>2, <3>2, <3>4
      <4>3. h[n - 1] \in Seq(S) /\ Flattens(h[n - 1], ss, n - 1)
        BY <4>1
      <4> HIDE DEF Wrong
      <4>4. n \in 1..Len(ss)
        BY <3>2 DEF Wrong
      <4>5. h[n] \in Seq(S) /\ Flattens(h[n], ss, n)
        BY <3>4, <4>2, <4>3, <4>4, NextListFlattens
      <4> QED BY <3>2, <4>5 DEF Wrong
    <3> QED BY <3>3, <3>4
  <2>4. Len(ss) \in 1..Len(ss)
    BY <1>2
  <2> QED BY <2>2, <2>3, <2>4
<1> QED BY <1>1, <1>2
=============================================================================
