---------------------------- MODULE FoldTheorems ----------------------------
(***************************************************************************)
(* Folds, and among them sums of the values of a function over a finite set, *)
(* as the contracts' balances, escrows and volumes are summed:              *)
(* SumFunctionOnSet of the community modules folds over the set in an order *)
(* of its choice.                                                           *)
(*                                                                         *)
(* What a fold computes is found by induction over finite sets, for which a *)
(* smallest counterexample is taken among the subsets (SmallestSet).        *)
(***************************************************************************)
EXTENDS Integers, FiniteSets, Functions, FiniteSetTheorems, TLAPS

\* Among some finite sets there is one that contains no other of them.
LEMMA SmallestSet ==
    ASSUME NEW S, IsFiniteSet(S), NEW B, B \subseteq SUBSET S, B # {}
    PROVE  \E m \in B : \A s \in B : s \subseteq m => s = m
<1>1. IsWellFoundedOn(StrictSubsetOrdering(S), SUBSET S)
  BY FS_StrictSubsetOrderingWellFounded, FS_FiniteSubsetsOfFinite
<1>2. PICK m \in B : \A s \in B : ~(<<s, m>> \in StrictSubsetOrdering(S))
  BY <1>1, WFMin
<1> QED
  BY <1>2 DEF StrictSubsetOrdering

LEMMA SmallestNumber ==
    ASSUME NEW B, B \subseteq Nat, B # {}
    PROVE  \E m \in B : \A x \in B : m <= x
<1>1. PICK m \in B : \A x \in B : ~(<<x, m>> \in OpToRel(<, Nat))
  BY NatLessThanWellFounded, WFMin
<1>2. \A x \in B : ~(x < m)
  BY <1>1 DEF OpToRel
<1> QED
  BY <1>2

-----------------------------------------------------------------------------
(* Any fold over a finite set: from base, each element taken, last[s] from s, *)
(* takes a step from a result in R to a result in R.                        *)

Steps(g, S, base, step, last) ==
    \A s \in SUBSET S :
      g[s] = IF s = {} THEN base ELSE step[last[s]][g[s \ {last[s]}]]

\* Right on the sets of fewer than n elements
StepsTo(S, R, base, step, last, g, n) ==
    /\ g \in [SUBSET S -> R]
    /\ \A s \in SUBSET S : Cardinality(s) < n =>
         g[s] = IF s = {} THEN base ELSE step[last[s]][g[s \ {last[s]}]]

\* The recursion has a solution.
LEMMA StepsExist ==
    ASSUME NEW S, IsFiniteSet(S), NEW R, NEW base \in R,
           NEW step \in [S -> [R -> R]], NEW last,
           \A s \in SUBSET S : s # {} => last[s] \in s
    PROVE  \E g \in [SUBSET S -> R] : Steps(g, S, base, step, last)
<1>1. \A s \in SUBSET S :
        /\ Cardinality(s) \in Nat /\ Cardinality(s) <= Cardinality(S)
        /\ Cardinality(s) = 0 => s = {}
        /\ s # {} => Cardinality(s \ {last[s]}) = Cardinality(s) - 1
  BY FS_Subset, FS_CardinalityType, FS_EmptySet, FS_RemoveElement
<1>c. \A s \in SUBSET S : Cardinality(s) \in Nat /\ Cardinality(s) <= Cardinality(S)
  BY <1>1
<1> DEFINE B == {n \in Nat : ~\E g : StepsTo(S, R, base, step, last, g, n)}
<1>2. B = {}
  <2> SUFFICES ASSUME B # {} PROVE FALSE
    OBVIOUS
  <2>1. PICK n \in B : \A x \in B : n <= x
    BY SmallestNumber
  <2>2. n # 0
    <3>1. \A s \in SUBSET S : ~(Cardinality(s) < 0)
      BY <1>c
    <3>2. [s \in SUBSET S |-> base] \in [SUBSET S -> R]
      OBVIOUS
    <3>3. StepsTo(S, R, base, step, last, [s \in SUBSET S |-> base], 0)
      BY <3>1, <3>2 DEF StepsTo
    <3> QED
      BY <3>3
  <2>3. n - 1 \in Nat /\ n - 1 \notin B
    BY <2>1, <2>2
  <2>4. PICK g : StepsTo(S, R, base, step, last, g, n - 1)
    BY <2>3
  <2> DEFINE h == [s \in SUBSET S |->
                    IF s = {} THEN base ELSE step[last[s]][g[s \ {last[s]}]]]
  <2>5. h \in [SUBSET S -> R]
    <3>1. ASSUME NEW s \in SUBSET S, s # {}
          PROVE  step[last[s]][g[s \ {last[s]}]] \in R
      <4>1. last[s] \in S /\ s \ {last[s]} \in SUBSET S
        BY <3>1
      <4>2. g[s \ {last[s]}] \in R
        BY <2>4, <4>1 DEF StepsTo
      <4> QED
        BY <4>1, <4>2
    <3> QED
      BY <3>1
  <2>6. \A s \in SUBSET S : Cardinality(s) < n - 1 => h[s] = g[s]
    BY <2>4 DEF StepsTo
  <2>7. ASSUME NEW s \in SUBSET S, Cardinality(s) < n
        PROVE  h[s] = IF s = {} THEN base ELSE step[last[s]][h[s \ {last[s]}]]
    <3>1. CASE s = {}
      BY <3>1
    <3>2. CASE s # {}
      <4>1. s \ {last[s]} \in SUBSET S /\ Cardinality(s \ {last[s]}) < n - 1
        BY <1>1, <2>1, <2>7, <3>2
      <4>2. h[s \ {last[s]}] = g[s \ {last[s]}]
        BY <2>6, <4>1
      <4>3. h[s] = step[last[s]][g[s \ {last[s]}]]
        BY <3>2
      <4> HIDE DEF h
      <4> QED
        BY <3>2, <4>2, <4>3
    <3> QED
      BY <3>1, <3>2
  <2> HIDE DEF h
  <2>8. StepsTo(S, R, base, step, last, h, n)
    BY <2>5, <2>7 DEF StepsTo
  <2> QED
    BY <2>1, <2>8
<1>3. PICK n \in Nat : n = Cardinality(S)
  BY <1>c
<1>4. PICK g : StepsTo(S, R, base, step, last, g, n + 1)
  <2>1. n + 1 \in Nat
    OBVIOUS
  <2>2. n + 1 \notin B
    BY <1>2
  <2> QED
    BY <2>1, <2>2
<1>5. \A s \in SUBSET S : Cardinality(s) < n + 1
  BY <1>c, <1>3
<1> QED
  BY <1>4, <1>5 DEF StepsTo, Steps

\* What every step keeps holds of the result.
LEMMA StepsKeep ==
    ASSUME NEW S, IsFiniteSet(S), NEW R, NEW g, NEW last,
           \A s \in SUBSET S : s # {} => last[s] \in s,
           g[{}] \in R,
           \A s \in SUBSET S : s # {} /\ g[s \ {last[s]}] \in R => g[s] \in R
    PROVE  g[S] \in R
<1> DEFINE B == {s \in SUBSET S : g[s] \notin R}
<1>1. B = {}
  <2> SUFFICES ASSUME B # {} PROVE FALSE
    OBVIOUS
  <2>1. PICK m \in B : \A s \in B : s \subseteq m => s = m
    <3>1. B \subseteq SUBSET S
      OBVIOUS
    <3> HIDE DEF B
    <3> QED
      BY <3>1, SmallestSet
  <2>2. m # {} /\ last[m] \in m
    OBVIOUS
  <2>3. m \ {last[m]} \in SUBSET S /\ m \ {last[m]} \notin B
    BY <2>1, <2>2
  <2> QED
    BY <2>2, <2>3
<1>2. S \notin B
  BY <1>1
<1> QED
  BY <1>2

\* Of the numbers up to another, some are taken away last.
LEMMA Largest ==
    ASSUME NEW n \in Nat, NEW s \in SUBSET (1 .. n), s # {}
    PROVE  \E x \in s : \A y \in s : x >= y
<1> DEFINE B == {n - x : x \in s}
<1>1. PICK m \in B : \A b \in B : m <= b
  <2>1. \A x \in s : n - x \in Nat
    OBVIOUS
  <2>2. B \subseteq Nat /\ B # {}
    BY <2>1
  <2> HIDE DEF B
  <2> QED
    BY <2>2, SmallestNumber
<1>2. PICK x \in s : m = n - x
  OBVIOUS
<1>3. \A y \in s : n - x <= n - y
  BY <1>1, <1>2
<1> QED
  BY <1>3

-----------------------------------------------------------------------------
(* The fold is defined: some function on the subsets satisfies its equation. *)

Pick(s) == CHOOSE x \in s : TRUE
Equation(f, g, s) == IF s = {} THEN 0 ELSE f[Pick(s)] + g[s \ {Pick(s)}]
IsFold(f, S, g) == g = [s \in SUBSET S |-> Equation(f, g, s)]

LEMMA Picked == \A s : s # {} => Pick(s) \in s
BY DEF Pick

LEMMA Unfolded ==
    ASSUME NEW f, NEW S
    PROVE  SumFunctionOnSet(f, S) = (CHOOSE g : IsFold(f, S, g))[S]
BY DEF SumFunctionOnSet, FoldFunctionOnSet, MapThenFoldSet, IsFold, Equation, Pick

\* Right on the sets of up to n elements
UpTo(f, S, g, n) ==
    /\ g = [s \in SUBSET S |-> g[s]]
    /\ \A s \in SUBSET S : Cardinality(s) <= n => g[s] = Equation(f, g, s)

LEMMA FoldExists ==
    ASSUME NEW f, NEW S, IsFiniteSet(S)
    PROVE  \E g : IsFold(f, S, g)
<1>1. \A s \in SUBSET S :
        /\ IsFiniteSet(s) /\ Cardinality(s) \in Nat /\ Cardinality(s) <= Cardinality(S)
        /\ Cardinality(s) = 0 => s = {}
        /\ s # {} => Cardinality(s \ {Pick(s)}) = Cardinality(s) - 1
  BY FS_Subset, FS_CardinalityType, FS_EmptySet, FS_RemoveElement, Picked
<1>d. \A s \in SUBSET S : Cardinality(s) \in Nat
  BY <1>1
<1> DEFINE B == {n \in Nat : ~\E g : UpTo(f, S, g, n)}
<1>2. B = {}
  <2> SUFFICES ASSUME B # {} PROVE FALSE
    OBVIOUS
  <2>1. PICK n \in B : \A x \in B : n <= x
    BY SmallestNumber
  <2>2. \E g : /\ g = [s \in SUBSET S |-> g[s]]
               /\ \A s \in SUBSET S : Cardinality(s) < n => g[s] = Equation(f, g, s)
    <3>1. CASE n = 0
      <4>1. \A s \in SUBSET S : ~(Cardinality(s) < n)
        BY <1>d, <3>1
      <4>2. [s \in SUBSET S |-> 0] = [s \in SUBSET S |-> [x \in SUBSET S |-> 0][s]]
        OBVIOUS
      <4> QED
        BY <4>1, <4>2
    <3>2. CASE n # 0
      <4>1. n - 1 \in Nat /\ n - 1 \notin B
        BY <2>1, <3>2
      <4>2. PICK g : UpTo(f, S, g, n - 1)
        BY <4>1
      <4>3. \A s \in SUBSET S : Cardinality(s) < n => Cardinality(s) <= n - 1
        BY <1>d, <2>1
      <4> QED
        BY <4>2, <4>3 DEF UpTo
    <3> QED
      BY <3>1, <3>2
  <2>3. PICK g : /\ g = [s \in SUBSET S |-> g[s]]
                 /\ \A s \in SUBSET S : Cardinality(s) < n => g[s] = Equation(f, g, s)
    BY <2>2
  <2> DEFINE h == [s \in SUBSET S |-> Equation(f, g, s)]
  <2>4. \A s \in SUBSET S : Cardinality(s) < n => h[s] = g[s]
    BY <2>3
  <2>5. ASSUME NEW s \in SUBSET S, Cardinality(s) <= n
        PROVE  h[s] = Equation(f, h, s)
    <3>1. CASE s = {}
      BY <3>1 DEF Equation
    <3>2. CASE s # {}
      <4>1. s \ {Pick(s)} \in SUBSET S /\ Cardinality(s \ {Pick(s)}) < n
        BY <1>1, <2>1, <2>5, <3>2
      <4>2. h[s \ {Pick(s)}] = g[s \ {Pick(s)}]
        BY <2>4, <4>1
      <4>3. h[s] = Equation(f, g, s)
        OBVIOUS
      <4> HIDE DEF h
      <4> QED
        BY <3>2, <4>2, <4>3 DEF Equation
    <3> QED
      BY <3>1, <3>2
  <2>6. h = [s \in SUBSET S |-> h[s]]
    OBVIOUS
  <2> HIDE DEF h
  <2>7. UpTo(f, S, h, n)
    BY <2>5, <2>6 DEF UpTo
  <2> QED
    BY <2>1, <2>7
<1>3. Cardinality(S) \in Nat /\ Cardinality(S) \notin B
  BY <1>1, <1>2
<1>4. PICK g : UpTo(f, S, g, Cardinality(S))
  BY <1>3
<1>5. \A s \in SUBSET S : g[s] = Equation(f, g, s)
  BY <1>1, <1>4 DEF UpTo
<1>6. IsFold(f, S, g)
  BY <1>4, <1>5 DEF UpTo, IsFold
<1> QED
  BY <1>6

\* Two such functions agree wherever both are defined.
LEMMA FoldsAgree ==
    ASSUME NEW f, NEW S, NEW T, IsFiniteSet(S), T \subseteq S,
           NEW g, NEW h, IsFold(f, S, g), IsFold(f, T, h)
    PROVE  g[T] = h[T]
<1> DEFINE B == {s \in SUBSET T : g[s] # h[s]}
<1>1. IsFiniteSet(T)
  BY FS_Subset
<1>2. ASSUME NEW s \in SUBSET T
      PROVE  g[s] = Equation(f, g, s) /\ h[s] = Equation(f, h, s)
  BY DEF IsFold
<1>3. B = {}
  <2> SUFFICES ASSUME B # {} PROVE FALSE
    OBVIOUS
  <2>1. PICK m \in B : \A s \in B : s \subseteq m => s = m
    <3>1. B \subseteq SUBSET T
      OBVIOUS
    <3> HIDE DEF B
    <3> QED
      BY <1>1, <3>1, SmallestSet
  <2>2. m # {}
    BY <1>2 DEF Equation
  <2>3. m \ {Pick(m)} \in SUBSET T /\ m \ {Pick(m)} # m
    BY <2>2, Picked
  <2>4. g[m \ {Pick(m)}] = h[m \ {Pick(m)}]
    BY <2>1, <2>3
  <2>5. m \in SUBSET T /\ g[m] # h[m]
    OBVIOUS
  <2> QED
    BY <1>2, <2>2, <2>4, <2>5 DEF Equation
<1>4. T \notin B
  BY <1>3
<1> QED
  BY <1>4

\* The sum of a function over a finite set takes elements one by one.
LEMMA SumEquation ==
    ASSUME NEW f, NEW S, IsFiniteSet(S)
    PROVE  /\ S = {} => SumFunctionOnSet(f, S) = 0
           /\ S # {} => /\ Pick(S) \in S
                        /\ SumFunctionOnSet(f, S) =
                             f[Pick(S)] + SumFunctionOnSet(f, S \ {Pick(S)})
<1> DEFINE T == S \ {Pick(S)}
           g == CHOOSE x : IsFold(f, S, x)
           h == CHOOSE x : IsFold(f, T, x)
<1>1. IsFiniteSet(T) /\ T \subseteq S
  BY FS_Subset
<1>2. IsFold(f, S, g)
  BY FoldExists
<1>3. IsFold(f, T, h)
  BY <1>1, FoldExists
<1>4. SumFunctionOnSet(f, S) = g[S] /\ SumFunctionOnSet(f, T) = h[T]
  BY Unfolded
<1> HIDE DEF g, h
<1>5. g[S] = Equation(f, g, S)
  BY <1>2 DEF IsFold
<1>6. g[T] = h[T]
  BY <1>1, <1>2, <1>3, FoldsAgree
<1> QED
  BY <1>4, <1>5, <1>6, Picked DEF Equation

-----------------------------------------------------------------------------
(* What a sum is *)

LEMMA SumType ==
    ASSUME NEW f, NEW S, IsFiniteSet(S), \A x \in S : f[x] \in Int
    PROVE  SumFunctionOnSet(f, S) \in Int
<1> DEFINE B == {s \in SUBSET S : SumFunctionOnSet(f, s) \notin Int}
<1>1. B = {}
  <2> SUFFICES ASSUME B # {} PROVE FALSE
    OBVIOUS
  <2>1. PICK m \in B : \A s \in B : s \subseteq m => s = m
    <3>1. B \subseteq SUBSET S
      OBVIOUS
    <3> HIDE DEF B
    <3> QED
      BY <3>1, SmallestSet
  <2>2. IsFiniteSet(m) /\ m \in SUBSET S /\ SumFunctionOnSet(f, m) \notin Int
    BY FS_Subset
  <2>3. m # {} /\ Pick(m) \in m
    <3>1. m = {} => SumFunctionOnSet(f, m) = 0
      BY <2>2, SumEquation
    <3> QED
      BY <2>2, <3>1, Picked
  <2>4. m \ {Pick(m)} \in SUBSET S /\ m \ {Pick(m)} \notin B
    BY <2>1, <2>3
  <2>5. SumFunctionOnSet(f, m \ {Pick(m)}) \in Int /\ f[Pick(m)] \in Int
    BY <2>2, <2>3, <2>4
  <2>6. SumFunctionOnSet(f, m) = f[Pick(m)] + SumFunctionOnSet(f, m \ {Pick(m)})
    BY <2>2, <2>3, SumEquation
  <2> QED
    BY <2>2, <2>5, <2>6
<1>2. S \notin B
  BY <1>1
<1> QED
  BY <1>2

\* Any element may be taken out first.
LEMMA SumRemove ==
    ASSUME NEW f, NEW S, IsFiniteSet(S), \A x \in S : f[x] \in Int, NEW y \in S
    PROVE  SumFunctionOnSet(f, S) = f[y] + SumFunctionOnSet(f, S \ {y})
<1> DEFINE Takes(s, x) == SumFunctionOnSet(f, s) = f[x] + SumFunctionOnSet(f, s \ {x})
           B == {s \in SUBSET S : \E x \in s : ~Takes(s, x)}
<1>1. B = {}
  <2> SUFFICES ASSUME B # {} PROVE FALSE
    OBVIOUS
  <2>1. PICK m \in B : \A s \in B : s \subseteq m => s = m
    <3>1. B \subseteq SUBSET S
      OBVIOUS
    <3> HIDE DEF B
    <3> QED
      BY <3>1, SmallestSet
  <2>2. PICK x \in m : ~Takes(m, x)
    OBVIOUS
  <2> DEFINE p == Pick(m)
             m1 == m \ {p}
             m2 == m \ {x}
             m3 == m \ {p, x}
  <2>3. IsFiniteSet(m) /\ m \in SUBSET S
    BY FS_Subset
  <2>4. p \in m /\ Takes(m, p)
    BY <2>3, Picked, SumEquation
  <2>5. p # x
    BY <2>2, <2>4
  <2>6. /\ m1 \in SUBSET S /\ m1 \notin B /\ x \in m1 /\ m1 \ {x} = m3
        /\ m2 \in SUBSET S /\ m2 \notin B /\ p \in m2 /\ m2 \ {p} = m3
    BY <2>1, <2>3, <2>4, <2>5
  <2>7. Takes(m1, x) /\ Takes(m2, p)
    BY <2>6
  <2>8. /\ SumFunctionOnSet(f, m) = f[p] + SumFunctionOnSet(f, m1)
        /\ SumFunctionOnSet(f, m1) = f[x] + SumFunctionOnSet(f, m3)
        /\ SumFunctionOnSet(f, m2) = f[p] + SumFunctionOnSet(f, m3)
    BY <2>4, <2>6, <2>7
  <2>9. SumFunctionOnSet(f, m3) \in Int /\ f[p] \in Int /\ f[x] \in Int
    <3>1. m3 \in SUBSET S /\ IsFiniteSet(m3)
      BY <2>3, FS_Subset
    <3> QED
      BY <2>3, <2>4, <3>1, SumType
  <2>10. SumFunctionOnSet(f, m) = f[x] + SumFunctionOnSet(f, m2)
    <3> HIDE DEF m1, m2, m3, p
    <3> QED
      BY <2>8, <2>9
  <2> QED
    BY <2>2, <2>10
<1>2. S \notin B
  BY <1>1
<1> QED
  BY <1>2

LEMMA SumAdd ==
    ASSUME NEW f, NEW S, IsFiniteSet(S), NEW y, y \notin S,
           \A x \in S \cup {y} : f[x] \in Int
    PROVE  SumFunctionOnSet(f, S \cup {y}) = SumFunctionOnSet(f, S) + f[y]
<1>1. IsFiniteSet(S \cup {y}) /\ (S \cup {y}) \ {y} = S
  BY FS_AddElement
<1>2. SumFunctionOnSet(f, S \cup {y}) = f[y] + SumFunctionOnSet(f, S)
  BY <1>1, SumRemove
<1>3. SumFunctionOnSet(f, S) \in Int
  BY SumType
<1> QED
  BY <1>2, <1>3

\* Shares: every value grows by so many times the same amount.
LEMMA SumShares ==
    ASSUME NEW f, NEW g, NEW l, NEW share \in Int, NEW S, IsFiniteSet(S),
           \A x \in S : f[x] \in Int /\ l[x] \in Int /\ g[x] = f[x] + l[x] * share
    PROVE  SumFunctionOnSet(g, S) =
             SumFunctionOnSet(f, S) + SumFunctionOnSet(l, S) * share
<1> DEFINE Shares(s) == SumFunctionOnSet(g, s) =
                          SumFunctionOnSet(f, s) + SumFunctionOnSet(l, s) * share
           B == {s \in SUBSET S : ~Shares(s)}
<1>g. \A x \in S : g[x] \in Int
  OBVIOUS
<1>1. B = {}
  <2> SUFFICES ASSUME B # {} PROVE FALSE
    OBVIOUS
  <2>1. PICK m \in B : \A s \in B : s \subseteq m => s = m
    <3>1. B \subseteq SUBSET S
      OBVIOUS
    <3> HIDE DEF B
    <3> QED
      BY <3>1, SmallestSet
  <2>2. IsFiniteSet(m) /\ m \in SUBSET S /\ ~Shares(m)
    BY FS_Subset
  <2>3. m # {}
    <3>1. m = {} => /\ SumFunctionOnSet(f, m) = 0 /\ SumFunctionOnSet(l, m) = 0
                    /\ SumFunctionOnSet(g, m) = 0
      BY <2>2, SumEquation
    <3> QED
      BY <2>2, <3>1
  <2>4. PICK x \in m : TRUE
    BY <2>3
  <2> DEFINE r == m \ {x}
  <2>5. r \in SUBSET S /\ IsFiniteSet(r) /\ Shares(r)
    BY <2>1, <2>2, <2>4, FS_Subset
  <2>6. /\ SumFunctionOnSet(f, m) = f[x] + SumFunctionOnSet(f, r)
        /\ SumFunctionOnSet(l, m) = l[x] + SumFunctionOnSet(l, r)
        /\ SumFunctionOnSet(g, m) = g[x] + SumFunctionOnSet(g, r)
    BY <1>g, <2>2, <2>4, SumRemove
  <2>7. /\ SumFunctionOnSet(f, r) \in Int /\ SumFunctionOnSet(l, r) \in Int
        /\ f[x] \in Int /\ l[x] \in Int /\ g[x] = f[x] + l[x] * share
    BY <2>2, <2>4, <2>5, SumType
  <2>8. SumFunctionOnSet(g, r) = SumFunctionOnSet(f, r) + SumFunctionOnSet(l, r) * share
    BY <2>5
  <2>9. (l[x] + SumFunctionOnSet(l, r)) * share = l[x] * share + SumFunctionOnSet(l, r) * share
    <3> HIDE DEF r
    <3>1. \A a, b, c \in Int : (a + b) * c = a * c + b * c
      OBVIOUS
    <3> QED
      BY <2>7, <3>1
  <2>10. Shares(m)
    <3> HIDE DEF r
    <3>1. l[x] * share \in Int /\ SumFunctionOnSet(l, r) * share \in Int
      BY <2>7
    <3> QED
      BY <2>6, <2>7, <2>8, <2>9, <3>1
  <2> QED
    BY <2>2, <2>10
<1>2. S \notin B
  BY <1>1
<1> QED
  BY <1>2

LEMMA SumSame ==
    ASSUME NEW f, NEW g, NEW S, IsFiniteSet(S), \A x \in S : f[x] \in Int /\ g[x] = f[x]
    PROVE  SumFunctionOnSet(g, S) = SumFunctionOnSet(f, S)
<1>1. \A x \in S : f[x] \in Int /\ f[x] \in Int /\ g[x] = f[x] + f[x] * 0
  OBVIOUS
<1>2. SumFunctionOnSet(g, S) = SumFunctionOnSet(f, S) + SumFunctionOnSet(f, S) * 0
  BY <1>1, SumShares
<1> QED
  BY <1>2, SumType

\* One value changes.
LEMMA SumChange ==
    ASSUME NEW f, NEW g, NEW S, IsFiniteSet(S), NEW y \in S,
           \A x \in S : f[x] \in Int /\ g[x] \in Int,
           \A x \in S \ {y} : g[x] = f[x]
    PROVE  SumFunctionOnSet(g, S) = SumFunctionOnSet(f, S) + (g[y] - f[y])
<1>1. IsFiniteSet(S \ {y})
  BY FS_RemoveElement
<1>2. SumFunctionOnSet(g, S \ {y}) = SumFunctionOnSet(f, S \ {y})
  BY <1>1, SumSame
<1>3. /\ SumFunctionOnSet(g, S) = g[y] + SumFunctionOnSet(g, S \ {y})
      /\ SumFunctionOnSet(f, S) = f[y] + SumFunctionOnSet(f, S \ {y})
  BY SumRemove
<1>4. SumFunctionOnSet(f, S \ {y}) \in Int
  BY <1>1, SumType
<1> QED
  BY <1>2, <1>3, <1>4

LEMMA SumZero ==
    ASSUME NEW f, NEW S, IsFiniteSet(S), \A x \in S : f[x] = 0
    PROVE  SumFunctionOnSet(f, S) = 0
<1>1. \A x \in S : f[x] \in Int /\ f[x] \in Int /\ f[x] = f[x] + f[x] * (0 - 1)
  OBVIOUS
<1>2. SumFunctionOnSet(f, S) = SumFunctionOnSet(f, S) + SumFunctionOnSet(f, S) * (0 - 1)
  BY <1>1, SumShares
<1> QED
  BY <1>2, SumType

LEMMA SumNat ==
    ASSUME NEW f, NEW S, IsFiniteSet(S), \A x \in S : f[x] \in Nat
    PROVE  SumFunctionOnSet(f, S) \in Nat
<1> DEFINE B == {s \in SUBSET S : SumFunctionOnSet(f, s) \notin Nat}
<1>1. B = {}
  <2> SUFFICES ASSUME B # {} PROVE FALSE
    OBVIOUS
  <2>1. PICK m \in B : \A s \in B : s \subseteq m => s = m
    <3>1. B \subseteq SUBSET S
      OBVIOUS
    <3> HIDE DEF B
    <3> QED
      BY <3>1, SmallestSet
  <2>2. IsFiniteSet(m) /\ m \in SUBSET S /\ SumFunctionOnSet(f, m) \notin Nat
    BY FS_Subset
  <2>3. m # {} /\ Pick(m) \in m
    <3>1. m = {} => SumFunctionOnSet(f, m) = 0
      BY <2>2, SumEquation
    <3> QED
      BY <2>2, <3>1, Picked
  <2>4. m \ {Pick(m)} \in SUBSET S /\ m \ {Pick(m)} \notin B
    BY <2>1, <2>3
  <2>5. SumFunctionOnSet(f, m \ {Pick(m)}) \in Nat /\ f[Pick(m)] \in Nat
    BY <2>2, <2>3, <2>4
  <2> QED
    BY <2>2, <2>3, <2>5, SumEquation
<1>2. S \notin B
  BY <1>1
<1> QED
  BY <1>2

\* No value is more than the whole.
LEMMA SumPart ==
    ASSUME NEW f, NEW S, IsFiniteSet(S), \A x \in S : f[x] \in Nat, NEW y \in S
    PROVE  f[y] <= SumFunctionOnSet(f, S)
<1>1. SumFunctionOnSet(f, S) = f[y] + SumFunctionOnSet(f, S \ {y})
  BY SumRemove
<1>2. SumFunctionOnSet(f, S \ {y}) \in Nat
  BY FS_RemoveElement, SumNat
<1> QED
  BY <1>1, <1>2
=============================================================================
