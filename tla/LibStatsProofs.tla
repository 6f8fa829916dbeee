--------------------------- MODULE LibStatsProofs ---------------------------
(* What the figures of a library walk are, for every set of rows in every     *)
(* order: StatsInv is inductive, and the properties that the runs check follow *)
(* from it.                                                                  *)
(*                                                                           *)
(* First the sums of the library's folds, by induction over finite sets (the  *)
(* subsets of a finite set are well founded, so that one that breaks a claim  *)
(* has a smallest one that does); then the lists of largest and newest, place *)
(* by place, and MergeRecent's two loops, by induction over the places; then  *)
(* rows, key set, figures, breakdowns and shows, one part of the state each.  *)
EXTENDS LibStats, TLAPS, FiniteSetTheorems, FunctionTheorems, SequenceTheorems

\* Among the subsets of a finite set that are in B, one has no smaller one in B.
LEMMA MinimalSet ==
    ASSUME NEW S, IsFiniteSet(S), NEW B, B # {}, B \subseteq SUBSET S
    PROVE  \E T \in B : \A U \in B : U \subseteq T => U = T
<1>0. B \subseteq FiniteSubsetsOf(S)
  BY FS_FiniteSubsetsOfFinite, Zenon
<1>1. PICK T \in B : \A U \in B : <<U, T>> \notin StrictSubsetOrdering(S)
  BY <1>0, FS_StrictSubsetOrderingWellFounded, WFMin, Zenon
<1> QED BY <1>1 DEF StrictSubsetOrdering

\* Induction over a finite set, for what holds of a set of its subsets: it is taken
\* apart to the smallest subset that breaks it.
LEMMA SetInduction ==
    ASSUME NEW S, IsFiniteSet(S), NEW B, {} \in B,
           \A T \in SUBSET S : \A x \in S \ T : T \in B => T \cup {x} \in B
    PROVE  S \in B
<1>1. SUFFICES ASSUME S \notin B PROVE FALSE
  OBVIOUS
<1>2. PICK T \in (SUBSET S) \ B : \A U \in (SUBSET S) \ B : U \subseteq T => U = T
  <2> DEFINE C == (SUBSET S) \ B
  <2>1. S \in C /\ C # {} /\ C \subseteq SUBSET S
    BY <1>1
  <2> HIDE DEF C
  <2>2. \E T \in C : \A U \in C : U \subseteq T => U = T
    BY <2>1, MinimalSet
  <2> QED BY <2>2 DEF C
<1>3. PICK x \in T : TRUE
  BY <1>2
<1>4. T \ {x} \in B /\ T = (T \ {x}) \cup {x}
  BY <1>2, <1>3
<1>5. T \ {x} \in SUBSET S /\ x \in S \ (T \ {x})
  BY <1>2, <1>3
<1>6. (T \ {x}) \cup {x} \in B
  BY <1>4, <1>5
<1> QED BY <1>2, <1>4, <1>6

One(s) == CHOOSE x \in s : TRUE
IsSum(g, f, S) == g = [s \in SUBSET S |-> IF s = {} THEN 0 ELSE f[One(s)] + g[s \ {One(s)}]]

\* The sum over a set by the function that the fold of the library chooses.
LEMMA SumDef ==
    ASSUME NEW f, NEW S
    PROVE  SumFunctionOnSet(f, S) = (CHOOSE g : IsSum(g, f, S))[S]
BY DEF SumFunctionOnSet, FoldFunctionOnSet, MapThenFoldSet, IsSum, One

\* The member that the fold takes first.
LEMMA OneIn == ASSUME NEW s, s # {} PROVE One(s) \in s
BY DEF One

\* The equation of a summing function, at the empty set and at any other.
LEMMA SumStep ==
    ASSUME NEW g, NEW f, NEW S, IsSum(g, f, S)
    PROVE  /\ g[{}] = 0
           /\ \A s \in SUBSET S : s # {} => g[s] = f[One(s)] + g[s \ {One(s)}]
<1> DEFINE rhs == [s \in SUBSET S |-> IF s = {} THEN 0 ELSE f[One(s)] + g[s \ {One(s)}]]
<1>1. g = rhs
  BY DEF IsSum
<1>2. rhs[{}] = 0
  OBVIOUS
<1>3. \A s \in SUBSET S : s # {} => rhs[s] = f[One(s)] + g[s \ {One(s)}]
  OBVIOUS
<1> HIDE DEF rhs
<1> QED BY <1>1, <1>2, <1>3

\* Summing functions of two sets agree on the subsets they share.
LEMMA SumsAgree ==
    ASSUME NEW f, NEW S, IsFiniteSet(S), NEW T, S \subseteq T,
           NEW g, IsSum(g, f, S), NEW h, IsSum(h, f, T)
    PROVE  \A U \in SUBSET S : g[U] = h[U]
<1> DEFINE C == {U \in SUBSET S : g[U] # h[U]}
<1>1. SUFFICES ASSUME C # {} PROVE FALSE
  OBVIOUS
<1>2. PICK U \in C : \A W \in C : W \subseteq U => W = U
  <2>1. C \subseteq SUBSET S
    OBVIOUS
  <2> HIDE DEF C
  <2> QED BY <1>1, <2>1, MinimalSet
<1>3. U # {} /\ U \in SUBSET S /\ U \in SUBSET T
  BY <1>2, SumStep
<1>4. U \ {One(U)} \in SUBSET S /\ U \ {One(U)} # U
  BY <1>3, OneIn
<1>5. g[U \ {One(U)}] = h[U \ {One(U)}]
  BY <1>2, <1>4
<1>6. g[U] = f[One(U)] + g[U \ {One(U)}]
  BY <1>3, SumStep
<1>7. h[U] = f[One(U)] + h[U \ {One(U)}]
  BY <1>3, SumStep
<1> QED BY <1>2, <1>5, <1>6, <1>7

\* A finite set has a summing function.
LEMMA SumExists ==
    ASSUME NEW f, NEW S, IsFiniteSet(S)
    PROVE  \E g : IsSum(g, f, S)
<1> DEFINE C == {T \in SUBSET S : ~\E g : IsSum(g, f, T)}
<1>1. SUFFICES ASSUME C # {} PROVE FALSE
  OBVIOUS
<1>2. PICK T \in C : \A W \in C : W \subseteq T => W = T
  <2>1. C \subseteq SUBSET S
    OBVIOUS
  <2> HIDE DEF C
  <2> QED BY <1>1, <2>1, MinimalSet
<1> DEFINE G(U) == CHOOSE g : IsSum(g, f, U)
           sum == [s \in SUBSET T |->
                      IF s = {} THEN 0 ELSE f[One(s)] + G(s \ {One(s)})[s \ {One(s)}]]
<1>3. ASSUME NEW U \in SUBSET T, U # T PROVE IsSum(G(U), f, U)
  <2>1. U \in SUBSET S /\ U \notin C
    BY <1>2, <1>3
  <2>2. \E g : IsSum(g, f, U)
    BY <2>1
  <2> QED BY <2>2
<1>4. ASSUME NEW U \in SUBSET T, U # T PROVE sum[U] = G(U)[U]
  <2>1. IsSum(G(U), f, U) /\ U \in SUBSET U
    BY <1>3, <1>4
  <2> HIDE DEF G
  <2>2. CASE U = {}
    BY <2>1, <2>2, SumStep
  <2>3. CASE U # {}
    <3> DEFINE V == U \ {One(U)}
    <3>1. V \in SUBSET U /\ V \in SUBSET T /\ V # T /\ V \in SUBSET V /\ IsFiniteSet(V)
      <4>1. One(U) \in U
        BY <2>3, OneIn
      <4>2. IsFiniteSet(V)
        BY <1>2, FS_Subset
      <4> QED BY <1>4, <4>1, <4>2
    <3>2. IsSum(G(V), f, V)
      BY <1>3, <3>1
    <3>3. G(U)[U] = f[One(U)] + G(U)[V]
      BY <2>1, <2>3, SumStep
    <3>4. sum[U] = f[One(U)] + G(V)[V]
      BY <2>3
    <3>5. G(V)[V] = G(U)[V]
      <4> HIDE DEF V, sum
      <4> QED BY <2>1, <3>1, <3>2, SumsAgree
    <3> QED BY <3>3, <3>4, <3>5
  <2> QED BY <2>2, <2>3
<1>5. \A s \in SUBSET T : s # {} => s \ {One(s)} \in SUBSET T /\ s \ {One(s)} # T
  BY OneIn
<1>6. \A s \in SUBSET T : s # {} => G(s \ {One(s)})[s \ {One(s)}] = sum[s \ {One(s)}]
  <2> HIDE DEF G, sum
  <2> QED BY <1>4, <1>5
<1>7. IsSum(sum, f, T)
  <2> HIDE DEF G
  <2>1. [s \in SUBSET T |-> IF s = {} THEN 0 ELSE f[One(s)] + sum[s \ {One(s)}]] = sum
    <3> DEFINE other == [s \in SUBSET T |-> IF s = {} THEN 0 ELSE f[One(s)] + sum[s \ {One(s)}]]
    <3>1. \A s \in SUBSET T : other[s] = sum[s]
      BY <1>6
    <3>2. DOMAIN other = SUBSET T /\ DOMAIN sum = SUBSET T
      OBVIOUS
    <3> QED BY <1>6
  <2> HIDE DEF sum
  <2> QED BY <2>1 DEF IsSum
<1> QED BY <1>2, <1>7
\* So the sum itself satisfies the equation.
LEMMA SumEquation ==
    ASSUME NEW f, NEW S, IsFiniteSet(S)
    PROVE  /\ SumFunctionOnSet(f, {}) = 0
           /\ S # {} => SumFunctionOnSet(f, S) = f[One(S)] + SumFunctionOnSet(f, S \ {One(S)})
<1> DEFINE G(T) == CHOOSE g : IsSum(g, f, T)
<1>1. \A T : SumFunctionOnSet(f, T) = G(T)[T]
  BY SumDef
<1>2. \A T : IsFiniteSet(T) => IsSum(G(T), f, T)
  <2>1. \A T : IsFiniteSet(T) => \E g : IsSum(g, f, T)
    BY SumExists
  <2> QED BY <2>1
<1> HIDE DEF G
<1>3. G({})[{}] = 0
  BY <1>2, FS_EmptySet, SumStep
<1>4. ASSUME S # {}
      PROVE  SumFunctionOnSet(f, S) = f[One(S)] + SumFunctionOnSet(f, S \ {One(S)})
  <2> DEFINE U == S \ {One(S)}
  <2>1. IsFiniteSet(U) /\ U \subseteq S /\ U \in SUBSET U /\ S \in SUBSET S
    BY FS_Subset
  <2>2. IsSum(G(S), f, S) /\ IsSum(G(U), f, U)
    BY <1>2, <2>1
  <2>3. G(S)[S] = f[One(S)] + G(S)[U]
    BY <1>4, <2>1, <2>2, SumStep
  <2>4. G(U)[U] = G(S)[U]
    <3> HIDE DEF U
    <3> QED BY <2>1, <2>2, SumsAgree
  <2> QED BY <1>1, <2>3, <2>4
<1> QED BY <1>1, <1>3, <1>4

\* Any member may be the one taken first.
LEMMA SumPick ==
    ASSUME NEW f, NEW S, IsFiniteSet(S), \A x \in S : f[x] \in Int
    PROVE  /\ SumFunctionOnSet(f, S) \in Int
           /\ \A x \in S : SumFunctionOnSet(f, S) = f[x] + SumFunctionOnSet(f, S \ {x})
<1> DEFINE sum(T) == SumFunctionOnSet(f, T)
           Good(T) == /\ sum(T) \in Int
                      /\ \A x \in T : sum(T) = f[x] + sum(T \ {x})
           C == {T \in SUBSET S : ~Good(T)}
<1> SUFFICES Good(S)
  OBVIOUS
<1> HIDE DEF Good
<1>1. SUFFICES ASSUME C # {} PROVE FALSE
  OBVIOUS
<1> USE DEF Good
<1>2. PICK T \in C : \A W \in C : W \subseteq T => W = T
  <2>1. C \subseteq SUBSET S
    OBVIOUS
  <2> HIDE DEF C
  <2> QED BY <1>1, <2>1, MinimalSet
<1>3. T \in SUBSET S /\ IsFiniteSet(T)
  BY FS_Subset
<1>4. ASSUME NEW W \in SUBSET T, W # T PROVE Good(W)
  <2>1. W \in SUBSET S /\ W \notin C
    BY <1>2, <1>3, <1>4
  <2> HIDE DEF Good
  <2> QED BY <2>1
<1>5. CASE T = {}
  <2>1. sum(T) = 0
    BY <1>3, <1>5, SumEquation
  <2>2. Good(T)
    BY <1>5, <2>1
  <2> QED BY <1>2, <2>2
<1>6. CASE T # {}
  <2> DEFINE y == One(T)
  <2>1. y \in T /\ T \ {y} \in SUBSET T /\ T \ {y} # T
    BY <1>6, OneIn
  <2>2. sum(T) = f[y] + sum(T \ {y})
    BY <1>3, <1>6, SumEquation
  <2>3. Good(T \ {y})
    BY <1>3, <1>4, <2>1
  <2>7. f[y] \in Int
    BY <1>3, <2>1
  <2> HIDE DEF y
  <2>4. ASSUME NEW x \in T, x # y PROVE sum(T) = f[x] + sum(T \ {x})
    <3>1. T \ {x} \in SUBSET T /\ T \ {x} # T /\ y \in T \ {x} /\ x \in T \ {y}
      BY <2>1, <2>4
    <3>2. Good(T \ {x})
      BY <1>4, <3>1
    <3>3. sum(T \ {x}) = f[y] + sum((T \ {x}) \ {y})
      BY <3>1, <3>2
    <3>4. sum(T \ {y}) = f[x] + sum((T \ {y}) \ {x})
      BY <2>3, <3>1
    <3>5. (T \ {x}) \ {y} = (T \ {y}) \ {x}
      OBVIOUS
    <3>6. (T \ {x}) \ {y} \in SUBSET T /\ (T \ {x}) \ {y} # T
      BY <3>1
    <3>7. sum((T \ {x}) \ {y}) \in Int /\ f[x] \in Int
      BY <1>3, <1>4, <3>6
    <3>8. sum((T \ {x}) \ {y}) = sum((T \ {y}) \ {x})
      BY <3>5
    <3> HIDE DEF sum, Good, C
    <3> QED BY <2>2, <2>7, <3>3, <3>4, <3>7, <3>8
  <2>5. sum(T) \in Int
    <3> HIDE DEF sum
    <3> QED BY <2>2, <2>3, <2>7
  <2>6. Good(T)
    <3> HIDE DEF sum
    <3> QED BY <2>2, <2>4, <2>5
  <2> QED BY <1>2, <2>6
<1> QED BY <1>5, <1>6

\* The sum of nothing.
LEMMA SumEmpty == \A f : SumFunctionOnSet(f, {}) = 0
BY SumEquation, FS_EmptySet

\* One more member adds its value.
LEMMA SumAdd ==
    ASSUME NEW f, NEW S, IsFiniteSet(S), NEW x, x \notin S, \A y \in S \cup {x} : f[y] \in Int
    PROVE  /\ SumFunctionOnSet(f, S) \in Int
           /\ SumFunctionOnSet(f, S \cup {x}) = SumFunctionOnSet(f, S) + f[x]
<1>1. IsFiniteSet(S \cup {x}) /\ (S \cup {x}) \ {x} = S
  BY FS_AddElement
<1>2. SumFunctionOnSet(f, S) \in Int
  BY SumPick
<1>3. SumFunctionOnSet(f, S \cup {x}) = f[x] + SumFunctionOnSet(f, S)
  BY <1>1, SumPick
<1> QED BY <1>2, <1>3

\* Only the values on the set count.
LEMMA SumSame ==
    ASSUME NEW f, NEW g, NEW S, IsFiniteSet(S), \A x \in S : f[x] \in Int /\ g[x] = f[x]
    PROVE  SumFunctionOnSet(g, S) = SumFunctionOnSet(f, S)
<1> DEFINE B == {T \in SUBSET S : SumFunctionOnSet(g, T) = SumFunctionOnSet(f, T)}
<1>1. {} \in B
  BY SumEmpty
<1>2. ASSUME NEW T \in SUBSET S, NEW x \in S \ T, T \in B PROVE T \cup {x} \in B
  <2>1. IsFiniteSet(T)
    BY FS_Subset
  <2>2. SumFunctionOnSet(f, T \cup {x}) = SumFunctionOnSet(f, T) + f[x]
    BY <2>1, SumAdd
  <2>3. SumFunctionOnSet(g, T \cup {x}) = SumFunctionOnSet(g, T) + g[x]
    BY <2>1, SumAdd
  <2> QED BY <1>2, <2>2, <2>3
<1>3. S \in B
  <2> HIDE DEF B
  <2> QED BY <1>1, <1>2, SetInduction
<1> QED BY <1>3

\* A sum of natural numbers is one.
LEMMA SumNat ==
    ASSUME NEW f, NEW S, IsFiniteSet(S), \A x \in S : f[x] \in Nat
    PROVE  SumFunctionOnSet(f, S) \in Nat
<1> DEFINE B == {T \in SUBSET S : SumFunctionOnSet(f, T) \in Nat}
<1>1. {} \in B
  BY SumEmpty
<1>2. ASSUME NEW T \in SUBSET S, NEW x \in S \ T, T \in B PROVE T \cup {x} \in B
  <2>1. IsFiniteSet(T)
    BY FS_Subset
  <2>2. SumFunctionOnSet(f, T \cup {x}) = SumFunctionOnSet(f, T) + f[x]
    BY <2>1, SumAdd
  <2> QED BY <1>2, <2>2
<1>3. S \in B
  <2> HIDE DEF B
  <2> QED BY <1>1, <1>2, SetInduction
<1> QED BY <1>3

\* No term is more than the sum of natural numbers.
LEMMA SumBounds ==
    ASSUME NEW f, NEW S, IsFiniteSet(S), \A x \in S : f[x] \in Nat, NEW x \in S
    PROVE  f[x] <= SumFunctionOnSet(f, S)
<1>1. IsFiniteSet(S \ {x})
  BY FS_Subset
<1>2. SumFunctionOnSet(f, S) = f[x] + SumFunctionOnSet(f, S \ {x})
  BY SumPick
<1>3. SumFunctionOnSet(f, S \ {x}) \in Nat
  BY <1>1, SumNat
<1> QED BY <1>2, <1>3

\* The sum of pointwise sums.
LEMMA SumPlus ==
    ASSUME NEW f, NEW g, NEW h, NEW S, IsFiniteSet(S),
           \A x \in S : f[x] \in Int /\ g[x] \in Int /\ h[x] = f[x] + g[x]
    PROVE  /\ SumFunctionOnSet(f, S) \in Int /\ SumFunctionOnSet(g, S) \in Int
           /\ SumFunctionOnSet(h, S) = SumFunctionOnSet(f, S) + SumFunctionOnSet(g, S)
<1> DEFINE B == {T \in SUBSET S : SumFunctionOnSet(h, T) = SumFunctionOnSet(f, T) + SumFunctionOnSet(g, T)}
<1>1. {} \in B
  BY SumEmpty
<1>2. ASSUME NEW T \in SUBSET S, NEW x \in S \ T, T \in B PROVE T \cup {x} \in B
  <2>1. IsFiniteSet(T)
    BY FS_Subset
  <2>2. /\ SumFunctionOnSet(f, T) \in Int
        /\ SumFunctionOnSet(f, T \cup {x}) = SumFunctionOnSet(f, T) + f[x]
    BY <2>1, SumAdd
  <2>3. /\ SumFunctionOnSet(g, T) \in Int
        /\ SumFunctionOnSet(g, T \cup {x}) = SumFunctionOnSet(g, T) + g[x]
    BY <2>1, SumAdd
  <2>4. SumFunctionOnSet(h, T \cup {x}) = SumFunctionOnSet(h, T) + h[x]
    BY <2>1, SumAdd
  <2> QED BY <1>2, <2>2, <2>3, <2>4
<1>3. S \in B
  <2> HIDE DEF B
  <2> QED BY <1>1, <1>2, SetInduction
<1> QED BY <1>3, SumPick

\* One place raised by n raises the sum by n.
LEMMA SumRaised ==
    ASSUME NEW S, IsFiniteSet(S), NEW f \in [S -> Int], NEW x \in S, NEW n \in Int
    PROVE  SumFunctionOnSet([f EXCEPT ![x] = @ + n], S) = SumFunctionOnSet(f, S) + n
<1> DEFINE g == [f EXCEPT ![x] = @ + n]
           T == S \ {x}
<1>1. IsFiniteSet(T) /\ \A y \in T : g[y] = f[y]
  BY FS_Subset
<1>2. g[x] = f[x] + n /\ \A y \in S : g[y] \in Int
  OBVIOUS
<1> HIDE DEF g
<1>3. SumFunctionOnSet(g, S) = g[x] + SumFunctionOnSet(g, T)
  BY <1>2, SumPick
<1>4. SumFunctionOnSet(f, S) = f[x] + SumFunctionOnSet(f, T)
  BY SumPick
<1>5. SumFunctionOnSet(g, T) = SumFunctionOnSet(f, T) /\ SumFunctionOnSet(f, T) \in Int
  BY <1>1, SumSame, SumPick
<1>6. SumFunctionOnSet(g, S) = SumFunctionOnSet(f, S) + n
  BY <1>2, <1>3, <1>4, <1>5
<1> QED BY <1>6 DEF g


\* A sum of zeros is zero.
LEMMA SumZero ==
    ASSUME NEW f, NEW S, IsFiniteSet(S), \A x \in S : f[x] = 0
    PROVE  SumFunctionOnSet(f, S) = 0
<1> DEFINE B == {T \in SUBSET S : SumFunctionOnSet(f, T) = 0}
<1>1. {} \in B
  BY SumEmpty
<1>2. ASSUME NEW T \in SUBSET S, NEW x \in S \ T, T \in B PROVE T \cup {x} \in B
  <2>1. IsFiniteSet(T) /\ \A y \in T \cup {x} : f[y] \in Int
    BY FS_Subset
  <2>2. SumFunctionOnSet(f, T \cup {x}) = SumFunctionOnSet(f, T) + f[x]
    BY <2>1, SumAdd
  <2>3. SumFunctionOnSet(f, T \cup {x}) = 0
    BY <1>2, <2>2
  <2> QED BY <2>3
<1>3. S \in B
  <2> HIDE DEF B
  <2> QED BY <1>1, <1>2, SetInduction
<1> QED BY <1>3
\* A finite set of integers has a greatest one.
LEMMA FiniteMax ==
    ASSUME NEW S \in SUBSET Int, IsFiniteSet(S), S # {}
    PROVE  \E x \in S : \A y \in S : x >= y
<1> DEFINE B == {T \in SUBSET S : T # {} => \E x \in T : \A y \in T : x >= y}
<1>1. {} \in B
  OBVIOUS
<1>2. ASSUME NEW T \in SUBSET S, NEW z \in S \ T, T \in B PROVE T \cup {z} \in B
  <2>1. CASE T = {}
    BY <2>1
  <2>2. CASE T # {}
    <3>1. PICK x \in T : \A y \in T : x >= y
      BY <1>2, <2>2
    <3>2. CASE x >= z
      BY <3>1, <3>2
    <3>3. CASE ~(x >= z)
      <4>1. \A y \in T \cup {z} : z >= y
        BY <3>1, <3>3
      <4> QED BY <4>1
    <3> QED BY <3>2, <3>3
  <2> QED BY <2>1, <2>2
<1>3. S \in B
  <2> HIDE DEF B
  <2> QED BY <1>1, <1>2, SetInduction
<1> QED BY <1>3

\* And a least one.
LEMMA FiniteMin ==
    ASSUME NEW S \in SUBSET Int, IsFiniteSet(S), S # {}
    PROVE  \E x \in S : \A y \in S : x <= y
<1> DEFINE B == {T \in SUBSET S : T # {} => \E x \in T : \A y \in T : x <= y}
<1>1. {} \in B
  OBVIOUS
<1>2. ASSUME NEW T \in SUBSET S, NEW z \in S \ T, T \in B PROVE T \cup {z} \in B
  <2>1. CASE T = {}
    BY <2>1
  <2>2. CASE T # {}
    <3>1. PICK x \in T : \A y \in T : x <= y
      BY <1>2, <2>2
    <3>2. CASE x <= z
      BY <3>1, <3>2
    <3>3. CASE ~(x <= z)
      <4>1. \A y \in T \cup {z} : z <= y
        BY <3>1, <3>3
      <4> QED BY <4>1
    <3> QED BY <3>2, <3>3
  <2> QED BY <2>1, <2>2
<1>3. S \in B
  <2> HIDE DEF B
  <2> QED BY <1>1, <1>2, SetInduction
<1> QED BY <1>3

\* Induction over the places of a list, for a set of places.
LEMMA PlaceInduction ==
    ASSUME NEW N \in Nat, NEW B, 0 \in B, \A n \in 1 .. N : n - 1 \in B => n \in B
    PROVE  \A n \in 0 .. N : n \in B
<1> DEFINE C == {n \in 0 .. N : n \notin B}
<1>1. SUFFICES ASSUME C # {} PROVE FALSE
  OBVIOUS
<1>2. IsFiniteSet(0 .. N)
  BY FS_Interval
<1>3. IsFiniteSet(C) /\ C \in SUBSET Int
  BY <1>2, FS_Subset
<1>4. PICK n \in C : \A m \in C : n <= m
  <2> HIDE DEF C
  <2> QED BY <1>1, <1>3, FiniteMin
<1>5. n # 0 /\ n - 1 \notin C /\ n \in 1 .. N /\ n - 1 \in 0 .. N
  BY <1>4
<1> QED BY <1>4, <1>5

-----------------------------------------------------------------------------
EntrySet == [key : Nat, bytes : Int, added : Int, last : Int]

\* What of an entry the order f looks at.
View(e, f) == IF f = "bytes" THEN [key |-> e.key, bytes |-> e.bytes]
                             ELSE [key |-> e.key, added |-> e.added]
ViewSet(f) == IF f = "bytes" THEN [key : Nat, bytes : Int] ELSE [key : Nat, added : Int]
Viewed(list, f) == [i \in DOMAIN list |-> View(list[i], f)]

\* The two forms in which the properties look at a list.
LEMMA ViewedLists ==
    \A list : /\ ByKeyAndSize(list) = Viewed(list, "bytes")
              /\ ByKeyAndAge(list) = Viewed(list, "added")
BY DEF ByKeyAndSize, ByKeyAndAge, Viewed, View

\* What is looked at keeps the key and the value the order is by.
LEMMA ViewKeeps ==
    ASSUME NEW f \in {"bytes", "added"}, NEW e \in EntrySet
    PROVE  /\ View(e, f) \in ViewSet(f)
           /\ View(e, f).key = e.key /\ View(e, f)[f] = e[f] /\ e[f] \in Int
<1>1. CASE f = "bytes"
  BY <1>1 DEF View, ViewSet, EntrySet
<1>2. CASE f = "added"
  BY <1>2 DEF View, ViewSet, EntrySet
<1> QED BY <1>1, <1>2

\* bySize and byAdded see no more of an entry than that (libstats.go:298-304).
LEMMA ViewOrder ==
    ASSUME NEW f \in {"bytes", "added"}, NEW a \in EntrySet, NEW b \in EntrySet
    PROVE  Before(f, View(a, f), View(b, f)) <=> Before(f, a, b)
<1>1. View(a, f).key = a.key /\ View(a, f)[f] = a[f] /\ View(b, f).key = b.key /\ View(b, f)[f] = b[f]
  BY ViewKeeps
<1> QED BY <1>1 DEF Before

\* The order is total on different keys.
LEMMA OrderTotal ==
    ASSUME NEW f \in {"bytes", "added"}, NEW a \in ViewSet(f), NEW b \in ViewSet(f)
    PROVE  /\ ~(Before(f, a, b) /\ Before(f, b, a))
           /\ a.key # b.key => Before(f, a, b) \/ Before(f, b, a)
           /\ Before(f, a, b) => a # b
BY DEF Before, ViewSet

\* The order is transitive.
LEMMA OrderTransitive ==
    ASSUME NEW f \in {"bytes", "added"}, NEW a \in ViewSet(f), NEW b \in ViewSet(f),
           NEW c \in ViewSet(f), Before(f, a, b), Before(f, b, c)
    PROVE  Before(f, a, c)
<1>1. a[f] \in Int /\ b[f] \in Int /\ c[f] \in Int /\ a.key \in Nat /\ b.key \in Nat /\ c.key \in Nat
  BY DEF ViewSet
<1> QED BY <1>1 DEF Before

\* A list of entries, looked at in this way, is a list of the same length.
LEMMA ViewedSeq ==
    ASSUME NEW f \in {"bytes", "added"}, NEW list \in Seq(EntrySet)
    PROVE  /\ Viewed(list, f) \in Seq(ViewSet(f))
           /\ Len(Viewed(list, f)) = Len(list) /\ DOMAIN Viewed(list, f) = 1 .. Len(list)
           /\ Len(list) \in Nat
           /\ \A i \in 1 .. Len(list) : Viewed(list, f)[i] = View(list[i], f)
<1>1. Len(list) \in Nat /\ DOMAIN list = 1 .. Len(list) /\ \A i \in 1 .. Len(list) : list[i] \in EntrySet
  BY LenProperties, ElementOfSeq
<1>2. Viewed(list, f) \in [1 .. Len(list) -> ViewSet(f)]
  BY <1>1, ViewKeeps DEF Viewed
<1>3. Viewed(list, f) \in Seq(ViewSet(f))
  BY <1>1, <1>2, SeqDef
<1> QED BY <1>1, <1>2, <1>3, LenProperties DEF Viewed

\* insertTop finds the place from the end: everything behind it comes after the
\* item, and the one before it does not (libstats.go:308-311).
LEMMA InsertPlace ==
    ASSUME NEW f \in {"bytes", "added"}, NEW list \in Seq(EntrySet), NEW it \in EntrySet
    PROVE  \E i \in 0 .. Len(list) :
              /\ \A k \in i + 1 .. Len(list) : Before(f, it, list[k])
              /\ i > 0 => ~Before(f, it, list[i])
              /\ InsertTop(list, it, f) =
                   IF i = TopN THEN list
                   ELSE SubSeq(InsertAt(list, i + 1, it), 1,
                               Least(TopN, Len(InsertAt(list, i + 1, it))))
<1> DEFINE Place(i) == /\ \A k \in i + 1 .. Len(list) : Before(f, it, list[k])
                       /\ i > 0 => ~Before(f, it, list[i])
           J == {i \in 0 .. Len(list) : \A k \in i + 1 .. Len(list) : Before(f, it, list[k])}
<1>1. Len(list) \in Nat
  BY LenProperties
<1>2. Len(list) \in J /\ J \subseteq 0 .. Len(list) /\ J \in SUBSET Int
  BY <1>1
<1>3. IsFiniteSet(J)
  <2>1. IsFiniteSet(0 .. Len(list))
    BY <1>1, FS_Interval
  <2> HIDE DEF J
  <2> QED BY <1>2, <2>1, FS_Subset
<1>4. PICK i \in J : \A j \in J : i <= j
  <2> HIDE DEF J
  <2> QED BY <1>2, <1>3, FiniteMin
<1>5. ASSUME i > 0, Before(f, it, list[i]) PROVE FALSE
  <2>1. i - 1 \in 0 .. Len(list) /\ ~(i <= i - 1)
    BY <1>1, <1>5
  <2>2. \A k \in i .. Len(list) : Before(f, it, list[k])
    BY <1>1, <1>4, <1>5
  <2>3. i - 1 \in J
    BY <2>1, <2>2
  <2> QED BY <1>4, <2>1, <2>3
<1>6. \E j \in 0 .. Len(list) : Place(j)
  BY <1>4, <1>5
<1> DEFINE j == CHOOSE j \in 0 .. Len(list) : Place(j)
<1>7. j \in 0 .. Len(list) /\ Place(j)
  <2> HIDE DEF Place
  <2> QED BY <1>6
<1>8. InsertTop(list, it, f) =
        IF j = TopN THEN list
        ELSE SubSeq(InsertAt(list, j + 1, it), 1, Least(TopN, Len(InsertAt(list, j + 1, it))))
  BY DEF InsertTop
<1> HIDE DEF j
<1> QED BY <1>7, <1>8

\* The list with the item after its first i, place by place.
Inserted(S, longer, list, it, i) ==
    /\ longer \in Seq(S) /\ Len(longer) = Len(list) + 1
    /\ \A k \in 1 .. Len(list) + 1 :
          longer[k] = IF k <= i THEN list[k] ELSE IF k = i + 1 THEN it ELSE list[k - 1]

\* slices.Insert, place by place.
LEMMA InsertAtEntries ==
    ASSUME NEW S, NEW list \in Seq(S), NEW it \in S, NEW i \in 0 .. Len(list)
    PROVE  Inserted(S, InsertAt(list, i + 1, it), list, it, i)
<1> DEFINE front == SubSeq(list, 1, i)
           back == SubSeq(list, i + 1, Len(list))
<1>1. Len(list) \in Nat /\ \A k \in 1 .. Len(list) : list[k] \in S
  BY LenProperties, ElementOfSeq
<1>2. /\ front \in Seq(S) /\ Len(front) = i
      /\ \A k \in 1 .. i : front[k] = list[k]
  BY <1>1, SubSeqProperties
<1>3. /\ back \in Seq(S) /\ Len(back) = Len(list) - i
      /\ \A k \in 1 .. Len(list) - i : back[k] = list[i + k]
  <2>1. \A k \in i + 1 .. Len(list) : list[k] \in S
    BY <1>1
  <2>2. /\ back \in Seq(S)
        /\ Len(back) = IF i + 1 <= Len(list) THEN Len(list) - (i + 1) + 1 ELSE 0
        /\ \A k \in 1 .. Len(list) - (i + 1) + 1 : back[k] = list[i + 1 + k - 1]
    <3> HIDE DEF front
    <3> QED BY <1>1, <2>1, SubSeqProperties
  <2> HIDE DEF back, front
  <2> QED BY <1>1, <2>2
<1> HIDE DEF front, back
<1>4. <<it>> \in Seq(S) /\ Len(<<it>>) = 1 /\ <<it>>[1] = it
  OBVIOUS
<1> DEFINE start == front \o <<it>>
           whole == start \o back
<1>5. /\ start \in Seq(S) /\ Len(start) = i + 1
      /\ \A k \in 1 .. i + 1 : start[k] = IF k <= i THEN list[k] ELSE it
  <2>1. /\ start \in Seq(S) /\ Len(start) = i + 1
        /\ \A k \in 1 .. i + 1 : start[k] = IF k <= i THEN front[k] ELSE <<it>>[k - i]
    BY <1>1, <1>2, <1>4, ConcatProperties
  <2> QED BY <1>1, <1>2, <1>4, <2>1
<1>6. /\ whole \in Seq(S) /\ Len(whole) = Len(list) + 1
      /\ \A k \in 1 .. Len(list) + 1 :
            whole[k] = IF k <= i + 1 THEN start[k] ELSE back[k - (i + 1)]
  <2> HIDE DEF start
  <2>1. Len(start) + Len(back) = Len(list) + 1
    BY <1>1, <1>3, <1>5
  <2>2. start \in Seq(S) /\ back \in Seq(S) /\ Len(start) = i + 1
    BY <1>3, <1>5
  <2>3. /\ start \o back \in Seq(S) /\ Len(start \o back) = Len(start) + Len(back)
        /\ \A k \in 1 .. Len(start) + Len(back) :
              (start \o back)[k] = IF k <= Len(start) THEN start[k] ELSE back[k - Len(start)]
    BY <2>2, ConcatProperties
  <2> HIDE DEF whole
  <2>4. /\ whole \in Seq(S) /\ Len(whole) = Len(start) + Len(back)
        /\ \A k \in 1 .. Len(start) + Len(back) :
              whole[k] = IF k <= Len(start) THEN start[k] ELSE back[k - Len(start)]
    BY <2>3 DEF whole
  <2> QED BY <2>1, <2>2, <2>4
<1>7. InsertAt(list, i + 1, it) = whole
  <2>1. (i + 1) - 1 = i
    OBVIOUS
  <2> QED BY <2>1 DEF InsertAt, front, back
<1> HIDE DEF start, whole
<1>8. ASSUME NEW k \in 1 .. Len(list) + 1
      PROVE  whole[k] = IF k <= i THEN list[k] ELSE IF k = i + 1 THEN it ELSE list[k - 1]
  <2>1. CASE k <= i + 1
    <3>1. whole[k] = start[k] /\ k \in 1 .. i + 1
      BY <1>1, <1>6, <2>1
    <3> QED BY <1>5, <2>1, <3>1
  <2>2. CASE k > i + 1
    <3>1. k - (i + 1) \in 1 .. Len(list) - i /\ i + (k - (i + 1)) = k - 1
      BY <1>1, <2>2
    <3>2. whole[k] = back[k - (i + 1)]
      BY <1>1, <1>6, <2>2
    <3>3. back[k - (i + 1)] = list[k - 1]
      BY <1>3, <3>1
    <3> QED BY <1>1, <2>2, <3>2, <3>3
  <2> QED BY <1>1, <2>1, <2>2
<1> QED BY <1>6, <1>7, <1>8 DEF Inserted

\* What is in the list `new` that has the item after the first i of the old one,
\* place by place.
Placed(new, list, it, f, i) ==
    /\ \A k \in i + 1 .. Len(list) : Before(f, it, list[k])
    /\ i > 0 => ~Before(f, it, list[i])
    /\ new \in Seq(EntrySet)
    /\ i = TopN => new = list
    /\ i # TopN =>
         /\ i < TopN
         /\ Len(new) = Least(TopN, Len(list) + 1)
         /\ \A k \in 1 .. Least(TopN, Len(list) + 1) :
               new[k] = IF k <= i THEN list[k] ELSE IF k = i + 1 THEN it ELSE list[k - 1]

\* insertTop, place by place: the item at its place and no more than TopN
\* entries (libstats.go:306-320).
LEMMA InsertTopEntries ==
    ASSUME NEW f \in {"bytes", "added"}, NEW list \in Seq(EntrySet), NEW it \in EntrySet,
           Len(list) <= TopN
    PROVE  \E i \in 0 .. Len(list) : Placed(InsertTop(list, it, f), list, it, f, i)
<1>1. TopN \in Nat \ {0} /\ Len(list) \in Nat
  BY LibStatsAssumption, LenProperties
<1>2. PICK i \in 0 .. Len(list) :
         /\ \A k \in i + 1 .. Len(list) : Before(f, it, list[k])
         /\ i > 0 => ~Before(f, it, list[i])
         /\ InsertTop(list, it, f) =
              IF i = TopN THEN list
              ELSE SubSeq(InsertAt(list, i + 1, it), 1,
                          Least(TopN, Len(InsertAt(list, i + 1, it))))
  BY InsertPlace, ZenonT(30)
<1> DEFINE longer == InsertAt(list, i + 1, it)
           n == Least(TopN, Len(list) + 1)
<1>3. /\ longer \in Seq(EntrySet) /\ Len(longer) = Len(list) + 1
      /\ \A k \in 1 .. Len(list) + 1 :
            longer[k] = IF k <= i THEN list[k] ELSE IF k = i + 1 THEN it ELSE list[k - 1]
  <2> HIDE DEF longer
  <2>1. Inserted(EntrySet, longer, list, it, i)
    BY InsertAtEntries DEF longer
  <2> QED BY <2>1 DEF Inserted
<1>4. n \in 1 .. Len(list) + 1
  BY <1>1 DEF Least
<1> HIDE DEF longer, n
<1>5. \A k \in 1 .. n : longer[k] \in EntrySet
  BY <1>1, <1>3, <1>4, ElementOfSeq
<1>6. /\ SubSeq(longer, 1, n) \in Seq(EntrySet) /\ Len(SubSeq(longer, 1, n)) = n
      /\ \A k \in 1 .. n : SubSeq(longer, 1, n)[k] = longer[k]
  BY <1>1, <1>4, <1>5, SubSeqProperties
<1>7. i # TopN => InsertTop(list, it, f) = SubSeq(longer, 1, n)
  BY <1>2, <1>3 DEF longer, n
<1>8. i # TopN =>
        /\ InsertTop(list, it, f) \in Seq(EntrySet) /\ i < TopN
        /\ Len(InsertTop(list, it, f)) = n
        /\ \A k \in 1 .. n :
              InsertTop(list, it, f)[k] =
                  IF k <= i THEN list[k] ELSE IF k = i + 1 THEN it ELSE list[k - 1]
  BY <1>1, <1>3, <1>4, <1>6, <1>7
<1>9. i = TopN => InsertTop(list, it, f) = list
  BY <1>2
<1> QED BY <1>2, <1>8, <1>9 DEF n, Placed

\* IsTop, place by place.
LEMMA TopPlaces ==
    ASSUME NEW f \in {"bytes", "added"}, NEW list \in Seq(ViewSet(f)), NEW all \in SUBSET ViewSet(f)
    PROVE  IsTop(list, all, f) <=>
             /\ Len(list) <= TopN
             /\ \A i \in 1 .. Len(list) : list[i] \in all
             /\ Len(list) < TopN => \A a \in all : \E i \in 1 .. Len(list) : list[i] = a
             /\ \A i, j \in 1 .. Len(list) : i < j => Before(f, list[i], list[j])
             /\ \A a \in all : \/ \E i \in 1 .. Len(list) : list[i] = a
                               \/ \A i \in 1 .. Len(list) : Before(f, list[i], a)
<1>1. DOMAIN list = 1 .. Len(list) /\ ToSet(list) = {list[i] : i \in 1 .. Len(list)}
  BY LenProperties DEF ToSet
<1> QED BY <1>1, Zenon DEF IsTop

\* An item put at its place among the top ones, the last one dropped if there
\* are too many, leaves the top ones of all.
LEMMA TopInserted ==
    ASSUME NEW f \in {"bytes", "added"}, NEW old \in Seq(ViewSet(f)), NEW v \in ViewSet(f),
           NEW all \in SUBSET ViewSet(f), IsTop(old, all, f), \A a \in all : a.key # v.key,
           NEW i \in 0 .. Len(old), i < TopN,
           \A k \in i + 1 .. Len(old) : Before(f, v, old[k]),
           \A k \in 1 .. i : Before(f, old[k], v),
           NEW new \in Seq(ViewSet(f)), Len(new) = Least(TopN, Len(old) + 1),
           \A k \in 1 .. Len(new) :
              new[k] = IF k <= i THEN old[k] ELSE IF k = i + 1 THEN v ELSE old[k - 1]
    PROVE  IsTop(new, all \cup {v}, f)
<1> DEFINE n == Len(old)
           m == Len(new)
<1>1. n \in Nat /\ m \in Nat /\ TopN \in Nat \ {0} /\ \A k \in 1 .. n : old[k] \in ViewSet(f)
  BY LenProperties, ElementOfSeq, LibStatsAssumption
<1>2. /\ n <= TopN
      /\ \A k \in 1 .. n : old[k] \in all
      /\ n < TopN => \A a \in all : \E k \in 1 .. n : old[k] = a
      /\ \A k, l \in 1 .. n : k < l => Before(f, old[k], old[l])
      /\ \A a \in all : \/ \E k \in 1 .. n : old[k] = a
                        \/ \A k \in 1 .. n : Before(f, old[k], a)
  BY TopPlaces
<1>3. m = IF n < TopN THEN n + 1 ELSE TopN
  BY <1>1, <1>2 DEF Least
<1>4. i + 1 \in 1 .. m /\ new[i + 1] = v
  BY <1>1, <1>2, <1>3
<1>5. \A k \in 1 .. m : \/ k \in 1 .. i /\ k \in 1 .. n /\ new[k] = old[k]
                        \/ k = i + 1 /\ new[k] = v
                        \/ k > i + 1 /\ k - 1 \in i + 1 .. n /\ k - 1 \in 1 .. n /\ new[k] = old[k - 1]
  BY <1>1, <1>2, <1>3
<1>0. /\ i \in 0 .. n /\ i \in Int
      /\ \A k \in i + 1 .. n : Before(f, v, old[k])
      /\ \A k \in 1 .. i : Before(f, old[k], v)
  OBVIOUS
<1> HIDE DEF n, m
<1>6. m <= TopN
  BY <1>1, <1>3
<1>7. \A k \in 1 .. m : new[k] \in all \cup {v}
  BY <1>2, <1>5
\* Where each of the old ones is now.
<1>8. \A k \in 1 .. n : \/ k \in 1 .. i /\ k \in 1 .. m /\ new[k] = old[k]
                        \/ k \in i + 1 .. n /\ k + 1 \in 1 .. m /\ new[k + 1] = old[k]
                        \/ k = n /\ n = TopN /\ k \in i + 1 .. n
  <2> SUFFICES ASSUME NEW k \in 1 .. n
               PROVE  \/ k \in 1 .. i /\ k \in 1 .. m /\ new[k] = old[k]
                      \/ k \in i + 1 .. n /\ k + 1 \in 1 .. m /\ new[k + 1] = old[k]
                      \/ k = n /\ n = TopN /\ k \in i + 1 .. n
    OBVIOUS
  <2>1. CASE k <= i
    BY <1>1, <1>3, <1>5, <2>1
  <2>2. CASE k > i /\ k + 1 <= m
    <3>1. k + 1 \in 1 .. m /\ k + 1 > i + 1 /\ (k + 1) - 1 = k /\ k \in i + 1 .. n
      BY <1>1, <2>2
    <3>2. new[k + 1] = old[k]
      BY <1>1, <1>5, <3>1
    <3> QED BY <3>1, <3>2
  <2>3. CASE k > i /\ ~(k + 1 <= m)
    BY <1>1, <1>2, <1>3, <2>3
  <2> QED BY <1>1, <2>1, <2>2, <2>3
<1>9. ASSUME m < TopN, NEW a \in all \cup {v} PROVE \E k \in 1 .. m : new[k] = a
  <2>1. CASE a = v
    BY <1>4, <2>1
  <2>2. CASE a # v
    <3>1. n < TopN
      BY <1>1, <1>3, <1>9
    <3>2. PICK k \in 1 .. n : old[k] = a
      BY <1>2, <1>9, <2>2, <3>1
    <3>3. ~(n = TopN)
      BY <1>1, <3>1
    <3> QED BY <1>8, <3>2, <3>3
  <2> QED BY <2>1, <2>2
<1>10. ASSUME NEW k \in 1 .. m, NEW l \in 1 .. m, k < l PROVE Before(f, new[k], new[l])
  <2>1. CASE k <= i /\ l <= i
    <3>1. /\ k \in 1 .. n /\ new[k] = old[k]
          /\ l \in 1 .. n /\ new[l] = old[l]
      BY <1>1, <1>5, <2>1
    <3> QED BY <1>2, <1>10, <3>1
  <2>2. CASE k <= i /\ l = i + 1
    <3>1. k \in 1 .. i /\ new[k] = old[k] /\ new[l] = v
      BY <1>1, <1>5, <2>2
    <3> QED BY <1>0, <3>1
  <2>3. CASE k <= i /\ l > i + 1
    <3>1. k \in 1 .. i /\ k \in 1 .. n /\ new[k] = old[k]
      BY <1>1, <1>5, <2>3
    <3>2. l - 1 \in 1 .. n /\ k < l - 1 /\ new[l] = old[l - 1]
      BY <1>1, <1>5, <1>10, <2>3
    <3> QED BY <1>2, <3>1, <3>2
  <2>4. CASE k = i + 1 /\ l > i + 1
    <3>1. new[k] = v /\ l - 1 \in i + 1 .. n /\ new[l] = old[l - 1]
      BY <1>1, <1>5, <1>10, <2>4
    <3> QED BY <1>0, <3>1
  <2>5. CASE k > i + 1
    <3>1. k - 1 \in 1 .. n /\ l - 1 \in 1 .. n /\ k - 1 < l - 1
      BY <1>1, <1>5, <1>10, <2>5
    <3>2. new[k] = old[k - 1] /\ new[l] = old[l - 1]
      BY <1>1, <1>5, <1>10, <2>5
    <3> QED BY <1>2, <3>1, <3>2
  <2> QED BY <1>0, <1>1, <1>10, <2>1, <2>2, <2>3, <2>4, <2>5
\* A new one is an old one or v, and v is before the one that was dropped.
<1>11. ASSUME NEW a \in all \cup {v}
       PROVE  \/ \E k \in 1 .. m : new[k] = a
              \/ \A k \in 1 .. m : Before(f, new[k], a)
  <2>1. CASE a = v
    BY <1>4, <2>1
  <2>2. CASE a \in all /\ \E k \in 1 .. n : old[k] = a
    <3>1. PICK k \in 1 .. n : old[k] = a
      BY <2>2
    <3>2. CASE k = n /\ n = TopN /\ k \in i + 1 .. n
      <4>1. Before(f, v, a)
        BY <1>0, <3>1, <3>2
      <4>2. \A l \in 1 .. m : l <= TopN /\ (l <= i => l < n) /\ (l > i + 1 => l - 1 < n)
        BY <1>1, <1>3, <3>2
      <4>3. \A l \in 1 .. n : l < n => Before(f, old[l], a)
        BY <1>2, <3>1, <3>2
      <4>4. ASSUME NEW l \in 1 .. m PROVE Before(f, new[l], a)
        <5>1. CASE l \in 1 .. i /\ l \in 1 .. n /\ new[l] = old[l]
          BY <1>1, <4>2, <4>3, <5>1
        <5>2. CASE l = i + 1 /\ new[l] = v
          BY <4>1, <5>2
        <5>3. CASE l > i + 1 /\ l - 1 \in i + 1 .. n /\ l - 1 \in 1 .. n /\ new[l] = old[l - 1]
          BY <1>1, <4>2, <4>3, <5>3
        <5> QED BY <1>5, <5>1, <5>2, <5>3
      <4> QED BY <4>4
    <3> QED BY <1>8, <3>1, <3>2
  <2>3. CASE a \in all /\ \A k \in 1 .. n : Before(f, old[k], a)
    <3>1. CASE n < TopN
      BY <1>2, <2>2, <2>3, <3>1
    <3>2. CASE ~(n < TopN)
      <4>1. n \in i + 1 .. n /\ n \in 1 .. n
        BY <1>1, <1>2, <3>2 DEF n
      <4>2. Before(f, v, old[n]) /\ Before(f, old[n], a)
        BY <1>0, <2>3, <4>1
      <4>3. Before(f, v, a)
        BY <1>1, <2>3, <4>1, <4>2, OrderTransitive
      <4> QED BY <1>5, <2>3, <4>3
    <3> QED BY <3>1, <3>2
  <2> QED BY <1>2, <2>1, <2>2, <2>3
<1>12. all \cup {v} \in SUBSET ViewSet(f)
  OBVIOUS
<1> QED BY <1>6, <1>7, <1>9, <1>10, <1>11, <1>12, TopPlaces DEF m

\* insertTop keeps a list the top of all that went in (libstats.go:306-320).
LEMMA InsertTopIsTop ==
    ASSUME NEW f \in {"bytes", "added"}, NEW list \in Seq(EntrySet), NEW it \in EntrySet,
           NEW all \in SUBSET ViewSet(f), IsTop(Viewed(list, f), all, f),
           \A a \in all : a.key # it.key
    PROVE  /\ InsertTop(list, it, f) \in Seq(EntrySet)
           /\ Len(InsertTop(list, it, f)) <= TopN
           /\ ToSet(InsertTop(list, it, f)) \subseteq ToSet(list) \cup {it}
           /\ IsTop(Viewed(InsertTop(list, it, f), f), all \cup {View(it, f)}, f)
<1> DEFINE old == Viewed(list, f)
           v == View(it, f)
           next == InsertTop(list, it, f)
           new == Viewed(next, f)
<1>1. /\ old \in Seq(ViewSet(f)) /\ Len(old) = Len(list) /\ Len(list) \in Nat
      /\ \A k \in 1 .. Len(list) : old[k] = View(list[k], f)
      /\ \A k \in 1 .. Len(list) : list[k] \in EntrySet
  BY ViewedSeq, ElementOfSeq
<1>2. v \in ViewSet(f) /\ v.key = it.key
  BY ViewKeeps
<1>3. /\ Len(list) <= TopN /\ \A k \in 1 .. Len(list) : old[k] \in all
      /\ \A k, l \in 1 .. Len(list) : k < l => Before(f, old[k], old[l])
      /\ \A a \in all : \/ \E k \in 1 .. Len(list) : old[k] = a
                        \/ \A k \in 1 .. Len(list) : Before(f, old[k], a)
  <2> HIDE DEF old
  <2> QED BY <1>1, TopPlaces DEF old
<1>4. PICK i \in 0 .. Len(list) : Placed(next, list, it, f, i)
  <2>1. Len(list) <= TopN
    BY <1>3
  <2> HIDE DEF old, v, new
  <2> QED BY <2>1, InsertTopEntries
<1> USE DEF Placed
<1> HIDE DEF next
<1>5. /\ new \in Seq(ViewSet(f)) /\ Len(new) = Len(next) /\ Len(next) \in Nat
      /\ \A k \in 1 .. Len(next) : new[k] = View(next[k], f)
      /\ \A k \in 1 .. Len(next) : next[k] \in EntrySet
  BY <1>4, ViewedSeq, ElementOfSeq
<1> DEFINE b(x, y) == Before(f, x, y)
<1>6. \A k \in i + 1 .. Len(list) : b(v, old[k])
  BY <1>1, <1>4, ViewOrder
<1>7. i > 0 => b(old[i], v)
  <2> SUFFICES ASSUME i > 0 PROVE b(old[i], v)
    OBVIOUS
  <2>1. i \in 1 .. Len(list) /\ old[i] \in all /\ old[i].key # v.key
    BY <1>1, <1>2, <1>3
  <2>2. ~b(v, old[i])
    BY <1>1, <1>4, <2>1, ViewOrder
  <2>3. old[i] \in ViewSet(f)
    BY <2>1
  <2> HIDE DEF old, v
  <2> QED BY <1>2, <2>1, <2>2, <2>3, OrderTotal
<1>8. \A k \in 1 .. i : b(old[k], v)
  <2> SUFFICES ASSUME NEW k \in 1 .. i PROVE b(old[k], v)
    OBVIOUS
  <2>1. k \in 1 .. Len(list) /\ i \in 1 .. Len(list) /\ i > 0
    BY <1>1
  <2>2. CASE k = i
    BY <1>7, <2>1, <2>2
  <2>3. CASE k # i
    <3>1. b(old[k], old[i]) /\ old[k] \in ViewSet(f) /\ old[i] \in ViewSet(f)
      BY <1>3, <2>1, <2>3
    <3>2. b(old[i], v) /\ v \in ViewSet(f)
      BY <1>2, <1>7, <2>1
    <3> HIDE DEF old, v
    <3> QED BY <3>1, <3>2, OrderTransitive
  <2> QED BY <2>2, <2>3
<1>9. CASE i = TopN
  <2>1. next = list /\ Len(list) = TopN /\ new = old
    BY <1>1, <1>3, <1>4, <1>9, LibStatsAssumption
  <2>2. IsTop(old, all \cup {v}, f)
    <3>1. ~(Len(old) < TopN)
      BY <1>1, <2>1
    <3>2. \A k \in 1 .. Len(list) : b(old[k], v)
      BY <1>8, <1>9, <2>1
    <3>3. all \cup {v} \in SUBSET ViewSet(f)
      BY <1>2
    <3>4. \A k \in 1 .. Len(list) : old[k] \in all \cup {v}
      BY <1>3
    <3>5. \A a \in all \cup {v} : \/ \E k \in 1 .. Len(list) : old[k] = a
                                 \/ \A k \in 1 .. Len(list) : b(old[k], a)
      BY <1>3, <3>2
    <3>6. Len(list) <= TopN /\ \A k, l \in 1 .. Len(list) : k < l => b(old[k], old[l])
      BY <1>3
    <3>7. old \in Seq(ViewSet(f)) /\ Len(old) = Len(list)
      BY <1>1
    <3> HIDE DEF old, v
    <3> QED BY <3>1, <3>3, <3>4, <3>5, <3>6, <3>7, TopPlaces
  <2>3. list \in Seq(EntrySet) /\ Len(list) <= TopN
    BY <1>3
  <2> HIDE DEF old, v, new
  <2>4. next \in Seq(EntrySet) /\ Len(next) <= TopN /\ ToSet(next) \subseteq ToSet(list) \cup {it}
    BY <2>1, <2>3
  <2>5. IsTop(new, all \cup {v}, f)
    BY <2>1, <2>2
  <2> QED BY <2>4, <2>5 DEF next, new, v
<1>10. CASE i # TopN
  <2>1. Len(next) = Least(TopN, Len(list) + 1) /\ Len(next) <= TopN
    BY <1>1, <1>3, <1>4, <1>10, LibStatsAssumption DEF Least
  <2>2. \A k \in 1 .. Len(next) :
           new[k] = IF k <= i THEN old[k] ELSE IF k = i + 1 THEN v ELSE old[k - 1]
    <3> SUFFICES ASSUME NEW k \in 1 .. Len(next)
                 PROVE  new[k] = IF k <= i THEN old[k] ELSE IF k = i + 1 THEN v ELSE old[k - 1]
      OBVIOUS
    <3>1. new[k] = View(next[k], f)
      BY <1>5
    <3>2. CASE k <= i
      <4>1. next[k] = list[k] /\ k \in 1 .. Len(list)
        BY <1>1, <1>4, <1>10, <2>1, <3>2
      <4> QED BY <1>1, <3>1, <3>2, <4>1
    <3>3. CASE k = i + 1
      BY <1>1, <1>4, <1>10, <2>1, <3>1, <3>3
    <3>4. CASE k > i + 1
      <4>0. Len(next) \in Nat /\ Len(next) <= Len(list) + 1
        BY <1>1, <2>1, LibStatsAssumption DEF Least
      <4>1. next[k] = list[k - 1] /\ k - 1 \in 1 .. Len(list)
        BY <1>1, <1>4, <1>10, <3>4, <4>0
      <4> QED BY <1>1, <3>1, <3>4, <4>1
    <3> QED BY <1>1, <3>2, <3>3, <3>4
  <2>3. ToSet(next) \subseteq ToSet(list) \cup {it}
    <3>1. \A k \in 1 .. Len(next) : next[k] = it \/ \E l \in 1 .. Len(list) : next[k] = list[l]
      <4> SUFFICES ASSUME NEW k \in 1 .. Len(next), next[k] # it
                   PROVE  \E l \in 1 .. Len(list) : next[k] = list[l]
        OBVIOUS
      <4>1. next[k] = IF k <= i THEN list[k] ELSE IF k = i + 1 THEN it ELSE list[k - 1]
        BY <1>4, <1>10, <2>1
      <4>2. CASE k <= i
        BY <1>1, <4>1, <4>2
      <4>3. CASE k > i + 1
        <5>1. k - 1 \in 1 .. Len(list)
          BY <1>1, <1>4, <1>10, <2>1, <4>3, LibStatsAssumption DEF Least
        <5> QED BY <1>1, <4>1, <4>3, <5>1
      <4> QED BY <1>1, <4>1, <4>2, <4>3
    <3>2. DOMAIN list = 1 .. Len(list) /\ DOMAIN next = 1 .. Len(next)
      BY <1>4, LenProperties
    <3> QED BY <3>1, <3>2 DEF ToSet
  <2>4. IsTop(new, all \cup {v}, f)
    <3>1. \A a \in all : a.key # v.key
      BY <1>2
    <3>2. i \in 0 .. Len(old) /\ i < TopN /\ Len(new) = Least(TopN, Len(old) + 1)
      BY <1>1, <1>4, <1>5, <1>10, <2>1
    <3>3. IsTop(old, all, f)
      OBVIOUS
    <3> HIDE DEF old, v, new
    <3> QED BY <1>1, <1>2, <1>5, <1>6, <1>8, <2>2, <3>1, <3>2, <3>3, TopInserted
  <2> QED BY <1>4, <1>10, <2>1, <2>3, <2>4 DEF next
<1> QED BY <1>9, <1>10 DEF next

-----------------------------------------------------------------------------
\* The two loops of MergeRecent as functions of the entries and lists gone through.
IsInsertion(g, N, out, list) ==
    g = [n \in 0 .. N |-> IF n = 0 THEN out ELSE InsertTop(g[n - 1], list[n], "added")]
IsMerging(g, N, lists) ==
    g = [n \in 0 .. N |-> IF n = 0 THEN <<>> ELSE WithList(g[n - 1], lists[n])]

\* The equation of the inner loop.
LEMMA InsertionStep ==
    ASSUME NEW N \in Nat, NEW out, NEW list, NEW g, IsInsertion(g, N, out, list)
    PROVE  /\ g[0] = out
           /\ \A n \in 1 .. N : g[n] = InsertTop(g[n - 1], list[n], "added")
<1> DEFINE rhs == [n \in 0 .. N |-> IF n = 0 THEN out ELSE InsertTop(g[n - 1], list[n], "added")]
<1>1. g = rhs
  BY DEF IsInsertion
<1>2. rhs[0] = out /\ \A n \in 1 .. N : rhs[n] = InsertTop(g[n - 1], list[n], "added")
  OBVIOUS
<1> HIDE DEF rhs
<1> QED BY <1>1, <1>2

\* It has a solution, built place by place.
LEMMA InsertionExists ==
    ASSUME NEW N \in Nat, NEW out, NEW list
    PROVE  \E g : IsInsertion(g, N, out, list)
<1> DEFINE B == {n \in 0 .. N : \E g : IsInsertion(g, n, out, list)}
<1>1. 0 \in B
  <2>1. IsInsertion([n \in 0 .. 0 |-> out], 0, out, list)
    BY DEF IsInsertion
  <2> QED BY <2>1
<1>2. ASSUME NEW n \in 1 .. N, n - 1 \in B PROVE n \in B
  <2>1. PICK g : IsInsertion(g, n - 1, out, list)
    BY <1>2
  <2> DEFINE next == InsertTop(g[n - 1], list[n], "added")
             h == [m \in 0 .. n |-> IF m = n THEN next ELSE g[m]]
  <2>2. g[0] = out /\ \A m \in 1 .. n - 1 : g[m] = InsertTop(g[m - 1], list[m], "added")
    BY <2>1, InsertionStep
  <2>3. \A m \in 0 .. n : h[m] = IF m = 0 THEN out ELSE InsertTop(h[m - 1], list[m], "added")
    <3> SUFFICES ASSUME NEW m \in 0 .. n
                 PROVE  h[m] = IF m = 0 THEN out ELSE InsertTop(h[m - 1], list[m], "added")
      OBVIOUS
    <3>1. CASE m = 0
      BY <2>2, <3>1
    <3>2. CASE m \in 1 .. n - 1
      <4>1. h[m] = g[m] /\ h[m - 1] = g[m - 1] /\ m # 0
        BY <3>2
      <4> QED BY <2>2, <3>2, <4>1
    <3>3. CASE m = n
      <4>1. h[m] = next /\ h[m - 1] = g[n - 1] /\ m # 0
        BY <3>3
      <4> QED BY <3>3, <4>1
    <3> QED BY <3>1, <3>2, <3>3
  <2>4. h = [m \in 0 .. n |-> IF m = 0 THEN out ELSE InsertTop(h[m - 1], list[m], "added")]
    <3> DEFINE k == [m \in 0 .. n |-> IF m = 0 THEN out ELSE InsertTop(h[m - 1], list[m], "added")]
    <3>1. DOMAIN h = 0 .. n /\ DOMAIN k = 0 .. n /\ h = [m \in 0 .. n |-> h[m]]
      OBVIOUS
    <3>2. \A m \in 0 .. n : h[m] = k[m]
      BY <2>3
    <3>3. k = [m \in 0 .. n |-> k[m]]
      OBVIOUS
    <3> HIDE DEF h, k
    <3>4. h = k
      BY <3>1, <3>2, <3>3
    <3> QED BY <3>4 DEF k
  <2> HIDE DEF h
  <2> QED BY <2>4 DEF IsInsertion
<1>3. N \in B
  <2> HIDE DEF B
  <2> QED BY <1>1, <1>2, PlaceInduction
<1> QED BY <1>3

\* The equation of the outer loop.
LEMMA MergingStep ==
    ASSUME NEW N \in Nat, NEW lists, NEW g, IsMerging(g, N, lists)
    PROVE  g[0] = <<>> /\ \A n \in 1 .. N : g[n] = WithList(g[n - 1], lists[n])
<1> DEFINE rhs == [n \in 0 .. N |-> IF n = 0 THEN <<>> ELSE WithList(g[n - 1], lists[n])]
<1>1. g = rhs
  BY DEF IsMerging
<1>2. rhs[0] = <<>> /\ \A n \in 1 .. N : rhs[n] = WithList(g[n - 1], lists[n])
  OBVIOUS
<1> HIDE DEF rhs
<1> QED BY <1>1, <1>2

\* It has a solution as well.
LEMMA MergingExists ==
    ASSUME NEW N \in Nat, NEW lists
    PROVE  \E g : IsMerging(g, N, lists)
<1> DEFINE B == {n \in 0 .. N : \E g : IsMerging(g, n, lists)}
<1>1. 0 \in B
  <2>1. IsMerging([n \in 0 .. 0 |-> <<>>], 0, lists)
    BY DEF IsMerging
  <2> QED BY <2>1
<1>2. ASSUME NEW n \in 1 .. N, n - 1 \in B PROVE n \in B
  <2>1. PICK g : IsMerging(g, n - 1, lists)
    BY <1>2
  <2> DEFINE next == WithList(g[n - 1], lists[n])
             h == [m \in 0 .. n |-> IF m = n THEN next ELSE g[m]]
  <2>2. g[0] = <<>> /\ \A m \in 1 .. n - 1 : g[m] = WithList(g[m - 1], lists[m])
    BY <2>1, MergingStep
  <2>3. \A m \in 0 .. n : h[m] = IF m = 0 THEN <<>> ELSE WithList(h[m - 1], lists[m])
    <3> SUFFICES ASSUME NEW m \in 0 .. n
                 PROVE  h[m] = IF m = 0 THEN <<>> ELSE WithList(h[m - 1], lists[m])
      OBVIOUS
    <3>1. CASE m = 0
      BY <2>2, <3>1
    <3>2. CASE m \in 1 .. n - 1
      <4>1. h[m] = g[m] /\ h[m - 1] = g[m - 1] /\ m # 0
        BY <3>2
      <4> QED BY <2>2, <3>2, <4>1
    <3>3. CASE m = n
      <4>1. h[m] = next /\ h[m - 1] = g[n - 1] /\ m # 0
        BY <3>3
      <4> QED BY <3>3, <4>1
    <3> QED BY <3>1, <3>2, <3>3
  <2>4. h = [m \in 0 .. n |-> IF m = 0 THEN <<>> ELSE WithList(h[m - 1], lists[m])]
    <3> DEFINE k == [m \in 0 .. n |-> IF m = 0 THEN <<>> ELSE WithList(h[m - 1], lists[m])]
    <3>1. DOMAIN h = 0 .. n /\ DOMAIN k = 0 .. n /\ h = [m \in 0 .. n |-> h[m]]
      OBVIOUS
    <3>2. \A m \in 0 .. n : h[m] = k[m]
      BY <2>3
    <3>3. k = [m \in 0 .. n |-> k[m]]
      OBVIOUS
    <3> HIDE DEF h, k
    <3>4. h = k
      BY <3>1, <3>2, <3>3
    <3> QED BY <3>4 DEF k
  <2> HIDE DEF h
  <2> QED BY <2>4 DEF IsMerging
<1>3. N \in B
  <2> HIDE DEF B
  <2> QED BY <1>1, <1>2, PlaceInduction
<1> QED BY <1>3

\* WithList and MergeRecent are the solutions at the last place.
LEMMA LoopsRun ==
    /\ \A out, list : Len(list) \in Nat =>
          \E g : IsInsertion(g, Len(list), out, list) /\ WithList(out, list) = g[Len(list)]
    /\ \A lists : Len(lists) \in Nat =>
          \E g : IsMerging(g, Len(lists), lists) /\ MergeRecent(lists) = g[Len(lists)]
<1>1. ASSUME NEW out, NEW list, Len(list) \in Nat
      PROVE  \E g : IsInsertion(g, Len(list), out, list) /\ WithList(out, list) = g[Len(list)]
  <2> DEFINE g == CHOOSE g : IsInsertion(g, Len(list), out, list)
  <2>1. IsInsertion(g, Len(list), out, list)
    BY <1>1, InsertionExists
  <2>2. WithList(out, list) = g[Len(list)]
    BY DEF WithList, IsInsertion
  <2> QED BY <2>1, <2>2
<1>2. ASSUME NEW lists, Len(lists) \in Nat
      PROVE  \E g : IsMerging(g, Len(lists), lists) /\ MergeRecent(lists) = g[Len(lists)]
  <2> DEFINE g == CHOOSE g : IsMerging(g, Len(lists), lists)
  <2>1. IsMerging(g, Len(lists), lists)
    BY <1>2, MergingExists
  <2>2. MergeRecent(lists) = g[Len(lists)]
    BY DEF MergeRecent, IsMerging
  <2> QED BY <2>1, <2>2
<1> QED BY <1>1, <1>2

-----------------------------------------------------------------------------
\* What the merge needs of the lists: entries, and no key twice.
AddedSet(list) == {View(list[i], "added") : i \in 1 .. Len(list)}

\* The inner loop adds a whole list to a top list.
LEMMA WithListTop ==
    ASSUME NEW out \in Seq(EntrySet), NEW list \in Seq(EntrySet),
           NEW all \in SUBSET ViewSet("added"), IsTop(Viewed(out, "added"), all, "added"),
           \A a \in all : \A i \in 1 .. Len(list) : a.key # list[i].key,
           \A i, j \in 1 .. Len(list) : list[i].key = list[j].key => i = j
    PROVE  /\ WithList(out, list) \in Seq(EntrySet)
           /\ IsTop(Viewed(WithList(out, list), "added"), all \cup AddedSet(list), "added")
<1>1. Len(list) \in Nat /\ \A i \in 1 .. Len(list) : list[i] \in EntrySet
  BY LenProperties, ElementOfSeq
<1>2. PICK g : IsInsertion(g, Len(list), out, list) /\ WithList(out, list) = g[Len(list)]
  BY <1>1, LoopsRun
<1>3. g[0] = out /\ \A n \in 1 .. Len(list) : g[n] = InsertTop(g[n - 1], list[n], "added")
  BY <1>1, <1>2, InsertionStep
<1> DEFINE Upto(n) == all \cup {View(list[i], "added") : i \in 1 .. n}
           B == {n \in 0 .. Len(list) : /\ g[n] \in Seq(EntrySet)
                                        /\ IsTop(Viewed(g[n], "added"), Upto(n), "added")}
<1>4. 0 \in B
  <2>1. Upto(0) = all
    OBVIOUS
  <2> HIDE DEF Upto
  <2> QED BY <1>1, <1>3, <2>1
<1>5. ASSUME NEW n \in 1 .. Len(list), n - 1 \in B PROVE n \in B
  <2> DEFINE old == g[n - 1]
             it == list[n]
  <2>1. old \in Seq(EntrySet) /\ it \in EntrySet /\ g[n] = InsertTop(old, it, "added")
    BY <1>1, <1>3, <1>5
  <2>2. IsTop(Viewed(old, "added"), Upto(n - 1), "added")
    BY <1>5
  <2>3. \A i \in 1 .. n - 1 : list[i] \in EntrySet /\ list[i].key # it.key
    BY <1>1, <1>5
  <2>4. Upto(n - 1) \in SUBSET ViewSet("added")
    BY <2>3, ViewKeeps
  <2>5. \A a \in Upto(n - 1) : a.key # it.key
    BY <2>3, ViewKeeps
  <2>6. Upto(n) = Upto(n - 1) \cup {View(it, "added")}
    <3>1. 1 .. n = (1 .. n - 1) \cup {n}
      BY <1>1
    <3> QED BY <3>1
  <2> HIDE DEF Upto, old, it
  <2>7. /\ InsertTop(old, it, "added") \in Seq(EntrySet)
        /\ IsTop(Viewed(InsertTop(old, it, "added"), "added"),
                 Upto(n - 1) \cup {View(it, "added")}, "added")
    BY <2>1, <2>2, <2>4, <2>5, InsertTopIsTop
  <2>8. g[n] \in Seq(EntrySet) /\ IsTop(Viewed(g[n], "added"), Upto(n), "added")
    BY <2>1, <2>6, <2>7
  <2> QED BY <1>1, <1>5, <2>8
<1>6. Len(list) \in B
  <2> HIDE DEF B
  <2>1. \A n \in 0 .. Len(list) : n \in B
    BY <1>1, <1>4, <1>5, PlaceInduction
  <2> QED BY <1>1, <2>1
<1>7. /\ g[Len(list)] \in Seq(EntrySet)
      /\ IsTop(Viewed(g[Len(list)], "added"), Upto(Len(list)), "added")
  BY <1>6
<1> QED BY <1>2, <1>7 DEF AddedSet

\* MergeRecent keeps the newest of all that the lists hold.
LEMMA MergeTop ==
    ASSUME NEW lists \in Seq(Seq(EntrySet)),
           \A i, j \in 1 .. Len(lists) :
              \A m \in 1 .. Len(lists[i]), n \in 1 .. Len(lists[j]) :
                 lists[i][m].key = lists[j][n].key => i = j /\ m = n
    PROVE  /\ MergeRecent(lists) \in Seq(EntrySet)
           /\ IsTop(Viewed(MergeRecent(lists), "added"),
                    UNION {AddedSet(lists[i]) : i \in 1 .. Len(lists)}, "added")
<1>1. Len(lists) \in Nat /\ \A i \in 1 .. Len(lists) : lists[i] \in Seq(EntrySet)
  BY LenProperties, ElementOfSeq
<1>2. PICK g : IsMerging(g, Len(lists), lists) /\ MergeRecent(lists) = g[Len(lists)]
  BY <1>1, LoopsRun
<1>3. g[0] = <<>> /\ \A n \in 1 .. Len(lists) : g[n] = WithList(g[n - 1], lists[n])
  BY <1>1, <1>2, MergingStep
<1> DEFINE Upto(n) == UNION {AddedSet(lists[i]) : i \in 1 .. n}
           B == {n \in 0 .. Len(lists) : /\ g[n] \in Seq(EntrySet)
                                         /\ IsTop(Viewed(g[n], "added"), Upto(n), "added")}
<1>4. \A i \in 1 .. Len(lists) : \A m \in 1 .. Len(lists[i]) :
         /\ lists[i][m] \in EntrySet
         /\ View(lists[i][m], "added") \in ViewSet("added")
         /\ View(lists[i][m], "added").key = lists[i][m].key
  BY <1>1, ElementOfSeq, ViewKeeps
<1>5. 0 \in B
  <2>1. Upto(0) = {}
    OBVIOUS
  <2> HIDE DEF Upto
  <2>2. <<>> \in Seq(EntrySet) /\ Viewed(<<>>, "added") = <<>> /\ Len(<<>>) = 0 /\ TopN \in Nat
    BY LibStatsAssumption DEF Viewed
  <2>3. IsTop(<<>>, {}, "added")
    BY <2>2 DEF IsTop, ToSet
  <2>4. g[0] \in Seq(EntrySet) /\ IsTop(Viewed(g[0], "added"), Upto(0), "added")
    BY <1>3, <2>1, <2>2, <2>3
  <2> QED BY <1>1, <2>4
<1>6. ASSUME NEW n \in 1 .. Len(lists), n - 1 \in B PROVE n \in B
  <2> DEFINE old == g[n - 1]
             list == lists[n]
  <2>1. old \in Seq(EntrySet) /\ list \in Seq(EntrySet) /\ g[n] = WithList(old, list)
    BY <1>1, <1>3, <1>6
  <2>2. IsTop(Viewed(old, "added"), Upto(n - 1), "added")
    BY <1>6
  <2>3. n \in 1 .. Len(lists) /\ \A i \in 1 .. n - 1 : i \in 1 .. Len(lists) /\ i # n
    BY <1>1, <1>6
  <2>4. Upto(n - 1) \in SUBSET ViewSet("added")
    BY <1>4, <2>3 DEF AddedSet
  <2>5. \A a \in Upto(n - 1) : \A m \in 1 .. Len(list) : a.key # list[m].key
    <3> SUFFICES ASSUME NEW i \in 1 .. n - 1, NEW a \in AddedSet(lists[i]), NEW m \in 1 .. Len(list)
                 PROVE  a.key # list[m].key
      OBVIOUS
    <3>1. PICK o \in 1 .. Len(lists[i]) : a = View(lists[i][o], "added")
      BY DEF AddedSet
    <3>2. a.key = lists[i][o].key
      BY <1>4, <2>3, <3>1
    <3> QED BY <2>3, <3>2
  <2>6. \A i, j \in 1 .. Len(list) : list[i].key = list[j].key => i = j
    BY <2>3
  <2>7. Upto(n) = Upto(n - 1) \cup AddedSet(list)
    <3>1. 1 .. n = (1 .. n - 1) \cup {n}
      BY <1>1
    <3> QED BY <3>1
  <2> HIDE DEF Upto, old, list
  <2>8. /\ WithList(old, list) \in Seq(EntrySet)
        /\ IsTop(Viewed(WithList(old, list), "added"), Upto(n - 1) \cup AddedSet(list), "added")
    BY <2>1, <2>2, <2>4, <2>5, <2>6, WithListTop
  <2>9. g[n] \in Seq(EntrySet) /\ IsTop(Viewed(g[n], "added"), Upto(n), "added")
    BY <2>1, <2>7, <2>8
  <2> QED BY <1>1, <1>6, <2>9
<1>7. Len(lists) \in B
  <2> HIDE DEF B
  <2>1. \A n \in 0 .. Len(lists) : n \in B
    BY <1>1, <1>5, <1>6, PlaceInduction
  <2> QED BY <1>1, <2>1
<1>8. /\ g[Len(lists)] \in Seq(EntrySet)
      /\ IsTop(Viewed(g[Len(lists)], "added"), Upto(Len(lists)), "added")
  BY <1>7
<1> QED BY <1>2, <1>8
\* The members of a list in strict order are as many as its places.
LEMMA TopCard ==
    ASSUME NEW f \in {"bytes", "added"}, NEW list \in Seq(ViewSet(f)),
           NEW all \in SUBSET ViewSet(f), IsTop(list, all, f)
    PROVE  IsFiniteSet(ToSet(list)) /\ Cardinality(ToSet(list)) = Len(list)
<1>1. Len(list) \in Nat /\ DOMAIN list = 1 .. Len(list) /\ \A i \in 1 .. Len(list) : list[i] \in ViewSet(f)
  BY LenProperties, ElementOfSeq
<1>2. IsFiniteSet(1 .. Len(list)) /\ Cardinality(1 .. Len(list)) = Len(list)
  BY <1>1, FS_Interval, SMTT(30)
<1>3. list \in [1 .. Len(list) -> ToSet(list)] /\ \A e \in ToSet(list) : \E i \in 1 .. Len(list) : list[i] = e
  BY <1>1 DEF ToSet
<1>4. \A i, j \in 1 .. Len(list) : list[i] = list[j] => i = j
  <2>1. \A i, j \in 1 .. Len(list) : i < j => Before(f, list[i], list[j])
    BY <1>1 DEF IsTop
  <2>2. \A i, j \in 1 .. Len(list) : i < j => list[i] # list[j]
    BY <1>1, <2>1, OrderTotal
  <2>3. SUFFICES ASSUME NEW i \in 1 .. Len(list), NEW j \in 1 .. Len(list), list[i] = list[j], i # j
                 PROVE  FALSE
    OBVIOUS
  <2>4. i < j \/ j < i
    BY <1>1, <2>3
  <2> QED BY <2>2, <2>3, <2>4
<1>5. list \in Surjection(1 .. Len(list), ToSet(list))
  BY <1>3, Fun_IsSurj
<1>6. list \in Injection(1 .. Len(list), ToSet(list))
  BY <1>3, <1>4, Fun_IsInj
<1> QED BY <1>2, <1>5, <1>6, FS_Surjection

\* A top of what one list keeps of its own, and of more, is a top of all that the
\* list was taken from: what the list let go of would not have come up.
LEMMA TopOfTop ==
    ASSUME NEW f \in {"bytes", "added"}, NEW mine \in Seq(ViewSet(f)), NEW out \in Seq(ViewSet(f)),
           NEW own \in SUBSET ViewSet(f), NEW more \in SUBSET ViewSet(f),
           IsTop(mine, own, f), IsTop(out, ToSet(mine) \cup more, f)
    PROVE  IsTop(out, own \cup more, f)
<1> DEFINE kept == ToSet(mine)
           best == ToSet(out)
<1>1. kept \subseteq own /\ Len(mine) <= TopN /\ (Len(mine) < TopN => own \subseteq kept)
  BY DEF IsTop
<1>2. \A a \in own \ kept : \A e \in kept : Before(f, e, a)
  BY DEF IsTop
<1>3. /\ best \subseteq kept \cup more /\ Len(out) <= TopN
      /\ Len(out) < TopN => kept \cup more \subseteq best
  BY DEF IsTop
<1>4. /\ \A i, j \in DOMAIN out : i < j => Before(f, out[i], out[j])
      /\ \A a \in (kept \cup more) \ best : \A e \in best : Before(f, e, a)
  BY DEF IsTop
<1>5. IsTop(mine, kept, f)
  BY <1>1 DEF IsTop
<1>6. IsFiniteSet(kept) /\ Cardinality(kept) = Len(mine)
  BY TopCard
<1>7. kept \cup more \in SUBSET ViewSet(f)
  BY <1>1
<1>8. IsFiniteSet(best) /\ Cardinality(best) = Len(out)
  BY <1>7, TopCard
<1>9. Len(mine) \in Nat /\ Len(out) \in Nat /\ TopN \in Nat
  BY LenProperties, LibStatsAssumption
<1> DEFINE m == Len(mine)
           n == Len(out)
<1>10. m \in Nat /\ n \in Nat /\ Cardinality(kept) = m /\ Cardinality(best) = n /\ m <= TopN /\ n <= TopN
  BY <1>1, <1>3, <1>6, <1>8, <1>9
<1>13. IsTop(out, kept \cup more, f)
  OBVIOUS
<1> HIDE DEF kept, best
<1>11. CASE own \subseteq kept
  <2>1. own \cup more = kept \cup more
    BY <1>1, <1>11
  <2> QED BY <1>13, <2>1, Zenon
<1>12. CASE ~(own \subseteq kept)
  <2>1. m = TopN
    BY <1>1, <1>9, <1>10, <1>12
  <2>2. ASSUME kept \subseteq best PROVE best = kept /\ n = TopN
    <3>1. m <= n /\ (m = n => best = kept)
      BY <1>6, <1>8, <1>10, <2>2, FS_Subset
    <3> QED BY <1>9, <1>10, <2>1, <3>1
  <2>3. n = TopN
    <3>1. n < TopN => kept \subseteq best
      BY <1>3
    <3> QED BY <1>9, <1>10, <2>2, <3>1
  <2>4. ASSUME NEW a \in (own \cup more) \ best, NEW e \in best PROVE Before(f, e, a)
    <3>1. CASE a \in kept \cup more
      BY <1>4, <2>4, <3>1
    <3>2. CASE a \in own \ kept
      <4>1. CASE e \in kept
        BY <1>2, <3>2, <4>1
      <4>2. CASE e \notin kept
        <5>1. PICK r \in kept : r \notin best
          BY <2>2, <2>4, <4>2
        <5>2. Before(f, e, r) /\ Before(f, r, a)
          BY <1>2, <1>4, <2>4, <3>2, <5>1
        <5>3. e \in ViewSet(f) /\ r \in ViewSet(f) /\ a \in ViewSet(f)
          BY <1>1, <1>3, <1>7, <2>4, <3>2, <5>1
        <5> QED BY <5>2, <5>3, OrderTransitive
      <4> QED BY <4>1, <4>2
    <3> QED BY <2>4, <3>1, <3>2
  <2>5. best \subseteq own \cup more
    BY <1>1, <1>3
  <2>6. Len(out) <= TopN /\ ~(Len(out) < TopN)
    BY <1>9, <2>3
  <2> QED BY <1>4, <2>4, <2>5, <2>6 DEF IsTop, best
<1> QED BY <1>11, <1>12
-----------------------------------------------------------------------------
\* The versions and sizes of a row.
VersionSet == [res : STRING, codec : STRING, parts : Seq(Int)]

\* The sum of a function is the one over its domain.
LEMMA SumsOverDomain == \A f : SumFunction(f) = SumFunctionOnSet(f, DOMAIN f)
BY DEF SumFunction

\* The larger of two is one of them and below neither.
LEMMA LargerIs ==
    ASSUME NEW m \in Int, NEW n \in Int
    PROVE  Larger(m, n) \in Int /\ Larger(m, n) >= m /\ Larger(m, n) >= n /\ Larger(m, n) \in {m, n}
BY DEF Larger

\* What a row of the walk is made of.
LEMMA RowTyped ==
    ASSUME NEW r \in Rows
    PROVE  /\ r.key \in Nat /\ r.show \in Nat /\ r.added \in Int /\ r.viewed \in Int
           /\ Len(r.media) \in Nat /\ DOMAIN r.media = 1 .. Len(r.media) /\ IsFiniteSet(DOMAIN r.media)
           /\ \A i \in DOMAIN r.media :
                 /\ r.media[i] \in VersionSet /\ r.media[i].parts \in Seq(Int)
                 /\ r.media[i].res \in STRING /\ r.media[i].codec \in STRING
                 /\ r.media[i] \in ToSet(r.media)
<1>1. /\ r.key \in Nat /\ r.show \in Nat /\ r.added \in Int /\ r.viewed \in Int
      /\ r.media \in Seq(VersionSet)
  BY RowsAssumption DEF VersionSet
<1>2. Len(r.media) \in Nat /\ DOMAIN r.media = 1 .. Len(r.media)
  BY <1>1, LenProperties
<1>3. IsFiniteSet(1 .. Len(r.media))
  BY <1>2, FS_Interval
<1>4. \A i \in 1 .. Len(r.media) : r.media[i] \in VersionSet
  BY <1>1, <1>2, ElementOfSeq
<1>5. \A i \in DOMAIN r.media : r.media[i] \in ToSet(r.media)
  BY DEF ToSet
<1> QED BY <1>1, <1>2, <1>3, <1>4, <1>5 DEF VersionSet

\* The versions of an item of known size have sizes that are natural numbers.
LEMMA SizesNat ==
    ASSUME NEW r \in Rows, KnownSize(r)
    PROVE  /\ DOMAIN Sizes(r) = DOMAIN r.media /\ DOMAIN r.media # {}
           /\ Sizes(r) \in [DOMAIN r.media -> Nat]
           /\ \A i \in DOMAIN r.media : Sizes(r)[i] \in Nat
<1>1. /\ IsFiniteSet(DOMAIN r.media)
      /\ \A i \in DOMAIN r.media : r.media[i].parts \in Seq(Int) /\ r.media[i] \in ToSet(r.media)
  BY RowTyped
<1>2. ASSUME NEW i \in DOMAIN r.media PROVE SumFunction(r.media[i].parts) \in Nat
  <2> DEFINE parts == r.media[i].parts
  <2>1. parts \in Seq(Int) /\ \A p \in ToSet(parts) : p > 0
    BY <1>1, <1>2 DEF KnownSize
  <2> HIDE DEF parts
  <2>2. Len(parts) \in Nat /\ DOMAIN parts = 1 .. Len(parts) /\ \A j \in 1 .. Len(parts) : parts[j] \in Int
    BY <2>1, LenProperties, ElementOfSeq
  <2>3. \A j \in DOMAIN parts : parts[j] \in ToSet(parts)
    BY DEF ToSet
  <2>4. IsFiniteSet(DOMAIN parts)
    BY <2>2, FS_Interval
  <2>5. \A j \in DOMAIN parts : parts[j] \in Nat
    BY <2>1, <2>2, <2>3
  <2>6. SumFunction(parts) \in Nat
    BY <2>4, <2>5, SumNat, SumsOverDomain
  <2> QED BY <2>6 DEF parts
<1>3. DOMAIN r.media # {}
  <2>1. r.media \in Seq(VersionSet) /\ r.media # <<>>
    BY RowsAssumption DEF KnownSize, VersionSet
  <2>2. Len(r.media) # 0 /\ Len(r.media) \in Nat
    BY <2>1, EmptySeq
  <2>3. DOMAIN r.media = 1 .. Len(r.media)
    BY RowTyped
  <2>4. 1 \in 1 .. Len(r.media)
    BY <2>2
  <2> QED BY <2>3, <2>4, Zenon
<1> QED BY <1>2, <1>3 DEF Sizes

\* itemBytes fits in int64, and is the sum over the versions (libstats.go:275-296).
LEMMA BytesNat ==
    ASSUME NEW r \in Rows
    PROVE  /\ Bytes(r) \in 0 .. MaxBytes /\ Bytes(r) \in Nat
           /\ KnownSize(r) => Bytes(r) = SumFunctionOnSet(Sizes(r), DOMAIN r.media)
<1>1. MaxBytes \in Nat
  BY LibStatsAssumption
<1>2. CASE KnownSize(r)
  <2>1. SumFunctionOnSet(Sizes(r), DOMAIN r.media) \in Nat
    BY <1>2, RowTyped, SizesNat, SumNat
  <2>2. Bytes(r) = SumFunctionOnSet(Sizes(r), DOMAIN r.media)
    BY <1>2, SizesNat, SumsOverDomain DEF Bytes
  <2>3. SumFunction(Sizes(r)) <= MaxBytes
    BY <1>2 DEF KnownSize
  <2>4. Bytes(r) <= MaxBytes
    BY <1>2, <2>3 DEF Bytes
  <2> QED BY <1>1, <2>1, <2>2, <2>4
<1>3. CASE ~KnownSize(r)
  BY <1>1, <1>3 DEF Bytes
<1> QED BY <1>2, <1>3

\* Every version but the largest: the sum is no less than any of its terms.
LEMMA ExtraNat ==
    ASSUME NEW r \in Rows, KnownSize(r)
    PROVE  Extra(r) \in Nat
<1> DEFINE S == ToSet(Sizes(r))
<1>1. /\ IsFiniteSet(DOMAIN r.media) /\ DOMAIN r.media # {}
      /\ DOMAIN Sizes(r) = DOMAIN r.media /\ Sizes(r) \in [DOMAIN r.media -> Nat]
  BY RowTyped, SizesNat
<1>2. S # {} /\ S \in SUBSET Int /\ \A x \in S : \E i \in DOMAIN r.media : Sizes(r)[i] = x
  BY <1>1 DEF ToSet
<1>3. Sizes(r) \in Surjection(DOMAIN r.media, S)
  <2>1. Sizes(r) \in [DOMAIN r.media -> S]
    BY <1>1 DEF ToSet
  <2> HIDE DEF S
  <2> QED BY <1>2, <2>1, Fun_IsSurj
<1>4. IsFiniteSet(S)
  BY <1>1, <1>3, FS_Surjection
<1>5. \E x \in S : \A y \in S : x >= y
  <2> HIDE DEF S
  <2> QED BY <1>2, <1>4, FiniteMax
<1>6. Max(S) \in S
  BY <1>5 DEF Max
<1>7. PICK i \in DOMAIN r.media : Sizes(r)[i] = Max(S)
  BY <1>2, <1>6
<1>8. Sizes(r)[i] <= SumFunctionOnSet(Sizes(r), DOMAIN r.media)
  BY <1>1, SumBounds
<1>9. Bytes(r) \in Nat /\ Bytes(r) = SumFunctionOnSet(Sizes(r), DOMAIN r.media)
  BY BytesNat
<1>10. Sizes(r)[i] \in Nat /\ Sizes(r)[i] <= Bytes(r)
  BY <1>1, <1>8, <1>9
<1>11. Bytes(r) - Sizes(r)[i] \in Nat
  BY <1>9, <1>10
<1> QED BY <1>7, <1>11 DEF Extra
\* A sum split by the class of its terms.
ClassPart(s, class, T, c) == SumFunctionOnSet([i \in DOMAIN s |-> IF class[i] = c THEN s[i] ELSE 0], T)

\* The sums of the classes add up to the sum of all.
LEMMA SumByClass ==
    ASSUME NEW S, IsFiniteSet(S), NEW C, IsFiniteSet(C), NEW s \in [S -> Int], NEW class \in [S -> C]
    PROVE  SumFunctionOnSet([c \in C |-> ClassPart(s, class, S, c)], C) = SumFunctionOnSet(s, S)
<1> DEFINE split(T) == [c \in C |-> ClassPart(s, class, T, c)]
           B == {T \in SUBSET S : SumFunctionOnSet(split(T), C) = SumFunctionOnSet(s, T)}
<1>1. \A T \in SUBSET S : IsFiniteSet(T)
  BY FS_Subset
<1> DEFINE part(c) == [i \in S |-> IF class[i] = c THEN s[i] ELSE 0]
<1>2. \A T, c : ClassPart(s, class, T, c) = SumFunctionOnSet(part(c), T)
  BY DEF ClassPart
<1>3. \A c \in C : part(c) \in [S -> Int]
  OBVIOUS
<1>4. {} \in B
  <2>1. split({}) \in [C -> {0}]
    BY <1>2, SumEmpty
  <2> DEFINE z == split({})
  <2>2. z \in [C -> {0}]
    BY <2>1
  <2> HIDE DEF z
  <2>6. SumFunctionOnSet(z, C) = 0
    BY <2>2, SumZero
  <2>7. SumFunctionOnSet(split({}), C) = SumFunctionOnSet(s, {})
    BY <2>6, SumEmpty DEF z
  <2> HIDE DEF split
  <2> QED BY <2>7
<1>5. ASSUME NEW T \in SUBSET S, NEW x \in S \ T, T \in B PROVE T \cup {x} \in B
  <2>1. \A c \in C : /\ SumFunctionOnSet(part(c), T) \in Int
                     /\ SumFunctionOnSet(part(c), T \cup {x}) = SumFunctionOnSet(part(c), T) + part(c)[x]
    <3> SUFFICES ASSUME NEW c \in C
                 PROVE  /\ SumFunctionOnSet(part(c), T) \in Int
                        /\ SumFunctionOnSet(part(c), T \cup {x}) = SumFunctionOnSet(part(c), T) + part(c)[x]
      OBVIOUS
    <3> DEFINE p == part(c)
    <3>1. \A y \in T \cup {x} : p[y] \in Int
      BY <1>3
    <3> HIDE DEF p
    <3>2. /\ SumFunctionOnSet(p, T) \in Int
          /\ SumFunctionOnSet(p, T \cup {x}) = SumFunctionOnSet(p, T) + p[x]
      BY <1>1, <3>1, SumAdd
    <3> QED BY <3>2 DEF p
  <2>2. \A c \in C : part(c)[x] = IF class[x] = c THEN s[x] ELSE 0
    OBVIOUS
  <2>3. x \in S /\ class[x] \in C /\ s[x] \in Int
    OBVIOUS
  <2> DEFINE old == split(T)
             new == split(T \cup {x})
  <2> HIDE DEF part
  <2>4. old \in [C -> Int] /\ \A c \in C : new[c] = old[c] + IF class[x] = c THEN s[x] ELSE 0
    BY <1>2, <2>1, <2>2
  <2>5. new = [old EXCEPT ![class[x]] = @ + s[x]]
    <3>1. DOMAIN new = C /\ new = [c \in C |-> new[c]]
      OBVIOUS
    <3> HIDE DEF old, new
    <3>2. ASSUME NEW c \in C PROVE new[c] = [old EXCEPT ![class[x]] = @ + s[x]][c]
      <4>1. CASE c = class[x]
        BY <2>4, <4>1
      <4>2. CASE c # class[x]
        BY <2>4, <4>2
      <4> QED BY <4>1, <4>2
    <3>3. new = [c \in C |-> [old EXCEPT ![class[x]] = @ + s[x]][c]]
      BY <3>1, <3>2, Zenon
    <3> QED BY <2>4, <3>3
  <2> HIDE DEF old, new
  <2>6. SumFunctionOnSet(new, C) = SumFunctionOnSet(old, C) + s[x]
    <3> DEFINE k == class[x]
               n == s[x]
    <3>1. k \in C /\ n \in Int /\ old \in [C -> Int] /\ new = [old EXCEPT ![k] = @ + n]
      BY <2>3, <2>4, <2>5
    <3> HIDE DEF k, n
    <3>2. SumFunctionOnSet([old EXCEPT ![k] = @ + n], C) = SumFunctionOnSet(old, C) + n
      BY <3>1, SumRaised, ZenonT(30)
    <3> QED BY <3>1, <3>2 DEF n
  <2>7. SumFunctionOnSet(s, T \cup {x}) = SumFunctionOnSet(s, T) + s[x]
    <3>1. \A y \in T \cup {x} : s[y] \in Int
      OBVIOUS
    <3> QED BY <1>1, <3>1, SumAdd
  <2>8. SumFunctionOnSet(old, C) = SumFunctionOnSet(s, T)
    BY <1>5 DEF old
  <2>9. SumFunctionOnSet(new, C) = SumFunctionOnSet(s, T \cup {x})
    BY <2>6, <2>7, <2>8
  <2> QED BY <2>9 DEF new
<1>6. S \in B
  <2> HIDE DEF B
  <2> QED BY <1>4, <1>5, SetInduction
<1> QED BY <1>6

\* The labels of the three breakdowns are few.
LEMMA FiniteClasses == IsFiniteSet(Buckets) /\ IsFiniteSet(Resolutions) /\ IsFiniteSet(Codecs)
<1>1. \A a, b, c, d, e : IsFiniteSet({a, b, c, d, e})
  <2> SUFFICES ASSUME NEW a, NEW b, NEW c, NEW d, NEW e PROVE IsFiniteSet({a, b, c, d, e})
    OBVIOUS
  <2>1. IsFiniteSet({a})
    BY FS_Singleton
  <2>2. IsFiniteSet({a} \cup {b})
    BY <2>1, FS_AddElement
  <2>3. IsFiniteSet(({a} \cup {b}) \cup {c})
    BY <2>2, FS_AddElement
  <2>4. IsFiniteSet((({a} \cup {b}) \cup {c}) \cup {d})
    BY <2>3, FS_AddElement
  <2>5. IsFiniteSet(((({a} \cup {b}) \cup {c}) \cup {d}) \cup {e})
    BY <2>4, FS_AddElement
  <2>6. ((({a} \cup {b}) \cup {c}) \cup {d}) \cup {e} = {a, b, c, d, e}
    OBVIOUS
  <2> QED BY <2>5, <2>6
<1>2. /\ Buckets = {"never", "never", "under_90d", "90d_1y", "over_1y"}
      /\ Codecs = {"h264", "h264", "hevc", "other", "unknown"}
  BY DEF Buckets, Codecs
<1>3. IsFiniteSet(Buckets)
  BY <1>1, <1>2
<1>4. IsFiniteSet(Codecs)
  BY <1>1, <1>2
<1>5. IsFiniteSet(Resolutions)
  BY <1>1 DEF Resolutions
<1> QED BY <1>3, <1>4, <1>5

\* Every play time, resolution and codec has a label among those published.
LEMMA ClassesKnown ==
    /\ \A last : Bucket(last) \in Buckets
    /\ \A v \in STRING : ResolutionBucket(v) \in Resolutions /\ NormalizeCodec(v) \in Codecs
<1>1. \A last : Bucket(last) \in Buckets
  BY DEF Bucket, Buckets
<1>2. \A v \in STRING : ResolutionBucket(v) \in Resolutions
  BY DEF ResolutionBucket, Resolutions
<1>3. \A v \in STRING : NormalizeCodec(v) \in Codecs
  BY DEF NormalizeCodec, Codecs
<1> QED BY <1>1, <1>2, <1>3

\* An item's bytes by any classing of its versions add up to its bytes.
LEMMA BytesSplit ==
    ASSUME NEW r \in Rows, KnownSize(r), NEW C, IsFiniteSet(C), NEW class \in [DOMAIN r.media -> C]
    PROVE  /\ \A c \in C : BytesIn(r, c, class) \in Nat
           /\ SumFunctionOnSet([c \in C |-> BytesIn(r, c, class)], C) = Bytes(r)
<1> DEFINE S == DOMAIN r.media
           s == Sizes(r)
           part(c) == [i \in S |-> IF class[i] = c THEN s[i] ELSE 0]
<1>1. IsFiniteSet(S) /\ DOMAIN s = S /\ s \in [S -> Nat] /\ s \in [S -> Int]
  BY RowTyped, SizesNat
<1>2. \A c : DOMAIN part(c) = S /\ BytesIn(r, c, class) = SumFunctionOnSet(part(c), S)
  BY SumsOverDomain DEF BytesIn
<1>3. \A c : BytesIn(r, c, class) = ClassPart(s, class, S, c)
  BY <1>1, <1>2 DEF ClassPart
<1>4. \A c : \A i \in S : part(c)[i] \in Nat
  BY <1>1
<1>5. \A c \in C : BytesIn(r, c, class) \in Nat
  <2> SUFFICES ASSUME NEW c \in C PROVE SumFunctionOnSet(part(c), S) \in Nat
    BY <1>2
  <2> DEFINE p == part(c)
  <2>1. \A i \in S : p[i] \in Nat
    BY <1>4
  <2> HIDE DEF p
  <2>2. SumFunctionOnSet(p, S) \in Nat
    BY <1>1, <2>1, SumNat
  <2> QED BY <2>2 DEF p
<1>6. [c \in C |-> BytesIn(r, c, class)] = [c \in C |-> ClassPart(s, class, S, c)]
  BY <1>3
<1>7. SumFunctionOnSet([c \in C |-> ClassPart(s, class, S, c)], C) = SumFunctionOnSet(s, S)
  <2> HIDE DEF s, S
  <2> QED BY <1>1, SumByClass DEF S
<1>8. Bytes(r) = SumFunctionOnSet(s, S)
  BY BytesNat
<1> QED BY <1>5, <1>6, <1>7, <1>8
-----------------------------------------------------------------------------
StatsSet ==
    [items : [Buckets -> Nat], bytes : [Buckets -> Nat], res : [Resolutions -> Nat],
     codec : [Codecs -> Nat], added24h : Nat, added7d : Nat, newest : Nat, unsized : Nat,
     multi : Nat, extra : Nat, largest : Seq(EntrySet), recent : Seq(EntrySet)]

\* What add makes of each figure.
RowAdded(st, r, last) ==
    LET sized == KnownSize(r)
        b == Bucket(last)
    IN /\ st.items = [stats.items EXCEPT ![b] = @ + 1]
       /\ st.bytes = [stats.bytes EXCEPT ![b] = @ + Bytes(r)]
       /\ st.res = [c \in Resolutions |-> stats.res[c] + IF sized THEN BytesIn(r, c, Res(r)) ELSE 0]
       /\ st.codec = [c \in Codecs |-> stats.codec[c] + IF sized THEN BytesIn(r, c, Codec(r)) ELSE 0]
       /\ ((r.added > 0 /\ Now - r.added <= Day) => st.added24h = stats.added24h + 1)
       /\ (~(r.added > 0 /\ Now - r.added <= Day) => st.added24h = stats.added24h)
       /\ ((r.added > 0 /\ Now - r.added <= Week) => st.added7d = stats.added7d + 1)
       /\ (~(r.added > 0 /\ Now - r.added <= Week) => st.added7d = stats.added7d)
       /\ st.newest = Larger(stats.newest, r.added)
       /\ (~sized => st.unsized = stats.unsized + 1) /\ (sized => st.unsized = stats.unsized)
       /\ ((sized /\ Len(r.media) > 1) => st.multi = stats.multi + 1)
       /\ (~(sized /\ Len(r.media) > 1) => st.multi = stats.multi)
       /\ ((sized /\ Len(r.media) > 1) => st.extra = stats.extra + Extra(r))
       /\ (~(sized /\ Len(r.media) > 1) => st.extra = stats.extra)

\* add, field by field (libstats.go:136-165, 220-247).
LEMMA WithRowFields ==
    ASSUME NEW r, NEW last, stats \in StatsSet
    PROVE  /\ RowAdded(WithRow(r, last), r, last)
           /\ WithRow(r, last).largest = stats.largest /\ WithRow(r, last).recent = stats.recent
           /\ LET st == WithRow(r, last)
              IN  (/\ st.items \in [Buckets -> Nat] /\ st.bytes \in [Buckets -> Nat]
                   /\ st.res \in [Resolutions -> Nat] /\ st.codec \in [Codecs -> Nat]
                   /\ st.added24h \in Nat /\ st.added7d \in Nat /\ st.newest \in Nat
                   /\ st.unsized \in Nat /\ st.multi \in Nat /\ st.extra \in Nat)
                  => st \in StatsSet
<1> DEFINE sized == KnownSize(r)
           b == Bucket(last)
           items == [stats.items EXCEPT ![b] = @ + 1]
           bytes == [stats.bytes EXCEPT ![b] = @ + Bytes(r)]
           res == [c \in Resolutions |-> stats.res[c] + IF sized THEN BytesIn(r, c, Res(r)) ELSE 0]
           codec == [c \in Codecs |-> stats.codec[c] + IF sized THEN BytesIn(r, c, Codec(r)) ELSE 0]
           added24h == IF r.added > 0 /\ Now - r.added <= Day THEN stats.added24h + 1 ELSE stats.added24h
           added7d == IF r.added > 0 /\ Now - r.added <= Week THEN stats.added7d + 1 ELSE stats.added7d
           newest == Larger(stats.newest, r.added)
           unsized == IF sized THEN stats.unsized ELSE stats.unsized + 1
           multi == IF sized /\ Len(r.media) > 1 THEN stats.multi + 1 ELSE stats.multi
           extra == IF sized /\ Len(r.media) > 1 THEN stats.extra + Extra(r) ELSE stats.extra
           fresh == [stats EXCEPT !.items = items, !.added24h = added24h, !.added7d = added7d,
                                  !.newest = newest, !.unsized = unsized, !.bytes = bytes, !.res = res,
                                  !.codec = codec, !.multi = multi, !.extra = extra]
<1>1. WithRow(r, last) = fresh
  BY DEF WithRow
<1> HIDE DEF items, bytes, res, codec, added24h, added7d, newest, unsized, multi, extra
<1>2. /\ fresh.items = items /\ fresh.bytes = bytes /\ fresh.res = res /\ fresh.codec = codec
      /\ fresh.added24h = added24h /\ fresh.added7d = added7d /\ fresh.newest = newest
      /\ fresh.unsized = unsized /\ fresh.multi = multi /\ fresh.extra = extra
      /\ fresh.largest = stats.largest /\ fresh.recent = stats.recent
  BY DEF StatsSet
<1>3. (/\ items \in [Buckets -> Nat] /\ bytes \in [Buckets -> Nat]
       /\ res \in [Resolutions -> Nat] /\ codec \in [Codecs -> Nat]
       /\ added24h \in Nat /\ added7d \in Nat /\ newest \in Nat
       /\ unsized \in Nat /\ multi \in Nat /\ extra \in Nat)
      => fresh \in StatsSet
  BY DEF StatsSet
<1>4. /\ (r.added > 0 /\ Now - r.added <= Day) => added24h = stats.added24h + 1
      /\ ~(r.added > 0 /\ Now - r.added <= Day) => added24h = stats.added24h
      /\ (r.added > 0 /\ Now - r.added <= Week) => added7d = stats.added7d + 1
      /\ ~(r.added > 0 /\ Now - r.added <= Week) => added7d = stats.added7d
      /\ (~sized => unsized = stats.unsized + 1) /\ (sized => unsized = stats.unsized)
      /\ (sized /\ Len(r.media) > 1) => multi = stats.multi + 1 /\ extra = stats.extra + Extra(r)
      /\ ~(sized /\ Len(r.media) > 1) => multi = stats.multi /\ extra = stats.extra
  BY DEF added24h, added7d, unsized, multi, extra
<1> HIDE DEF fresh
<1> QED BY <1>1, <1>2, <1>3, <1>4 DEF items, bytes, res, codec, newest, fresh, RowAdded
\* The classes of a row's versions, and its bytes in each.
LEMMA RowClasses ==
    ASSUME NEW r \in Rows
    PROVE  /\ Res(r) \in [DOMAIN r.media -> Resolutions] /\ Codec(r) \in [DOMAIN r.media -> Codecs]
           /\ KnownSize(r) =>
                 /\ \A c \in Resolutions : BytesIn(r, c, Res(r)) \in Nat
                 /\ SumFunctionOnSet([c \in Resolutions |-> BytesIn(r, c, Res(r))], Resolutions) = Bytes(r)
                 /\ \A c \in Codecs : BytesIn(r, c, Codec(r)) \in Nat
                 /\ SumFunctionOnSet([c \in Codecs |-> BytesIn(r, c, Codec(r))], Codecs) = Bytes(r)
<1>1. \A i \in DOMAIN r.media : r.media[i].res \in STRING /\ r.media[i].codec \in STRING
  BY RowTyped
<1>2. Res(r) \in [DOMAIN r.media -> Resolutions]
  BY <1>1, ClassesKnown DEF Res
<1>3. Codec(r) \in [DOMAIN r.media -> Codecs]
  BY <1>1, ClassesKnown DEF Codec
<1>4. ASSUME KnownSize(r)
      PROVE  /\ \A c \in Resolutions : BytesIn(r, c, Res(r)) \in Nat
             /\ SumFunctionOnSet([c \in Resolutions |-> BytesIn(r, c, Res(r))], Resolutions) = Bytes(r)
  BY <1>2, <1>4, FiniteClasses, BytesSplit
<1>5. ASSUME KnownSize(r)
      PROVE  /\ \A c \in Codecs : BytesIn(r, c, Codec(r)) \in Nat
             /\ SumFunctionOnSet([c \in Codecs |-> BytesIn(r, c, Codec(r))], Codecs) = Bytes(r)
  BY <1>3, <1>5, FiniteClasses, BytesSplit
<1> QED BY <1>2, <1>3, <1>4, <1>5

\* Each field stays a natural number.
LEMMA WithRowTyped ==
    ASSUME NEW r \in Rows, NEW last, stats \in StatsSet
    PROVE  WithRow(r, last) \in StatsSet
<1> DEFINE st == WithRow(r, last)
           b == Bucket(last)
<1>1. b \in Buckets /\ Bytes(r) \in Nat /\ r.added \in Int
  BY ClassesKnown, BytesNat, RowTyped
<1>2. /\ stats.items \in [Buckets -> Nat] /\ stats.bytes \in [Buckets -> Nat]
      /\ stats.res \in [Resolutions -> Nat] /\ stats.codec \in [Codecs -> Nat]
      /\ stats.added24h \in Nat /\ stats.added7d \in Nat /\ stats.newest \in Nat
      /\ stats.unsized \in Nat /\ stats.multi \in Nat /\ stats.extra \in Nat
  BY DEF StatsSet
<1>0. RowAdded(st, r, last)
  BY WithRowFields
<1>11. (/\ st.items \in [Buckets -> Nat] /\ st.bytes \in [Buckets -> Nat]
       /\ st.res \in [Resolutions -> Nat] /\ st.codec \in [Codecs -> Nat]
       /\ st.added24h \in Nat /\ st.added7d \in Nat /\ st.newest \in Nat
       /\ st.unsized \in Nat /\ st.multi \in Nat /\ st.extra \in Nat)
      => st \in StatsSet
  BY WithRowFields
<1> HIDE DEF b, st
<1>3. st.items \in [Buckets -> Nat]
  <2>1. st.items = [stats.items EXCEPT ![b] = @ + 1]
    BY <1>0 DEF b, RowAdded
  <2> QED BY <1>1, <1>2, <2>1
<1>4. st.bytes \in [Buckets -> Nat]
  <2>1. st.bytes = [stats.bytes EXCEPT ![b] = @ + Bytes(r)]
    BY <1>0 DEF b, RowAdded
  <2> QED BY <1>1, <1>2, <2>1
<1>5. st.res \in [Resolutions -> Nat]
  <2>1. st.res = [c \in Resolutions |-> stats.res[c] + IF KnownSize(r) THEN BytesIn(r, c, Res(r)) ELSE 0]
    BY <1>0 DEF RowAdded
  <2>2. \A c \in Resolutions : (IF KnownSize(r) THEN BytesIn(r, c, Res(r)) ELSE 0) \in Nat
    BY RowClasses
  <2> QED BY <1>2, <2>1, <2>2
<1>6. st.codec \in [Codecs -> Nat]
  <2>1. st.codec = [c \in Codecs |-> stats.codec[c] + IF KnownSize(r) THEN BytesIn(r, c, Codec(r)) ELSE 0]
    BY <1>0 DEF RowAdded
  <2>2. \A c \in Codecs : (IF KnownSize(r) THEN BytesIn(r, c, Codec(r)) ELSE 0) \in Nat
    BY RowClasses
  <2> QED BY <1>2, <2>1, <2>2
<1>7. st.added24h \in Nat /\ st.added7d \in Nat
  <2>1. st.added24h \in {stats.added24h, stats.added24h + 1} /\ st.added7d \in {stats.added7d, stats.added7d + 1}
    BY <1>0 DEF RowAdded
  <2> QED BY <1>2, <2>1
<1>8. st.newest \in Nat
  <2>1. st.newest = Larger(stats.newest, r.added)
    BY <1>0 DEF RowAdded
  <2>2. stats.newest \in Int /\ r.added \in Int
    BY <1>1, <1>2
  <2>3. Larger(stats.newest, r.added) \in Int /\ Larger(stats.newest, r.added) >= stats.newest
    BY <2>2, LargerIs
  <2> QED BY <1>2, <2>1, <2>3
<1>9. st.unsized \in Nat /\ st.multi \in Nat
  <2>1. st.unsized \in {stats.unsized, stats.unsized + 1} /\ st.multi \in {stats.multi, stats.multi + 1}
    BY <1>0 DEF RowAdded
  <2> QED BY <1>2, <2>1
<1>10. st.extra \in Nat
  <2>1. st.extra = stats.extra \/ (KnownSize(r) /\ st.extra = stats.extra + Extra(r))
    BY <1>0 DEF RowAdded
  <2> QED BY <1>2, <2>1, ExtraNat
<1>12. st \in StatsSet
  BY <1>3, <1>4, <1>5, <1>6, <1>7, <1>8, <1>9, <1>10, <1>11
<1> QED BY <1>12 DEF st
-----------------------------------------------------------------------------
\* The parts of the state: the key set, and what was counted.
Sorted(list) == \A i, j \in 1 .. Len(list) : i < j => list[i] < list[j]

GroupRecord == [bitmap : BOOLEAN, bits : [Words -> SUBSET Bits], low : Seq(Lows)]
GroupSet == {g \in GroupRecord : Len(g.low) <= GroupListMax /\ Sorted(g.low)}
GroupsOK == groups \in [Groups -> GroupSet]

CountedOK ==
    /\ IsFiniteSet(DOMAIN counted) /\ DOMAIN counted \subseteq Keys
    /\ \A k \in DOMAIN counted : /\ RowOf(k) \in Rows /\ RowOf(k).key = k
                                 /\ counted[k].last \in Nat

\* A key is found again from its group and its place there (keyset.go:27-34).
LEMMA KeysNat ==
    /\ Keys \subseteq Nat /\ ShowKeys \subseteq Nat
    /\ \A k \in Keys : k \div GroupSize \in Groups /\ k \div GroupSize \in Nat
                       /\ k % GroupSize \in 0 .. GroupSize - 1
    /\ \A j, k \in Keys : j % GroupSize = k % GroupSize /\ j \div GroupSize = k \div GroupSize => j = k
<1>1. Keys \subseteq Nat /\ ShowKeys \subseteq Nat
  BY RowTyped DEF Keys, ShowKeys
<1>2. GroupSize \in Nat \ {0}
  BY LibStatsAssumption
<1>3. \A k \in Keys : k \div GroupSize \in Groups
  BY DEF Groups
<1>4. \A k \in Nat : k \div GroupSize \in Nat /\ k % GroupSize \in 0 .. GroupSize - 1
  BY <1>2
<1>5. \A j, k \in Nat : j % GroupSize = k % GroupSize /\ j \div GroupSize = k \div GroupSize => j = k
  BY <1>2
<1> QED BY <1>1, <1>3, <1>4, <1>5

\* A place in a group has a bit of its own.
LEMMA BitsApart ==
    /\ Lows \subseteq Nat
    /\ \A v \in Lows : v \div WordSize \in Words /\ v % WordSize \in Bits
    /\ \A v, w \in Lows : v % WordSize = w % WordSize /\ v \div WordSize = w \div WordSize => v = w
<1>1. WordSize \in Nat \ {0} /\ GroupSize \in Nat \ {0}
  BY LibStatsAssumption
<1>2. Lows \subseteq Nat
  BY <1>1 DEF Lows
<1>3. \A v \in Lows : v \div WordSize \in Words
  BY DEF Words
<1>4. \A v \in Nat : v % WordSize \in 0 .. WordSize - 1
  BY <1>1
<1>5. \A v, w \in Nat : v % WordSize = w % WordSize /\ v \div WordSize = w \div WordSize => v = w
  BY <1>1
<1> QED BY <1>2, <1>3, <1>4, <1>5 DEF Bits

\* The binary search on a sorted list: all smaller keys are before its place, and
\* it finds exactly the keys in the list (keyset.go:45).
LEMMA SearchFinds ==
    ASSUME NEW list \in Seq(Lows), Sorted(list), NEW v \in Lows
    PROVE  /\ SearchPlace(list, v) \in 0 .. Len(list)
           /\ \A k \in 1 .. SearchPlace(list, v) : list[k] < v
           /\ \A k \in SearchPlace(list, v) + 1 .. Len(list) : list[k] >= v
           /\ Found(list, v) <=> \E k \in 1 .. Len(list) : list[k] = v
<1> DEFINE Ends(i) == /\ i > 0 => list[i] < v
                      /\ i < Len(list) => list[i + 1] >= v
           J == {i \in 0 .. Len(list) : \A k \in i + 1 .. Len(list) : list[k] >= v}
           p == SearchPlace(list, v)
<1>1. Len(list) \in Nat /\ v \in Nat /\ \A k \in 1 .. Len(list) : list[k] \in Nat
  BY BitsApart, LenProperties, ElementOfSeq
<1>2. Len(list) \in J /\ J \in SUBSET Int
  BY <1>1
<1>3. IsFiniteSet(J)
  <2>1. IsFiniteSet(0 .. Len(list)) /\ J \subseteq 0 .. Len(list)
    BY <1>1, FS_Interval
  <2> HIDE DEF J
  <2> QED BY <2>1, FS_Subset
<1>4. PICK i \in J : \A j \in J : i <= j
  <2> HIDE DEF J
  <2> QED BY <1>2, <1>3, FiniteMin
<1>5. ASSUME i > 0 PROVE list[i] < v
  <2>1. SUFFICES ASSUME list[i] >= v PROVE FALSE
    BY <1>1, <1>4, <1>5
  <2>2. i - 1 \in 0 .. Len(list) /\ ~(i <= i - 1)
    BY <1>1, <1>4, <1>5
  <2>3. \A k \in (i - 1) + 1 .. Len(list) : list[k] >= v
    BY <1>1, <1>4, <2>1
  <2>4. i - 1 \in J
    BY <2>2, <2>3
  <2> QED BY <1>4, <2>2, <2>4
<1>6. i < Len(list) => list[i + 1] >= v
  BY <1>1, <1>4
<1>7. \E j \in 0 .. Len(list) : Ends(j)
  BY <1>4, <1>5, <1>6
<1>8. p \in 0 .. Len(list) /\ Ends(p)
  <2>1. p = CHOOSE j \in 0 .. Len(list) : Ends(j)
    BY DEF SearchPlace
  <2> HIDE DEF Ends, p
  <2> QED BY <1>7, <2>1
<1>9. Found(list, v) <=> p < Len(list) /\ list[p + 1] = v
  BY DEF Found
<1> HIDE DEF p
<1>10. \A k \in 1 .. p : list[k] < v
  <2> SUFFICES ASSUME NEW k \in 1 .. p PROVE list[k] < v
    OBVIOUS
  <2>1. p \in 1 .. Len(list) /\ k \in 1 .. Len(list) /\ list[p] < v
    BY <1>1, <1>8
  <2>2. k = p \/ list[k] < list[p]
    BY <2>1 DEF Sorted
  <2> QED BY <1>1, <2>1, <2>2
<1>11. \A k \in p + 1 .. Len(list) : list[k] >= v
  <2> SUFFICES ASSUME NEW k \in p + 1 .. Len(list) PROVE list[k] >= v
    OBVIOUS
  <2>1. p + 1 \in 1 .. Len(list) /\ k \in 1 .. Len(list) /\ list[p + 1] >= v
    BY <1>1, <1>8
  <2>2. k = p + 1 \/ list[p + 1] < list[k]
    BY <1>1, <2>1 DEF Sorted
  <2> QED BY <1>1, <2>1, <2>2
<1>12. ASSUME NEW k \in 1 .. Len(list), list[k] = v PROVE p < Len(list) /\ list[p + 1] = v
  <2>1. k \in p + 1 .. Len(list)
    BY <1>1, <1>8, <1>10, <1>12
  <2>2. p + 1 \in 1 .. Len(list) /\ list[p + 1] >= v
    BY <1>1, <1>8, <2>1
  <2>3. k = p + 1 \/ list[p + 1] < list[k]
    BY <1>1, <2>1, <2>2 DEF Sorted
  <2> QED BY <1>1, <1>8, <1>12, <2>1, <2>2, <2>3
<1>13. p < Len(list) => p + 1 \in 1 .. Len(list)
  BY <1>1, <1>8
<1> QED BY <1>8, <1>9, <1>10, <1>11, <1>12, <1>13 DEF p

\* A key's bit is its alone (keyset.go:37-44).
LEMMA BitSets ==
    ASSUME NEW g \in GroupRecord, NEW v \in Lows
    PROVE  /\ WithBit(g, v) \in GroupRecord
           /\ WithBit(g, v).bitmap = g.bitmap /\ WithBit(g, v).low = g.low
           /\ \A w \in Lows : HasBit(WithBit(g, v).bits, w) <=> (HasBit(g.bits, w) \/ w = v)
<1> DEFINE n == v \div WordSize
           b == v % WordSize
           new == WithBit(g, v)
<1>1. n \in Words /\ b \in Bits
  BY BitsApart
<1>2. \A w \in Lows : w \div WordSize \in Words
  BY BitsApart
<1>3. \A w \in Lows : w \div WordSize = n /\ w % WordSize = b => w = v
  BY BitsApart
<1>4. new = [g EXCEPT !.bits[n] = @ \cup {b}]
  BY DEF WithBit
<1> HIDE DEF n, b, new
<1>5. new.bits = [g.bits EXCEPT ![n] = @ \cup {b}] /\ new.bitmap = g.bitmap /\ new.low = g.low
  BY <1>4 DEF GroupRecord
<1>6. g.bits \in [Words -> SUBSET Bits] /\ new.bits \in [Words -> SUBSET Bits]
  BY <1>1, <1>5 DEF GroupRecord
<1>7. new \in GroupRecord
  BY <1>4, <1>6, <1>5 DEF GroupRecord
<1>8. ASSUME NEW w \in Lows PROVE HasBit(new.bits, w) <=> (HasBit(g.bits, w) \/ w = v)
  <2>1. CASE w \div WordSize = n
    <3>1. new.bits[w \div WordSize] = g.bits[w \div WordSize] \cup {b}
      BY <1>1, <1>5, <1>6, <2>1
    <3>2. w % WordSize = b <=> w = v
      BY <1>3, <2>1 DEF b
    <3> QED BY <3>1, <3>2 DEF HasBit
  <2>2. CASE w \div WordSize # n
    <3>1. new.bits[w \div WordSize] = g.bits[w \div WordSize]
      BY <1>2, <1>5, <1>6, <2>2
    <3>2. w # v
      BY <2>2 DEF n
    <3> QED BY <3>1, <3>2 DEF HasBit
  <2> QED BY <2>1, <2>2
<1> QED BY <1>5, <1>7, <1>8 DEF new

\* The bitmap made of a list has the bits of the list's keys, all of them and no
\* others (keyset.go:50-57).
LEMMA BitmapOfList ==
    ASSUME NEW g \in GroupRecord
    PROVE  /\ AsBitmap(g) \in GroupRecord /\ AsBitmap(g).bitmap = TRUE /\ AsBitmap(g).low = <<>>
           /\ \A w \in Lows : HasBit(AsBitmap(g).bits, w) <=> \E k \in 1 .. Len(g.low) : g.low[k] = w
<1> DEFINE bits == [n \in Words |->
                      {g.low[i] % WordSize : i \in {j \in DOMAIN g.low : g.low[j] \div WordSize = n}}]
<1>1. DOMAIN g.low = 1 .. Len(g.low) /\ \A k \in 1 .. Len(g.low) : g.low[k] \in Lows
  BY LenProperties, ElementOfSeq DEF GroupRecord
<1>2. AsBitmap(g) = [bitmap |-> TRUE, low |-> <<>>, bits |-> bits]
  BY DEF AsBitmap
<1>3. bits \in [Words -> SUBSET Bits]
  BY <1>1, BitsApart
<1>4. ASSUME NEW w \in Lows
      PROVE  w % WordSize \in bits[w \div WordSize] <=> \E k \in 1 .. Len(g.low) : g.low[k] = w
  <2>1. w \div WordSize \in Words
    BY BitsApart
  <2>2. bits[w \div WordSize] =
          {g.low[i] % WordSize : i \in {j \in 1 .. Len(g.low) : g.low[j] \div WordSize = w \div WordSize}}
    BY <1>1, <2>1
  <2>3. \A k \in 1 .. Len(g.low) :
           g.low[k] \div WordSize = w \div WordSize /\ g.low[k] % WordSize = w % WordSize => g.low[k] = w
    BY <1>1, BitsApart
  <2> HIDE DEF bits
  <2> QED BY <2>2, <2>3
<1> HIDE DEF bits
<1>5. AsBitmap(g) \in GroupRecord
  <2>1. <<>> \in Seq(Lows)
    OBVIOUS
  <2> QED BY <1>2, <1>3, <2>1 DEF GroupRecord
<1>6. \A w \in Lows : HasBit(AsBitmap(g).bits, w) <=> \E k \in 1 .. Len(g.low) : g.low[k] = w
  BY <1>2, <1>4 DEF HasBit
<1> QED BY <1>2, <1>5, <1>6

\* A key inserted into a sorted list leaves it sorted (keyset.go:46-48).
LEMMA ListGrows ==
    ASSUME NEW list \in Seq(Lows), Sorted(list), NEW v \in Lows, ~Found(list, v)
    PROVE  LET longer == InsertAt(list, SearchPlace(list, v) + 1, v)
           IN  /\ longer \in Seq(Lows) /\ Len(longer) = Len(list) + 1 /\ Sorted(longer)
               /\ \A w \in Lows : Found(longer, w) <=> (Found(list, w) \/ w = v)
<1> DEFINE p == SearchPlace(list, v)
           n == Len(list)
           longer == InsertAt(list, p + 1, v)
<1>1. n \in Nat /\ v \in Nat /\ \A k \in 1 .. n : list[k] \in Nat
  BY BitsApart, LenProperties, ElementOfSeq
<1>2. /\ p \in 0 .. n
      /\ \A k \in 1 .. p : list[k] < v
      /\ \A k \in p + 1 .. n : list[k] >= v
  BY SearchFinds
<1>3. \A k \in 1 .. n : list[k] # v
  BY SearchFinds
<1>4. /\ longer \in Seq(Lows) /\ Len(longer) = n + 1
      /\ \A k \in 1 .. n + 1 :
            longer[k] = IF k <= p THEN list[k] ELSE IF k = p + 1 THEN v ELSE list[k - 1]
  <2> HIDE DEF p
  <2>1. Inserted(Lows, longer, list, v, p)
    BY <1>2, InsertAtEntries
  <2> QED BY <2>1 DEF Inserted
<1> HIDE DEF p, n, longer
<1>5. ASSUME NEW i \in 1 .. n + 1, NEW j \in 1 .. n + 1, i < j PROVE longer[i] < longer[j]
  <2>1. \A k, l \in 1 .. n : k < l => list[k] < list[l]
    BY DEF Sorted, n
  <2>2. CASE j <= p
    BY <1>1, <1>2, <1>4, <1>5, <2>1, <2>2
  <2>3. CASE j = p + 1
    BY <1>1, <1>2, <1>4, <1>5, <2>3
  <2>4. CASE j > p + 1
    <3>1. j - 1 \in p + 1 .. n /\ longer[j] = list[j - 1] /\ list[j - 1] > v
      BY <1>1, <1>2, <1>3, <1>4, <2>4
    <3>2. CASE i <= p
      BY <1>1, <1>2, <1>4, <2>1, <3>1, <3>2
    <3>3. CASE i = p + 1
      BY <1>1, <1>2, <1>4, <3>1, <3>3
    <3>4. CASE i > p + 1
      <4>1. i - 1 \in 1 .. n /\ longer[i] = list[i - 1] /\ i - 1 < j - 1 /\ j - 1 \in 1 .. n
        BY <1>1, <1>2, <1>4, <1>5, <2>4, <3>4
      <4> QED BY <2>1, <3>1, <4>1
    <3> QED BY <1>1, <1>2, <3>2, <3>3, <3>4
  <2> QED BY <1>1, <1>2, <2>2, <2>3, <2>4
<1>6. Sorted(longer)
  BY <1>4, <1>5 DEF Sorted
<1>7. ASSUME NEW w \in Lows
      PROVE  (\E k \in 1 .. n + 1 : longer[k] = w) <=> ((\E k \in 1 .. n : list[k] = w) \/ w = v)
  <2>1. ASSUME NEW k \in 1 .. n + 1 PROVE longer[k] = v \/ \E l \in 1 .. n : longer[k] = list[l]
    <3>1. k = p + 1 \/ (k <= p /\ k \in 1 .. n) \/ (~(k <= p) /\ k # p + 1 /\ k - 1 \in 1 .. n)
      BY <1>1, <1>2
    <3> QED BY <1>4, <3>1, <1>1, <1>2
  <2>2. longer[p + 1] = v /\ p + 1 \in 1 .. n + 1
    BY <1>1, <1>2, <1>4
  <2>3. ASSUME NEW l \in 1 .. n PROVE \E k \in 1 .. n + 1 : longer[k] = list[l]
    <3>1. CASE l <= p
      <4>1. l \in 1 .. n + 1 /\ longer[l] = list[l]
        BY <1>1, <1>4, <3>1
      <4> QED BY <4>1
    <3>2. CASE ~(l <= p)
      <4>1. l + 1 \in 1 .. n + 1 /\ ~(l + 1 <= p) /\ l + 1 # p + 1 /\ (l + 1) - 1 = l
        BY <1>1, <1>2, <3>2
      <4>2. longer[l + 1] = list[l]
        BY <1>4, <4>1
      <4> QED BY <4>1, <4>2
    <3> QED BY <3>1, <3>2
  <2> QED BY <2>1, <2>2, <2>3
<1>8. ASSUME NEW w \in Lows PROVE Found(longer, w) <=> (Found(list, w) \/ w = v)
  <2>1. Found(longer, w) <=> \E k \in 1 .. n + 1 : longer[k] = w
    BY <1>4, <1>6, SearchFinds
  <2>2. Found(list, w) <=> \E k \in 1 .. n : list[k] = w
    BY SearchFinds DEF n
  <2> QED BY <1>7, <2>1, <2>2
<1> QED BY <1>4, <1>6, <1>8 DEF longer, p, n

\* A group takes the key, and keeps all it had, as a list, as a bitmap and in the
\* step from the one to the other (keyset.go:36-59).
LEMMA WithKeyStep ==
    ASSUME NEW g \in GroupSet, NEW v \in Lows, ~Holds(g, v)
    PROVE  /\ WithKey(g, v) \in GroupSet
           /\ \A w \in Lows : Holds(WithKey(g, v), w) <=> (Holds(g, w) \/ w = v)
<1>1. /\ g \in GroupRecord /\ Sorted(g.low) /\ Len(g.low) <= GroupListMax /\ g.low \in Seq(Lows)
      /\ Len(g.low) \in Nat /\ GroupListMax \in Nat \ {0} /\ g.bitmap \in BOOLEAN
  <2>1. GroupListMax \in Nat \ {0}
    BY LibStatsAssumption
  <2>2. g \in GroupRecord /\ Sorted(g.low) /\ Len(g.low) <= GroupListMax
    BY DEF GroupSet
  <2>3. g.low \in Seq(Lows) /\ g.bitmap \in BOOLEAN
    BY <2>2 DEF GroupRecord
  <2> QED BY <2>1, <2>2, <2>3, LenProperties
<1>2. \A h \in GroupRecord : Len(h.low) <= GroupListMax /\ Sorted(h.low) => h \in GroupSet
  BY DEF GroupSet
<1>3. CASE g.bitmap
  <2>1. WithKey(g, v) = WithBit(g, v)
    BY <1>3 DEF WithKey
  <2>2. WithBit(g, v) \in GroupSet
    BY <1>1, <1>2, BitSets
  <2>3. \A w \in Lows : HasBit(WithBit(g, v).bits, w) <=> (HasBit(g.bits, w) \/ w = v)
    BY <1>1, BitSets
  <2>4. WithBit(g, v).bitmap
    BY <1>1, <1>3, BitSets
  <2> QED BY <1>3, <2>1, <2>2, <2>3, <2>4 DEF Holds
<1>4. CASE ~g.bitmap /\ Len(g.low) < GroupListMax
  <2> DEFINE longer == InsertAt(g.low, SearchPlace(g.low, v) + 1, v)
             new == [g EXCEPT !.low = longer]
  <2>1. WithKey(g, v) = new
    BY <1>4 DEF WithKey
  <2>2. ~Found(g.low, v)
    BY <1>4 DEF Holds
  <2>3. /\ longer \in Seq(Lows) /\ Len(longer) = Len(g.low) + 1 /\ Sorted(longer)
        /\ \A w \in Lows : Found(longer, w) <=> (Found(g.low, w) \/ w = v)
    BY <1>1, <2>2, ListGrows
  <2> HIDE DEF longer
  <2>4. new \in GroupRecord /\ new.bitmap = g.bitmap /\ new.low = longer
    BY <1>1, <2>3 DEF GroupRecord
  <2>5. Len(longer) <= GroupListMax
    BY <1>1, <1>4, <2>3
  <2> HIDE DEF new
  <2>6. new \in GroupSet
    BY <1>2, <2>3, <2>4, <2>5
  <2>7. \A w \in Lows : Holds(new, w) <=> (Holds(g, w) \/ w = v)
    BY <1>4, <2>3, <2>4 DEF Holds
  <2> QED BY <2>1, <2>6, <2>7
<1>5. CASE ~g.bitmap /\ ~(Len(g.low) < GroupListMax)
  <2> DEFINE full == AsBitmap(g)
             new == WithBit(full, v)
  <2>1. WithKey(g, v) = new
    BY <1>5 DEF WithKey
  <2>2. /\ full \in GroupRecord /\ full.bitmap = TRUE /\ full.low = <<>>
        /\ \A w \in Lows : HasBit(full.bits, w) <=> \E k \in 1 .. Len(g.low) : g.low[k] = w
    BY <1>1, BitmapOfList
  <2> HIDE DEF full
  <2>3. /\ new \in GroupRecord /\ new.bitmap = TRUE /\ new.low = <<>>
        /\ \A w \in Lows : HasBit(new.bits, w) <=> (HasBit(full.bits, w) \/ w = v)
    BY <2>2, BitSets
  <2> HIDE DEF new
  <2>4. Len(<<>>) <= GroupListMax /\ Sorted(<<>>)
    BY <1>1 DEF Sorted
  <2>5. new \in GroupSet
    BY <1>2, <2>3, <2>4
  <2>6. \A w \in Lows : Found(g.low, w) <=> \E k \in 1 .. Len(g.low) : g.low[k] = w
    BY <1>1, SearchFinds
  <2>7. \A w \in Lows : Holds(new, w) <=> (Holds(g, w) \/ w = v)
    BY <1>5, <2>2, <2>3, <2>6 DEF Holds
  <2> QED BY <2>1, <2>5, <2>7
<1> QED BY <1>1, <1>3, <1>4, <1>5

\* The key set takes one more key (keyset.go:25-34).
LEMMA KeySetStep ==
    ASSUME GroupsOK, NEW key \in Keys, ~InSet(key), groups' = KeyAdded(key)
    PROVE  GroupsOK' /\ \A k \in Keys : InSet(k)' <=> (InSet(k) \/ k = key)
<1> DEFINE n == key \div GroupSize
           v == key % GroupSize
<1>1. n \in Groups /\ v \in Lows
  BY KeysNat DEF Lows
<1>2. groups \in [Groups -> GroupSet] /\ groups[n] \in GroupSet /\ ~Holds(groups[n], v)
  BY <1>1 DEF GroupsOK, InSet
<1>3. groups' = [groups EXCEPT ![n] = WithKey(@, v)]
  BY DEF KeyAdded
<1>4. \A k \in Keys : k \div GroupSize \in Groups /\ k % GroupSize \in Lows
  BY KeysNat DEF Lows
<1>5. \A k \in Keys : k \div GroupSize = n /\ k % GroupSize = v => k = key
  BY KeysNat
<1>6. /\ WithKey(groups[n], v) \in GroupSet
      /\ \A w \in Lows : Holds(WithKey(groups[n], v), w) <=> (Holds(groups[n], w) \/ w = v)
  BY <1>1, <1>2, WithKeyStep
<1>7. GroupsOK'
  BY <1>2, <1>3, <1>6 DEF GroupsOK
<1>8. ASSUME NEW k \in Keys PROVE InSet(k)' <=> (InSet(k) \/ k = key)
  <2>1. CASE k \div GroupSize = n
    <3>1. groups'[k \div GroupSize] = WithKey(groups[n], v)
      BY <1>1, <1>2, <1>3, <2>1
    <3>2. k % GroupSize = v <=> k = key
      BY <1>5, <2>1 DEF v
    <3>3. Holds(groups'[k \div GroupSize], k % GroupSize) <=>
             (Holds(groups[k \div GroupSize], k % GroupSize) \/ k = key)
      <4> HIDE DEF n, v
      <4> QED BY <1>4, <1>6, <2>1, <3>1, <3>2
    <3> QED BY <3>3 DEF InSet
  <2>2. CASE k \div GroupSize # n
    <3>1. groups'[k \div GroupSize] = groups[k \div GroupSize]
      BY <1>2, <1>3, <1>4, <2>2
    <3>2. k # key
      BY <2>2 DEF n
    <3> QED BY <3>1, <3>2 DEF InSet
  <2> QED BY <2>1, <2>2
<1> QED BY <1>7, <1>8

\* The first reading of a key, as the history variable has it.
Counts(r, last) ==
    /\ r \in Rows /\ last \in Nat /\ r.key \in Keys /\ r.key \notin DOMAIN counted
    /\ counted' = [k \in DOMAIN counted \cup {r.key} |->
                      IF k = r.key THEN [row |-> r, last |-> last] ELSE counted[k]]

\* A last play is a time or 0 (libstats.go:193-201).
LEMMA LastPlayedNat ==
    ASSUME NEW r \in Rows, NEW play \in PlayTimes
    PROVE  LastPlayed(r, play) \in Nat
<1>1. play \in Int /\ r.viewed \in Int
  BY LibStatsAssumption, RowTyped
<1> QED BY <1>1 DEF LastPlayed, Larger

\* What is counted takes the row under its key and keeps the others.
LEMMA CountsMore ==
    ASSUME CountedOK, NEW r, NEW last, Counts(r, last)
    PROVE  /\ CountedOK'
           /\ DOMAIN counted' = DOMAIN counted \cup {r.key}
           /\ \A k \in DOMAIN counted : counted'[k] = counted[k] /\ k # r.key
           /\ counted'[r.key] = [row |-> r, last |-> last]
           /\ counted'[r.key].row = r /\ counted'[r.key].last = last
<1>1. DOMAIN counted' = DOMAIN counted \cup {r.key}
  BY DEF Counts
<1>2. \A k \in DOMAIN counted : counted'[k] = counted[k] /\ k # r.key
  BY DEF Counts
<1>3. counted'[r.key] = [row |-> r, last |-> last]
  BY DEF Counts
<1>4. counted'[r.key].row = r /\ counted'[r.key].last = last
  BY <1>3
<1>5. IsFiniteSet(DOMAIN counted')
  BY <1>1, FS_AddElement DEF CountedOK
<1>6. DOMAIN counted' \subseteq Keys /\ r \in Rows /\ last \in Nat
  BY <1>1 DEF Counts, CountedOK
<1>7. \A k \in DOMAIN counted' : /\ counted'[k].row \in Rows /\ counted'[k].row.key = k
                                 /\ counted'[k].last \in Nat
  BY <1>1, <1>2, <1>4, <1>6 DEF CountedOK, RowOf
<1> QED BY <1>1, <1>2, <1>3, <1>4, <1>5, <1>6, <1>7 DEF CountedOK, RowOf

\* The sums over what was counted grow by the row's share.
LEMMA CountedSums ==
    ASSUME CountedOK, NEW r, NEW last, Counts(r, last), NEW K \in SUBSET DOMAIN counted
    PROVE  /\ SumFunctionOnSet(BytesOf, K) \in Nat
           /\ SumFunctionOnSet(BytesOf', K) = SumFunctionOnSet(BytesOf, K)
           /\ SumFunctionOnSet(BytesOf', K \cup {r.key}) = SumFunctionOnSet(BytesOf, K) + Bytes(r)
<1>1. IsFiniteSet(K)
  BY FS_Subset DEF CountedOK
<1>2. DOMAIN counted' = DOMAIN counted \cup {r.key}
  BY CountsMore
<1>3. \A k \in K : BytesOf[k] = Bytes(RowOf(k)) /\ BytesOf'[k] = Bytes(RowOf(k))
  BY <1>2, CountsMore DEF BytesOf, RowOf
<1>4. BytesOf'[r.key] = Bytes(r)
  BY <1>2, CountsMore DEF BytesOf, RowOf
<1>5. \A k \in K : Bytes(RowOf(k)) \in Nat
  BY BytesNat DEF CountedOK
<1>6. Bytes(r) \in Nat /\ r.key \notin K
  BY BytesNat DEF Counts
<1>7. SumFunctionOnSet(BytesOf, K) \in Nat
  BY <1>1, <1>3, <1>5, SumNat
<1>8. SumFunctionOnSet(BytesOf', K) = SumFunctionOnSet(BytesOf, K)
  BY <1>1, <1>3, <1>5, SumSame
<1>9. SumFunctionOnSet(BytesOf', K \cup {r.key}) = SumFunctionOnSet(BytesOf', K) + BytesOf'[r.key]
  <2>1. \A k \in K \cup {r.key} : BytesOf'[k] \in Int
    BY <1>3, <1>4, <1>5, <1>6
  <2> QED BY <1>1, <1>6, <2>1, SumAdd
<1> QED BY <1>4, <1>7, <1>8, <1>9

\* And so do the bytes of versions other than the largest.
LEMMA CountedExtras ==
    ASSUME CountedOK, NEW r, NEW last, Counts(r, last), NEW K \in SUBSET DOMAIN counted,
           \A k \in K : KnownSize(RowOf(k))
    PROVE  /\ SumFunctionOnSet(ExtraOf', K) = SumFunctionOnSet(ExtraOf, K)
           /\ KnownSize(r) =>
                 SumFunctionOnSet(ExtraOf', K \cup {r.key}) = SumFunctionOnSet(ExtraOf, K) + Extra(r)
<1>1. IsFiniteSet(K)
  BY FS_Subset DEF CountedOK
<1>2. DOMAIN counted' = DOMAIN counted \cup {r.key}
  BY CountsMore
<1>3. \A k \in K : ExtraOf[k] = Extra(RowOf(k)) /\ ExtraOf'[k] = Extra(RowOf(k))
  BY <1>2, CountsMore DEF ExtraOf, RowOf
<1>4. ExtraOf'[r.key] = Extra(r)
  BY <1>2, CountsMore DEF ExtraOf, RowOf
<1>5. \A k \in K : Extra(RowOf(k)) \in Nat
  BY ExtraNat DEF CountedOK
<1>6. r \in Rows /\ r.key \notin K
  BY DEF Counts
<1>7. SumFunctionOnSet(ExtraOf', K) = SumFunctionOnSet(ExtraOf, K)
  BY <1>1, <1>3, <1>5, SumSame
<1>8. ASSUME KnownSize(r)
      PROVE  SumFunctionOnSet(ExtraOf', K \cup {r.key}) = SumFunctionOnSet(ExtraOf', K) + ExtraOf'[r.key]
  <2>1. \A k \in K \cup {r.key} : ExtraOf'[k] \in Int
    BY <1>3, <1>4, <1>5, <1>6, <1>8, ExtraNat
  <2> QED BY <1>1, <1>6, <2>1, SumAdd
<1> QED BY <1>4, <1>7, <1>8
-----------------------------------------------------------------------------
\* A count of those that were counted and pass a test, one more being counted.
LEMMA CardStep ==
    ASSUME NEW K, IsFiniteSet(K), NEW x, x \notin K, NEW A \in SUBSET K, NEW B,
           NEW n \in Nat, n = Cardinality(A)
    PROVE  (B = A => Cardinality(B) = n) /\ (B = A \cup {x} => Cardinality(B) = n + 1)
BY FS_Subset, FS_AddElement

\* The figures of what was counted.
InBucket(b) == {k \in DOMAIN counted : Bucket(counted[k].last) = b}
Sized == {k \in DOMAIN counted : KnownSize(RowOf(k))}
Within(age) == {k \in DOMAIN counted : RowOf(k).added > 0 /\ RowOf(k).added >= Now - age}
Several == {k \in Sized : Len(RowOf(k).media) > 1}

Figures ==
    /\ \A k \in Keys : InSet(k) <=> k \in DOMAIN counted
    /\ \A b \in Buckets : stats.items[b] = Cardinality(InBucket(b))
    /\ \A b \in Buckets : stats.bytes[b] = SumFunctionOnSet(BytesOf, InBucket(b))
    /\ stats.unsized = Cardinality(DOMAIN counted \ Sized)
    /\ stats.multi = Cardinality(Several) /\ stats.extra = SumFunctionOnSet(ExtraOf, Several)
    /\ stats.added24h = Cardinality(Within(Day)) /\ stats.added7d = Cardinality(Within(Week))
    /\ \A k \in DOMAIN counted : RowOf(k).added <= stats.newest
    /\ stats.newest = 0 \/ \E k \in DOMAIN counted : RowOf(k).added = stats.newest

TotalsAgree ==
    \A breakdown \in {stats.bytes, stats.res, stats.codec} :
       SumFunction(breakdown) = BytesFor(DOMAIN counted)

\* A play is in the bucket whose times it lies between (libstats.go:203-216).
LEMMA PlayedIs ==
    ASSUME CountedOK, NEW b \in Buckets
    PROVE  PlayedIn(b) = InBucket(b)
<1>1. {Now, Days90, Year} \subseteq Int /\ Days90 < Year
  BY LibStatsAssumption
<1>2. ASSUME NEW last \in Nat
      PROVE  /\ Bucket(last) = "never" <=> last = 0
             /\ Bucket(last) = "under_90d" <=> last > 0 /\ last > Now - Days90
             /\ Bucket(last) = "90d_1y" <=> last > 0 /\ Now - Year < last /\ last <= Now - Days90
             /\ Bucket(last) = "over_1y" <=> last > 0 /\ last <= Now - Year
  <2>1. CASE last = 0
    BY <2>1 DEF Bucket
  <2>2. CASE last > 0 /\ last > Now - Days90
    BY <1>1, <2>2 DEF Bucket
  <2>3. CASE last > 0 /\ Now - Year < last /\ last <= Now - Days90
    BY <1>1, <2>3 DEF Bucket
  <2>4. CASE last > 0 /\ last <= Now - Year
    BY <1>1, <2>4 DEF Bucket
  <2> QED BY <1>1, <2>1, <2>2, <2>3, <2>4
<1>3. \A k \in DOMAIN counted : counted[k].last \in Nat
  BY DEF CountedOK
<1> QED BY <1>2, <1>3 DEF PlayedIn, InBucket, Buckets

\* The figures by name are what the runs check of them.
LEMMA FiguresAre == CountedOK /\ Figures => FiguresTrue
BY PlayedIs DEF FiguresTrue, Figures, Sized, Within, Several

\* Each set takes the key that is counted or stays as it is.
LEMMA CountedSets ==
    ASSUME CountedOK, NEW r, NEW last, Counts(r, last)
    PROVE  /\ \A b : InBucket(b)' = IF Bucket(last) = b THEN InBucket(b) \cup {r.key} ELSE InBucket(b)
           /\ Sized' = IF KnownSize(r) THEN Sized \cup {r.key} ELSE Sized
           /\ \A age : Within(age)' = IF r.added > 0 /\ r.added >= Now - age
                                      THEN Within(age) \cup {r.key} ELSE Within(age)
           /\ Several' = IF KnownSize(r) /\ Len(r.media) > 1 THEN Several \cup {r.key} ELSE Several
           /\ (DOMAIN counted \ Sized)' = IF KnownSize(r) THEN DOMAIN counted \ Sized
                                          ELSE (DOMAIN counted \ Sized) \cup {r.key}
<1>1. DOMAIN counted' = DOMAIN counted \cup {r.key} /\ r.key \notin DOMAIN counted
  BY CountsMore DEF Counts
<1>2. \A k \in DOMAIN counted : counted'[k] = counted[k] /\ k # r.key
  BY CountsMore
<1>3. counted'[r.key].row = r /\ counted'[r.key].last = last
  BY CountsMore
<1>4. ASSUME NEW b
      PROVE  InBucket(b)' = IF Bucket(last) = b THEN InBucket(b) \cup {r.key} ELSE InBucket(b)
  BY <1>1, <1>2, <1>3 DEF InBucket
<1>5. Sized' = IF KnownSize(r) THEN Sized \cup {r.key} ELSE Sized
  BY <1>1, <1>2, <1>3 DEF Sized, RowOf
<1>6. ASSUME NEW age
      PROVE  Within(age)' = IF r.added > 0 /\ r.added >= Now - age
                            THEN Within(age) \cup {r.key} ELSE Within(age)
  BY <1>1, <1>2, <1>3 DEF Within, RowOf
<1>7. Several' = IF KnownSize(r) /\ Len(r.media) > 1 THEN Several \cup {r.key} ELSE Several
  <2>1. Sized \subseteq DOMAIN counted
    BY DEF Sized
  <2> QED BY <1>1, <1>2, <1>3, <1>5, <2>1 DEF Several, RowOf
<1>8. (DOMAIN counted \ Sized)' = IF KnownSize(r) THEN DOMAIN counted \ Sized
                                  ELSE (DOMAIN counted \ Sized) \cup {r.key}
  <2>1. Sized \subseteq DOMAIN counted
    BY DEF Sized
  <2> QED BY <1>1, <1>5, <2>1
<1> QED BY <1>4, <1>5, <1>6, <1>7, <1>8
\* A row counted for the first time: every figure is true of one row more
\* (libstats.go:136-152).
LEMMA FiguresStep ==
    ASSUME CountedOK, GroupsOK, stats \in StatsSet, Figures,
           NEW r, NEW last, Counts(r, last), groups' = KeyAdded(r.key), RowAdded(stats', r, last)
    PROVE  Figures'
<1> DEFINE K == DOMAIN counted
           x == r.key
           b0 == Bucket(last)
<1>1. /\ r \in Rows /\ x \in Keys /\ x \notin K /\ IsFiniteSet(K)
      /\ DOMAIN counted' = K \cup {x} /\ counted'[x].row = r
      /\ \A k \in K : counted'[k] = counted[k]
  BY CountsMore DEF Counts, CountedOK
<1>2. \A k \in Keys : InSet(k)' <=> k \in DOMAIN counted'
  <2>0. ~InSet(x)
    BY <1>1 DEF Figures
  <2>1. \A k \in Keys : InSet(k)' <=> (InSet(k) \/ k = x)
    BY <1>1, <2>0, KeySetStep
  <2> QED BY <1>1, <2>1 DEF Figures
<1>3. /\ \A b : InBucket(b) \subseteq K
      /\ Sized \subseteq K /\ Several \subseteq K /\ K \ Sized \subseteq K /\ \A age : Within(age) \subseteq K
      /\ \A k \in Several : KnownSize(RowOf(k))
  BY DEF InBucket, Sized, Several, Within
<1>4. /\ stats.items \in [Buckets -> Nat] /\ stats.bytes \in [Buckets -> Nat]
      /\ stats.added24h \in Nat /\ stats.added7d \in Nat /\ stats.newest \in Nat
      /\ stats.unsized \in Nat /\ stats.multi \in Nat /\ stats.extra \in Nat
  BY DEF StatsSet
<1>5. b0 \in Buckets /\ Bytes(r) \in Nat /\ r.added \in Int
  BY <1>1, ClassesKnown, BytesNat, RowTyped
<1>6. \A b \in Buckets : stats'.items[b] = Cardinality(InBucket(b)')
  <2> SUFFICES ASSUME NEW b \in Buckets PROVE stats'.items[b] = Cardinality(InBucket(b)')
    OBVIOUS
  <2> DEFINE A == InBucket(b)
             B == InBucket(b)'
  <2>1. B = IF b0 = b THEN A \cup {x} ELSE A
    BY CountedSets
  <2>2. stats.items[b] = Cardinality(A) /\ A \in SUBSET K
    BY <1>3 DEF Figures
  <2>3. stats'.items[b] = IF b0 = b THEN stats.items[b] + 1 ELSE stats.items[b]
    <3>1. stats'.items = [stats.items EXCEPT ![b0] = @ + 1]
      BY DEF RowAdded
    <3> HIDE DEF b0
    <3> QED BY <1>4, <1>5, <3>1
  <2> HIDE DEF A, B, b0
  <2>4. stats.items[b] \in Nat
    BY <1>4
  <2>5. (B = A => Cardinality(B) = stats.items[b]) /\ (B = A \cup {x} => Cardinality(B) = stats.items[b] + 1)
    BY <1>1, <2>2, <2>4, CardStep
  <2>6. stats'.items[b] = Cardinality(B)
    BY <2>1, <2>3, <2>5
  <2> QED BY <2>6 DEF B
<1>7. \A b \in Buckets : stats'.bytes[b] = SumFunctionOnSet(BytesOf', InBucket(b)')
  <2> SUFFICES ASSUME NEW b \in Buckets PROVE stats'.bytes[b] = SumFunctionOnSet(BytesOf', InBucket(b)')
    OBVIOUS
  <2> DEFINE A == InBucket(b)
             B == InBucket(b)'
  <2>1. B = IF b0 = b THEN A \cup {x} ELSE A
    BY CountedSets
  <2>2. stats.bytes[b] = SumFunctionOnSet(BytesOf, A) /\ A \in SUBSET K
    BY <1>3 DEF Figures
  <2>3. stats'.bytes[b] = IF b0 = b THEN stats.bytes[b] + Bytes(r) ELSE stats.bytes[b]
    <3>1. stats'.bytes = [stats.bytes EXCEPT ![b0] = @ + Bytes(r)]
      BY DEF RowAdded
    <3> HIDE DEF b0
    <3> QED BY <1>4, <1>5, <3>1
  <2> HIDE DEF A, B
  <2>4. /\ SumFunctionOnSet(BytesOf', A) = SumFunctionOnSet(BytesOf, A)
        /\ SumFunctionOnSet(BytesOf', A \cup {x}) = SumFunctionOnSet(BytesOf, A) + Bytes(r)
    BY <2>2, CountedSums
  <2> HIDE DEF b0
  <2>5. stats'.bytes[b] = SumFunctionOnSet(BytesOf', B)
    BY <2>1, <2>2, <2>3, <2>4
  <2> QED BY <2>5 DEF B
<1>8. stats'.unsized = Cardinality((DOMAIN counted \ Sized)')
  <2> DEFINE A == K \ Sized
             B == (DOMAIN counted \ Sized)'
  <2>1. (KnownSize(r) => B = A) /\ (~KnownSize(r) => B = A \cup {x})
    BY CountedSets
  <2>2. stats.unsized = Cardinality(A) /\ A \in SUBSET K
    BY <1>3 DEF Figures
  <2>3. (~KnownSize(r) => stats'.unsized = stats.unsized + 1) /\ (KnownSize(r) => stats'.unsized = stats.unsized)
    BY DEF RowAdded
  <2> HIDE DEF A, B
  <2>4. (B = A => Cardinality(B) = stats.unsized) /\ (B = A \cup {x} => Cardinality(B) = stats.unsized + 1)
    BY <1>1, <1>4, <2>2, CardStep
  <2>5. stats'.unsized = Cardinality(B)
    BY <2>1, <2>3, <2>4
  <2> QED BY <2>5 DEF B
<1>9. stats'.multi = Cardinality(Several') /\ stats'.extra = SumFunctionOnSet(ExtraOf', Several')
  <2> DEFINE A == Several
             B == Several'
             more == KnownSize(r) /\ Len(r.media) > 1
  <2>1. (~more => B = A) /\ (more => B = A \cup {x})
    BY CountedSets
  <2>2. stats.multi = Cardinality(A) /\ A \in SUBSET K /\ stats.extra = SumFunctionOnSet(ExtraOf, A)
    BY <1>3 DEF Figures
  <2>3. /\ more => stats'.multi = stats.multi + 1 /\ stats'.extra = stats.extra + Extra(r)
        /\ ~more => stats'.multi = stats.multi /\ stats'.extra = stats.extra
    BY DEF RowAdded
  <2>4. more => KnownSize(r)
    OBVIOUS
  <2>5. \A k \in A : KnownSize(RowOf(k))
    BY <1>3
  <2> HIDE DEF A, B, more
  <2>6. (B = A => Cardinality(B) = stats.multi) /\ (B = A \cup {x} => Cardinality(B) = stats.multi + 1)
    BY <1>1, <1>4, <2>2, CardStep
  <2>7. /\ SumFunctionOnSet(ExtraOf', A) = SumFunctionOnSet(ExtraOf, A)
        /\ more => SumFunctionOnSet(ExtraOf', A \cup {x}) = SumFunctionOnSet(ExtraOf, A) + Extra(r)
    BY <2>2, <2>4, <2>5, CountedExtras
  <2>8. stats'.multi = Cardinality(B) /\ stats'.extra = SumFunctionOnSet(ExtraOf', B)
    BY <2>1, <2>2, <2>3, <2>6, <2>7
  <2> QED BY <2>8 DEF B
<1>10. stats'.added24h = Cardinality(Within(Day)') /\ stats'.added7d = Cardinality(Within(Week)')
  <2>1. Day \in Int /\ Week \in Int /\ Now \in Int
    BY LibStatsAssumption
  <2>2. ASSUME NEW age \in Int, NEW n \in Nat, NEW m, n = Cardinality(Within(age)),
               (r.added > 0 /\ Now - r.added <= age) => m = n + 1,
               ~(r.added > 0 /\ Now - r.added <= age) => m = n
        PROVE  m = Cardinality(Within(age)')
    <3> DEFINE A == Within(age)
               B == Within(age)'
               more == r.added > 0 /\ r.added >= Now - age
    <3>1. (~more => B = A) /\ (more => B = A \cup {x})
      BY CountedSets
    <3>2. more <=> (r.added > 0 /\ Now - r.added <= age)
      BY <1>5, <2>1
    <3>3. A \in SUBSET K
      BY <1>3
    <3> HIDE DEF A, B, more
    <3>4. (B = A => Cardinality(B) = n) /\ (B = A \cup {x} => Cardinality(B) = n + 1)
      BY <1>1, <2>2, <3>3, CardStep DEF A
    <3>5. m = Cardinality(B)
      BY <2>2, <3>1, <3>2, <3>4
    <3> QED BY <3>5 DEF B
  <2>3. /\ stats.added24h = Cardinality(Within(Day)) /\ stats.added7d = Cardinality(Within(Week))
    BY DEF Figures
  <2>4. /\ ((r.added > 0 /\ Now - r.added <= Day) => stats'.added24h = stats.added24h + 1)
        /\ (~(r.added > 0 /\ Now - r.added <= Day) => stats'.added24h = stats.added24h)
        /\ ((r.added > 0 /\ Now - r.added <= Week) => stats'.added7d = stats.added7d + 1)
        /\ (~(r.added > 0 /\ Now - r.added <= Week) => stats'.added7d = stats.added7d)
    BY DEF RowAdded
  <2>5. stats'.added24h = Cardinality(Within(Day)')
    BY <1>4, <2>1, <2>2, <2>3, <2>4
  <2>6. stats'.added7d = Cardinality(Within(Week)')
    BY <1>4, <2>1, <2>2, <2>3, <2>4
  <2> QED BY <2>5, <2>6
<1>11. \A k \in DOMAIN counted' : counted'[k].row.added <= stats'.newest
  <2>1. stats'.newest = Larger(stats.newest, r.added)
    BY DEF RowAdded
  <2>2. stats'.newest \in Int /\ stats'.newest >= stats.newest /\ stats'.newest >= r.added
    BY <1>4, <1>5, <2>1, LargerIs
  <2>3. \A k \in K : counted[k].row.added \in Int /\ counted[k].row.added <= stats.newest
    BY RowTyped DEF CountedOK, Figures, RowOf
  <2> QED BY <1>1, <1>4, <1>5, <2>2, <2>3
<1>12. stats'.newest = 0 \/ \E k \in DOMAIN counted' : counted'[k].row.added = stats'.newest
  <2>1. stats'.newest = stats.newest \/ stats'.newest = r.added
    BY DEF RowAdded, Larger
  <2>2. stats.newest = 0 \/ \E k \in K : counted[k].row.added = stats.newest
    BY DEF Figures, RowOf
  <2> QED BY <1>1, <2>1, <2>2
<1> QED BY <1>2, <1>6, <1>7, <1>8, <1>9, <1>10, <1>11, <1>12 DEF Figures, RowOf
\* The three breakdowns take the row's bytes, each in the classes of its own.
LEMMA BreakdownsStep ==
    ASSUME CountedOK, stats \in StatsSet, TotalsAgree,
           NEW r, NEW last, Counts(r, last), RowAdded(stats', r, last)
    PROVE  TotalsAgree'
<1> DEFINE total == SumFunctionOnSet(BytesOf, DOMAIN counted)
           more == SumFunctionOnSet(BytesOf', DOMAIN counted')
<1>1. r \in Rows /\ Bytes(r) \in Nat /\ Bucket(last) \in Buckets
  BY BytesNat, ClassesKnown DEF Counts
<1>2. /\ stats.bytes \in [Buckets -> Int] /\ stats.res \in [Resolutions -> Nat]
      /\ stats.codec \in [Codecs -> Nat]
  BY DEF StatsSet
<1>3. more = total + Bytes(r)
  <2>1. DOMAIN counted' = DOMAIN counted \cup {r.key}
    BY CountsMore
  <2> QED BY <2>1, CountedSums
<1>4. /\ SumFunctionOnSet(stats.bytes, Buckets) = total
      /\ SumFunctionOnSet(stats.res, Resolutions) = total
      /\ SumFunctionOnSet(stats.codec, Codecs) = total
  <2>1. /\ SumFunction(stats.bytes) = total /\ SumFunction(stats.res) = total
        /\ SumFunction(stats.codec) = total
    BY DEF TotalsAgree, BytesFor
  <2>2. DOMAIN stats.bytes = Buckets /\ DOMAIN stats.res = Resolutions /\ DOMAIN stats.codec = Codecs
    BY <1>2
  <2> QED BY <2>1, <2>2, SumsOverDomain
<1> HIDE DEF total, more
<1>5. DOMAIN stats'.bytes = Buckets /\ SumFunctionOnSet(stats'.bytes, Buckets) = more
  <2> DEFINE b == Bucket(last)
             n == Bytes(r)
             old == stats.bytes
  <2>1. stats'.bytes = [old EXCEPT ![b] = @ + n]
    BY DEF RowAdded
  <2>2. b \in Buckets /\ n \in Int /\ old \in [Buckets -> Int] /\ IsFiniteSet(Buckets)
    BY <1>1, <1>2, FiniteClasses
  <2> HIDE DEF b, n, old
  <2>3. SumFunctionOnSet([old EXCEPT ![b] = @ + n], Buckets) = SumFunctionOnSet(old, Buckets) + n
    BY <2>2, SumRaised
  <2>4. DOMAIN stats'.bytes = Buckets
    BY <2>1, <2>2
  <2> QED BY <1>3, <1>4, <2>1, <2>3, <2>4 DEF n, old
<1>6. ASSUME NEW C, IsFiniteSet(C), NEW old \in [C -> Nat], NEW new, NEW class,
             new = [c \in C |-> old[c] + IF KnownSize(r) THEN BytesIn(r, c, class) ELSE 0],
             SumFunctionOnSet(old, C) = total,
             KnownSize(r) =>
                /\ \A c \in C : BytesIn(r, c, class) \in Nat
                /\ SumFunctionOnSet([c \in C |-> BytesIn(r, c, class)], C) = Bytes(r)
      PROVE  DOMAIN new = C /\ SumFunctionOnSet(new, C) = more
  <2>1. CASE KnownSize(r)
    <3> DEFINE part == [c \in C |-> BytesIn(r, c, class)]
    <3>1. \A c \in C : old[c] \in Int /\ part[c] \in Int /\ new[c] = old[c] + part[c]
      BY <1>6, <2>1
    <3>2. SumFunctionOnSet(part, C) = Bytes(r)
      BY <1>6, <2>1
    <3> HIDE DEF part
    <3>3. SumFunctionOnSet(new, C) = SumFunctionOnSet(old, C) + SumFunctionOnSet(part, C)
      BY <1>6, <3>1, SumPlus
    <3>4. DOMAIN new = C
      BY <1>6
    <3> QED BY <1>3, <1>6, <3>2, <3>3, <3>4
  <2>2. CASE ~KnownSize(r)
    <3>1. \A c \in C : old[c] \in Int /\ new[c] = old[c]
      BY <1>6, <2>2
    <3>2. SumFunctionOnSet(new, C) = SumFunctionOnSet(old, C)
      BY <1>6, <3>1, SumSame
    <3>3. Bytes(r) = 0
      BY <2>2 DEF Bytes
    <3>4. total \in Int
      <4> DEFINE K == DOMAIN counted
      <4>1. K \in SUBSET DOMAIN counted
        OBVIOUS
      <4>2. SumFunctionOnSet(BytesOf, K) \in Nat
        BY <4>1, CountedSums
      <4> QED BY <4>2 DEF total
    <3>5. DOMAIN new = C
      BY <1>6
    <3> QED BY <1>3, <1>6, <3>2, <3>3, <3>4, <3>5
  <2> QED BY <2>1, <2>2
<1>7. DOMAIN stats'.res = Resolutions /\ SumFunctionOnSet(stats'.res, Resolutions) = more
  <2> DEFINE class == Res(r)
             old == stats.res
             new == stats'.res
  <2>1. new = [c \in Resolutions |-> old[c] + IF KnownSize(r) THEN BytesIn(r, c, class) ELSE 0]
    BY DEF RowAdded
  <2>2. KnownSize(r) =>
           /\ \A c \in Resolutions : BytesIn(r, c, class) \in Nat
           /\ SumFunctionOnSet([c \in Resolutions |-> BytesIn(r, c, class)], Resolutions) = Bytes(r)
    BY <1>1, RowClasses
  <2>3. SumFunctionOnSet(old, Resolutions) = total /\ old \in [Resolutions -> Nat]
    BY <1>2, <1>4
  <2> HIDE DEF class, old, new
  <2>4. DOMAIN new = Resolutions /\ SumFunctionOnSet(new, Resolutions) = more
    BY <1>6, <2>1, <2>2, <2>3, FiniteClasses
  <2> QED BY <2>4 DEF new
<1>8. DOMAIN stats'.codec = Codecs /\ SumFunctionOnSet(stats'.codec, Codecs) = more
  <2> DEFINE class == Codec(r)
             old == stats.codec
             new == stats'.codec
  <2>1. new = [c \in Codecs |-> old[c] + IF KnownSize(r) THEN BytesIn(r, c, class) ELSE 0]
    BY DEF RowAdded
  <2>2. KnownSize(r) =>
           /\ \A c \in Codecs : BytesIn(r, c, class) \in Nat
           /\ SumFunctionOnSet([c \in Codecs |-> BytesIn(r, c, class)], Codecs) = Bytes(r)
    BY <1>1, RowClasses
  <2>3. SumFunctionOnSet(old, Codecs) = total /\ old \in [Codecs -> Nat]
    BY <1>2, <1>4
  <2> HIDE DEF class, old, new
  <2>4. DOMAIN new = Codecs /\ SumFunctionOnSet(new, Codecs) = more
    BY <1>6, <2>1, <2>2, <2>3, FiniteClasses
  <2> QED BY <2>4 DEF new
<1>9. SumFunction(stats'.bytes) = more /\ SumFunction(stats'.res) = more /\ SumFunction(stats'.codec) = more
  BY <1>5, <1>7, <1>8, SumsOverDomain
<1> QED BY <1>9 DEF TotalsAgree, BytesFor, more
-----------------------------------------------------------------------------
\* What is known of a show: over c, what was counted.
ShowSet == [bytes : 0 .. MaxBytes, last : Int, partial : BOOLEAN, newest : EntrySet]
EpisodesIn(c, s) == {k \in DOMAIN c : c[k].row.show = s}
EpisodeBytes(c, s) == SumFunctionOnSet([k \in DOMAIN c |-> Bytes(c[k].row)], EpisodesIn(c, s))
AsEntry(c, k) == [key |-> k, added |-> c[k].row.added]

\* e is the newest dated item of E, and without a date if there is none.
NewestIs(e, E, c) ==
    /\ e.added = 0 => \A k \in E : c[k].row.added <= 0
    /\ e.added # 0 => /\ e.added > 0 /\ e.key \in E /\ c[e.key].row.added = e.added
                      /\ \A k \in E \ {e.key} :
                            c[k].row.added > 0 => Before("added", e, AsEntry(c, k))

ShowFor(w, s, c) ==
    /\ w.bytes <= EpisodeBytes(c, s)
    /\ ~w.partial => /\ w.bytes = EpisodeBytes(c, s)
                     /\ \A k \in EpisodesIn(c, s) : KnownSize(c[k].row)
    /\ w.partial => \/ \E k \in EpisodesIn(c, s) : ~KnownSize(c[k].row)
                    \/ EpisodeBytes(c, s) > MaxBytes
    /\ \A k \in EpisodesIn(c, s) : w.last >= c[k].last
    /\ NewestIs(w.newest, EpisodesIn(c, s), c)

\* Its show has one episode and its bytes more, and no other show has.
LEMMA EpisodesStep ==
    ASSUME CountedOK, NEW r, NEW last, Counts(r, last), NEW s
    PROVE  /\ r.show = s => EpisodesIn(counted', s) = EpisodesIn(counted, s) \cup {r.key}
           /\ r.show # s => EpisodesIn(counted', s) = EpisodesIn(counted, s)
           /\ EpisodesIn(counted, s) \subseteq DOMAIN counted
           /\ EpisodeBytes(counted, s) \in Nat
           /\ r.show = s => EpisodeBytes(counted', s) = EpisodeBytes(counted, s) + Bytes(r)
           /\ r.show # s => EpisodeBytes(counted', s) = EpisodeBytes(counted, s)
<1> DEFINE E == EpisodesIn(counted, s)
<1>1. /\ DOMAIN counted' = DOMAIN counted \cup {r.key} /\ r.key \notin DOMAIN counted
      /\ \A k \in DOMAIN counted : counted'[k] = counted[k] /\ k # r.key
      /\ counted'[r.key].row = r
  BY CountsMore DEF Counts
<1>2. E \in SUBSET DOMAIN counted
  BY DEF EpisodesIn
<1>3. (r.show = s => EpisodesIn(counted', s) = E \cup {r.key}) /\ (r.show # s => EpisodesIn(counted', s) = E)
  BY <1>1 DEF EpisodesIn
<1> HIDE DEF E
<1>4. /\ SumFunctionOnSet(BytesOf, E) \in Nat
      /\ SumFunctionOnSet(BytesOf', E) = SumFunctionOnSet(BytesOf, E)
      /\ SumFunctionOnSet(BytesOf', E \cup {r.key}) = SumFunctionOnSet(BytesOf, E) + Bytes(r)
  BY <1>2, CountedSums
<1>5. EpisodeBytes(counted, s) = SumFunctionOnSet(BytesOf, E)
  BY DEF EpisodeBytes, BytesOf, RowOf, E
<1>6. EpisodeBytes(counted', s) = SumFunctionOnSet(BytesOf', EpisodesIn(counted', s))
  BY DEF EpisodeBytes, BytesOf, RowOf
<1>7. (r.show = s => EpisodeBytes(counted', s) = EpisodeBytes(counted, s) + Bytes(r))
      /\ (r.show # s => EpisodeBytes(counted', s) = EpisodeBytes(counted, s))
  BY <1>3, <1>4, <1>5, <1>6
<1> QED BY <1>2, <1>3, <1>4, <1>5, <1>7 DEF E

\* addEpisode, field by field (libstats.go:169-191).
LEMMA WithEpisodeFields ==
    ASSUME NEW w \in ShowSet, NEW r \in Rows, NEW last \in Nat
    PROVE  LET fits == KnownSize(r) /\ Bytes(r) <= MaxBytes - w.bytes
               entry == Entry(r.key, 0, r.added, 0)
               v == WithEpisode(w, r, last)
           IN /\ v \in ShowSet
              /\ fits => v.partial = w.partial /\ v.bytes = w.bytes + Bytes(r)
              /\ ~fits => v.partial /\ v.bytes = w.bytes
              /\ v.last = Larger(w.last, last)
              /\ (r.added > 0 /\ Before("added", entry, w.newest)) => v.newest = entry
              /\ ~(r.added > 0 /\ Before("added", entry, w.newest)) => v.newest = w.newest
<1> DEFINE fits == KnownSize(r) /\ Bytes(r) <= MaxBytes - w.bytes
           entry == Entry(r.key, 0, r.added, 0)
           newer == r.added > 0 /\ Before("added", entry, w.newest)
           partial == w.partial \/ ~fits
           bytes == IF fits THEN w.bytes + Bytes(r) ELSE w.bytes
           most == Larger(w.last, last)
           newest == IF newer THEN entry ELSE w.newest
           v == [w EXCEPT !.partial = partial, !.bytes = bytes, !.last = most, !.newest = newest]
<1>1. WithEpisode(w, r, last) = v
  BY DEF WithEpisode
<1>2. entry \in EntrySet
  BY RowTyped DEF Entry, EntrySet
<1>3. w.bytes \in 0 .. MaxBytes /\ w.last \in Int /\ w.newest \in EntrySet /\ MaxBytes \in Nat
  BY LibStatsAssumption DEF ShowSet
<1>4. w.partial \in BOOLEAN
  BY DEF ShowSet
<1>5. partial \in BOOLEAN
  BY <1>4, Zenon
<1>6. (fits => bytes = w.bytes + Bytes(r)) /\ (~fits => bytes = w.bytes) /\ (fits => Bytes(r) <= MaxBytes - w.bytes)
  OBVIOUS
<1>7. (newer => newest = entry) /\ (~newer => newest = w.newest)
  OBVIOUS
<1>8. (fits => partial = w.partial) /\ (~fits => partial)
  <2> HIDE DEF fits
  <2> QED BY <1>4
<1> HIDE DEF fits, newer, partial, entry, bytes, most, newest
<1>9. bytes \in 0 .. MaxBytes
  BY <1>3, <1>6, BytesNat
<1>10. most \in Int
  <2>1. last \in Int
    OBVIOUS
  <2>2. Larger(w.last, last) \in Int
    BY <1>3, <2>1, LargerIs
  <2> QED BY <2>2 DEF most
<1>11. newest \in EntrySet
  BY <1>2, <1>3, <1>7
<1>12. /\ v.partial = partial /\ v.bytes = bytes /\ v.last = most /\ v.newest = newest
  BY DEF ShowSet
<1>13. v \in ShowSet
  BY <1>5, <1>9, <1>10, <1>11 DEF ShowSet
<1> HIDE DEF v
<1> QED BY <1>1, <1>6, <1>7, <1>8, <1>12, <1>13 DEF fits, newer, entry, most
\* The newest episode, one being added.
LEMMA NewestStep ==
    ASSUME CountedOK, NEW r, NEW last, Counts(r, last), NEW E \in SUBSET DOMAIN counted,
           NEW e \in EntrySet, NewestIs(e, E, counted), NEW f \in EntrySet,
           NEW entry, entry = Entry(r.key, 0, r.added, 0),
           (r.added > 0 /\ Before("added", entry, e)) => f = entry,
           ~(r.added > 0 /\ Before("added", entry, e)) => f = e
    PROVE  NewestIs(f, E \cup {r.key}, counted')
<1> DEFINE x == r.key
           a(k) == counted[k].row.added
           a2(k) == counted'[k].row.added
           newer == r.added > 0 /\ Before("added", entry, e)
<1>1. x \notin E /\ x \in Nat /\ r.added \in Int /\ \A k \in E : k \in Nat /\ a(k) \in Int
  BY KeysNat, RowTyped DEF Counts, CountedOK, RowOf
<1>2. (\A k \in E : a2(k) = a(k) /\ counted'[k] = counted[k]) /\ a2(x) = r.added
  BY CountsMore
<1>3. entry.key = x /\ entry.added = r.added
  BY DEF Entry
<1>4. \A k \in E : AsEntry(counted', k) = AsEntry(counted, k)
  BY <1>2 DEF AsEntry
<1>5. /\ \A k \in E : AsEntry(counted, k).key = k /\ AsEntry(counted, k).added = a(k)
      /\ AsEntry(counted', x).key = x /\ AsEntry(counted', x).added = r.added
  BY <1>2 DEF AsEntry
<1>6. e.key \in Nat /\ e.added \in Int
  BY DEF EntrySet
<1>7. /\ e.added = 0 => \A k \in E : a(k) <= 0
      /\ e.added # 0 => /\ e.added > 0 /\ e.key \in E /\ a(e.key) = e.added
                        /\ \A k \in E \ {e.key} : a(k) > 0 => Before("added", e, AsEntry(counted, k))
  BY DEF NewestIs
<1> HIDE DEF x
<1>8. CASE newer
  <2>1. f = entry /\ r.added > 0 /\ f.added # 0 /\ f.key = x /\ f.added = r.added
    BY <1>3, <1>8
  <2>2. r.added > e.added \/ (r.added = e.added /\ x < e.key)
    BY <1>3, <1>8 DEF Before
  <2>3. ASSUME NEW k \in E, a(k) > 0 PROVE r.added > a(k) \/ (r.added = a(k) /\ x < k)
    <3>1. e.added # 0
      BY <1>1, <1>7, <2>3
    <3>2. CASE k = e.key
      BY <1>7, <2>2, <3>1, <3>2
    <3>3. CASE k # e.key
      <4>1. e.added > a(k) \/ (e.added = a(k) /\ e.key < k)
        BY <1>5, <1>7, <2>3, <3>1, <3>3 DEF Before
      <4> QED BY <1>1, <1>6, <2>2, <4>1
    <3> QED BY <3>2, <3>3
  <2>4. ASSUME NEW k \in (E \cup {x}) \ {f.key}, a2(k) > 0 PROVE Before("added", f, AsEntry(counted', k))
    <3>1. k \in E /\ a(k) > 0
      BY <1>2, <2>1, <2>4
    <3>2. AsEntry(counted', k).key = k /\ AsEntry(counted', k).added = a(k)
      BY <1>4, <1>5, <3>1
    <3> QED BY <2>1, <2>3, <3>1, <3>2 DEF Before
  <2>5. a2(f.key) = f.added
    BY <1>2, <2>1 DEF x
  <2> HIDE DEF a, newer
  <2> QED BY <2>1, <2>4, <2>5 DEF NewestIs, x
<1>9. CASE ~newer
  <2>1. f = e
    BY <1>9
  <2>2. CASE e.added = 0
    <3>1. ~(r.added > 0)
      BY <1>1, <1>3, <1>6, <1>9, <2>2 DEF Before
    <3>2. \A k \in E \cup {x} : a2(k) <= 0
      BY <1>1, <1>2, <1>7, <2>2, <3>1 DEF x
    <3> QED BY <2>1, <2>2, <3>2 DEF NewestIs, x
  <2>3. CASE e.added # 0
    <3>1. e.added > 0 /\ e.key \in E /\ a2(e.key) = e.added
      BY <1>2, <1>7, <2>3
    <3>2. ASSUME NEW k \in (E \cup {x}) \ {e.key}, a2(k) > 0
          PROVE  Before("added", e, AsEntry(counted', k))
      <4>1. CASE k \in E
        BY <1>2, <1>4, <1>7, <2>3, <3>2, <4>1
      <4>2. CASE k = x
        <5>1. r.added > 0
          BY <1>2, <3>2, <4>2 DEF x
        <5>2. ~(r.added > e.added \/ (r.added = e.added /\ x < e.key))
          BY <1>3, <1>9, <5>1 DEF Before
        <5>3. e.key # x
          BY <1>1, <3>1
        <5>4. e.added > r.added \/ (e.added = r.added /\ e.key < x)
          BY <1>1, <1>6, <5>2, <5>3
        <5> QED BY <1>5, <4>2, <5>4 DEF Before
      <4> QED BY <3>2, <4>1, <4>2
    <3> QED BY <2>1, <2>3, <3>1, <3>2 DEF NewestIs, x
  <2> QED BY <2>2, <2>3
<1> QED BY <1>8, <1>9

\* An episode added to its show.
LEMMA ShowStep ==
    ASSUME CountedOK, NEW r, NEW last, Counts(r, last),
           NEW w \in ShowSet, ShowFor(w, r.show, counted)
    PROVE  /\ WithEpisode(w, r, last) \in ShowSet
           /\ ShowFor(WithEpisode(w, r, last), r.show, counted')
<1> DEFINE s == r.show
           E == EpisodesIn(counted, s)
           fits == KnownSize(r) /\ Bytes(r) <= MaxBytes - w.bytes
           entry == Entry(r.key, 0, r.added, 0)
           v == WithEpisode(w, r, last)
           newer == r.added > 0 /\ Before("added", entry, w.newest)
<1>1. r \in Rows /\ last \in Nat
  BY DEF Counts
<1>2. /\ v \in ShowSet
      /\ fits => v.partial = w.partial /\ v.bytes = w.bytes + Bytes(r)
      /\ ~fits => v.partial /\ v.bytes = w.bytes
      /\ v.last = Larger(w.last, last)
      /\ newer => v.newest = entry
      /\ ~newer => v.newest = w.newest
  BY <1>1, WithEpisodeFields
<1>3. /\ EpisodesIn(counted', s) = E \cup {r.key} /\ E \in SUBSET DOMAIN counted
      /\ EpisodeBytes(counted, s) \in Nat /\ EpisodeBytes(counted', s) = EpisodeBytes(counted, s) + Bytes(r)
  BY EpisodesStep
<1>4. /\ \A k \in E : counted'[k] = counted[k]
      /\ counted'[r.key].row = r /\ counted'[r.key].last = last
  BY <1>3, CountsMore
<1>5. /\ w.bytes \in Nat /\ w.last \in Int /\ w.partial \in BOOLEAN /\ w.newest \in EntrySet
      /\ v.newest \in EntrySet /\ MaxBytes \in Nat /\ Bytes(r) \in Nat
  BY <1>1, <1>2, BytesNat, LibStatsAssumption DEF ShowSet
<1>6. /\ w.bytes <= EpisodeBytes(counted, s)
      /\ ~w.partial => w.bytes = EpisodeBytes(counted, s) /\ \A k \in E : KnownSize(counted[k].row)
      /\ w.partial => (\E k \in E : ~KnownSize(counted[k].row)) \/ EpisodeBytes(counted, s) > MaxBytes
      /\ \A k \in E : w.last >= counted[k].last
      /\ NewestIs(w.newest, E, counted)
  BY DEF ShowFor
<1>7. NewestIs(v.newest, E \cup {r.key}, counted')
  <2> HIDE DEF entry, v, E
  <2> QED BY <1>2, <1>3, <1>5, <1>6, NewestStep DEF entry
<1> DEFINE sum == EpisodeBytes(counted, s)
           sum2 == EpisodeBytes(counted', s)
           E2 == EpisodesIn(counted', s)
           n == Bytes(r)
<1>8. sum \in Nat /\ sum2 = sum + n /\ n \in Nat /\ w.bytes <= sum
  BY <1>3, <1>5, <1>6
<1>9. fits => KnownSize(r) /\ n <= MaxBytes - w.bytes
  OBVIOUS
<1>10. ~fits => ~KnownSize(r) \/ n > MaxBytes - w.bytes
  BY <1>5
<1> HIDE DEF sum, sum2, n, v, newer, entry, E, E2, s
<1>11. v.bytes <= sum2
  <2> HIDE DEF fits
  <2> QED BY <1>2, <1>5, <1>8 DEF n
<1>12. ~v.partial => v.bytes = sum2 /\ \A k \in E2 : KnownSize(counted'[k].row)
  <2> SUFFICES ASSUME ~v.partial PROVE v.bytes = sum2 /\ \A k \in E2 : KnownSize(counted'[k].row)
    OBVIOUS
  <2>1. fits
    BY <1>2, Zenon
  <2>2. ~w.partial /\ v.bytes = w.bytes + n
    BY <1>2, <2>1 DEF n
  <2>3. w.bytes = sum /\ \A k \in E : KnownSize(counted[k].row)
    BY <1>6, <2>2 DEF sum
  <2>4. KnownSize(r)
    BY <2>1
  <2> QED BY <1>3, <1>4, <1>8, <2>2, <2>3, <2>4 DEF E2
<1>13. v.partial => (\E k \in E2 : ~KnownSize(counted'[k].row)) \/ sum2 > MaxBytes
  <2> SUFFICES ASSUME v.partial PROVE (\E k \in E2 : ~KnownSize(counted'[k].row)) \/ sum2 > MaxBytes
    OBVIOUS
  <2>1. CASE w.partial
    <3>1. (\E k \in E : ~KnownSize(counted[k].row)) \/ sum > MaxBytes
      BY <1>6, <2>1 DEF sum
    <3> QED BY <1>3, <1>4, <1>5, <1>8, <3>1 DEF E2
  <2>2. CASE ~w.partial
    <3>1. ~fits
      BY <1>2, <2>2
    <3>2. CASE ~KnownSize(r)
      BY <1>3, <1>4, <3>2 DEF E2
    <3>3. CASE n > MaxBytes - w.bytes
      BY <1>5, <1>8, <3>3
    <3> QED BY <1>10, <3>1, <3>2, <3>3
  <2> QED BY <2>1, <2>2
<1>14. \A k \in E2 : v.last >= counted'[k].last
  <2>1. v.last \in Int /\ v.last >= w.last /\ v.last >= last
    <3>1. w.last \in Int /\ last \in Int
      BY <1>1, <1>5
    <3>2. Larger(w.last, last) \in Int /\ Larger(w.last, last) >= w.last /\ Larger(w.last, last) >= last
      BY <3>1, LargerIs
    <3> QED BY <1>2, <3>2
  <2>2. \A k \in E : counted[k].last \in Nat
    BY <1>3 DEF CountedOK
  <2> QED BY <1>3, <1>4, <1>5, <1>6, <2>1, <2>2 DEF E2
<1>15. NewestIs(v.newest, E2, counted')
  BY <1>3, <1>7 DEF E2
<1>16. ShowFor(v, s, counted')
  BY <1>11, <1>12, <1>13, <1>14, <1>15 DEF ShowFor, sum2, E2
<1> QED BY <1>2, <1>16 DEF v, s

\* A show is not touched by an item of another.
LEMMA ShowKept ==
    ASSUME CountedOK, NEW r, NEW last, Counts(r, last), NEW s, r.show # s,
           NEW w, ShowFor(w, s, counted)
    PROVE  ShowFor(w, s, counted')
<1> DEFINE E == EpisodesIn(counted, s)
<1>1. /\ EpisodesIn(counted', s) = E /\ E \subseteq DOMAIN counted
      /\ EpisodeBytes(counted', s) = EpisodeBytes(counted, s)
  BY EpisodesStep
<1>2. \A k \in E : counted'[k] = counted[k]
  BY <1>1, CountsMore
<1> HIDE DEF E
<1>3. NewestIs(w.newest, E, counted')
  <2>1. NewestIs(w.newest, E, counted)
    BY DEF ShowFor, E
  <2> QED BY <1>2, <2>1 DEF NewestIs, AsEntry
<1>4. /\ w.bytes <= EpisodeBytes(counted, s)
      /\ ~w.partial => w.bytes = EpisodeBytes(counted, s) /\ \A k \in E : KnownSize(counted[k].row)
      /\ w.partial => (\E k \in E : ~KnownSize(counted[k].row)) \/ EpisodeBytes(counted, s) > MaxBytes
      /\ \A k \in E : w.last >= counted[k].last
  BY DEF ShowFor, E
<1> QED BY <1>1, <1>2, <1>3, <1>4 DEF ShowFor

\* A show that comes up for the first time.
LEMMA ShowFresh ==
    ASSUME NEW s, EpisodesIn(counted, s) = {}, NEW play \in PlayTimes, NEW w,
           w = [bytes |-> 0, last |-> play, partial |-> FALSE, newest |-> NoEntry]
    PROVE  w \in ShowSet /\ ShowFor(w, s, counted)
<1>1. play \in Int /\ MaxBytes \in Nat /\ NoEntry \in EntrySet /\ NoEntry.added = 0
  BY LibStatsAssumption DEF NoEntry, Entry, EntrySet
<1>2. w.bytes = 0 /\ w.last = play /\ w.partial = FALSE /\ w.newest = NoEntry
  OBVIOUS
<1>3. w \in ShowSet
  BY <1>1 DEF ShowSet
<1>4. EpisodeBytes(counted, s) = 0
  BY SumEmpty DEF EpisodeBytes
<1> QED BY <1>1, <1>2, <1>3, <1>4 DEF ShowFor, NewestIs
-----------------------------------------------------------------------------
\* What the lists rank at a time when not every show has been gone through.
SizeSet == {e \in RankedBySize : e.key \notin DOMAIN shows}
AgeSet == {e \in RankedByAge : counted[e.key].row.show \notin DOMAIN shows}
StoodFor(e) == IF showLibrary THEN EpisodesIn(counted, e.key) ELSE {e.key}

Lists ==
    /\ IsTop(Viewed(stats.largest, "bytes"), SizeSet, "bytes")
    /\ IsTop(Viewed(stats.recent, "added"), AgeSet, "added")
    /\ \A e \in ToSet(stats.largest) : \A k \in StoodFor(e) : e.last >= counted[k].last

SizeEntry(k) == [key |-> k, bytes |-> Bytes(counted[k].row)]
Dated == {k \in DOMAIN counted : counted[k].row.added > 0}
NewestOfShow(k) ==
    \A j \in Dated \ {k} : counted[j].row.show = counted[k].row.show =>
                              Before("added", AsEntry(counted, k), AsEntry(counted, j))

\* The two rankings, as sets of what was counted.
LEMMA Rankings ==
    /\ showLibrary =>
          RankedBySize = {[key |-> s, bytes |-> EpisodeBytes(counted, s)] :
                             s \in {t \in ShowKeys :
                                      /\ EpisodesIn(counted, t) # {}
                                      /\ \A k \in EpisodesIn(counted, t) : KnownSize(counted[k].row)
                                      /\ EpisodeBytes(counted, t) <= MaxBytes}}
    /\ ~showLibrary => RankedBySize = {SizeEntry(k) : k \in Sized}
    /\ showLibrary =>
          RankedByAge = {AsEntry(counted, k) :
                            k \in {j \in Dated : counted[j].row.show # NoKey /\ NewestOfShow(j)}}
    /\ ~showLibrary => RankedByAge = {AsEntry(counted, k) : k \in Dated}
<1>1. \A s : Episodes(s) = EpisodesIn(counted, s) /\ BytesFor(Episodes(s)) = EpisodeBytes(counted, s)
  BY DEF Episodes, EpisodesIn, BytesFor, BytesOf, EpisodeBytes, RowOf
<1>2. \A k \in DOMAIN counted : BytesOf[k] = Bytes(counted[k].row)
  BY DEF BytesOf, RowOf
<1>3. showLibrary =>
          RankedBySize = {[key |-> s, bytes |-> EpisodeBytes(counted, s)] :
                             s \in {t \in ShowKeys :
                                      /\ EpisodesIn(counted, t) # {}
                                      /\ \A k \in EpisodesIn(counted, t) : KnownSize(counted[k].row)
                                      /\ EpisodeBytes(counted, t) <= MaxBytes}}
  BY <1>1 DEF RankedBySize, RowOf
<1>4. ~showLibrary => RankedBySize = {SizeEntry(k) : k \in Sized}
  BY <1>2 DEF RankedBySize, RowOf, SizeEntry, Sized
<1>5. showLibrary =>
          RankedByAge = {AsEntry(counted, k) :
                            k \in {j \in Dated : counted[j].row.show # NoKey /\ NewestOfShow(j)}}
  BY DEF RankedByAge, RowOf, AsEntry, Dated, NewestOfShow
<1>6. ~showLibrary => RankedByAge = {AsEntry(counted, k) : k \in Dated}
  BY DEF RankedByAge, RowOf, AsEntry, Dated
<1> QED BY <1>3, <1>4, <1>5, <1>6

\* The bytes of the episodes of a show.
LEMMA EpisodeBytesNat ==
    ASSUME CountedOK, NEW s
    PROVE  EpisodeBytes(counted, s) \in Nat /\ EpisodesIn(counted, s) \in SUBSET DOMAIN counted
<1> DEFINE E == EpisodesIn(counted, s)
           bytes == [k \in DOMAIN counted |-> Bytes(counted[k].row)]
<1>1. E \in SUBSET DOMAIN counted
  BY DEF EpisodesIn
<1>2. IsFiniteSet(E)
  BY <1>1, FS_Subset DEF CountedOK
<1>3. \A k \in E : bytes[k] \in Nat
  BY <1>1, BytesNat DEF CountedOK, RowOf
<1> HIDE DEF E, bytes
<1>4. SumFunctionOnSet(bytes, E) \in Nat
  BY <1>2, <1>3, SumNat
<1> QED BY <1>1, <1>4 DEF EpisodeBytes, E, bytes

\* The rankings hold keys with sizes, and keys of dated items with their dates.
LEMMA RankingsTyped ==
    ASSUME CountedOK, showLibrary \in BOOLEAN
    PROVE  /\ RankedBySize \in SUBSET ViewSet("bytes")
           /\ RankedByAge \in SUBSET ViewSet("added")
           /\ \A e \in RankedByAge : /\ e.key \in DOMAIN counted /\ counted[e.key].row.added > 0
                                     /\ e = AsEntry(counted, e.key)
           /\ ~showLibrary => \A e \in RankedBySize : e.key \in DOMAIN counted
<1>1. /\ \A k \in DOMAIN counted : k \in Nat /\ counted[k].row \in Rows /\ counted[k].row.added \in Int
      /\ Sized \subseteq DOMAIN counted /\ Dated \subseteq DOMAIN counted
      /\ \A k \in Dated : counted[k].row.added > 0
      /\ ShowKeys \subseteq Nat
  BY KeysNat, RowTyped DEF CountedOK, RowOf, Sized, Dated
<1>2. \A k \in DOMAIN counted : /\ AsEntry(counted, k) \in ViewSet("added")
                                /\ AsEntry(counted, k).key = k
  BY <1>1 DEF AsEntry, ViewSet
<1>3. /\ \A e \in RankedByAge : \E k \in Dated : e = AsEntry(counted, k)
  BY Rankings
<1>4. \A k \in DOMAIN counted : SizeEntry(k) \in ViewSet("bytes") /\ SizeEntry(k).key = k
  BY <1>1, BytesNat DEF SizeEntry, ViewSet
<1>5. ~showLibrary => \A e \in RankedBySize : \E k \in Sized : e = SizeEntry(k)
  BY Rankings
<1>6. showLibrary => \A e \in RankedBySize : \E s \in ShowKeys : e = [key |-> s, bytes |-> EpisodeBytes(counted, s)]
  BY Rankings
<1>7. \A s \in ShowKeys : [key |-> s, bytes |-> EpisodeBytes(counted, s)] \in ViewSet("bytes")
  BY <1>1, EpisodeBytesNat DEF ViewSet
<1>8. RankedBySize \in SUBSET ViewSet("bytes")
  BY <1>1, <1>4, <1>5, <1>6, <1>7
<1> QED BY <1>1, <1>2, <1>3, <1>4, <1>5, <1>8
\* The members of the two lists, as far as the ranking goes.
LEMMA ListMembers ==
    ASSUME CountedOK, stats \in StatsSet, showLibrary \in BOOLEAN, Lists
    PROVE  /\ \A e \in ToSet(stats.largest) : View(e, "bytes") \in SizeSet /\ View(e, "bytes").key = e.key
           /\ SizeSet \in SUBSET ViewSet("bytes") /\ AgeSet \in SUBSET ViewSet("added")
<1>1. /\ stats.largest \in Seq(EntrySet)
      /\ ToSet(Viewed(stats.largest, "bytes")) \subseteq SizeSet
  BY DEF StatsSet, Lists, IsTop
<1> DEFINE list == stats.largest
<1>2. /\ Len(list) \in Nat /\ DOMAIN list = 1 .. Len(list) /\ DOMAIN Viewed(list, "bytes") = 1 .. Len(list)
      /\ \A i \in 1 .. Len(list) : Viewed(list, "bytes")[i] = View(list[i], "bytes")
  BY <1>1, ViewedSeq, LenProperties
<1>3. \A i \in 1 .. Len(list) : View(list[i], "bytes") \in ToSet(Viewed(list, "bytes"))
  BY <1>2 DEF ToSet
<1>4. \A e \in ToSet(list) : \E i \in 1 .. Len(list) : e = list[i]
  BY <1>2 DEF ToSet
<1>5. \A e : View(e, "bytes").key = e.key
  BY DEF View
<1>6. SizeSet \in SUBSET ViewSet("bytes") /\ AgeSet \in SUBSET ViewSet("added")
  BY RankingsTyped DEF SizeSet, AgeSet
<1> QED BY <1>1, <1>3, <1>4, <1>5, <1>6

\* A movie more in both rankings, where its size and its date are known.
LEMMA MovieRankings ==
    ASSUME CountedOK, ~showLibrary, ~showLibrary', DOMAIN shows = {}, DOMAIN shows' = {},
           NEW r, NEW last, Counts(r, last)
    PROVE  /\ KnownSize(r) => SizeSet' = SizeSet \cup {[key |-> r.key, bytes |-> Bytes(r)]}
           /\ ~KnownSize(r) => SizeSet' = SizeSet
           /\ r.added > 0 => AgeSet' = AgeSet \cup {[key |-> r.key, added |-> r.added]}
           /\ ~(r.added > 0) => AgeSet' = AgeSet
           /\ SizeSet = {SizeEntry(k) : k \in Sized} /\ AgeSet = {AsEntry(counted, k) : k \in Dated}
<1>1. SizeSet = {SizeEntry(k) : k \in Sized} /\ AgeSet = {AsEntry(counted, k) : k \in Dated}
  BY Rankings DEF SizeSet, AgeSet
<1>2. SizeSet' = {SizeEntry(k)' : k \in Sized'} /\ AgeSet' = {AsEntry(counted', k) : k \in Dated'}
  <2>1. (~showLibrary => RankedBySize = {SizeEntry(k) : k \in Sized})'
    BY Rankings, PTL
  <2>2. (~showLibrary => RankedByAge = {AsEntry(counted, k) : k \in Dated})'
    BY Rankings, PTL
  <2>3. SizeSet' = RankedBySize' /\ AgeSet' = RankedByAge'
    BY DEF SizeSet, AgeSet
  <2> QED BY <2>1, <2>2, <2>3
<1>3. /\ DOMAIN counted' = DOMAIN counted \cup {r.key}
      /\ \A k \in DOMAIN counted : counted'[k] = counted[k] /\ k # r.key
      /\ counted'[r.key].row = r
  BY CountsMore
<1>4. (KnownSize(r) => Sized' = Sized \cup {r.key}) /\ (~KnownSize(r) => Sized' = Sized)
  BY CountedSets
<1>5. (r.added > 0 => Dated' = Dated \cup {r.key}) /\ (~(r.added > 0) => Dated' = Dated)
  BY <1>3 DEF Dated
<1>6. /\ \A k \in Sized : SizeEntry(k)' = SizeEntry(k)
      /\ SizeEntry(r.key)' = [key |-> r.key, bytes |-> Bytes(r)]
  BY <1>3 DEF SizeEntry, Sized
<1>7. /\ \A k \in Dated : AsEntry(counted', k) = AsEntry(counted, k)
      /\ AsEntry(counted', r.key) = [key |-> r.key, added |-> r.added]
  BY <1>3 DEF AsEntry, Dated
<1>8. (KnownSize(r) => SizeSet' = SizeSet \cup {[key |-> r.key, bytes |-> Bytes(r)]})
      /\ (~KnownSize(r) => SizeSet' = SizeSet)
  BY <1>1, <1>2, <1>4, <1>6
<1>9. (r.added > 0 => AgeSet' = AgeSet \cup {[key |-> r.key, added |-> r.added]})
      /\ (~(r.added > 0) => AgeSet' = AgeSet)
  BY <1>1, <1>2, <1>5, <1>7
<1> QED BY <1>1, <1>8, <1>9
\* add's end for a movie, field by field (libstats.go:154-163).
LEMMA WithMovieFields ==
    ASSUME NEW st \in StatsSet, NEW r, NEW last
    PROVE  LET v == WithMovie(st, r, last)
               entry == Entry(r.key, Bytes(r), r.added, last)
           IN /\ RowAdded(st, r, last) => RowAdded(v, r, last)
              /\ KnownSize(r) => v.largest = InsertTop(st.largest, entry, "bytes")
              /\ ~KnownSize(r) => v.largest = st.largest
              /\ r.added > 0 => v.recent = InsertTop(st.recent, entry, "added")
              /\ ~(r.added > 0) => v.recent = st.recent
              /\ (v.largest \in Seq(EntrySet) /\ v.recent \in Seq(EntrySet)) => v \in StatsSet
              /\ Fits(st) => Fits(v)
<1> DEFINE entry == Entry(r.key, Bytes(r), r.added, last)
           largest == IF KnownSize(r) THEN InsertTop(st.largest, entry, "bytes") ELSE st.largest
           recent == IF r.added > 0 THEN InsertTop(st.recent, entry, "added") ELSE st.recent
           v == [st EXCEPT !.largest = largest, !.recent = recent]
<1>1. WithMovie(st, r, last) = v
  BY DEF WithMovie
<1>2. /\ KnownSize(r) => largest = InsertTop(st.largest, entry, "bytes")
      /\ ~KnownSize(r) => largest = st.largest
      /\ r.added > 0 => recent = InsertTop(st.recent, entry, "added")
      /\ ~(r.added > 0) => recent = st.recent
  OBVIOUS
<1> HIDE DEF entry, largest, recent
<1>3. /\ v.largest = largest /\ v.recent = recent
      /\ v.items = st.items /\ v.bytes = st.bytes /\ v.res = st.res /\ v.codec = st.codec
      /\ v.added24h = st.added24h /\ v.added7d = st.added7d /\ v.newest = st.newest
      /\ v.unsized = st.unsized /\ v.multi = st.multi /\ v.extra = st.extra
  BY DEF StatsSet
<1>4. (largest \in Seq(EntrySet) /\ recent \in Seq(EntrySet)) => v \in StatsSet
  BY DEF StatsSet
<1> HIDE DEF v
<1>5. RowAdded(st, r, last) => RowAdded(v, r, last)
  BY <1>3 DEF RowAdded
<1>6. Fits(st) => Fits(v)
  BY <1>3 DEF Fits
<1> QED BY <1>1, <1>2, <1>3, <1>4, <1>5, <1>6 DEF entry

\* A movie counted: the lists take it at its place.
LEMMA MovieLists ==
    ASSUME CountedOK, stats \in StatsSet, Lists, ~showLibrary, showLibrary \in BOOLEAN, showLibrary' = showLibrary,
           DOMAIN shows = {}, DOMAIN shows' = {},
           NEW r, NEW last, Counts(r, last),
           NEW entry, entry = Entry(r.key, Bytes(r), r.added, last),
           KnownSize(r) => stats'.largest = InsertTop(stats.largest, entry, "bytes"),
           ~KnownSize(r) => stats'.largest = stats.largest,
           r.added > 0 => stats'.recent = InsertTop(stats.recent, entry, "added"),
           ~(r.added > 0) => stats'.recent = stats.recent
    PROVE  stats'.largest \in Seq(EntrySet) /\ stats'.recent \in Seq(EntrySet) /\ Lists'
<1>1. /\ stats.largest \in Seq(EntrySet) /\ stats.recent \in Seq(EntrySet)
      /\ IsTop(Viewed(stats.largest, "bytes"), SizeSet, "bytes")
      /\ IsTop(Viewed(stats.recent, "added"), AgeSet, "added")
  BY DEF StatsSet, Lists
<1>2. /\ r \in Rows /\ last \in Nat /\ r.key \in Nat /\ r.key \notin DOMAIN counted
      /\ DOMAIN counted' = DOMAIN counted \cup {r.key}
      /\ \A k \in DOMAIN counted : counted'[k] = counted[k]
      /\ counted'[r.key].last = last
  BY CountsMore, RowTyped DEF Counts
<1>3. entry \in EntrySet /\ entry.key = r.key /\ entry.last = last
  BY <1>2, BytesNat, RowTyped DEF Entry, EntrySet
<1>4. /\ View(entry, "bytes") = [key |-> r.key, bytes |-> Bytes(r)]
      /\ View(entry, "added") = [key |-> r.key, added |-> r.added]
  BY DEF View, Entry
<1>5. /\ SizeSet \in SUBSET ViewSet("bytes") /\ AgeSet \in SUBSET ViewSet("added")
      /\ \A a \in SizeSet : a.key \in DOMAIN counted
      /\ \A a \in AgeSet : a.key \in DOMAIN counted
  BY RankingsTyped DEF SizeSet, AgeSet
<1>6. (\A a \in SizeSet : a.key # entry.key) /\ (\A a \in AgeSet : a.key # entry.key)
  BY <1>2, <1>3, <1>5
<1>7. /\ KnownSize(r) => SizeSet' = SizeSet \cup {View(entry, "bytes")}
      /\ ~KnownSize(r) => SizeSet' = SizeSet
      /\ r.added > 0 => AgeSet' = AgeSet \cup {View(entry, "added")}
      /\ ~(r.added > 0) => AgeSet' = AgeSet
  BY <1>4, MovieRankings
<1>8. /\ stats'.largest \in Seq(EntrySet)
      /\ IsTop(Viewed(stats'.largest, "bytes"), SizeSet', "bytes")
      /\ ToSet(stats'.largest) \subseteq ToSet(stats.largest) \cup {entry}
  <2>1. CASE KnownSize(r)
    <3>1. /\ InsertTop(stats.largest, entry, "bytes") \in Seq(EntrySet)
          /\ ToSet(InsertTop(stats.largest, entry, "bytes")) \subseteq ToSet(stats.largest) \cup {entry}
          /\ IsTop(Viewed(InsertTop(stats.largest, entry, "bytes"), "bytes"),
                   SizeSet \cup {View(entry, "bytes")}, "bytes")
      BY <1>1, <1>3, <1>5, <1>6, InsertTopIsTop
    <3> QED BY <1>7, <2>1, <3>1
  <2>2. CASE ~KnownSize(r)
    BY <1>1, <1>7, <2>2
  <2> QED BY <2>1, <2>2
<1>9. /\ stats'.recent \in Seq(EntrySet)
      /\ IsTop(Viewed(stats'.recent, "added"), AgeSet', "added")
  <2>1. CASE r.added > 0
    <3>1. /\ InsertTop(stats.recent, entry, "added") \in Seq(EntrySet)
          /\ IsTop(Viewed(InsertTop(stats.recent, entry, "added"), "added"),
                   AgeSet \cup {View(entry, "added")}, "added")
      BY <1>1, <1>3, <1>5, <1>6, InsertTopIsTop
    <3> QED BY <1>7, <2>1, <3>1
  <2>2. CASE ~(r.added > 0)
    BY <1>1, <1>7, <2>2
  <2> QED BY <2>1, <2>2
<1>10. ASSUME NEW e \in ToSet(stats'.largest) PROVE \A k \in StoodFor(e)' : e.last >= counted'[k].last
  <2>1. \A k \in StoodFor(e)' : k = e.key
    BY DEF StoodFor
  <2>2. CASE e \in ToSet(stats.largest)
    <3>1. e.key \in DOMAIN counted
      BY <1>5, <2>2, ListMembers
    <3>2. e.last >= counted[e.key].last
      BY <2>2 DEF Lists, StoodFor
    <3> QED BY <1>2, <2>1, <3>1, <3>2
  <2>3. CASE e = entry
    BY <1>2, <1>3, <2>1, <2>3
  <2> QED BY <1>8, <2>2, <2>3
<1> QED BY <1>8, <1>9, <1>10 DEF Lists
-----------------------------------------------------------------------------
\* While the rows of a show library are read, both lists are empty.
AllShown == \A s \in ShowKeys : EpisodesIn(counted, s) # {} => s \in DOMAIN shows

\* Every episode belongs to a show that is still gathered, so nothing is ranked.
LEMMA NothingRanked == CountedOK /\ showLibrary /\ AllShown => SizeSet = {} /\ AgeSet = {}
<1> SUFFICES ASSUME CountedOK, showLibrary, AllShown PROVE SizeSet = {} /\ AgeSet = {}
  OBVIOUS
<1> USE DEF AllShown
<1>1. SizeSet = {}
  <2>1. \A e \in RankedBySize : e.key \in ShowKeys /\ EpisodesIn(counted, e.key) # {}
    BY Rankings
  <2> QED BY <2>1 DEF SizeSet
<1>2. AgeSet = {}
  <2>1. SUFFICES ASSUME NEW k \in Dated, counted[k].row.show # NoKey,
                        counted[AsEntry(counted, k).key].row.show \notin DOMAIN shows
                 PROVE  FALSE
    BY Rankings DEF AgeSet
  <2>2. k \in DOMAIN counted /\ counted[k].row \in Rows /\ AsEntry(counted, k).key = k
    BY DEF Dated, CountedOK, RowOf, AsEntry
  <2>3. counted[k].row.show \in ShowKeys /\ k \in EpisodesIn(counted, counted[k].row.show)
    BY <2>1, <2>2 DEF ShowKeys, EpisodesIn
  <2> QED BY <2>1, <2>2, <2>3
<1> QED BY <1>1, <1>2

ShowsInv ==
    /\ shows \in [DOMAIN shows -> ShowSet] /\ DOMAIN shows \subseteq ShowKeys
    /\ \A s \in DOMAIN shows : EpisodesIn(counted, s) # {} /\ ShowFor(shows[s], s, counted)
    /\ ~showLibrary => DOMAIN shows = {}
    /\ (showLibrary /\ apc = "rows") => AllShown
    /\ apc = "done" => DOMAIN shows = {}

\* The show k's place by size, and by the newest of its episodes.
LEMMA ShowRanked ==
    ASSUME CountedOK, ShowsInv, showLibrary, showLibrary \in BOOLEAN, NEW k \in DOMAIN shows
    PROVE  /\ ~shows[k].partial =>
                 {e \in RankedBySize : e.key = k} = {[key |-> k, bytes |-> shows[k].bytes]}
           /\ shows[k].partial => {e \in RankedBySize : e.key = k} = {}
           /\ shows[k].newest.added > 0 =>
                 /\ {e \in RankedByAge : counted[e.key].row.show = k} =
                       {[key |-> shows[k].newest.key, added |-> shows[k].newest.added]}
                 /\ counted[shows[k].newest.key].row.show = k
           /\ ~(shows[k].newest.added > 0) =>
                 {e \in RankedByAge : counted[e.key].row.show = k} = {}
<1> DEFINE w == shows[k]
           E == EpisodesIn(counted, k)
           sum == EpisodeBytes(counted, k)
<1>1. /\ w \in ShowSet /\ k \in ShowKeys /\ E # {} /\ w.newest \in EntrySet
      /\ w.bytes \in 0 .. MaxBytes /\ w.partial \in BOOLEAN /\ MaxBytes \in Nat
  BY LibStatsAssumption DEF ShowsInv, ShowSet
<1>2. /\ ~w.partial => w.bytes = sum /\ \A j \in E : KnownSize(counted[j].row)
      /\ w.partial => (\E j \in E : ~KnownSize(counted[j].row)) \/ sum > MaxBytes
      /\ NewestIs(w.newest, E, counted)
  BY DEF ShowsInv, ShowFor
<1>3. sum \in Nat /\ E \subseteq DOMAIN counted
  BY EpisodeBytesNat
<1>4. {e \in RankedBySize : e.key = k} =
        IF (\A j \in E : KnownSize(counted[j].row)) /\ sum <= MaxBytes
        THEN {[key |-> k, bytes |-> sum]} ELSE {}
  BY <1>1, Rankings
<1> HIDE DEF sum, E, w
<1>5. ~w.partial => {e \in RankedBySize : e.key = k} = {[key |-> k, bytes |-> w.bytes]}
  BY <1>1, <1>2, <1>4
<1>6. w.partial => {e \in RankedBySize : e.key = k} = {}
  <2>1. ASSUME w.partial PROVE ~((\A j \in E : KnownSize(counted[j].row)) /\ sum <= MaxBytes)
    BY <1>1, <1>2, <1>3, <2>1
  <2> QED BY <1>4, <2>1
<1>7. {e \in RankedByAge : counted[e.key].row.show = k} =
        {AsEntry(counted, j) : j \in {i \in Dated : i \in E /\ NewestOfShow(i)}}
  <2>1. \A j : AsEntry(counted, j).key = j
    BY DEF AsEntry
  <2>2. \A j \in Dated : j \in E <=> counted[j].row.show = k
    BY DEF E, EpisodesIn, Dated
  <2>3. k # NoKey
    BY <1>1 DEF ShowKeys
  <2> QED BY <2>1, <2>2, <2>3, Rankings
<1>8. \A j \in E : counted[j].row.added \in Int /\ j \in Nat /\ (j \in Dated <=> counted[j].row.added > 0)
  BY <1>3, KeysNat, RowTyped DEF CountedOK, RowOf, Dated
<1>9. \A i, j \in E : counted[i].row.show = counted[j].row.show
  BY DEF E, EpisodesIn
<1>10. \A i \in Dated, j \in E : counted[i].row.show = counted[j].row.show => i \in E
  BY DEF E, EpisodesIn, Dated
<1>11. ASSUME ~(w.newest.added > 0)
       PROVE  {e \in RankedByAge : counted[e.key].row.show = k} = {}
  <2>1. w.newest.added = 0
    BY <1>1, <1>2, <1>11 DEF NewestIs, EntrySet
  <2>2. \A j \in E : ~(counted[j].row.added > 0)
    BY <1>2, <1>8, <2>1 DEF NewestIs
  <2> QED BY <1>7, <1>8, <2>2
<1>12. ASSUME w.newest.added > 0
       PROVE  /\ {e \in RankedByAge : counted[e.key].row.show = k} =
                    {[key |-> w.newest.key, added |-> w.newest.added]}
              /\ counted[w.newest.key].row.show = k
  <2> DEFINE n == w.newest.key
             v == AsEntry(counted, n)
  <2>1. /\ n \in E /\ counted[n].row.added = w.newest.added
        /\ \A j \in E \ {n} : counted[j].row.added > 0 => Before("added", w.newest, AsEntry(counted, j))
    <3>1. w.newest.added # 0
      BY <1>1, <1>12 DEF EntrySet
    <3> QED BY <1>2, <3>1 DEF NewestIs
  <2>2. /\ v.key = n /\ v.added = w.newest.added
        /\ v = [key |-> w.newest.key, added |-> w.newest.added] /\ n \in Dated
    BY <1>8, <1>12, <2>1 DEF AsEntry
  <2>3. \A j \in E \ {n} : j \in Dated => Before("added", v, AsEntry(counted, j))
    BY <1>8, <2>1, <2>2 DEF Before
  <2>4. NewestOfShow(n)
    BY <1>10, <2>1, <2>3 DEF NewestOfShow
  <2>5. ASSUME NEW j \in Dated, j \in E, NewestOfShow(j) PROVE j = n
    <3>1. SUFFICES ASSUME j # n PROVE FALSE
      OBVIOUS
    <3>2. Before("added", v, AsEntry(counted, j))
      BY <2>3, <2>5, <3>1
    <3>3. Before("added", AsEntry(counted, j), v)
      BY <1>9, <2>1, <2>2, <2>5, <3>1 DEF NewestOfShow
    <3>4. /\ AsEntry(counted, j).key = j /\ AsEntry(counted, j).added \in Int /\ j \in Nat
          /\ v.added \in Int /\ v.key \in Nat
      BY <1>8, <2>1, <2>2, <2>5 DEF AsEntry
    <3> HIDE DEF v
    <3> QED BY <3>2, <3>3, <3>4 DEF Before
  <2>6. {i \in Dated : i \in E /\ NewestOfShow(i)} = {n}
    BY <2>1, <2>2, <2>4, <2>5
  <2>7. counted[n].row.show = k
    BY <2>1 DEF E, EpisodesIn
  <2> QED BY <1>7, <2>2, <2>6, <2>7
<1> QED BY <1>5, <1>6, <1>11, <1>12 DEF w
\* finish puts one show in its places (libstats.go:263-273).
LEMMA FinishLists ==
    ASSUME CountedOK, stats \in StatsSet, ShowsInv, Lists, showLibrary, showLibrary \in BOOLEAN,
           NEW k, FinishShow(k)
    PROVE  /\ stats'.largest \in Seq(EntrySet) /\ stats'.recent \in Seq(EntrySet) /\ Lists'
           /\ stats'.items = stats.items /\ stats'.bytes = stats.bytes /\ stats'.res = stats.res
           /\ stats'.codec = stats.codec /\ stats'.added24h = stats.added24h
           /\ stats'.added7d = stats.added7d /\ stats'.newest = stats.newest
           /\ stats'.unsized = stats.unsized /\ stats'.multi = stats.multi /\ stats'.extra = stats.extra
           /\ stats' \in StatsSet
<1> DEFINE w == shows[k]
           entry == Entry(k, w.bytes, 0, w.last)
           largest == IF w.partial THEN stats.largest ELSE InsertTop(stats.largest, entry, "bytes")
           recent == IF w.newest.added > 0 THEN InsertTop(stats.recent, w.newest, "added") ELSE stats.recent
<1>1. /\ k \in DOMAIN shows /\ counted' = counted /\ showLibrary' = showLibrary
      /\ DOMAIN shows' = DOMAIN shows \ {k}
      /\ stats' = [stats EXCEPT !.largest = largest, !.recent = recent]
  BY DEF FinishShow
<1>2. /\ w \in ShowSet /\ k \in Nat /\ w.newest \in EntrySet /\ w.bytes \in Nat /\ w.last \in Int
      /\ w.partial \in BOOLEAN
      /\ \A j \in EpisodesIn(counted, k) : w.last >= counted[j].last
  BY <1>1, KeysNat, LibStatsAssumption DEF ShowsInv, ShowSet, ShowFor
<1>3. entry \in EntrySet /\ entry.key = k /\ entry.last = w.last /\ View(entry, "bytes") = [key |-> k, bytes |-> w.bytes]
  BY <1>2 DEF Entry, EntrySet, View
<1>4. View(w.newest, "added") = [key |-> w.newest.key, added |-> w.newest.added]
  BY DEF View
<1>5. /\ w.partial => largest = stats.largest
      /\ ~w.partial => largest = InsertTop(stats.largest, entry, "bytes")
      /\ w.newest.added > 0 => recent = InsertTop(stats.recent, w.newest, "added")
      /\ ~(w.newest.added > 0) => recent = stats.recent
  OBVIOUS
<1>6. /\ ~w.partial => {e \in RankedBySize : e.key = k} = {View(entry, "bytes")}
      /\ w.partial => {e \in RankedBySize : e.key = k} = {}
      /\ w.newest.added > 0 =>
            /\ {e \in RankedByAge : counted[e.key].row.show = k} = {View(w.newest, "added")}
            /\ counted[w.newest.key].row.show = k
      /\ ~(w.newest.added > 0) => {e \in RankedByAge : counted[e.key].row.show = k} = {}
  BY <1>1, <1>3, <1>4, ShowRanked
<1>7. /\ stats.largest \in Seq(EntrySet) /\ stats.recent \in Seq(EntrySet)
      /\ IsTop(Viewed(stats.largest, "bytes"), SizeSet, "bytes")
      /\ IsTop(Viewed(stats.recent, "added"), AgeSet, "added")
      /\ \A e \in ToSet(stats.largest) : \A j \in StoodFor(e) : e.last >= counted[j].last
  BY DEF StatsSet, Lists
<1>8. RankedBySize' = RankedBySize /\ RankedByAge' = RankedByAge
  BY <1>1 DEF RankedBySize, RankedByAge, Episodes, BytesFor, BytesOf, RowOf
<1>9. /\ SizeSet' = SizeSet \cup {e \in RankedBySize : e.key = k}
      /\ AgeSet' = AgeSet \cup {e \in RankedByAge : counted[e.key].row.show = k}
  BY <1>1, <1>8 DEF SizeSet, AgeSet
<1>10. /\ SizeSet \in SUBSET ViewSet("bytes") /\ AgeSet \in SUBSET ViewSet("added")
       /\ \A a \in SizeSet : a.key # k
       /\ \A a \in AgeSet : counted[a.key].row.show # k
  BY <1>1, RankingsTyped DEF SizeSet, AgeSet
<1> HIDE DEF entry, largest, recent, w
<1>11. /\ stats'.largest = largest /\ stats'.recent = recent
       /\ stats'.items = stats.items /\ stats'.bytes = stats.bytes /\ stats'.res = stats.res
       /\ stats'.codec = stats.codec /\ stats'.added24h = stats.added24h
       /\ stats'.added7d = stats.added7d /\ stats'.newest = stats.newest
       /\ stats'.unsized = stats.unsized /\ stats'.multi = stats.multi /\ stats'.extra = stats.extra
       /\ (largest \in Seq(EntrySet) /\ recent \in Seq(EntrySet)) => stats' \in StatsSet
  BY <1>1 DEF StatsSet
<1>12. /\ largest \in Seq(EntrySet) /\ IsTop(Viewed(largest, "bytes"), SizeSet', "bytes")
       /\ ToSet(largest) \subseteq ToSet(stats.largest) \cup {entry}
  <2>1. CASE ~w.partial
    <3>1. /\ InsertTop(stats.largest, entry, "bytes") \in Seq(EntrySet)
          /\ ToSet(InsertTop(stats.largest, entry, "bytes")) \subseteq ToSet(stats.largest) \cup {entry}
          /\ IsTop(Viewed(InsertTop(stats.largest, entry, "bytes"), "bytes"),
                   SizeSet \cup {View(entry, "bytes")}, "bytes")
      BY <1>3, <1>7, <1>10, InsertTopIsTop, ZenonT(30)
    <3> QED BY <1>5, <1>6, <1>9, <2>1, <3>1
  <2>2. CASE w.partial
    <3>1. SizeSet' = SizeSet /\ largest = stats.largest
      BY <1>5, <1>6, <1>9, <2>2
    <3> QED BY <1>7, <3>1
  <2> QED BY <2>1, <2>2
<1>13. recent \in Seq(EntrySet) /\ IsTop(Viewed(recent, "added"), AgeSet', "added")
  <2>1. CASE w.newest.added > 0
    <3>1. \A a \in AgeSet : a.key # w.newest.key
      BY <1>6, <1>10, <2>1
    <3>2. /\ InsertTop(stats.recent, w.newest, "added") \in Seq(EntrySet)
          /\ IsTop(Viewed(InsertTop(stats.recent, w.newest, "added"), "added"),
                   AgeSet \cup {View(w.newest, "added")}, "added")
      BY <1>2, <1>7, <1>10, <3>1, InsertTopIsTop
    <3> QED BY <1>5, <1>6, <1>9, <2>1, <3>2
  <2>2. CASE ~(w.newest.added > 0)
    <3>1. AgeSet' = AgeSet /\ recent = stats.recent
      BY <1>5, <1>6, <1>9, <2>2
    <3> QED BY <1>7, <3>1
  <2> QED BY <2>1, <2>2
<1>14. ASSUME NEW e \in ToSet(stats'.largest) PROVE \A j \in StoodFor(e)' : e.last >= counted'[j].last
  <2>1. StoodFor(e)' = EpisodesIn(counted, e.key) /\ StoodFor(e) = EpisodesIn(counted, e.key)
    BY <1>1 DEF StoodFor
  <2>2. CASE e \in ToSet(stats.largest)
    BY <1>1, <1>7, <2>1, <2>2
  <2>3. CASE e = entry
    BY <1>1, <1>2, <1>3, <2>1, <2>3
  <2> QED BY <1>11, <1>12, <2>2, <2>3
<1>15. Lists'
  BY <1>11, <1>12, <1>13, <1>14 DEF Lists
<1> QED BY <1>11, <1>12, <1>13, <1>15

\* An episode counted: its show takes it, and the lists wait for the end.
LEMMA EpisodeCounted ==
    ASSUME CountedOK, stats \in StatsSet, ShowsInv, Lists, showLibrary, showLibrary \in BOOLEAN, apc = "rows",
           NEW r \in Rows, NEW play \in PlayTimes, NEW showPlay \in PlayTimes, CountRow(r, play, showPlay),
           Counts(r, LastPlayed(r, play))
    PROVE  ShowsInv' /\ (stats'.largest = stats.largest /\ stats'.recent = stats.recent => Lists')
<1> DEFINE last == LastPlayed(r, play)
           s == r.show
           fresh == [bytes |-> 0, last |-> showPlay, partial |-> FALSE, newest |-> NoEntry]
           w == IF s \in DOMAIN shows THEN shows[s] ELSE fresh
           v == WithEpisode(w, r, last)
<1>1. /\ shows' = IF s # NoKey
                  THEN [k \in DOMAIN shows \cup {s} |-> IF k = s THEN v ELSE shows[k]]
                  ELSE shows
      /\ showLibrary' = showLibrary /\ apc' = apc
  BY DEF CountRow
<1>2. Counts(r, last) /\ last \in Nat
  BY LastPlayedNat
<1>3. s # NoKey => s \in ShowKeys
  BY DEF ShowKeys
<1>4. /\ shows \in [DOMAIN shows -> ShowSet] /\ DOMAIN shows \subseteq ShowKeys
      /\ \A t \in DOMAIN shows : EpisodesIn(counted, t) # {} /\ ShowFor(shows[t], t, counted)
      /\ \A t \in ShowKeys : EpisodesIn(counted, t) # {} => t \in DOMAIN shows
      /\ AllShown
  BY DEF ShowsInv, AllShown
<1> HIDE DEF last
<1>5. ASSUME s # NoKey PROVE w \in ShowSet /\ ShowFor(w, s, counted)
  <2>1. CASE s \in DOMAIN shows
    BY <1>4, <2>1
  <2>2. CASE s \notin DOMAIN shows
    <3>1. EpisodesIn(counted, s) = {}
      BY <1>3, <1>4, <1>5, <2>2
    <3>2. fresh \in ShowSet /\ ShowFor(fresh, s, counted)
      BY <3>1, ShowFresh
    <3> QED BY <2>2, <3>2
  <2> QED BY <2>1, <2>2
<1> HIDE DEF w
<1>6. ASSUME s # NoKey PROVE v \in ShowSet /\ ShowFor(v, s, counted')
  BY <1>2, <1>5, <1>6, ShowStep
<1> HIDE DEF v
<1>7. /\ \A t : r.show = t => EpisodesIn(counted', t) = EpisodesIn(counted, t) \cup {r.key}
      /\ \A t : r.show # t => EpisodesIn(counted', t) = EpisodesIn(counted, t)
  BY <1>2, EpisodesStep
<1>8. \A t \in DOMAIN shows : t # s => EpisodesIn(counted', t) # {} /\ ShowFor(shows[t], t, counted')
  BY <1>2, <1>4, <1>7, ShowKept
<1>9. ShowsInv'
  <2>1. CASE s # NoKey
    <3>1. /\ DOMAIN shows' = DOMAIN shows \cup {s} /\ shows'[s] = v
          /\ \A t \in DOMAIN shows : t # s => shows'[t] = shows[t]
      BY <1>1, <2>1
    <3>2. shows' \in [DOMAIN shows' -> ShowSet]
      <4>1. shows' = [t \in DOMAIN shows' |-> shows'[t]]
        BY <1>1, <2>1
      <4>2. \A t \in DOMAIN shows' : shows'[t] \in ShowSet
        BY <1>4, <1>6, <2>1, <3>1
      <4> QED BY <4>1, <4>2
    <3>3. DOMAIN shows' \subseteq ShowKeys
      BY <1>3, <1>4, <2>1, <3>1
    <3>4. \A t \in DOMAIN shows' : EpisodesIn(counted', t) # {} /\ ShowFor(shows'[t], t, counted')
      BY <1>6, <1>7, <1>8, <2>1, <3>1
    <3>5. \A t \in ShowKeys : EpisodesIn(counted', t) # {} => t \in DOMAIN shows'
      BY <1>4, <1>7, <3>1
    <3> QED BY <1>1, <3>2, <3>3, <3>4, <3>5 DEF ShowsInv, AllShown
  <2>2. CASE s = NoKey
    <3>1. shows' = shows /\ \A t \in ShowKeys : t # s
      BY <1>1, <2>2 DEF ShowKeys
    <3>2. \A t \in ShowKeys : EpisodesIn(counted', t) = EpisodesIn(counted, t)
      BY <1>7, <3>1
    <3>3. \A t \in DOMAIN shows' : EpisodesIn(counted', t) # {} /\ ShowFor(shows'[t], t, counted')
      BY <1>4, <1>8, <3>1
    <3> QED BY <1>1, <1>4, <3>1, <3>2, <3>3 DEF ShowsInv, AllShown
  <2> QED BY <2>1, <2>2
<1>10. ASSUME stats'.largest = stats.largest, stats'.recent = stats.recent PROVE Lists'
  <2>1. SizeSet = {} /\ AgeSet = {}
    BY <1>4, NothingRanked
  <2>2. SizeSet' = {} /\ AgeSet' = {}
    <3>1. CountedOK' /\ showLibrary' /\ AllShown'
      <4>1. CountedOK'
        BY <1>2, CountsMore
      <4>2. showLibrary' /\ apc' = "rows"
        BY <1>1, Zenon
      <4>3. AllShown'
        BY <1>9, <4>2, Zenon DEF ShowsInv
      <4> QED BY <4>1, <4>2, <4>3
    <3>2. (CountedOK /\ showLibrary /\ AllShown => SizeSet = {} /\ AgeSet = {})'
      BY NothingRanked, PTL
    <3> QED BY <3>1, <3>2
  <2>3. ToSet(stats.largest) = {}
    BY <2>1, ListMembers
  <2> QED BY <1>10, <2>1, <2>2, <2>3 DEF Lists
<1> QED BY <1>9, <1>10
-----------------------------------------------------------------------------
\* What every step keeps: each part of the state says of what was counted what
\* the code means it to say.
StatsInv ==
    /\ apc \in {"rows", "shows", "done", "failed"} /\ showLibrary \in BOOLEAN
    /\ GroupsOK /\ CountedOK /\ stats \in StatsSet /\ Fits(stats)
    /\ Figures /\ TotalsAgree /\ ShowsInv /\ Lists

SameFigures ==
    /\ stats'.items = stats.items /\ stats'.bytes = stats.bytes /\ stats'.res = stats.res
    /\ stats'.codec = stats.codec /\ stats'.added24h = stats.added24h
    /\ stats'.added7d = stats.added7d /\ stats'.newest = stats.newest
    /\ stats'.unsized = stats.unsized /\ stats'.multi = stats.multi /\ stats'.extra = stats.extra

\* Steps that count nothing: the figures stay true.
LEMMA FiguresKept ==
    ASSUME Figures, TotalsAgree, UNCHANGED <<groups, counted>>, SameFigures
    PROVE  Figures' /\ TotalsAgree'
<1>1. BytesOf' = BytesOf /\ ExtraOf' = ExtraOf
  BY DEF BytesOf, ExtraOf, RowOf
<1>2. \A b : InBucket(b)' = InBucket(b)
  BY DEF InBucket
<1>3. Sized' = Sized
  BY DEF Sized, RowOf
<1>4. \A age : Within(age)' = Within(age)
  BY DEF Within, RowOf
<1>5. Several' = Several
  BY <1>3 DEF Several, RowOf
<1>6. \A k : InSet(k)' <=> InSet(k)
  BY DEF InSet, Holds
<1>7. \A k : RowOf(k)' = RowOf(k)
  BY DEF RowOf
<1>8. Figures'
  BY <1>1, <1>2, <1>3, <1>4, <1>5, <1>6, <1>7 DEF Figures, SameFigures
<1>9. TotalsAgree'
  BY <1>1 DEF TotalsAgree, BytesFor, SameFigures
<1> QED BY <1>8, <1>9

\* Steps that only change the phase.
LEMMA PhaseStep ==
    ASSUME StatsInv, UNCHANGED <<showLibrary, groups, stats, shows, counted>>,
           apc' \in {"rows", "shows", "done", "failed"}, apc' = "rows" => apc = "rows",
           apc' = "done" => DOMAIN shows = {}
    PROVE  StatsInv'
<1>1. Figures' /\ TotalsAgree'
  BY FiguresKept DEF StatsInv, SameFigures
<1>2. GroupsOK'
  BY DEF StatsInv, GroupsOK
<1>3. CountedOK'
  BY DEF StatsInv, CountedOK, RowOf
<1>4. AllShown' <=> AllShown
  BY DEF AllShown
<1>5. ShowsInv'
  BY <1>4 DEF StatsInv, ShowsInv
<1>6. BytesOf' = BytesOf
  BY DEF BytesOf, RowOf
<1>7. RankedBySize' = RankedBySize
  BY <1>6 DEF RankedBySize, Episodes, RowOf, BytesFor
<1>8. RankedByAge' = RankedByAge
  BY DEF RankedByAge, RowOf
<1>9. SizeSet' = SizeSet /\ AgeSet' = AgeSet
  BY <1>7, <1>8 DEF SizeSet, AgeSet
<1>10. \A e : StoodFor(e)' = StoodFor(e)
  BY DEF StoodFor
<1>11. Lists'
  BY <1>9, <1>10 DEF StatsInv, Lists
<1> QED BY <1>1, <1>2, <1>3, <1>5, <1>11 DEF StatsInv

\* At the start nothing is counted, every sum is of nothing and the lists are empty.
LEMMA StatsStart == StatsInit => StatsInv
<1> SUFFICES ASSUME StatsInit PROVE StatsInv
  OBVIOUS
<1>1. counted = <<>> /\ shows = <<>> /\ DOMAIN counted = {} /\ DOMAIN shows = {} /\ apc = "rows"
      /\ showLibrary \in BOOLEAN
  BY DEF StatsInit
<1>2. GroupsOK
  <2>1. NoKeys \in GroupSet
    <3>1. NoKeys \in GroupRecord /\ NoKeys.low = <<>>
      BY DEF NoKeys, NoBits, GroupRecord
    <3> QED BY <3>1, LibStatsAssumption DEF GroupSet, Sorted
  <2> QED BY <2>1 DEF StatsInit, GroupsOK
<1>3. IsFiniteSet(DOMAIN counted)
  BY <1>1, FS_EmptySet
<1>4. CountedOK
  BY <1>1, <1>3 DEF CountedOK
<1>5. /\ stats.items = [b \in Buckets |-> 0] /\ stats.bytes = [b \in Buckets |-> 0]
      /\ stats.res = [c \in Resolutions |-> 0] /\ stats.codec = [c \in Codecs |-> 0]
      /\ stats.added24h = 0 /\ stats.added7d = 0 /\ stats.newest = 0 /\ stats.unsized = 0
      /\ stats.multi = 0 /\ stats.extra = 0 /\ stats.largest = <<>> /\ stats.recent = <<>>
  BY DEF StatsInit
<1>6. stats \in StatsSet
  BY DEF StatsInit, StatsSet
<1>7. MaxBytes \in Nat
  BY LibStatsAssumption
<1>8. Fits(stats)
  BY <1>5, <1>7 DEF Fits
<1>9. /\ \A b : InBucket(b) = {} /\ Sized = {} /\ \A age : Within(age) = {} /\ Several = {}
  BY <1>1 DEF InBucket, Sized, Within, Several
<1>10. Cardinality({}) = 0
  BY FS_EmptySet
<1>11. \A f : SumFunctionOnSet(f, {}) = 0
  BY SumEmpty
<1>12. \A k \in Keys : ~InSet(k)
  <2>1. \A v : ~Holds(NoKeys, v)
    BY DEF Holds, Found, NoKeys, SearchPlace
  <2>2. \A g \in Groups : groups[g] = NoKeys
    BY DEF StatsInit
  <2> QED BY <2>1, <2>2, KeysNat DEF InSet
<1>13. Figures
  <2>1. \A b \in Buckets : stats.items[b] = Cardinality(InBucket(b))
    BY <1>5, <1>9, <1>10
  <2>2. \A b \in Buckets : stats.bytes[b] = SumFunctionOnSet(BytesOf, InBucket(b))
    BY <1>5, <1>9, <1>11
  <2>3. \A k \in Keys : InSet(k) <=> k \in DOMAIN counted
    BY <1>1, <1>12
  <2>4. DOMAIN counted \ Sized = {}
    BY <1>1
  <2>5. stats.newest = 0 /\ \A k \in DOMAIN counted : RowOf(k).added <= stats.newest
    BY <1>1, <1>5
  <2>6. stats.unsized = Cardinality(DOMAIN counted \ Sized)
    BY <1>5, <1>10, <2>4
  <2>7. stats.multi = Cardinality(Several) /\ stats.extra = SumFunctionOnSet(ExtraOf, Several)
    BY <1>5, <1>9, <1>10, <1>11
  <2>8. stats.added24h = Cardinality(Within(Day)) /\ stats.added7d = Cardinality(Within(Week))
    BY <1>5, <1>9, <1>10
  <2> QED BY <2>1, <2>2, <2>3, <2>5, <2>6, <2>7, <2>8 DEF Figures
<1>14. TotalsAgree
  <2>1. SumFunctionOnSet([b \in Buckets |-> 0], Buckets) = 0
    BY FiniteClasses, SumZero
  <2>2. SumFunctionOnSet([b \in Resolutions |-> 0], Resolutions) = 0
    BY FiniteClasses, SumZero
  <2>3. SumFunctionOnSet([b \in Codecs |-> 0], Codecs) = 0
    BY FiniteClasses, SumZero
  <2>4. \A f : SumFunction(f) = SumFunctionOnSet(f, DOMAIN f)
    BY SumsOverDomain
  <2>5. SumFunction(stats.bytes) = 0 /\ SumFunction(stats.res) = 0 /\ SumFunction(stats.codec) = 0
    BY <1>5, <2>1, <2>2, <2>3, <2>4
  <2>6. BytesFor(DOMAIN counted) = 0
    BY <1>1, <1>11 DEF BytesFor
  <2> QED BY <2>5, <2>6 DEF TotalsAgree
<1>15. \A s : EpisodesIn(counted, s) = {}
  BY <1>1 DEF EpisodesIn
<1>16. ShowsInv
  <2>1. shows \in [DOMAIN shows -> ShowSet]
    BY <1>1
  <2> QED BY <1>1, <1>15, <2>1 DEF ShowsInv, AllShown
<1>17. SizeSet = {} /\ AgeSet = {}
  <2>1. showLibrary => SizeSet = {} /\ AgeSet = {}
    BY <1>4, <1>15, NothingRanked DEF AllShown
  <2>2. Dated = {}
    BY <1>1 DEF Dated
  <2>3. ~showLibrary => RankedBySize = {} /\ RankedByAge = {}
    BY <1>9, <2>2, Rankings
  <2> QED BY <2>1, <2>3 DEF SizeSet, AgeSet
<1>18. \A f : Viewed(<<>>, f) = <<>>
  BY DEF Viewed
<1>19. \A f : IsTop(<<>>, {}, f)
  BY LibStatsAssumption DEF IsTop, ToSet
<1>20. ToSet(stats.largest) = {}
  BY <1>5 DEF ToSet
<1>21. Lists
  BY <1>5, <1>17, <1>18, <1>19, <1>20 DEF Lists
<1> QED BY <1>1, <1>2, <1>4, <1>6, <1>8, <1>13, <1>14, <1>16, <1>21 DEF StatsInv
\* A show gone through: its two entries are in place, and it is left behind.
LEMMA FinishStep == ASSUME StatsInv, NEW k, FinishShow(k) PROVE StatsInv'
<1>1. showLibrary /\ showLibrary \in BOOLEAN /\ k \in DOMAIN shows /\ apc = "shows"
  BY DEF StatsInv, ShowsInv, FinishShow
<1>2. UNCHANGED <<showLibrary, apc, groups, counted>>
  BY DEF FinishShow
<1>3. Lists' /\ SameFigures /\ stats' \in StatsSet
  BY <1>1, FinishLists DEF StatsInv, SameFigures
<1>4. Figures' /\ TotalsAgree'
  BY <1>2, <1>3, FiguresKept DEF StatsInv
<1>5. GroupsOK'
  BY <1>2 DEF StatsInv, GroupsOK
<1>6. CountedOK'
  BY <1>2 DEF StatsInv, CountedOK, RowOf
<1>7. Fits(stats')
  BY <1>3 DEF StatsInv, Fits, SameFigures
<1>8. shows' = [j \in DOMAIN shows \ {k} |-> shows[j]]
  BY DEF FinishShow
<1>9. ShowsInv'
  BY <1>1, <1>2, <1>8 DEF StatsInv, ShowsInv
<1> QED BY <1>1, <1>2, <1>3, <1>4, <1>5, <1>6, <1>7, <1>9 DEF StatsInv

\* A row counted, in either kind of library.
LEMMA CountStep ==
    ASSUME StatsInv, NEW r \in Rows, NEW play \in PlayTimes, NEW showPlay \in PlayTimes,
           CountRow(r, play, showPlay)
    PROVE  StatsInv'
<1> DEFINE last == LastPlayed(r, play)
           st == WithRow(r, last)
           entry == Entry(r.key, Bytes(r), r.added, last)
<1>1. /\ apc = "rows" /\ r.key # NoKey /\ ~InSet(r.key) /\ Fits(st)
      /\ groups' = KeyAdded(r.key) /\ UNCHANGED <<showLibrary, apc>>
      /\ (showLibrary => stats' = st) /\ (~showLibrary => stats' = WithMovie(st, r, last))
      /\ (~showLibrary => shows' = shows)
      /\ counted' = [k \in DOMAIN counted \cup {r.key} |->
                        IF k = r.key THEN [row |-> r, last |-> last] ELSE counted[k]]
  BY DEF CountRow
<1>2. last \in Nat
  BY LastPlayedNat
<1>3. r.key \in Keys
  BY <1>1 DEF Keys
<1>4. r.key \notin DOMAIN counted
  BY <1>1, <1>3 DEF StatsInv, Figures
<1>5. Counts(r, last)
  BY <1>1, <1>2, <1>3, <1>4 DEF Counts
<1>6. CountedOK' /\ GroupsOK'
  BY <1>1, <1>3, <1>5, CountsMore, KeySetStep DEF StatsInv
<1>7. st \in StatsSet
  BY WithRowTyped DEF StatsInv
<1>8. RowAdded(st, r, last) /\ st.largest = stats.largest /\ st.recent = stats.recent
  BY WithRowFields DEF StatsInv
<1> HIDE DEF last, st
<1>9. CASE showLibrary
  <2>1. stats' \in StatsSet /\ Fits(stats') /\ RowAdded(stats', r, last)
    BY <1>1, <1>7, <1>8, <1>9
  <2>2. Counts(r, LastPlayed(r, play))
    BY <1>5 DEF last
  <2>3. ShowsInv' /\ Lists'
    <3>1. stats'.largest = stats.largest /\ stats'.recent = stats.recent
      BY <1>1, <1>8, <1>9
    <3> QED BY <1>1, <1>9, <2>2, <3>1, EpisodeCounted DEF StatsInv
  <2>4. Figures'
    BY <1>1, <1>5, <2>1, FiguresStep DEF StatsInv
  <2>5. TotalsAgree'
    BY <1>5, <2>1, BreakdownsStep DEF StatsInv
  <2> QED BY <1>1, <1>6, <2>1, <2>3, <2>4, <2>5 DEF StatsInv
<1>10. CASE ~showLibrary
  <2> DEFINE v == WithMovie(st, r, last)
  <2>1. v = stats'
    BY <1>1, <1>10
  <2>2. DOMAIN shows = {} /\ DOMAIN shows' = {} /\ shows' = shows
    BY <1>1, <1>10 DEF StatsInv, ShowsInv
  <2>3. /\ RowAdded(v, r, last)
        /\ KnownSize(r) => v.largest = InsertTop(st.largest, entry, "bytes")
        /\ ~KnownSize(r) => v.largest = st.largest
        /\ r.added > 0 => v.recent = InsertTop(st.recent, entry, "added")
        /\ ~(r.added > 0) => v.recent = st.recent
        /\ (v.largest \in Seq(EntrySet) /\ v.recent \in Seq(EntrySet)) => v \in StatsSet
        /\ Fits(v)
    BY <1>1, <1>7, <1>8, WithMovieFields
  <2> HIDE DEF v, entry
  <2>4. entry = Entry(r.key, Bytes(r), r.added, last)
    BY DEF entry
  <2>5. stats'.largest \in Seq(EntrySet) /\ stats'.recent \in Seq(EntrySet) /\ Lists'
    <3>1. /\ KnownSize(r) => stats'.largest = InsertTop(stats.largest, entry, "bytes")
          /\ ~KnownSize(r) => stats'.largest = stats.largest
          /\ r.added > 0 => stats'.recent = InsertTop(stats.recent, entry, "added")
          /\ ~(r.added > 0) => stats'.recent = stats.recent
      BY <1>8, <2>1, <2>3
    <3> QED BY <1>1, <1>5, <1>10, <2>2, <2>4, <3>1, MovieLists DEF StatsInv
  <2>6. stats' \in StatsSet /\ Fits(stats') /\ RowAdded(stats', r, last)
    BY <2>1, <2>3, <2>5
  <2>7. Figures'
    BY <1>1, <1>5, <2>6, FiguresStep DEF StatsInv
  <2>8. TotalsAgree'
    BY <1>5, <2>6, BreakdownsStep DEF StatsInv
  <2>9. ShowsInv'
    BY <1>1, <1>10, <2>2 DEF StatsInv, ShowsInv
  <2> QED BY <1>1, <1>6, <2>5, <2>6, <2>7, <2>8, <2>9 DEF StatsInv
<1> QED BY <1>9, <1>10 DEF StatsInv

\* Every step keeps it.
LEMMA StatsStep == StatsInv /\ [StatsNext]_statsVars => StatsInv'
<1> SUFFICES ASSUME StatsInv, [StatsNext]_statsVars PROVE StatsInv'
  OBVIOUS
<1>1. CASE UNCHANGED statsVars
  BY <1>1, PhaseStep DEF StatsInv, ShowsInv, statsVars
<1>2. ASSUME NEW r \in Rows, SkipRow(r) PROVE StatsInv'
  BY <1>2, PhaseStep DEF StatsInv, ShowsInv, SkipRow, statsVars
<1>3. ASSUME NEW r \in Rows, NEW play \in PlayTimes, Overflow(r, play) PROVE StatsInv'
  BY <1>3, PhaseStep DEF Overflow
<1>4. ASSUME NEW r \in Rows, NEW play \in PlayTimes, NEW showPlay \in PlayTimes,
             CountRow(r, play, showPlay)
      PROVE StatsInv'
  BY <1>4, CountStep
<1>5. CASE WalkFails
  BY <1>5, PhaseStep DEF WalkFails
<1>6. CASE WalkEnds
  BY <1>6, PhaseStep DEF WalkEnds
<1>7. ASSUME NEW k \in ShowKeys, FinishShow(k) PROVE StatsInv'
  BY <1>7, FinishStep
<1>8. CASE Finished
  <2>1. DOMAIN shows = {}
    BY <1>8 DEF Finished
  <2> QED BY <1>8, <2>1, PhaseStep DEF Finished
<1> QED BY <1>1, <1>2, <1>3, <1>4, <1>5, <1>6, <1>7, <1>8 DEF StatsNext

\* All that follows from the code's steps.
LEMMA StatsAlways == StatsSpec => []StatsInv
<1>1. StatsInit => StatsInv
  BY StatsStart
<1>2. StatsInv /\ [StatsNext]_statsVars => StatsInv'
  BY StatsStep
<1> QED BY <1>1, <1>2, PTL DEF StatsSpec
-----------------------------------------------------------------------------
\* What a walk of a library makes holds figures of the right kind at every
\* step, no byte sum past int64, and lists of at most TopN entries
\* (libstats.go:58-73).
THEOREM StatsTypes == StatsSpec => []StatsTypeOK
<1>1. StatsInv => StatsTypeOK
  <2> SUFFICES ASSUME StatsInv PROVE StatsTypeOK
    OBVIOUS
  <2>1. /\ apc \in {"rows", "shows", "done", "failed"} /\ showLibrary \in BOOLEAN
        /\ GroupsOK /\ CountedOK /\ stats \in StatsSet /\ Fits(stats) /\ ShowsInv /\ Lists
    BY DEF StatsInv
  <2>2. /\ stats.items \in [Buckets -> Nat] /\ stats.bytes \in [Buckets -> Nat]
        /\ stats.res \in [Resolutions -> Nat] /\ stats.codec \in [Codecs -> Nat]
        /\ stats.added24h \in Nat /\ stats.added7d \in Nat /\ stats.newest \in Nat
        /\ stats.unsized \in Nat /\ stats.multi \in Nat /\ stats.extra \in Nat
        /\ stats.largest \in Seq(EntrySet) /\ stats.recent \in Seq(EntrySet)
    BY <2>1 DEF StatsSet
  <2>3. /\ \A b \in Buckets : stats.bytes[b] <= MaxBytes
        /\ \A c \in Resolutions : stats.res[c] <= MaxBytes
        /\ \A c \in Codecs : stats.codec[c] <= MaxBytes
        /\ stats.extra <= MaxBytes
    BY <2>1, <2>2 DEF Fits
  <2>4. MaxBytes \in Nat
    BY LibStatsAssumption
  <2>5. /\ stats.bytes \in [Buckets -> 0 .. MaxBytes]
        /\ stats.res \in [Resolutions -> 0 .. MaxBytes]
        /\ stats.codec \in [Codecs -> 0 .. MaxBytes] /\ stats.extra \in 0 .. MaxBytes
    <3>1. stats.bytes \in [Buckets -> 0 .. MaxBytes]
      BY <2>2, <2>3, <2>4
    <3>2. stats.res \in [Resolutions -> 0 .. MaxBytes]
      BY <2>2, <2>3, <2>4
    <3>3. stats.codec \in [Codecs -> 0 .. MaxBytes]
      BY <2>2, <2>3, <2>4
    <3>4. stats.extra \in 0 .. MaxBytes
      BY <2>2, <2>3, <2>4
    <3> QED BY <3>1, <3>2, <3>3, <3>4
  <2>6. Len(stats.largest) <= TopN /\ Len(stats.recent) <= TopN
    <3>1. Len(Viewed(stats.largest, "bytes")) <= TopN /\ Len(Viewed(stats.recent, "added")) <= TopN
      BY <2>1 DEF Lists, IsTop
    <3> QED BY <2>2, <3>1, ViewedSeq
  <2>7. /\ groups \in [Groups -> [bitmap : BOOLEAN, bits : [Words -> SUBSET Bits], low : Seq(Lows)]]
        /\ \A g \in Groups : Len(groups[g].low) <= GroupListMax
    BY <2>1 DEF GroupsOK, GroupSet, GroupRecord
  <2>8. DOMAIN shows \subseteq ShowKeys /\ DOMAIN counted \subseteq Keys
    BY <2>1 DEF ShowsInv, CountedOK
  <2> QED BY <2>1, <2>2, <2>5, <2>6, <2>7, <2>8 DEF StatsTypeOK
<1> QED BY <1>1, StatsAlways, PTL

\* At every step each figure is that of the rows' first readings, however often
\* the paging repeats a row; and the key set finds exactly the keys put in, for
\* groups, lists and words of every size: the binary search on a list that stays
\* sorted, the bits of a bitmap, and the making of the one out of the other
\* (libstats.go:82-86, keyset.go:36-59).
THEOREM FiguresAreTrue == StatsSpec => []FiguresTrue
<1>1. StatsInv => FiguresTrue
  BY FiguresAre DEF StatsInv
<1> QED BY <1>1, StatsAlways, PTL

\* A library's bytes by age of the last play, by resolution and by codec always
\* have one total, and those of an age bucket are those of the items last played
\* between its two times (libstats.go:58-73, 203-216).
THEOREM BreakdownsAlwaysAgree == StatsSpec => []BreakdownsAgree
<1>1. StatsInv => BreakdownsAgree
  BY PlayedIs DEF StatsInv, Figures, TotalsAgree, BreakdownsAgree, BytesFor
<1> QED BY <1>1, StatsAlways, PTL

\* When the walk is done no show is left, and the lists rank everything.
LEMMA AllRanked ==
    ASSUME StatsInv, apc = "done"
    PROVE  SizeSet = RankedBySize /\ AgeSet = RankedByAge
BY DEF StatsInv, ShowsInv, SizeSet, AgeSet

\* A finished walk's lists hold the largest and the newest there are, in order,
\* and each entry's last play is that of the whole show
\* (libstats.go:107-109, 306-320).
THEOREM TopListsAreExact == StatsSpec => []TopListsExact
<1>1. StatsInv => TopListsExact
  <2> SUFFICES ASSUME StatsInv, apc = "done" PROVE TopListsExact
    BY DEF TopListsExact
  <2>1. SizeSet = RankedBySize /\ AgeSet = RankedByAge
    BY AllRanked
  <2>2. /\ IsTop(ByKeyAndSize(stats.largest), RankedBySize, "bytes")
        /\ IsTop(ByKeyAndAge(stats.recent), RankedByAge, "added")
    BY <2>1, ViewedLists DEF StatsInv, Lists
  <2>3. \A e \in ToSet(stats.largest) :
           \A k \in IF showLibrary THEN Episodes(e.key) ELSE {e.key} : e.last >= counted[k].last
    BY DEF StatsInv, Lists, StoodFor, Episodes, EpisodesIn, RowOf
  <2> QED BY <2>2, <2>3 DEF TopListsExact
<1> QED BY <1>1, StatsAlways, PTL

\* The entries of a list by key and date, as a set.
LEMMA AddedSetIs ==
    ASSUME NEW list \in Seq(EntrySet)
    PROVE  ToSet(ByKeyAndAge(list)) = AddedSet(list)
BY LenProperties, ViewedLists DEF ToSet, AddedSet, Viewed

\* The lists of the other libraries, and this library's before them.
LEMMA ListsJoined ==
    ASSUME NEW recent \in Seq(EntrySet)
    PROVE  LET lists == <<recent>> \o Others
           IN  /\ lists \in Seq(Seq(EntrySet)) /\ Len(lists) = Len(Others) + 1 /\ Len(Others) \in Nat
               /\ lists[1] = recent
               /\ \A i \in 1 .. Len(Others) : lists[i + 1] = Others[i]
               /\ \A i \in 1 .. Len(Others) : Others[i] \in Seq(EntrySet)
<1> DEFINE S == Seq(EntrySet)
           one == <<recent>>
<1>1. Others \in Seq(Seq([key : Nat, bytes : Nat, added : Int, last : Int]))
  BY OthersAssumption
<1>2. Len(Others) \in Nat
  BY <1>1, LenProperties
<1>3. \A i \in 1 .. Len(Others) : Others[i] \in S
  <2>1. \A i \in 1 .. Len(Others) : Others[i] \in Seq([key : Nat, bytes : Nat, added : Int, last : Int])
    BY <1>1, ElementOfSeq
  <2>2. [key : Nat, bytes : Nat, added : Int, last : Int] \subseteq EntrySet
    BY DEF EntrySet
  <2> HIDE DEF S
  <2>3. \A l \in Seq([key : Nat, bytes : Nat, added : Int, last : Int]) : l \in Seq(EntrySet)
    BY <2>2, SeqMonotonic
  <2> QED BY <2>1, <2>3 DEF S
<1>4. Others \in Seq(S)
  <2>1. DOMAIN Others = 1 .. Len(Others) /\ Others = [i \in 1 .. Len(Others) |-> Others[i]]
    BY <1>1, LenProperties
  <2> HIDE DEF S
  <2> QED BY <1>2, <1>3, <2>1, SeqDef
<1>5. one \in Seq(S) /\ Len(one) = 1 /\ one[1] = recent
  OBVIOUS
<1> HIDE DEF S, one
<1>6. one \o Others \in Seq(S) /\ Len(one \o Others) = Len(one) + Len(Others)
      /\ \A i \in 1 .. Len(one) + Len(Others) :
            (one \o Others)[i] = IF i <= Len(one) THEN one[i] ELSE Others[i - Len(one)]
  BY <1>4, <1>5, ConcatProperties
<1>7. (one \o Others)[1] = recent /\ \A i \in 1 .. Len(Others) : (one \o Others)[i + 1] = Others[i]
  <2>1. \A i \in 1 .. Len(Others) : i + 1 \in 1 .. 1 + Len(Others) /\ ~(i + 1 <= 1) /\ (i + 1) - 1 = i
    BY <1>2
  <2>2. 1 \in 1 .. 1 + Len(Others) /\ 1 <= 1
    BY <1>2
  <2>3. \A i \in 1 .. 1 + Len(Others) :
           (one \o Others)[i] = IF i <= 1 THEN one[i] ELSE Others[i - 1]
    BY <1>5, <1>6
  <2>4. (one \o Others)[1] = recent
    BY <1>5, <2>2, <2>3
  <2>5. ASSUME NEW i \in 1 .. Len(Others) PROVE (one \o Others)[i + 1] = Others[i]
    <3>1. (one \o Others)[i + 1] = Others[(i + 1) - 1]
      BY <2>1, <2>3
    <3> QED BY <2>1, <3>1
  <2> QED BY <2>4, <2>5
<1> QED BY <1>2, <1>3, <1>5, <1>6, <1>7 DEF S, one

\* No two of the entries that are merged share a key.
LEMMA KeysApart ==
    ASSUME StatsInv, apc = "done"
    PROVE  LET lists == <<stats.recent>> \o Others
           IN  \A i, j \in 1 .. Len(lists) : \A m \in 1 .. Len(lists[i]), n \in 1 .. Len(lists[j]) :
                  lists[i][m].key = lists[j][n].key => i = j /\ m = n
<1> DEFINE lists == <<stats.recent>> \o Others
           N == Len(Others)
           own == stats.recent
<1>1. own \in Seq(EntrySet) /\ CountedOK /\ showLibrary \in BOOLEAN
  BY DEF StatsInv, StatsSet
<1>2. /\ Len(lists) = N + 1 /\ N \in Nat /\ lists[1] = own
      /\ \A i \in 1 .. N : lists[i + 1] = Others[i]
      /\ \A i \in 1 .. N : Others[i] \in Seq(EntrySet)
  BY <1>1, ListsJoined
<1>3. IsTop(Viewed(own, "added"), RankedByAge, "added")
  BY AllRanked DEF StatsInv, Lists
<1>4. /\ DOMAIN Viewed(own, "added") = 1 .. Len(own) /\ Len(own) \in Nat
      /\ \A m \in 1 .. Len(own) : Viewed(own, "added")[m] = View(own[m], "added") /\ own[m] \in EntrySet
  BY <1>1, ViewedSeq, ElementOfSeq
<1>5. \A m \in 1 .. Len(own) : View(own[m], "added") \in RankedByAge /\ View(own[m], "added").key = own[m].key
  BY <1>3, <1>4, ViewKeeps DEF IsTop, ToSet
<1>6. \A m \in 1 .. Len(own) : own[m].key \in Keys /\ View(own[m], "added") = AsEntry(counted, own[m].key)
  BY <1>1, <1>5, RankingsTyped DEF CountedOK
<1>7. \A m, n \in 1 .. Len(own) : own[m].key = own[n].key => m = n
  <2> SUFFICES ASSUME NEW m \in 1 .. Len(own), NEW n \in 1 .. Len(own), own[m].key = own[n].key, m # n
               PROVE  FALSE
    OBVIOUS
  <2>1. View(own[m], "added") = View(own[n], "added")
    BY <1>6
  <2>2. \A i, j \in 1 .. Len(own) : i < j => Before("added", View(own[i], "added"), View(own[j], "added"))
    BY <1>3, <1>4 DEF IsTop
  <2>3. ~Before("added", View(own[m], "added"), View(own[m], "added"))
    <3>1. View(own[m], "added") \in [key : Nat, added : Int]
      BY <1>4, ViewKeeps DEF ViewSet
    <3> QED BY <3>1 DEF Before
  <2>4. m < n \/ n < m
    BY <1>4
  <2> QED BY <2>1, <2>2, <2>3, <2>4
<1>8. \A i \in 1 .. N : DOMAIN Others[i] = 1 .. Len(Others[i])
  BY <1>2, LenProperties
<1>9. DOMAIN Others = 1 .. N
  BY OthersAssumption, LenProperties
<1>10. \A i, j \in 1 .. N : \A m \in 1 .. Len(Others[i]), n \in 1 .. Len(Others[j]) :
          Others[i][m].key = Others[j][n].key => i = j /\ m = n
  <2>1. \A i, j \in DOMAIN Others : \A m \in DOMAIN Others[i], n \in DOMAIN Others[j] :
           Others[i][m].key = Others[j][n].key => i = j /\ m = n
    BY OthersAssumption, Zenon
  <2> QED BY <1>8, <1>9, <2>1
<1>11. \A i \in 1 .. N : \A m \in 1 .. Len(Others[i]) : Others[i][m].key \notin Keys
  <2>1. \A i \in DOMAIN Others : \A m \in DOMAIN Others[i] : \A r \in Rows : Others[i][m].key # r.key
    BY OthersAssumption, Zenon
  <2>2. \A i \in 1 .. N : \A m \in 1 .. Len(Others[i]) : \A r \in Rows : Others[i][m].key # r.key
    BY <1>8, <1>9, <2>1
  <2> QED BY <2>2 DEF Keys
<1>12. \A i \in 1 .. Len(lists) : i = 1 \/ \E j \in 1 .. N : i = j + 1
  <2>1. \A i \in 1 .. N + 1 : i = 1 \/ (i - 1 \in 1 .. N /\ i = (i - 1) + 1)
    BY <1>2
  <2> QED BY <1>2, <2>1
<1> HIDE DEF lists, N, own
<1> SUFFICES ASSUME NEW i \in 1 .. Len(lists), NEW j \in 1 .. Len(lists),
                    NEW m \in 1 .. Len(lists[i]), NEW n \in 1 .. Len(lists[j]),
                    lists[i][m].key = lists[j][n].key
             PROVE  i = j /\ m = n
  BY DEF lists
<1>13. CASE i = 1 /\ j = 1
  BY <1>2, <1>7, <1>13
<1>14. CASE i = 1 /\ j # 1
  <2>1. PICK y \in 1 .. N : j = y + 1
    BY <1>12, <1>14
  <2>2. lists[i] = own /\ lists[j] = Others[y]
    BY <1>2, <1>14, <2>1
  <2>3. own[m].key \in Keys /\ Others[y][n].key \notin Keys
    BY <1>6, <1>11, <2>2
  <2> QED BY <2>2, <2>3
<1>15. CASE i # 1 /\ j = 1
  <2>1. PICK x \in 1 .. N : i = x + 1
    BY <1>12, <1>15
  <2>2. lists[i] = Others[x] /\ lists[j] = own
    BY <1>2, <1>15, <2>1
  <2>3. Others[x][m].key \notin Keys /\ own[n].key \in Keys
    BY <1>6, <1>11, <2>2
  <2> QED BY <2>2, <2>3
<1>16. CASE i # 1 /\ j # 1
  <2>1. PICK x \in 1 .. N : i = x + 1
    BY <1>12, <1>16
  <2>2. PICK y \in 1 .. N : j = y + 1
    BY <1>12, <1>16
  <2>3. lists[i] = Others[x] /\ lists[j] = Others[y]
    BY <1>2, <2>1, <2>2
  <2>4. m \in 1 .. Len(Others[x]) /\ n \in 1 .. Len(Others[y]) /\ Others[x][m].key = Others[y][n].key
    BY <2>3
  <2>5. x = y /\ m = n
    BY <1>10, <2>4
  <2> QED BY <2>1, <2>2, <2>5
<1> QED BY <1>13, <1>14, <1>15, <1>16

\* The newest items of the server are the newest of all its libraries, though
\* each hands over only its own few (libstats.go:322-331).
THEOREM MergedRecentIsExact == StatsSpec => []MergedRecentExact
<1>1. StatsInv => MergedRecentExact
  <2> SUFFICES ASSUME StatsInv, apc = "done"
               PROVE  IsTop(ByKeyAndAge(MergeRecent(<<stats.recent>> \o Others)),
                            RankedByAge \cup UNION {ToSet(ByKeyAndAge(l)) : l \in ToSet(Others)}, "added")
    BY DEF MergedRecentExact
  <2> DEFINE lists == <<stats.recent>> \o Others
             N == Len(Others)
             mine == ByKeyAndAge(stats.recent)
             more == UNION {ToSet(ByKeyAndAge(l)) : l \in ToSet(Others)}
             out == ByKeyAndAge(MergeRecent(lists))
  <2>1. stats.recent \in Seq(EntrySet) /\ CountedOK /\ showLibrary \in BOOLEAN
    BY DEF StatsInv, StatsSet
  <2>2. /\ lists \in Seq(Seq(EntrySet)) /\ Len(lists) = N + 1 /\ N \in Nat /\ lists[1] = stats.recent
        /\ \A i \in 1 .. N : lists[i + 1] = Others[i]
        /\ \A i \in 1 .. N : Others[i] \in Seq(EntrySet)
    BY <2>1, ListsJoined
  <2>3. \A i, j \in 1 .. Len(lists) : \A m \in 1 .. Len(lists[i]), n \in 1 .. Len(lists[j]) :
           lists[i][m].key = lists[j][n].key => i = j /\ m = n
    BY KeysApart
  <2>4. MergeRecent(lists) \in Seq(EntrySet)
    BY <2>2, <2>3, MergeTop
  <2>5. IsTop(out, UNION {AddedSet(lists[i]) : i \in 1 .. Len(lists)}, "added")
    BY <2>2, <2>3, MergeTop, ViewedLists
  <2>6. UNION {AddedSet(lists[i]) : i \in 1 .. Len(lists)} = ToSet(mine) \cup more
    <3>1. ToSet(Others) = {Others[i] : i \in 1 .. N}
      BY OthersAssumption, LenProperties DEF ToSet
    <3>2. ToSet(mine) = AddedSet(lists[1])
      BY <2>1, <2>2, AddedSetIs
    <3>3. \A i \in 1 .. N : ToSet(ByKeyAndAge(Others[i])) = AddedSet(lists[i + 1])
      BY <2>2, AddedSetIs
    <3>4. more = UNION {AddedSet(lists[i + 1]) : i \in 1 .. N}
      BY <3>1, <3>3, SMTT(30)
    <3>5. \A i \in 1 .. Len(lists) : i = 1 \/ (i - 1 \in 1 .. N /\ i = (i - 1) + 1)
      BY <2>2
    <3>6. 1 \in 1 .. Len(lists) /\ \A i \in 1 .. N : i + 1 \in 1 .. Len(lists)
      BY <2>2
    <3> HIDE DEF lists, N, mine, more
    <3> QED BY <3>2, <3>4, <3>5, <3>6
  <2>7. IsTop(mine, RankedByAge, "added")
    BY AllRanked, ViewedLists DEF StatsInv, Lists
  <2>8. mine \in Seq(ViewSet("added")) /\ out \in Seq(ViewSet("added"))
    BY <2>1, <2>4, ViewedSeq, ViewedLists
  <2>9. RankedByAge \in SUBSET ViewSet("added")
    BY <2>1, RankingsTyped
  <2>10. more \in SUBSET ViewSet("added")
    <3>1. \A l \in ToSet(Others) : l \in Seq(EntrySet)
      BY <2>2, OthersAssumption, LenProperties DEF ToSet
    <3>2. \A l \in Seq(EntrySet) : AddedSet(l) \subseteq ViewSet("added")
      BY ViewKeeps, ElementOfSeq DEF AddedSet
    <3> QED BY <3>1, <3>2, AddedSetIs
  <2> HIDE DEF lists, mine, more, out
  <2>11. IsTop(out, RankedByAge \cup more, "added")
    BY <2>5, <2>6, <2>7, <2>8, <2>9, <2>10, TopOfTop
  <2> QED BY <2>11 DEF lists, more, out
<1> QED BY <1>1, StatsAlways, PTL
=============================================================================
