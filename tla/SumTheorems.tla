---------------------------- MODULE SumTheorems ----------------------------
(***************************************************************************)
(* Sums over finite sets.  SumFunctionOnSet of the Functions module is a   *)
(* recursion that picks one element after another.  Here it gets the laws  *)
(* one expects of a sum, for every finite set.  They hold by induction on  *)
(* the size of the set: the sets for which a law fails would include a     *)
(* smallest one (SmallestSet), because the natural numbers are well        *)
(* founded.                                                                *)
(***************************************************************************)
EXTENDS Integers, Functions, FiniteSetTheorems, WellFoundedInduction, TLAPS

\* A set of natural numbers that is not empty has a least one.
LEMMA LeastNatural ==
    ASSUME NEW T \in SUBSET Nat, T # {}
    PROVE  \E n \in T : \A m \in T : n <= m
<1> DEFINE Less == {p \in Nat \X Nat : p[1] < p[2]}
<1>0. OpToRel(<, Nat) = Less
  BY DEF OpToRel
<1>1. IsWellFoundedOn(Less, Nat)
  BY NatLessThanWellFounded, <1>0
<1>2. PICK n \in T : \A m \in T : <<m, n>> \notin Less
  <2> HIDE DEF Less
  <2> QED BY <1>1, WFMin
<1>3. ASSUME NEW m \in T PROVE n <= m
  <2>1. <<m, n>> \notin Less BY <1>2
  <2>2. ~(m < n) BY <2>1
  <2>3. QED BY <2>2
<1>4. QED BY <1>3

\* A family of finite sets that holds whenever it holds of all smaller sets.
LEMMA SmallestSet ==
    ASSUME NEW S, IsFiniteSet(S), NEW Good \in SUBSET (SUBSET S),
           \A T \in SUBSET S :
              (\A U \in SUBSET S : Cardinality(U) < Cardinality(T) => U \in Good) => T \in Good
    PROVE  Good = SUBSET S
<1>1. \A T \in SUBSET S : Cardinality(T) \in Nat
  BY FS_Subset, FS_CardinalityType
<1> DEFINE Bad == (SUBSET S) \ Good
           Sizes == {Cardinality(T) : T \in Bad}
<1>2. SUFFICES ASSUME Bad # {} PROVE FALSE
  OBVIOUS
<1>3. Sizes \in SUBSET Nat /\ Sizes # {}
  BY <1>1, <1>2
<1>4. PICK n \in Sizes : \A m \in Sizes : n <= m
  <2> HIDE DEF Sizes
  <2> QED BY <1>3, LeastNatural
<1>5. PICK T \in Bad : n = Cardinality(T)
  BY <1>4
<1>6. ASSUME NEW U \in SUBSET S, Cardinality(U) < Cardinality(T) PROVE U \in Good
  <2>1. SUFFICES ASSUME U \in Bad PROVE FALSE
    OBVIOUS
  <2>2. Cardinality(U) \in Sizes
    BY <2>1
  <2> HIDE DEF Sizes
  <2> QED BY <1>1, <1>4, <1>5, <1>6, <2>2
<1> QED
  BY <1>5, <1>6

Pick(T) == CHOOSE x \in T : TRUE

\* What the recursion behind SumFunctionOnSet says of g over the subsets of S.
IsFold(g, f, S) ==
    g = [T \in SUBSET S |-> IF T = {} THEN 0 ELSE f[Pick(T)] + g[T \ {Pick(T)}]]

\* A sum is what the recursion behind it computes.
LEMMA SumIsFold ==
    ASSUME NEW f, NEW S
    PROVE  SumFunctionOnSet(f, S) = (CHOOSE g : IsFold(g, f, S))[S]
BY Zenon DEF SumFunctionOnSet, FoldFunctionOnSet, MapThenFoldSet, IsFold, Pick

\* The element the recursion removes is in the set.
LEMMA PickIsMember == \A T : T # {} => Pick(T) \in T
BY DEF Pick

\* A finite set is smaller without one of its elements.
LEMMA SmallerByOne ==
    ASSUME NEW S, IsFiniteSet(S), NEW x \in S
    PROVE  /\ IsFiniteSet(S \ {x}) /\ Cardinality(S) \in Nat
           /\ Cardinality(S \ {x}) < Cardinality(S)
<1>1. Cardinality(S) \in Nat
  BY FS_CardinalityType
<1>2. IsFiniteSet(S \ {x}) /\ Cardinality(S \ {x}) = Cardinality(S) - 1
  BY FS_RemoveElement
<1> QED
  BY <1>1, <1>2

\* The recursion behind a sum has a solution on every finite set.
LEMMA FoldExists ==
    ASSUME NEW f, NEW S, IsFiniteSet(S)
    PROVE  \E g : IsFold(g, f, S)
<1> DEFINE Step(g, T) == IF T = {} THEN 0 ELSE f[Pick(T)] + g[T \ {Pick(T)}]
           Upto(n) == {T \in SUBSET S : Cardinality(T) <= n}
           Partial(g, n) == g = [T \in Upto(n) |-> Step(g, T)]
           Reached == {n \in Nat : \E g : Partial(g, n)}
<1>1. \A T \in SUBSET S : IsFiniteSet(T) /\ Cardinality(T) \in Nat /\ Cardinality(T) <= Cardinality(S)
  BY FS_Subset, FS_CardinalityType
<1>2. 0 \in Reached
  <2> DEFINE g == [T \in Upto(0) |-> 0]
  <2>1. \A T \in Upto(0) : T = {}
    BY <1>1, FS_EmptySet
  <2>2. g = [T \in Upto(0) |-> Step(g, T)]
    BY <2>1
  <2> QED
    BY <2>2
<1>3. ASSUME NEW n \in Nat, n \in Reached PROVE n + 1 \in Reached
  <2>1. PICK g : Partial(g, n)
    BY <1>3
  <2> DEFINE h == [T \in Upto(n + 1) |-> IF T \in Upto(n) THEN g[T] ELSE Step(g, T)]
  <2>2. ASSUME NEW T \in Upto(n + 1), T # {} PROVE T \ {Pick(T)} \in Upto(n)
    BY <1>1, <2>2, PickIsMember, FS_RemoveElement
  <2>3. \A T \in Upto(n) : T \in Upto(n + 1) /\ h[T] = g[T]
    BY <1>1
  <2>4. ASSUME NEW T \in Upto(n + 1) PROVE h[T] = Step(h, T)
    <3>1. Step(h, T) = Step(g, T)
      BY <2>2, <2>3
    <3>2. CASE T \in Upto(n)
      BY <2>1, <2>3, <3>1, <3>2
    <3>3. CASE T \notin Upto(n)
      BY <3>1, <3>3
    <3> QED
      BY <3>2, <3>3
  <2>5. h = [T \in Upto(n + 1) |-> Step(h, T)]
    BY <2>4
  <2> HIDE DEF h
  <2>6. \E k : Partial(k, n + 1)
    BY <2>5
  <2> HIDE DEF Partial
  <2> QED
    BY <2>6
<1>4. Cardinality(S) \in Reached
  <2> DEFINE Missed == Nat \ Reached
  <2>1. SUFFICES ASSUME Missed # {} PROVE FALSE
    BY <1>1
  <2> HIDE DEF Reached
  <2>2. PICK n \in Missed : \A m \in Missed : n <= m
    BY <2>1, LeastNatural
  <2>3. n # 0 /\ n - 1 \in Nat
    BY <1>2, <2>2
  <2>4. n - 1 \in Reached
    BY <2>2, <2>3
  <2> QED
    BY <1>3, <2>2, <2>3, <2>4
<1>5. PICK g : Partial(g, Cardinality(S))
  BY <1>4
<1>6. Upto(Cardinality(S)) = SUBSET S
  BY <1>1
<1>7. IsFold(g, f, S)
  BY <1>5, <1>6 DEF IsFold
<1> QED
  BY <1>7

\* Two solutions of the recursion agree on the sets both reach.
LEMMA FoldIsUnique ==
    ASSUME NEW f, NEW S, IsFiniteSet(S), NEW T \in SUBSET S, NEW g, NEW h,
           IsFold(g, f, S), IsFold(h, f, T)
    PROVE  g[T] = h[T]
<1>1. IsFiniteSet(T)
  BY FS_Subset
<1> DEFINE Good == {U \in SUBSET T : g[U] = h[U]}
<1>2. ASSUME NEW U \in SUBSET T,
             \A V \in SUBSET T : Cardinality(V) < Cardinality(U) => V \in Good
      PROVE  U \in Good
  <2>1. CASE U = {}
    BY <2>1 DEF IsFold
  <2>2. CASE U # {}
    <3> DEFINE V == U \ {Pick(U)}
    <3>1. V \in SUBSET T /\ Cardinality(V) < Cardinality(U)
      <4>1. IsFiniteSet(U)
        BY <1>1, FS_Subset
      <4> QED
        BY <2>2, <4>1, PickIsMember, SmallerByOne
    <3>2. g[V] = h[V]
      BY <1>2, <3>1
    <3>3. g[U] = f[Pick(U)] + g[V] /\ h[U] = f[Pick(U)] + h[V]
      BY <2>2, <3>1 DEF IsFold
    <3> QED
      BY <3>2, <3>3
  <2> QED
    BY <2>1, <2>2
<1>3. Good = SUBSET T
  <2> HIDE DEF Good
  <2>1. Good \in SUBSET (SUBSET T)
    BY DEF Good
  <2> QED
    BY <1>1, <1>2, <2>1, SmallestSet
<1> QED
  BY <1>3

\* The sum of nothing is zero.
LEMMA SumEmpty == ASSUME NEW f PROVE SumFunctionOnSet(f, {}) = 0
<1>1. IsFiniteSet({})
  BY FS_EmptySet
<1>2. PICK g : IsFold(g, f, {})
  BY <1>1, FoldExists
<1>3. IsFold(CHOOSE h : IsFold(h, f, {}), f, {})
  BY <1>2
<1>4. (CHOOSE h : IsFold(h, f, {}))[{}] = 0
  BY <1>3 DEF IsFold
<1> QED
  BY <1>4, SumIsFold

\* A sum is one value and the sum of the rest.
LEMMA SumPicks ==
    ASSUME NEW f, NEW S, IsFiniteSet(S), S # {}
    PROVE  SumFunctionOnSet(f, S) = f[Pick(S)] + SumFunctionOnSet(f, S \ {Pick(S)})
<1> DEFINE T == S \ {Pick(S)}
           Fold(U) == CHOOSE g : IsFold(g, f, U)
<1>1. IsFiniteSet(T) /\ T \in SUBSET S
  BY FS_Subset
<1>2. IsFold(Fold(S), f, S) /\ IsFold(Fold(T), f, T)
  <2>1. (\E g : IsFold(g, f, S)) /\ (\E g : IsFold(g, f, T))
    BY <1>1, FoldExists
  <2> QED
    BY <2>1
<1>3. SumFunctionOnSet(f, S) = Fold(S)[S] /\ SumFunctionOnSet(f, T) = Fold(T)[T]
  BY SumIsFold
<1> HIDE DEF Fold
<1>4. Fold(S)[S] = f[Pick(S)] + Fold(S)[T]
  BY <1>2 DEF IsFold
<1>5. Fold(S)[T] = Fold(T)[T]
  BY <1>1, <1>2, FoldIsUnique
<1> QED
  BY <1>3, <1>4, <1>5

\* A sum of integers is an integer.
LEMMA SumIsInt ==
    ASSUME NEW S, IsFiniteSet(S), NEW f, \A x \in S : f[x] \in Int
    PROVE  SumFunctionOnSet(f, S) \in Int
<1> DEFINE Good == {T \in SUBSET S : SumFunctionOnSet(f, T) \in Int}
<1>1. ASSUME NEW T \in SUBSET S,
             \A U \in SUBSET S : Cardinality(U) < Cardinality(T) => U \in Good
      PROVE  T \in Good
  <2>1. CASE T = {}
    BY <2>1, SumEmpty
  <2>2. CASE T # {}
    <3>1. IsFiniteSet(T)
      BY FS_Subset
    <3>2. Pick(T) \in T
      BY <2>2, PickIsMember
    <3>3. Cardinality(T \ {Pick(T)}) < Cardinality(T)
      BY <3>1, <3>2, SmallerByOne
    <3>4. SumFunctionOnSet(f, T \ {Pick(T)}) \in Int
      BY <1>1, <3>3
    <3>5. SumFunctionOnSet(f, T) = f[Pick(T)] + SumFunctionOnSet(f, T \ {Pick(T)})
      BY <2>2, <3>1, SumPicks
    <3> QED
      BY <3>2, <3>4, <3>5
  <2> QED
    BY <2>1, <2>2
<1> HIDE DEF Good
<1>2. Good = SUBSET S
  <2>1. Good \in SUBSET (SUBSET S)
    BY DEF Good
  <2> QED
    BY <1>1, <2>1, SmallestSet
<1> QED
  BY <1>2 DEF Good

(* The order in which the members are added does not matter. *)
LEMMA SumSplits ==
    ASSUME NEW S, IsFiniteSet(S), NEW f, \A x \in S : f[x] \in Int, NEW x \in S
    PROVE  SumFunctionOnSet(f, S) = f[x] + SumFunctionOnSet(f, S \ {x})
<1> DEFINE Sm(T) == SumFunctionOnSet(f, T)
           Good == {T \in SUBSET S : \A y \in T : Sm(T) = f[y] + Sm(T \ {y})}
<1>0. \A T \in SUBSET S : IsFiniteSet(T) /\ Cardinality(T) \in Nat /\ Sm(T) \in Int
  <2>1. ASSUME NEW T \in SUBSET S
        PROVE  IsFiniteSet(T) /\ Cardinality(T) \in Nat /\ Sm(T) \in Int
    <3>1. IsFiniteSet(T)
      BY FS_Subset
    <3> QED
      BY <3>1, FS_CardinalityType, SumIsInt
  <2> QED
    BY <2>1
<1>1. ASSUME NEW T \in SUBSET S,
             \A U \in SUBSET S : Cardinality(U) < Cardinality(T) => U \in Good
      PROVE  T \in Good
  <2>1. SUFFICES ASSUME NEW y \in T PROVE Sm(T) = f[y] + Sm(T \ {y})
    OBVIOUS
  <2> DEFINE p == Pick(T)
  <2>2. p \in T /\ Sm(T) = f[p] + Sm(T \ {p})
    BY <1>0, SumPicks, PickIsMember
  <2>3. CASE p = y
    BY <2>2, <2>3
  <2>4. CASE p # y
    <3>1. \A z \in T : T \ {z} \in Good
      <4>1. ASSUME NEW z \in T PROVE Cardinality(T \ {z}) < Cardinality(T)
        BY <1>0, SmallerByOne
      <4> QED
        BY <1>1, <4>1
    <3>2. y \in T \ {p} /\ p \in T \ {y} /\ (T \ {p}) \ {y} = (T \ {y}) \ {p}
      BY <2>2, <2>4
    <3>3. Sm(T \ {p}) = f[y] + Sm((T \ {p}) \ {y})
      BY <2>2, <3>1, <3>2
    <3>4. Sm(T \ {y}) = f[p] + Sm((T \ {p}) \ {y})
      BY <3>1, <3>2
    <3>5. Sm((T \ {p}) \ {y}) \in Int /\ f[p] \in Int /\ f[y] \in Int
      BY <1>0, <2>2
    <3> HIDE DEF Sm, p
    <3> QED
      BY <2>2, <3>3, <3>4, <3>5
  <2> QED
    BY <2>3, <2>4
<1> HIDE DEF Good
<1>2. Good = SUBSET S
  <2>1. Good \in SUBSET (SUBSET S)
    BY DEF Good
  <2> QED
    BY <1>1, <2>1, SmallestSet
<1> QED
  BY <1>2 DEF Good

\* A sum of larger values is larger.
LEMMA SumGrows ==
    ASSUME NEW S, IsFiniteSet(S), NEW f, NEW g,
           \A x \in S : f[x] \in Int /\ g[x] \in Int /\ f[x] <= g[x]
    PROVE  SumFunctionOnSet(f, S) <= SumFunctionOnSet(g, S)
<1> DEFINE Below(T) == SumFunctionOnSet(f, T) <= SumFunctionOnSet(g, T)
           Good == {T \in SUBSET S : Below(T)}
<1>1. ASSUME NEW T \in SUBSET S,
             \A U \in SUBSET S : Cardinality(U) < Cardinality(T) => U \in Good
      PROVE  T \in Good
  <2>1. CASE T = {}
    BY <2>1, SumEmpty
  <2>2. CASE T # {}
    <3>1. PICK x \in T : TRUE
      BY <2>2
    <3> DEFINE U == T \ {x}
    <3>2. IsFiniteSet(T) /\ IsFiniteSet(U)
      BY FS_Subset
    <3>3. Below(U)
      BY <1>1, <3>1, <3>2, SmallerByOne
    <3>4. SumFunctionOnSet(f, U) \in Int /\ SumFunctionOnSet(g, U) \in Int
      BY <3>2, SumIsInt
    <3>5. /\ SumFunctionOnSet(f, T) = f[x] + SumFunctionOnSet(f, U)
          /\ SumFunctionOnSet(g, T) = g[x] + SumFunctionOnSet(g, U)
      BY <3>2, SumSplits
    <3>6. f[x] \in Int /\ g[x] \in Int /\ f[x] <= g[x]
      BY <3>1
    <3> QED
      BY <3>3, <3>4, <3>5, <3>6
  <2> QED
    BY <2>1, <2>2
<1> HIDE DEF Good
<1>2. Good = SUBSET S
  <2>1. Good \in SUBSET (SUBSET S)
    BY DEF Good
  <2> QED
    BY <1>1, <2>1, SmallestSet
<1> QED
  BY <1>2 DEF Good

\* The sum of two functions is the sum of their sums.
LEMMA SumAdds ==
    ASSUME NEW S, IsFiniteSet(S), NEW f, NEW g, NEW h,
           \A x \in S : f[x] \in Int /\ g[x] \in Int /\ h[x] = f[x] + g[x]
    PROVE  SumFunctionOnSet(h, S) = SumFunctionOnSet(f, S) + SumFunctionOnSet(g, S)
<1> DEFINE Adds(T) == SumFunctionOnSet(h, T) = SumFunctionOnSet(f, T) + SumFunctionOnSet(g, T)
           Good == {T \in SUBSET S : Adds(T)}
<1>1. ASSUME NEW T \in SUBSET S,
             \A U \in SUBSET S : Cardinality(U) < Cardinality(T) => U \in Good
      PROVE  T \in Good
  <2>1. CASE T = {}
    BY <2>1, SumEmpty
  <2>2. CASE T # {}
    <3>1. PICK x \in T : TRUE
      BY <2>2
    <3> DEFINE U == T \ {x}
    <3>2. IsFiniteSet(T) /\ IsFiniteSet(U)
      BY FS_Subset
    <3>3. Adds(U)
      BY <1>1, <3>1, <3>2, SmallerByOne
    <3>4. SumFunctionOnSet(f, U) \in Int /\ SumFunctionOnSet(g, U) \in Int
      BY <3>2, SumIsInt
    <3>5. /\ SumFunctionOnSet(f, T) = f[x] + SumFunctionOnSet(f, U)
          /\ SumFunctionOnSet(g, T) = g[x] + SumFunctionOnSet(g, U)
          /\ SumFunctionOnSet(h, T) = h[x] + SumFunctionOnSet(h, U)
      BY <3>2, SumSplits
    <3>6. f[x] \in Int /\ g[x] \in Int /\ h[x] = f[x] + g[x]
      BY <3>1
    <3> QED
      BY <3>3, <3>4, <3>5, <3>6
  <2> QED
    BY <2>1, <2>2
<1> HIDE DEF Good
<1>2. Good = SUBSET S
  <2>1. Good \in SUBSET (SUBSET S)
    BY DEF Good
  <2> QED
    BY <1>1, <2>1, SmallestSet
<1> QED
  BY <1>2 DEF Good

\* Functions that agree on a set have the same sum over it.
LEMMA SumSame ==
    ASSUME NEW S, IsFiniteSet(S), NEW f, NEW g,
           \A x \in S : f[x] \in Int /\ g[x] = f[x]
    PROVE  SumFunctionOnSet(g, S) = SumFunctionOnSet(f, S)
<1>1. SumFunctionOnSet(f, S) <= SumFunctionOnSet(g, S)
  BY SumGrows
<1>2. SumFunctionOnSet(g, S) <= SumFunctionOnSet(f, S)
  BY SumGrows
<1>3. SumFunctionOnSet(f, S) \in Int /\ SumFunctionOnSet(g, S) \in Int
  BY SumIsInt
<1> QED
  BY <1>1, <1>2, <1>3

\* Zeros add up to zero.
LEMMA SumOfZeros ==
    ASSUME NEW S, IsFiniteSet(S), NEW f, \A x \in S : f[x] = 0
    PROVE  SumFunctionOnSet(f, S) = 0
<1>1. SumFunctionOnSet(f, S) = SumFunctionOnSet(f, S) + SumFunctionOnSet(f, S)
  BY SumAdds
<1>2. SumFunctionOnSet(f, S) \in Int
  BY SumIsInt
<1> QED
  <2> DEFINE sum == SumFunctionOnSet(f, S)
  <2>1. sum \in Int /\ sum = sum + sum
    BY <1>1, <1>2
  <2> HIDE DEF sum
  <2>2. sum = 0
    BY <2>1
  <2> QED
    BY <2>2 DEF sum

(* What one changed value does to the sum. *)
LEMMA SumChangesAt ==
    ASSUME NEW S, IsFiniteSet(S), NEW x \in S, NEW f, NEW g, \A y \in S : f[y] \in Int,
           g[x] \in Int, \A y \in S \ {x} : g[y] = f[y]
    PROVE  SumFunctionOnSet(g, S) = SumFunctionOnSet(f, S) + (g[x] - f[x])
<1>1. IsFiniteSet(S \ {x})
  BY FS_Subset
<1>2. /\ SumFunctionOnSet(f, S) = f[x] + SumFunctionOnSet(f, S \ {x})
      /\ SumFunctionOnSet(g, S) = g[x] + SumFunctionOnSet(g, S \ {x})
  BY SumSplits
<1>3. SumFunctionOnSet(g, S \ {x}) = SumFunctionOnSet(f, S \ {x})
  BY <1>1, SumSame
<1>4. SumFunctionOnSet(f, S \ {x}) \in Int
  BY <1>1, SumIsInt
<1> QED
  BY <1>2, <1>3, <1>4

\* An element that joins the set adds its value.
LEMMA SumWithOneMore ==
    ASSUME NEW S, IsFiniteSet(S), NEW x, x \notin S, NEW f, \A y \in S \cup {x} : f[y] \in Int
    PROVE  SumFunctionOnSet(f, S \cup {x}) = f[x] + SumFunctionOnSet(f, S)
<1>1. IsFiniteSet(S \cup {x}) /\ (S \cup {x}) \ {x} = S
  BY FS_AddElement
<1> QED
  BY <1>1, SumSplits

\* A sum changes by the sums of what comes and of what goes.
LEMMA SumTransfers ==
    ASSUME NEW S, IsFiniteSet(S), NEW f, NEW a, NEW t, NEW h,
           \A x \in S : /\ f[x] \in Int /\ a[x] \in Int /\ t[x] \in Int
                        /\ h[x] = f[x] + a[x] - t[x]
    PROVE  SumFunctionOnSet(h, S) =
             SumFunctionOnSet(f, S) + SumFunctionOnSet(a, S) - SumFunctionOnSet(t, S)
<1> DEFINE k == [x \in S |-> f[x] + a[x]]
<1>1. SumFunctionOnSet(k, S) = SumFunctionOnSet(f, S) + SumFunctionOnSet(a, S)
  BY SumAdds
<1>2. \A x \in S : h[x] \in Int /\ t[x] \in Int /\ k[x] = h[x] + t[x]
  OBVIOUS
<1>3. SumFunctionOnSet(k, S) = SumFunctionOnSet(h, S) + SumFunctionOnSet(t, S)
  <2> HIDE DEF k
  <2> QED
    BY <1>2, SumAdds
<1>4. /\ SumFunctionOnSet(f, S) \in Int /\ SumFunctionOnSet(a, S) \in Int
      /\ SumFunctionOnSet(t, S) \in Int /\ SumFunctionOnSet(h, S) \in Int
  <2>1. \A x \in S : h[x] \in Int
    OBVIOUS
  <2> QED
    BY <2>1, SumIsInt
<1>5. SumFunctionOnSet(f, S) + SumFunctionOnSet(a, S)
        = SumFunctionOnSet(h, S) + SumFunctionOnSet(t, S)
  BY <1>1, <1>3
<1> DEFINE sf == SumFunctionOnSet(f, S)
           sa == SumFunctionOnSet(a, S)
           st == SumFunctionOnSet(t, S)
           sh == SumFunctionOnSet(h, S)
<1>6. sh = sf + sa - st
  <2>1. sf + sa = sh + st /\ sf \in Int /\ sa \in Int /\ st \in Int /\ sh \in Int
    BY <1>4, <1>5
  <2> HIDE DEF sf, sa, st, sh
  <2> QED
    BY <2>1
<1> QED
  BY <1>6

\* A sum with one value that is not zero is that value.
LEMMA SumOfOne ==
    ASSUME NEW S, IsFiniteSet(S), NEW x \in S, NEW f, f[x] \in Int,
           \A y \in S \ {x} : f[y] = 0
    PROVE  SumFunctionOnSet(f, S) = f[x]
<1>1. IsFiniteSet(S \ {x})
  BY FS_Subset
<1>2. SumFunctionOnSet(f, S \ {x}) = 0
  BY <1>1, SumOfZeros
<1>3. \A y \in S : f[y] \in Int
  OBVIOUS
<1> QED
  BY <1>2, <1>3, SumSplits

\* A sum of natural numbers is a natural number.
LEMMA SumIsNat ==
    ASSUME NEW S, IsFiniteSet(S), NEW f, \A x \in S : f[x] \in Nat
    PROVE  SumFunctionOnSet(f, S) \in Nat
<1> DEFINE zero == [x \in S |-> 0]
<1>1. SumFunctionOnSet(zero, S) = 0
  BY SumOfZeros
<1>2. SumFunctionOnSet(zero, S) <= SumFunctionOnSet(f, S)
  BY SumGrows
<1>3. SumFunctionOnSet(f, S) \in Int
  BY SumIsInt
<1> HIDE DEF zero
<1> QED
  BY <1>1, <1>2, <1>3

\* No natural number of a sum is larger than the sum.
LEMMA SumBoundsEach ==
    ASSUME NEW S, IsFiniteSet(S), NEW f, \A x \in S : f[x] \in Nat, NEW x \in S
    PROVE  f[x] <= SumFunctionOnSet(f, S)
<1>1. SumFunctionOnSet(f, S) = f[x] + SumFunctionOnSet(f, S \ {x})
  BY SumSplits
<1>2. IsFiniteSet(S \ {x})
  BY FS_Subset
<1>3. SumFunctionOnSet(f, S \ {x}) \in Nat
  BY <1>2, SumIsNat
<1> QED
  BY <1>1, <1>3

\* A sum is strictly larger when one of its values is.
LEMMA SumGrowsStrictly ==
    ASSUME NEW S, IsFiniteSet(S), NEW f, NEW g, NEW x \in S,
           \A y \in S : f[y] \in Int /\ g[y] \in Int /\ f[y] <= g[y], f[x] < g[x]
    PROVE  SumFunctionOnSet(f, S) < SumFunctionOnSet(g, S)
<1>1. IsFiniteSet(S \ {x})
  BY FS_Subset
<1>2. /\ SumFunctionOnSet(f, S) = f[x] + SumFunctionOnSet(f, S \ {x})
      /\ SumFunctionOnSet(g, S) = g[x] + SumFunctionOnSet(g, S \ {x})
  BY SumSplits
<1>3. SumFunctionOnSet(f, S \ {x}) <= SumFunctionOnSet(g, S \ {x})
  BY <1>1, SumGrows
<1>4. /\ SumFunctionOnSet(f, S \ {x}) \in Int
      /\ SumFunctionOnSet(g, S \ {x}) \in Int
  BY <1>1, SumIsInt
<1> QED
  BY <1>2, <1>3, <1>4
=============================================================================
